---------------------------------- MODULE Urls ----------------------------------
(***************************************************************************)
(* URLs and did:web DIDs as the parts that urlsplit and the DID syntax     *)
(* make of them, and what each component asks of the ones it is given:     *)
(* core/models.py, core/inspect.py, core/did_web.py, core/http.py, and the *)
(* checks of the Service, the ASGI adapter and the Agent.  A path is the   *)
(* list of its segments, so "" is <<>> and "/" is <<"">>; a query that is  *)
(* there and empty is "", one that is not there is None.                   *)
(***************************************************************************)
EXTENDS Integers, Sequences, FiniteSets, SequencesExt, NoValue

CONSTANTS
  Separated    \* the segments that, decoded, hold a separator

LoopbackHosts == {"localhost", "127.0.0.1", "::1"}
Dots == {".", ".."}
Absent == {None, ""}   \* what Python takes for false

IsLoopback(url) == url.scheme = "http" /\ url.host \in LoopbackHosts
Allowed(url, loopback) == url.scheme = "https" \/ (loopback /\ IsLoopback(url))

\* The resource of an assertion, and what other members of the protocol's messages hold.
IsResource(url, loopback) ==
  Allowed(url, loopback) /\ url.host # "" /\ url.fragment = None /\ url.user = None
IsHttps(url) ==
  url.scheme = "https" /\ url.host # "" /\ url.fragment = None /\ url.user \in Absent
IsDocumentUrl(url) == url.host # "" /\ url.user = None /\ Allowed(url, TRUE)

\* The Service's URLs, and those that an Agent is given or reads.
IsAbsolute(url, loopback) ==
  url.host # "" /\ url.user = None /\ url.fragment \in Absent /\ Allowed(url, loopback)
IsHttpsUrl(url, loopback) ==
  url.user \in Absent /\ url.fragment \in Absent /\ url.host # "" /\ Allowed(url, loopback)
IsInspectUrl(url, loopback) == Allowed(url, loopback) /\ url.host # "" /\ url.user \in Absent

EffectivePort(url) ==
  IF url.port # None THEN url.port ELSE IF url.scheme = "https" THEN 443 ELSE 80
OriginOf(url) == <<url.scheme, url.host, EffectivePort(url)>>
SameOrigin(url, other) == OriginOf(url) = OriginOf(other)

DefaultPort(scheme) == IF scheme = "https" THEN 443 ELSE 80
Normalized(url) ==
  [url EXCEPT !.port = IF @ = DefaultPort(url.scheme) THEN None ELSE @,
              !.path = IF @ = <<>> THEN <<"">> ELSE @]

\* An Agent's OpenAPI reference, once it is joined to the URL that Inspect came from.
OpenApiAllowed(inspect, resolved, loopback) ==
  /\ IsHttpsUrl(inspect, loopback) /\ IsHttpsUrl(resolved, loopback)
  /\ inspect.scheme = "https" => resolved.scheme = "https"
-----------------------------------------------------------------------------
(* Commands and resources of a Service *)

IsEndpointPath(path, query, fragment) ==
  /\ path # <<>> /\ (Len(path) > 1 => path[1] # "")
  /\ query = None /\ fragment = None /\ ToSet(path) \cap Dots = {}

CommandPath(base, command) ==
  (IF Last(base) = "" THEN Front(base) ELSE base) \o <<command>>

\* A resource that an Agent authenticates for is on the origin of its Service.
ResourceOf(resource, service, loopback) ==
  IsHttpsUrl(resource, loopback) /\ SameOrigin(resource, service)

\* The origin that the middleware is configured with, for which every address of the
\* loopback interface will do, and the URL it makes of a request: a query that is empty is
\* not there for it.
LoopbackAddresses == LoopbackHosts \cup {"127.0.0.2"}
IsResourceOrigin(url, loopback) ==
  /\ url.host # "" /\ url.user = None /\ url.path \in {<<>>, <<"">>}
  /\ url.query = None /\ url.fragment = None
  /\ \/ url.scheme = "https"
     \/ loopback /\ url.scheme = "http" /\ url.host \in LoopbackAddresses
ResourceUrl(origin, path, query) ==
  [origin EXCEPT !.path = path, !.query = IF query = "" THEN None ELSE query]
-----------------------------------------------------------------------------
(* did:web *)

\* A DID is its method, a host with a port or None, and the rest of its components.
IsDidWeb(did) ==
  /\ did.method = "web" /\ did.host # ""
  /\ ToSet(did.path) \cap ({""} \cup Dots \cup Separated) = {}

SchemeOf(did, loopback) == IF loopback /\ did.host \in LoopbackHosts THEN "http" ELSE "https"
UrlOf(did, path, loopback) ==
  [scheme |-> SchemeOf(did, loopback), host |-> did.host, port |-> did.port, user |-> None,
   path |-> path, query |-> None, fragment |-> None]

DidDocumentUrl(did, loopback) ==
  UrlOf(did, (IF did.path = <<>> THEN <<".well-known">> ELSE did.path) \o <<"did.json">>,
        loopback)
DidOrigin(did, loopback) == OriginOf(UrlOf(did, <<>>, loopback))

\* An Inspect document is of the Service whose origin it came from in the end.
OriginBound(did, url, loopback) ==
  IsInspectUrl(url, loopback) /\ IsDidWeb(did) /\ OriginOf(url) = DidOrigin(did, loopback)

\* The Service's URL for a reference: a DID, a host, or a URL.
ServiceUrl(reference, loopback) ==
  LET url == CASE reference.kind = "did" -> DidDocumentUrl(reference.did, loopback)
               [] reference.kind = "host" -> [reference.url EXCEPT !.scheme = "https"]
               [] reference.kind = "url" -> reference.url
  IN IF (reference.kind = "did" => IsDidWeb(reference.did)) /\ IsHttpsUrl(url, loopback)
     THEN [url EXCEPT !.user = None, !.path = <<"">>, !.query = None, !.fragment = None]
     ELSE None

\* The key that a DID document has for a key identifier, which is a DID and a fragment.
SelectJwk(document, did, key) ==
  LET found == {n \in 1..Len(document.methods) :
                  document.methods[n].id = key /\ document.methods[n].jwk # None}
  IN IF document.id = did /\ key.did = did /\ found # {}
     THEN document.methods[CHOOSE n \in found : \A m \in found : n <= m].jwk ELSE None
-----------------------------------------------------------------------------
(* What they add up to *)

\* Two URLs of resources are the same once normalized exactly if they have the same origin,
\* path and query, and normalizing again changes nothing: an assertion for one resource is
\* not one for another, and is one for every way to write its own.
NormalForm(url, other, loopback) ==
  IsResource(url, loopback) /\ IsResource(other, loopback) =>
    /\ Normalized(Normalized(url)) = Normalized(url)
    /\ IsResource(Normalized(url), loopback) /\ SameOrigin(url, Normalized(url))
    /\ Normalized(url) = Normalized(other) <=>
         /\ SameOrigin(url, other) /\ url.query = other.query
         /\ \/ url.path = other.path
            \/ {url.path, other.path} = {<<>>, <<"">>}

\* A Service that is looked up by its DID is asked at the origin that its Inspect document
\* is bound to, and where it is asked for resources.
LookupBound(did, resource, loopback) ==
  IsDidWeb(did) =>
    LET url == ServiceUrl([kind |-> "did", did |-> did], loopback) IN
    /\ OriginBound(did, url, loopback)
    /\ ResourceOf(resource, url, loopback) => OriginBound(did, resource, loopback)

\* Two DIDs have one document only if it is the one at the well-known place, and then no key
\* of it is for both.
DocumentsApart(did, other, document, key) ==
  /\ IsDidWeb(did) /\ IsDidWeb(other) /\ did # other
       /\ DidDocumentUrl(did, FALSE) = DidDocumentUrl(other, FALSE) =>
     {did.path, other.path} = {<<>>, <<".well-known">>}
  /\ did # other =>
       SelectJwk(document, did, key) = None \/ SelectJwk(document, other, key) = None

\* The URL that the middleware makes of a request is a resource on its own origin that the
\* Service accepts, whatever the request's path - unless its origin is at an address of the
\* loopback interface that the Service does not know - and commands stay below the base that
\* is advertised for them.
RequestsStay(origin, path, query, loopback) ==
  /\ IsResourceOrigin(origin, loopback)
       /\ (origin.scheme = "https" \/ origin.host \in LoopbackHosts) =>
       LET url == ResourceUrl(origin, path, query) IN
       /\ IsAbsolute(url, loopback) /\ IsResource(Normalized(url), loopback)
       /\ SameOrigin(url, origin)
  /\ IsEndpointPath(path, None, None) =>
       LET command == CommandPath(path, "grant") IN
       /\ IsEndpointPath(command, None, None) /\ Last(command) = "grant"
       /\ \A n \in 1..Len(path) : path[n] = "" \/ path[n] = command[n]

\* What an Agent makes a call to, without the parts that nobody sends, is a resource that the
\* Service and the models take it for, and the models' checks of one agree: a URL that one
\* side lets through is not refused by the next.  A document that is fetched from a URL of
\* the Service's is never fetched over less than its Inspect document was.
ChecksAgree(url, inspect, loopback) ==
  /\ IsHttpsUrl(url, loopback) /\ url.user = None /\ url.fragment = None =>
       IsAbsolute(url, loopback) /\ IsResource(url, loopback) /\ IsInspectUrl(url, loopback)
  /\ IsResource(url, FALSE) => IsHttps(url) /\ IsDocumentUrl(url)
  /\ IsAbsolute(url, loopback) => IsDocumentUrl(url)
  /\ OpenApiAllowed(inspect, url, loopback) =>
       IsHttpsUrl(url, loopback /\ inspect.scheme = "http")
=============================================================================
