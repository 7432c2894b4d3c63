------------------------------ MODULE ProtocolModels ------------------------------
(***************************************************************************)
(* The protocol's messages (core/models.py): which combinations of members *)
(* a model accepts.  Both sides of the protocol validate with these        *)
(* models what they build and what they read.  The syntax of a text is one *)
(* bit of it, its membership in Malformed; that an unknown member is kept  *)
(* (or, in a closed model, refused) is left out.                           *)
(***************************************************************************)
EXTENDS Integers, Sequences, FiniteSets, SequencesExt, NoValue

CONSTANTS
  Malformed  \* the texts that the pattern or the length of their field refuses

Formed(texts) == texts \cap Malformed = {}
Distinct(list) == IsInjective(list)
Listed(list) == IF list = None THEN {} ELSE ToSet(list)
Given(list) == IF list = None THEN <<>> ELSE list
-----------------------------------------------------------------------------
(* The Inspect document *)

Authenticated == {"enroll", "grant", "revoke", "status"}
DocumentsExtension == "service-documents"

ValidAuthentication(methods) ==
  Len(methods) \in 1..16 /\ Formed(ToSet(methods)) /\ Distinct(methods)

ValidBindings(supported) == Formed(ToSet(supported)) /\ "http" \in ToSet(supported)

ValidClaimNames(claims) ==
  Formed(Listed(claims.required) \cup Listed(claims.preferred) \cup Listed(claims.optional))

ValidCommands(commands) ==
  LET supported == ToSet(commands.supported)  grantTypes == Listed(commands.grantTypes) IN
  /\ Formed(supported \cup grantTypes)
  /\ "inspect" \in supported /\ "authenticate" \notin supported
  /\ {"grant", "revoke"} \cap supported # {} => grantTypes # {}
  /\ commands.configured \subseteq grantTypes

ValidAlgorithms(algorithms) == {"EdDSA", "ES256"} \subseteq ToSet(algorithms)

\* The base of the commands' paths, and the reference of the OpenAPI document.
ValidHttp(http) == Formed({http.base, http.openapi})

ValidDocumentIds(ids) == Len(ids) <= 7 /\ Distinct(ids) /\ Formed(ToSet(ids))

\* A representation is its media type; its URL is the application's.
ValidServiceDocument(document) ==
  /\ Formed({document.id, document.type} \cup ToSet(document.media))
  /\ document.enrollment \in {"required", "not-required"}
  /\ Len(document.media) <= 8 /\ Distinct(document.media)
  /\ "text/html" \in ToSet(document.media)

ValidServiceDocuments(documents, extensions) ==
  /\ Len(documents) \in 1..7
  /\ \A n \in 1..Len(documents) : ValidServiceDocument(documents[n])
  /\ ValidDocumentIds([n \in 1..Len(documents) |-> documents[n].id])
  /\ DocumentsExtension \in Listed(extensions)

ValidInspect(document) ==
  /\ document.major = 1
  /\ document.authentication # None => ValidAuthentication(document.authentication)
  /\ ValidBindings(document.bindings)
  /\ document.claims # None => ValidClaimNames(document.claims)
  /\ ValidCommands(document.commands)
  /\ ValidAlgorithms(document.algorithms)
  /\ Formed(Listed(document.extensions) \cup ToSet(document.methods) \cup {document.did})
  /\ ValidHttp(document.http)
  /\ document.documents # None =>
       ValidServiceDocuments(document.documents, document.extensions)
  /\ ToSet(document.commands.supported) \cap Authenticated # {} => document.methods # <<>>
-----------------------------------------------------------------------------
(* Commands, and what answers them *)

ValidClaimValues(claims) == Formed({claims[name] : name \in DOMAIN claims})

ValidEnrollRequest(request) ==
  /\ Formed({request.agent, request.key})
  /\ request.claims # None => ValidClaimValues(request.claims)
  /\ request.documents # None => ValidDocumentIds(request.documents)

ValidGrantRequest(request) == Formed({request.type})

\* One Grant Type, one credential of it, or all of them.
ValidRevokeRequest(request) ==
  /\ Formed({request.type, request.id})
  /\ request.all <=> request.type = None
  /\ request.id # None => request.type # None

ValidPending(list) == list # None => list # <<>> /\ Distinct(list) /\ Formed(ToSet(list))

ValidLifecycle(response) ==
  /\ response.status \in {"active", "pending", "rejected", "suspended", "terminated",
                          "unavailable"}
  /\ ValidPending(response.verification) /\ ValidPending(response.requirements)

ValidEnrollResponse(response) ==
  /\ ValidLifecycle(response)
  /\ response.documents # None => ValidDocumentIds(response.documents)

\* A problem that has to do with documents says so in three places at once, and one that
\* hides whether the Agent is known says nothing else.
ValidProblem(problem) ==
  LET pending == "service_documents" \in Listed(problem.requirements) IN
  /\ ValidPending(problem.verification) /\ ValidPending(problem.requirements)
  /\ problem.documents # None => ValidDocumentIds(problem.documents)
  /\ problem.documents # None \/ pending =>
       /\ Given(problem.documents) # <<>> /\ pending
       /\ problem.code = "requirements_unmet" /\ problem.status = 422
  /\ problem.code = "not_recognized" =>
       ~problem.owner /\ problem.verification = None /\ problem.requirements = None
-----------------------------------------------------------------------------
(* The Platform's messages *)

\* A path with its placeholders: how many are for the identity, and how many others.
ValidPath(path) == Formed({path.text})
Placeholders(path) == path.identity + path.others

ValidEndpoints(endpoints) ==
  /\ \A name \in DOMAIN endpoints : endpoints[name] # None => ValidPath(endpoints[name])
  /\ endpoints.lifecycle.identity = 1 /\ endpoints.sign.identity = 1
  /\ Placeholders(endpoints.provision) = 0 /\ Placeholders(endpoints.list) = 0
  /\ endpoints.hosted # None => Placeholders(endpoints.hosted) = 0

\* The template of DID URLs is known by how many placeholders it has.
ValidHosting(identity) ==
  /\ identity.methods # <<>> /\ Distinct(identity.methods) /\ Formed(ToSet(identity.methods))
  /\ identity.template = 1

ValidSeconds(seconds) == seconds \in 1..300

ValidDiscovery(document) ==
  /\ document.major = 1
  /\ ValidEndpoints(document.endpoints)
  /\ ValidPath(document.base) /\ Placeholders(document.base) = 0
  /\ ValidHosting(document.identity)
  /\ Formed({document.name, document.did})
  /\ document.algorithms # <<>> /\ ToSet(document.algorithms) \subseteq {"EdDSA", "ES256"}
  /\ ValidSeconds(document.lifetime)
  /\ document.hostsVerification <=> document.endpoints.hosted # None

ManagedStatuses == {"active", "revoked", "suspended", "terminated"}

ValidIdentity(identity) ==
  /\ Formed({identity.did, identity.id, identity.key, identity.service, identity.url})
  /\ identity.algorithms # {}
  /\ identity.status \in ManagedStatuses

ValidList(response) ==
  /\ \A n \in 1..Len(response.data) : ValidIdentity(response.data[n])
  /\ response.count = Len(response.data) /\ response.count <= response.total

\* An assertion names a resource if it is there to authenticate a request for it.
ValidSignRequest(request) ==
  /\ Formed({request.jti, request.service, request.resource})
  /\ request.op = "authenticate" <=> request.resource # None
  /\ request.lifetime # None => ValidSeconds(request.lifetime)

ValidSignResponse(response) ==
  \/ /\ response.status = "completed"
     /\ Formed({response.did, response.service, response.jti})
  \/ response.status = "pending" /\ ValidSeconds(response.retry)

ValidVerification(response) ==
  LET details == {response.did, response.id, response.op, response.status} IN
  IF response.verified THEN None \notin details /\ Formed({response.did, response.service})
  ELSE details = {None}
=============================================================================
