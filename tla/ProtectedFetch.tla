------------------------------- MODULE ProtectedFetch -------------------------------
(***************************************************************************)
(* fetch_protected_resource (agent/protected_resource.py): a request is    *)
(* sent to a URL with what authenticates it there, through redirects and   *)
(* challenges.  The fetch is a loop: for every target it inspects the      *)
(* target's Service and reads its OpenAPI document; it sends the request   *)
(* anonymously first, to be challenged, unless the document tells the      *)
(* methods; then it asks the session (AgentSession) for headers, by way of *)
(* a Grant if need be.  An origin may answer anything.  The Service of an  *)
(* origin is the origin's own (Inspect binds its DID to the origin).       *)
(***************************************************************************)
EXTENDS OpenApi, AuthenticationMethods

CONSTANTS
  Origins,
  Home,         \* the origin of the request's URL
  Advertised,   \* Advertised[o]: authentication.methods of o's Inspect document
  Documents,    \* the OpenAPI documents considered
  Path, Slash,  \* of the request's URL, and of the Inspect document
  MaxRedirects  \* max_redirects

AllMethods == Types \cup {Jwt}

\* An OpenAPI document: the security of its root, that of the operation by template, and
\* the method that each scheme stands for.
Requirements == Seq(SUBSET Schemes) \cup {None}
IsDocument(document) ==
  /\ document.root \in Requirements
  /\ DOMAIN document.security \subseteq Templates
  /\ \A template \in DOMAIN document.security : document.security[template] \in Requirements
  /\ document.method \in [Schemes -> AllMethods]

ASSUME FetchAssumption ==
  /\ Home \in Origins /\ None \notin Origins \cup AllMethods \cup Documents
  /\ Jwt \notin Types
  /\ Advertised \in [Origins -> Seq(AllMethods)]
  /\ \A document \in Documents : IsDocument(document)
  /\ Path \in Seq(Values) /\ MaxRedirects \in Nat

VARIABLES
  stage,
  wanted, named,   \* options: grant_type, and whether there is a credential_id
  target,          \* the origin of the target
  redirects, requireChallenge, useOpenapi,
  methods, policyUsed,
  held,            \* the Agent's stored credentials: held[o], the types for o's Service
  last,            \* the request sent last
  policy,          \* history: the document that policyUsed is about
  left, asked      \* history: a redirect crossed origins; the target challenged

fetchVars == <<stage, wanted, named, target, redirects, requireChallenge, useOpenapi, methods,
          policyUsed, held, last, policy, left, asked>>

Sent == [to : Origins, caller : BOOLEAN, additional : BOOLEAN,
         service : Origins \cup {None}, method : AllMethods \cup {None}]
Response == [kind : {"answer"}]
              \cup [kind : {"challenge"}, service : Origins, inspect : Origins]
              \cup [kind : {"redirect"}, to : Origins]

FetchTypeOK ==
  /\ stage \in {"inspect", "anonymous", "anonymousSent", "headers", "grant", "again", "sent",
             "returned", "raised"}
  /\ wanted \in Types \cup {None} /\ named \in BOOLEAN
  /\ target \in Origins /\ redirects \in 0..(MaxRedirects + 1)
  /\ requireChallenge \in BOOLEAN /\ useOpenapi \in BOOLEAN
  /\ methods \in Seq(AllMethods) \cup {None} /\ policyUsed \in BOOLEAN
  /\ held \in [Origins -> SUBSET Types]
  /\ last \in Sent \cup {None}
  /\ policy \in Documents \cup {None}
  /\ left \in BOOLEAN /\ asked \in BOOLEAN

FetchInit ==
  /\ stage = "inspect"
  /\ wanted \in Types \cup {None} /\ named \in BOOLEAN
  /\ target = Home /\ redirects = 0
  /\ requireChallenge = FALSE /\ useOpenapi = TRUE
  /\ methods = None /\ policyUsed = FALSE
  /\ held \in [Origins -> SUBSET Types]
  /\ last = None /\ policy = None
  /\ left = FALSE /\ asked = FALSE
-----------------------------------------------------------------------------
\* The target is inspected.  Without its OpenAPI document, which is None when inspect() or
\* the request for it fails, or when it says nothing of the operation, methods is None.
Discover(document) ==
  /\ stage = "inspect"
  /\ document # None => useOpenapi
  /\ methods' = IF document = None THEN None
                ELSE PolicyMethods(document, Path, Slash, ToSet(Advertised[target]))
  /\ policyUsed' = (methods' \notin {None, <<>>})
  /\ policy' = document
  /\ stage' = IF ~policyUsed' \/ requireChallenge THEN "anonymous" ELSE "headers"
  /\ UNCHANGED <<wanted, named, target, redirects, requireChallenge, useOpenapi, held, last,
                 left, asked>>

\* The caller's headers, without the secret ones, go to the origin they were meant for.
SendAnonymous ==
  /\ stage = "anonymous"
  /\ last' = [to |-> target, caller |-> target = Home, additional |-> FALSE,
              service |-> None, method |-> None]
  /\ stage' = "anonymousSent"
  /\ UNCHANGED <<wanted, named, target, redirects, requireChallenge, useOpenapi, methods,
                 policyUsed, held, policy, left, asked>>

\* Mutant: a redirect that changes the origin does not call for a challenge.
FollowTrusting(response) ==
  /\ target' = response.to
  /\ left' = (left \/ response.to # target)
  /\ useOpenapi' = TRUE /\ asked' = FALSE
  /\ redirects' = redirects + 1
  /\ stage' = IF redirects' <= MaxRedirects THEN "inspect" ELSE "raised"
  /\ UNCHANGED requireChallenge

\* Mutant: the redirects are counted and not limited.
FollowOn(response) ==
  /\ target' = response.to
  /\ requireChallenge' = (requireChallenge \/ response.to # target)
  /\ left' = (left \/ response.to # target)
  /\ useOpenapi' = TRUE /\ asked' = FALSE
  /\ redirects' = redirects + 1
  /\ stage' = "inspect"

\* _redirect, and the loop's condition.
Follow(response) ==
  /\ target' = response.to
  /\ requireChallenge' = (requireChallenge \/ response.to # target)
  /\ left' = (left \/ response.to # target)
  /\ useOpenapi' = TRUE /\ asked' = FALSE
  /\ redirects' = redirects + 1
  /\ stage' = IF redirects' <= MaxRedirects THEN "inspect" ELSE "raised"

Stay(where) ==
  /\ stage' = where
  /\ UNCHANGED <<target, requireChallenge, left, redirects>>

\* A challenge must name the target's own Service, as its Inspect document does.  The
\* methods are those of the OpenAPI document, if it tells any, and else the Service's.
ReceiveAnonymous(response) ==
  /\ stage = "anonymousSent"
  /\ \/ /\ response.kind = "answer"
        /\ Stay("returned") /\ UNCHANGED <<methods, useOpenapi, asked>>
     \/ /\ response.kind = "challenge"
        /\ response.inspect = target /\ response.service = target
        /\ methods' = IF policyUsed THEN methods ELSE Advertised[target]
        /\ asked' = TRUE
        /\ Stay(IF methods' = <<>> THEN "returned" ELSE "headers")
        /\ UNCHANGED useOpenapi
     \/ response.kind = "redirect" /\ Follow(response) /\ UNCHANGED methods
  /\ UNCHANGED <<wanted, named, policyUsed, held, last, policy>>
-----------------------------------------------------------------------------
\* authentication_headers: the methods it may use, in the Service's order ...
Eligible == {n \in 1..Len(Advertised[target]) : Advertised[target][n] \in ToSet(methods)}
Method(n) == Advertised[target][n]

\* ... and, of those a stored credential is looked for, the first that has one.
Candidates ==
  {n \in Eligible :
     /\ wanted \in {None, Method(n)}
     /\ wanted = None /\ ~named => \A k \in Eligible : k <= n => Method(k) # Jwt
     /\ Method(n) \in held[target]}
Finds(m) ==
  \E n \in Candidates : m = Method(n) /\ (named \/ \A k \in Candidates : n <= k)

Unavailable ==
  /\ Candidates = {}
  /\ wanted # None \/ named \/ \A n \in Eligible : Method(n) # Jwt

\* The request is sent with the headers of m, and with the caller's to their own origin.
Present(m) ==
  /\ last' = [to |-> target, caller |-> target = Home, additional |-> target = Home,
              service |-> target, method |-> m]
  /\ stage' = "sent"

Authenticate(m) ==
  /\ stage \in {"headers", "again"}
  /\ wanted # None => wanted \in ToSet(methods)
  /\ Finds(m) \/ (Candidates = {} /\ ~Unavailable /\ m = Jwt)
  /\ Present(m)
  /\ UNCHANGED <<wanted, named, target, redirects, requireChallenge, useOpenapi, methods,
                 policyUsed, held, policy, left, asked>>

\* Without a credential a Grant is asked for: of grant_type, or of the first type allowed.
GrantType ==
  LET types == {n \in DOMAIN methods : methods[n] # Jwt}
  IN IF wanted # None THEN wanted
     ELSE IF types = {} THEN None ELSE methods[Nth(types, 1)]

NoCredential ==
  /\ stage \in {"headers", "again"}
  /\ wanted # None => wanted \in ToSet(methods)
  /\ Unavailable
  /\ stage' = IF stage = "headers" /\ ~named /\ GrantType # None THEN "grant" ELSE "raised"
  /\ UNCHANGED <<wanted, named, target, redirects, requireChallenge, useOpenapi, methods,
                 policyUsed, held, last, policy, left, asked>>

\* The session stores the credential, if it knows the type; the headers are asked for again.
Grant(types) ==
  /\ stage = "grant"
  /\ types \subseteq {GrantType}
  /\ held' = [held EXCEPT ![target] = @ \cup types]
  /\ stage' = "again"
  /\ UNCHANGED <<wanted, named, target, redirects, requireChallenge, useOpenapi, methods,
                 policyUsed, last, policy, left, asked>>

\* Mutant: the OpenAPI document is trusted again after the challenge.
ReceiveTrusting(response) ==
  /\ stage = "sent"
  /\ \/ /\ response.kind = "challenge" /\ policyUsed
        /\ Stay("inspect") /\ UNCHANGED <<useOpenapi, asked>>
     \/ /\ response.kind = "answer" \/ (response.kind = "challenge" /\ ~policyUsed)
        /\ Stay("returned") /\ UNCHANGED <<useOpenapi, asked>>
     \/ response.kind = "redirect" /\ Follow(response)
  /\ UNCHANGED <<wanted, named, methods, policyUsed, held, last, policy>>

\* A challenge shows that the OpenAPI document was wrong: the target is tried without it.
Receive(response) ==
  /\ stage = "sent"
  /\ \/ /\ response.kind = "challenge" /\ policyUsed
        /\ useOpenapi' = FALSE
        /\ Stay("inspect") /\ UNCHANGED asked
     \/ /\ response.kind = "answer" \/ (response.kind = "challenge" /\ ~policyUsed)
        /\ Stay("returned") /\ UNCHANGED <<useOpenapi, asked>>
     \/ response.kind = "redirect" /\ Follow(response)
  /\ UNCHANGED <<wanted, named, methods, policyUsed, held, last, policy>>

\* The timeout of the fetch, an exception of the session or the transport, a response that
\* a check refuses (a challenge of another Service, a Location that is no HTTPS URL), or
\* additional headers in conflict with the session's.
Abort ==
  /\ stage \notin {"returned", "raised"}
  /\ stage' = "raised"
  /\ UNCHANGED <<wanted, named, target, redirects, requireChallenge, useOpenapi, methods,
                 policyUsed, held, last, policy, left, asked>>

\* Other calls of the Agent store and delete credentials at any time.
Store(o, types) ==
  /\ types # held[o]
  /\ held' = [held EXCEPT ![o] = types]
  /\ UNCHANGED <<stage, wanted, named, target, redirects, requireChallenge, useOpenapi, methods,
                 policyUsed, last, policy, left, asked>>
-----------------------------------------------------------------------------
Fetch ==
  \/ \E document \in Documents \cup {None} : Discover(document)
  \/ SendAnonymous \/ NoCredential
  \/ \E response \in Response : ReceiveAnonymous(response) \/ Receive(response)
  \/ \E m \in AllMethods : Authenticate(m)
  \/ \E types \in SUBSET Types : Grant(types)

FetchNext == Fetch \/ Abort \/ \E o \in Origins, types \in SUBSET Types : Store(o, types)

\* Every await of the fetch is over at some time.
FetchSpec == FetchInit /\ [][FetchNext]_fetchVars /\ WF_fetchVars(Fetch \/ Abort)
-----------------------------------------------------------------------------
(* Properties *)

\* What the caller gave for the request's origin reaches no other, a credential reaches
\* the Service it is for, and once a redirect has left an origin nothing is authenticated
\* but to a target that has challenged since the last redirect.
SecretsStayHome ==
  last # None =>
    /\ last.caller \/ last.additional => last.to = Home
    /\ last.service \in {None, last.to}
    /\ stage = "sent" /\ left => asked

\* The method is a whole requirement of the operation, as the most specific of the templates
\* that match has it.
Permits(document, method) ==
  \E template \in DOMAIN document.security :
    /\ Matches(template, Path, Slash)
    /\ \A other \in DOMAIN document.security \ {template} :
         Matches(other, Path, Slash) => Higher(Score(template, Slash), Score(other, Slash))
    /\ \E scheme \in Schemes :
         /\ {scheme} \in ToSet(Effective(document.root, document.security[template]))
         /\ document.method[scheme] = method

\* A request that was authenticated for its OpenAPI document alone bears a method that the
\* document permits: no more specific template says otherwise, and the method satisfies the
\* operation without another.
PolicyRespected == stage = "sent" /\ policyUsed => Permits(policy, last.method)

\* The fetch ends, though origins redirect and challenge as they please, and also when its
\* own timeout never comes.
FetchEnds == <>(stage \in {"returned", "raised"})
=============================================================================
