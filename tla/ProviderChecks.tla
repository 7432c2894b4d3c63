----------------------------- MODULE ProviderChecks -----------------------------
(***************************************************************************)
(* What the client of a Platform asks, checks and sends apart from the     *)
(* steps of its calls (PlatformProvider), against what the Platform        *)
(* answers (PlatformDocuments): agent/platform_provider.py.  The names of  *)
(* headers have their letters in lower case.                               *)
(***************************************************************************)
EXTENDS PlatformDocuments, Functions

CONSTANTS
  Limit,              \* what find_identity_by_service_did asks for (100)
  WebDids,            \* the DIDs that begin with did:web:
  DocumentAt(_),      \* the URL of a DID's document
  Error               \* a call that raises

\* The newest of the Service's identities, whatever their status.
FindQuery(service) ==
  [descending |-> TRUE, limit |-> Limit, offset |-> 0, service |-> service, status |-> None]

\* _validate_platform_identity
ValidHosted(identity) ==
  /\ identity.did \in WebDids /\ identity.key = identity.did /\ identity.algorithms # {}
  /\ identity.url = DocumentAt(identity.did)

Fitting(identity, service) == identity.service = service /\ identity.status = "active"

\* The loop stops at what it returns, and raises at what is invalid before it.
FindIn(data, service) ==
  LET stops == {n \in 1..Len(data) : ~ValidHosted(data[n]) \/ Fitting(data[n], service)} IN
  IF stops = {} THEN None
  ELSE IF ValidHosted(data[Min(stops)]) THEN data[Min(stops)] ELSE Error

Provisionable(request, inspection) ==
  request.service = inspection.did /\ "did:web" \in inspection.methods
TakenAnswer(created, service) == ValidHosted(created) /\ Fitting(created, service)

\* _service_identity and _validate_owned_identity
ServiceIdentity(hosted, platform) ==
  [did |-> hosted.did, method |-> "did:web", service |-> hosted.service,
   algorithms |-> hosted.algorithms,
   metadata |-> [id |-> hosted.id, url |-> hosted.url, key |-> hosted.key,
                 platform |-> platform, status |-> hosted.status]]
Owned(identity, platform) ==
  /\ identity.metadata.platform = platform /\ identity.metadata.id # None
  /\ identity.metadata.status = "active"
  /\ identity.method = "did:web" /\ identity.did \in WebDids
  /\ identity.metadata.key = identity.did /\ identity.algorithms # {}
  /\ identity.metadata.url = DocumentAt(identity.did)

\* What a signer takes to sign, and the resolver is given while it is pending.
Signable(identity, claims, algorithms) ==
  /\ claims.iss = identity.did /\ claims.sub = identity.did /\ claims.aud = identity.service
  /\ identity.algorithms \cap algorithms # {}
ValidWait(pending) == ValidSeconds(pending.retry)
-----------------------------------------------------------------------------
(* The headers of a command, as a function from names to values *)

Reserved == {"accept", "content-type", "idempotency-key"}
With(headers, name, value) ==
  [n \in DOMAIN headers \cup {name} |-> IF n = name THEN value ELSE headers[n]]
Supplied(authorization, application) ==
  LET kept == Restrict(application, DOMAIN application \ Reserved) IN
  IF authorization = None \/ "authorization" \in DOMAIN kept THEN kept
  ELSE With(kept, "authorization", authorization)
CommandHeaders(authorization, application, body, key) ==
  LET accepting == With(Supplied(authorization, application), "accept", "aep")
      typed == IF body THEN With(accepting, "content-type", "aep") ELSE accepting
  IN IF key = None THEN typed ELSE With(typed, "idempotency-key", key)
-----------------------------------------------------------------------------
(* What they add up to *)

\* The client finds the newest active identity for the Service if the newest Limit of the
\* principal's have one; beyond them it finds nothing, and makes another.  What it finds it
\* can sign with, for the Service and with its own DID, at its own Platform and no other.
FindsActive(records, principal, service) ==
  LET answer == ListAnswer(records, principal, FindQuery(service), TRUE, Limit)
      found == FindIn(answer.body.data, service)
      identity == ServiceIdentity(found, "platform")
      mine == {r \in records : r.principal = principal /\ r.service = service}
      newest == {r \in mine : Cardinality({s \in mine : Before(r, s)}) < Limit}
  IN answer.code = 200 /\ (\A r \in mine : ValidHosted(r)) =>
       /\ found = None <=> \A r \in newest : r.status # "active"
       /\ found # None =>
            /\ found \in newest /\ Fitting(found, service) /\ TakenAnswer(found, service)
            /\ \A r \in newest : Before(found, r) => r.status # "active"
            /\ Owned(identity, "platform") /\ ~Owned(identity, "another")
            /\ Signable(identity, [iss |-> found.did, sub |-> found.did, aud |-> service],
                        found.algorithms)

\* Whatever headers the application supplies, those that a command lives by are the client's
\* own: a key of another call is never sent, and a command without one has none.
CommandsKeepHeaders(authorization, application, body, key) ==
  LET headers == CommandHeaders(authorization, application, body, key) IN
  /\ headers["accept"] = "aep"
  /\ "idempotency-key" \in DOMAIN headers <=> key # None
  /\ key # None => headers["idempotency-key"] = key
  /\ "content-type" \in DOMAIN headers <=> body
  /\ \A name \in DOMAIN application \ Reserved : headers[name] = application[name]
  /\ authorization # None /\ "authorization" \notin DOMAIN application =>
       headers["authorization"] = authorization
=============================================================================
