---------------------------- MODULE ClientAssertions ----------------------------
(***************************************************************************)
(* Client assertions: how one is made and verified (core/assertions.py),   *)
(* and what the Agent, the Platform and its client, and the Service each   *)
(* ask of the ones they are handed before they pass them on or act.  A     *)
(* signature is the DID whose key made it; a key identifier is a DID and a *)
(* fragment.  Times are in seconds.                                        *)
(***************************************************************************)
EXTENDS Urls

CONSTANTS Longest   \* what no assertion lives longer than: 300

\* ClientAssertionClaims.validate_assertion
ValidClaims(claims, loopback) ==
  /\ claims.iss = claims.sub
  /\ claims.exp - claims.iat \in 1..Longest
  /\ claims.op = "authenticate" <=> claims.resource # None
  /\ claims.resource # None => IsResource(claims.resource, loopback)

KeyBound(kid, claims) == kid.did = claims.iss /\ claims.iss = claims.sub

\* What signing makes of claims, or None.  With no key identifier, it is the issuer.
Signed(claims, signer, algorithm, key, loopback) ==
  LET kid == IF key = None THEN [did |-> claims.iss, fragment |-> None] ELSE key IN
  IF ValidClaims(claims, loopback) /\ KeyBound(kid, claims)
  THEN [typ |-> "JWT", alg |-> algorithm, kid |-> kid, claims |-> claims, notBefore |-> None,
        signer |-> signer]
  ELSE None

SameResource(resource, other) ==
  resource # None /\ other # None /\ Normalized(resource) = Normalized(other)

Verified(assertion, keyOf, options) ==
  LET claims == assertion.claims  now == options.now  tolerance == options.tolerance IN
  /\ assertion.typ = "JWT" /\ assertion.alg \in options.algorithms
  /\ assertion.signer = keyOf
  /\ ValidClaims(claims, options.loopback) /\ KeyBound(assertion.kid, claims)
  /\ assertion.notBefore # None => assertion.notBefore <= now + tolerance
  /\ claims.iat <= now + tolerance /\ claims.exp > now - tolerance
  /\ options.audience \in {None, claims.aud}
  /\ options.issuer \in {None, claims.iss} /\ options.subject \in {None, claims.sub}
  /\ options.op \in {None, claims.op}
  /\ options.resource # None =>
       /\ SameResource(claims.resource, options.resource)
       /\ IsResource(options.resource, options.loopback)
-----------------------------------------------------------------------------
(* Who asks for one, and who is handed one *)

\* _sign_assertion: the claims that an Agent asks its signer for.
Wanted(audience, agent, jti, op, resource, now, lifetime) ==
  [aud |-> audience, exp |-> now + lifetime, iat |-> now, iss |-> agent, jti |-> jti, op |-> op,
   resource |-> IF resource = None THEN None ELSE Normalized(resource), sub |-> agent]

\* _validate_signed_assertion: what was asked for, but for where the window is.
AgentTakes(assertion, wanted, algorithms, loopback, now) ==
  LET claims == assertion.claims IN
  /\ ValidClaims(claims, loopback)
  /\ assertion.typ = "JWT" /\ assertion.alg \in algorithms /\ assertion.kid.did = wanted.iss
  /\ [claims EXCEPT !.iat = wanted.iat, !.exp = wanted.exp] = wanted
  /\ claims.exp - claims.iat = wanted.exp - wanted.iat
  /\ claims.iat <= now /\ claims.exp > now

\* The part of _validate_sign_result that looks at a completed answer.
PlatformGives(answer, identity, request, lifetime, now) ==
  LET assertion == answer.assertion  claims == assertion.claims IN
  /\ answer.did = identity.did /\ answer.service = request.service
  /\ answer.jti = request.jti
  /\ answer.expires - answer.issued = lifetime
  /\ Verified(assertion, identity.did,
              [algorithms |-> identity.algorithms, audience |-> request.service,
               issuer |-> identity.did, subject |-> identity.did, op |-> request.op,
               resource |-> request.resource, now |-> now, tolerance |-> 0,
               loopback |-> FALSE])
  /\ assertion.kid = identity.key
  /\ claims.iat = answer.issued /\ claims.exp = answer.expires /\ claims.jti = request.jti

\* _valid_completed_sign
ProviderTakes(answer, identity, wanted, algorithms, loopback, now) ==
  LET assertion == answer.assertion  claims == assertion.claims IN
  /\ AgentTakes(assertion, wanted, algorithms \cap identity.algorithms, loopback, now)
  /\ answer.did = identity.did /\ answer.service = identity.service
  /\ answer.jti = wanted.jti
  /\ answer.issued = claims.iat /\ answer.expires = claims.exp
  /\ answer.expires - answer.issued = wanted.exp - wanted.iat

\* _valid_assertion
ServiceTakes(assertion, service, op, resource, now) ==
  LET claims == assertion.claims IN
  /\ ValidClaims(claims, service.loopback)
  /\ assertion.typ = "JWT" /\ assertion.kid.did = claims.sub
  /\ assertion.alg \in service.algorithms
  /\ claims.aud = service.did /\ claims.iss = claims.sub /\ claims.op = op
  /\ (IF claims.resource = None THEN None ELSE Normalized(claims.resource)) = resource
  /\ claims.sub.method \in service.methods
  /\ claims.exp - claims.iat <= service.longest
  /\ claims.iat <= now + service.tolerance /\ claims.exp > now - service.tolerance
-----------------------------------------------------------------------------
(* What they add up to *)

\* What is signed verifies with the signer's key exactly in its window, and with no other
\* key, and for no other Service, Agent, operation or resource.
SignedVerifies(claims, signer, key, options) ==
  LET assertion == Signed(claims, signer, "EdDSA", key, options.loopback) IN
  assertion # None =>
    (Verified(assertion, signer, [options EXCEPT !.algorithms = {"EdDSA"}]) <=>
       /\ claims.iat - options.tolerance <= options.now
       /\ options.now < claims.exp + options.tolerance
       /\ options.audience \in {None, claims.aud} /\ options.op \in {None, claims.op}
       /\ {options.issuer, options.subject} \subseteq {None, claims.iss}
       /\ \/ options.resource = None
          \/ SameResource(claims.resource, options.resource)
             /\ IsResource(options.resource, options.loopback))

\* An assertion that an Agent takes is taken by the Service it is for while it lives, by a
\* clock that is not further from the Agent's than the Service tolerates, if the Service has
\* the Agent's identity method and lets assertions live so long.
TakenIsServed(assertion, service, wanted, resource, taken, now) ==
  /\ AgentTakes(assertion, wanted, service.algorithms, service.loopback, taken)
  /\ wanted.aud = service.did /\ wanted.iss.method \in service.methods
  /\ wanted.exp - wanted.iat <= service.longest
  /\ now + service.tolerance >= taken /\ now - service.tolerance < assertion.claims.exp
  => ServiceTakes(assertion, service, wanted.op, resource, now)
       <=> resource = wanted.resource

\* What the Platform gives for an identity, its client takes for that identity from when it was
\* given and while it lives, and so does the Agent that asked for it - but for a resource that
\* is not written as it was asked for: the Platform compares normal forms, and they the text.
GivenIsTaken(answer, identity, wanted, given, now) ==
  LET request == [service |-> wanted.aud, jti |-> wanted.jti, op |-> wanted.op,
                  resource |-> wanted.resource]
  IN /\ PlatformGives(answer, identity, request, wanted.exp - wanted.iat, given)
     /\ wanted.iss = identity.did /\ wanted.aud = identity.service
     /\ given <= now /\ now < answer.expires
     => (ProviderTakes(answer, identity, wanted, identity.algorithms, FALSE, now)
           <=> answer.assertion.claims.resource = wanted.resource)
=============================================================================
