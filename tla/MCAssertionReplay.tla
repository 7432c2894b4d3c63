-------------------------- MODULE MCAssertionReplay --------------------------
(* Instances of AssertionReplay for TLC.  Lifetimes of one or two ticks and a  *)
(* clock of five let every assertion expire, be purged and be shown again.    *)
EXTENDS AssertionReplay, TLC

Signed(i, o, from, to, b) == [id |-> i, op |-> o, iat |-> from, exp |-> to, bound |-> b]

CONSTANTS x, y, enroll, grant

\* x is signed twice with different lifetimes; y validly and for longer than is allowed.
MCAssertions ==
  { Signed(x, enroll, 0, 1, TRUE), Signed(x, enroll, 2, 4, TRUE),
    Signed(y, grant, 1, 3, TRUE), Signed(y, grant, 1, 4, TRUE) }

\* One short assertion, and a later one whose request makes the store purge.
TwoAssertions == { Signed(x, enroll, 0, 1, TRUE), Signed(y, enroll, 2, 4, TRUE) }

TaskSymmetry == Permutations(Tasks)
-----------------------------------------------------------------------------
(* Assertions from the one that signs to the one that acts, over bounded inputs *)

C == INSTANCE ClientAssertions WITH Separated <- {}, Longest <- 2

Did(host, method) == [method |-> method, host |-> host, port |-> None, path |-> <<>>]
Agents == {Did("a", "web"), Did("a", "key")}
Service == Did("s", "web")
Resource(port, path) ==
  [scheme |-> "https", host |-> "s", port |-> port, user |-> None, path |-> path,
   query |-> None, fragment |-> None]
ResourcesOf == {None, Resource(None, <<"">>), Resource(443, <<>>), Resource(None, <<"x">>)}
Operation == {"grant", "authenticate"}
Claims ==
  [aud : {Service, Did("a", "web")}, iat : 0..1, exp : 1..3, iss : Agents, jti : {"1"},
   op : Operation, resource : ResourcesOf, sub : Agents]
Kids == [did : Agents, fragment : {"k"}]
Signeds ==
  {C!Signed(claims, claims.iss, "EdDSA", None, FALSE) : claims \in Claims} \ {None}
Altered ==
  Signeds \cup {[a EXCEPT !.alg = "ES256"] : a \in Signeds}
    \cup {[a EXCEPT !.kid.did = did] : a \in Signeds, did \in Agents}
    \cup {[a EXCEPT !.typ = "other"] : a \in Signeds}
    \cup {[a EXCEPT !.notBefore = 2] : a \in Signeds}
    \cup {[a EXCEPT !.claims.sub = did] : a \in Signeds, did \in Agents}
Options ==
  [algorithms : {{"EdDSA"}}, audience : {None, Service}, issuer : {None} \cup Agents,
   subject : {None, Did("a", "web")}, op : {None, "grant"},
   resource : {None, Resource(None, <<"">>), Resource(443, <<>>)}, now : 0..3,
   tolerance : 0..1, loopback : {FALSE}]
Wanteds ==
  {C!Wanted(Service, agent, "1", o[1], o[2], 0, lifetime) :
     agent \in Agents, lifetime \in 1..2,
     o \in {<<"grant", None>>, <<"authenticate", Resource(443, <<>>)>>}}
Services ==
  [did : {Service}, algorithms : {{"EdDSA"}, {"EdDSA", "ES256"}}, methods : {{"web"}},
   longest : 1..2, tolerance : 0..1, loopback : {FALSE}]
Identity(agent) ==
  [did |-> agent, service |-> Service, algorithms |-> {"EdDSA"},
   key |-> [did |-> agent, fragment |-> None]]
Answers ==
  {[did |-> a.claims.iss, service |-> a.claims.aud, jti |-> jti, issued |-> a.claims.iat,
    expires |-> a.claims.exp + late, assertion |-> a] :
     a \in Altered, jti \in {"1", "2"}, late \in 0..1}

ASSUME SigningSound ==
  \A claims \in Claims, key \in Kids \cup {None}, options \in Options :
    C!SignedVerifies(claims, claims.iss, key, options)
ASSUME TakingSound ==
  \A a \in Altered, wanted \in Wanteds, service \in Services, taken \in 0..2, at \in 0..3 :
    \A resource \in {None, Resource(None, <<"">>), Resource(None, <<"x">>)} :
      C!TakenIsServed(a, service, wanted, resource, taken, at)
ASSUME GivingSound ==
  \A answer \in Answers, wanted \in Wanteds, given \in 0..2, at \in 0..3 :
    C!GivenIsTaken(answer, Identity(wanted.iss), wanted, given, at)
=============================================================================
