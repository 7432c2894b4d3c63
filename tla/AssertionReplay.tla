--------------------------- MODULE AssertionReplay ---------------------------
(***************************************************************************)
(* How AepService accepts a client assertion: _authenticate_assertion and  *)
(* _valid_assertion (service/service.py) over MemoryReplayStore.consume    *)
(* (service/stores.py).  A task is one request.  Its clock is read once,   *)
(* when it arrives; the verifier (signature, DID resolution) is awaited    *)
(* for any time; then the window test and the replay store both use the    *)
(* reading taken on arrival.  consume() is one lock section without await. *)
(***************************************************************************)
EXTENDS Naturals, NoValue

CONSTANTS Tasks,        \* requests, one each
          Ids,          \* (subject, jti) pairs
          Operations,   \* enroll, status, grant, revoke, authenticate
          Assertions,   \* the signed assertions in circulation
          Tolerance,    \* _clock_tolerance
          MaxLifetime,  \* _maximum_assertion_lifetime
          MaxTime       \* bound on the clock

\* What verification and replay tell apart in an assertion.  `bound' is whether
\* its audience, issuer, key id, algorithm and identity method fit the Service.
Assertion == [id : Ids, op : Operations, iat : Nat, exp : Nat, bound : BOOLEAN]

ASSUME AssertionsAssumption == Assertions \subseteq Assertion
ASSUME ToleranceAssumption == Tolerance \in Nat
ASSUME MaxLifetimeAssumption == MaxLifetime \in Nat
ASSUME MaxTimeAssumption == MaxTime \in Nat
ASSUME NoneAssumption == None \notin Nat \cup Assertion

VARIABLES now,      \* the Service's clock
          pc,       \* pc[t]: idle, verifying, or the verdict
          command,  \* command[t]: the operation t asks for
          arrived,  \* arrived[t]: the clock as t read it
          shown,    \* shown[t]: the assertion t presents
          records,  \* _records[i]: expiry of the remembered identifier i
          decided   \* decided[t]: the instant t got its verdict

vars == <<now, pc, command, arrived, shown, records, decided>>

PC == {"idle", "verifying", "accepted", "replayed", "refused"}

TypeOK ==
  /\ now \in Nat
  /\ pc \in [Tasks -> PC]
  /\ command \in [Tasks -> Operations \cup {None}]
  /\ arrived \in [Tasks -> Nat]
  /\ shown \in [Tasks -> Assertions \cup {None}]
  /\ records \in [Ids -> Nat \cup {None}]
  /\ decided \in [Tasks -> Nat]

Init ==
  /\ now = 0
  /\ pc = [t \in Tasks |-> "idle"]
  /\ command = [t \in Tasks |-> None]
  /\ arrived = [t \in Tasks |-> 0]
  /\ shown = [t \in Tasks |-> None]
  /\ records = [i \in Ids |-> None]
  /\ decided = [t \in Tasks |-> 0]
-----------------------------------------------------------------------------
Tick ==
  /\ now < MaxTime
  /\ now' = now + 1
  /\ UNCHANGED <<pc, command, arrived, shown, records, decided>>

\* Mutant: the clock is not read.
ArriveUnread(t, a, op) ==
  /\ pc[t] = "idle"
  /\ pc' = [pc EXCEPT ![t] = "verifying"]
  /\ command' = [command EXCEPT ![t] = op]
  /\ arrived' = [arrived EXCEPT ![t] = None]
  /\ shown' = [shown EXCEPT ![t] = a]
  /\ UNCHANGED <<now, records, decided>>

\* The request reads the clock and hands its assertion to the verifier.
Arrive(t, a, op) ==
  /\ pc[t] = "idle"
  /\ pc' = [pc EXCEPT ![t] = "verifying"]
  /\ command' = [command EXCEPT ![t] = op]
  /\ arrived' = [arrived EXCEPT ![t] = now]
  /\ shown' = [shown EXCEPT ![t] = a]
  /\ UNCHANGED <<now, records, decided>>

Verdict(t, v) ==
  /\ pc[t] = "verifying"
  /\ pc' = [pc EXCEPT ![t] = v]
  /\ decided' = [decided EXCEPT ![t] = now]
  /\ UNCHANGED <<now, command, arrived, shown>>

\* _valid_assertion, at the instant the request arrived.
Valid(a, op, at) ==
  /\ a.bound
  /\ a.op = op
  /\ a.exp <= a.iat + MaxLifetime
  /\ a.iat <= at + Tolerance
  /\ a.exp + Tolerance > at

\* ReplayRecord.expires_at
Expiry(a) == a.exp + Tolerance

\* consume() first forgets what had expired by the caller's reading of the clock.
Kept(at) == [i \in Ids |-> IF records[i] # None /\ records[i] <= at THEN None ELSE records[i]]

\* The verifier raised, or the assertion is invalid: nothing is consumed.
VerifierRefuses(t) == Verdict(t, "refused") /\ UNCHANGED records

Refuse(t) ==
  /\ pc[t] = "verifying"
  /\ ~ Valid(shown[t], command[t], arrived[t])
  /\ Verdict(t, "refused")
  /\ UNCHANGED records

\* The identifier is remembered: a second use.
RefuseReplay(t) ==
  /\ pc[t] = "verifying"
  /\ Valid(shown[t], command[t], arrived[t])
  /\ Kept(arrived[t])[shown[t].id] # None
  /\ Verdict(t, "replayed")
  /\ records' = Kept(arrived[t])

\* Mutant: what was remembered is not looked at.
AcceptUnchecked(t) ==
  /\ pc[t] = "verifying"
  /\ Valid(shown[t], command[t], arrived[t])
  /\ Verdict(t, "accepted")
  /\ records' = [Kept(arrived[t]) EXCEPT ![shown[t].id] = Expiry(shown[t])]

Accept(t) ==
  /\ pc[t] = "verifying"
  /\ Valid(shown[t], command[t], arrived[t])
  /\ Kept(arrived[t])[shown[t].id] = None
  /\ Verdict(t, "accepted")
  /\ records' = [Kept(arrived[t]) EXCEPT ![shown[t].id] = Expiry(shown[t])]

Next ==
  \/ Tick
  \/ \E t \in Tasks, a \in Assertions, op \in Operations : Arrive(t, a, op)
  \/ \E t \in Tasks : VerifierRefuses(t) \/ Refuse(t) \/ RefuseReplay(t) \/ Accept(t)

Spec == Init /\ [][Next]_vars
-----------------------------------------------------------------------------
\* Once an identifier is accepted, no other request is accepted with it before
\* the accepted assertion has expired (tolerance included), however long either
\* verification took and whatever the store forgot meanwhile.
SingleUseWhileLive ==
  \A t, u \in Tasks :
    /\ pc[t] = "accepted" /\ pc[u] = "accepted" /\ t # u
    /\ shown[t].id = shown[u].id
    => \/ decided[t] >= Expiry(shown[u])
       \/ decided[u] >= Expiry(shown[t])

\* An assertion is accepted by one request at most: "consume() must atomically
\* refuse a second use of an assertion identifier" (README.md:344).
AcceptedOnce ==
  \A t, u \in Tasks :
    pc[t] = "accepted" /\ pc[u] = "accepted" /\ shown[t] = shown[u] => t = u
=============================================================================
