----------------------------- MODULE Idempotency -----------------------------
(***************************************************************************)
(* MemoryIdempotencyStore.execute (service/stores.py), which               *)
(* MemoryPlatformIdempotencyStore.execute (platform/stores.py) repeats     *)
(* with (principal, key) for (agent DID, key).  A task is one invocation;  *)
(* it loops over a lock section that purges, looks up and either returns,  *)
(* claims the key or waits for the event of the task that holds it.  The   *)
(* operation runs outside the lock and may answer, raise or be cancelled.  *)
(*                                                                         *)
(* Lock sections hold no await, so each is one step; the record and the    *)
(* `finally' that releases the key have no suspension between them either. *)
(***************************************************************************)
EXTENDS Naturals, NoValue

CONSTANTS Tasks, Keys, Requests,
          Retention,  \* the one-hour cutoff
          MaxTime     \* bound on the clock

ASSUME RetentionAssumption == Retention \in Nat
ASSUME MaxTimeAssumption == MaxTime \in Nat

VARIABLES now,      \* self._clock()
          pc,       \* where each task is
          call,     \* call[t]: the key and request of the invocation
          pending,  \* _pending[k]: the task that holds k's event
          records,  \* _records[k]
          answer    \* answer[t]: the outcome of the invocation

vars == <<now, pc, call, pending, records, answer>>

Abstract == INSTANCE IdempotentExecution WITH executing <- pending, memo <- records

ASSUME NoneAssumption == None \notin Tasks \cup Abstract!Response \cup Abstract!Answer

Call == [key : Keys, request : Requests]
PC == {"idle", "ready", "waiting", "running", "returned"}

TypeOK ==
  /\ now \in Nat
  /\ pc \in [Tasks -> PC]
  /\ call \in [Tasks -> Call \cup {None}]
  /\ pending \in [Keys -> Tasks \cup {None}]
  /\ records \in [Keys -> Abstract!Response \cup {None}]
  /\ answer \in [Tasks -> Abstract!Answer \cup {None}]

Init ==
  /\ now = 0
  /\ pc = [t \in Tasks |-> "idle"]
  /\ call = [t \in Tasks |-> None]
  /\ pending = [k \in Keys |-> None]
  /\ records = [k \in Keys |-> None]
  /\ answer = [t \in Tasks |-> None]

-----------------------------------------------------------------------------
Tick ==
  /\ now < MaxTime
  /\ now' = now + 1
  /\ UNCHANGED <<pc, call, pending, records, answer>>

Invoke(t, k, r) ==
  /\ pc[t] = "idle"
  /\ pc' = [pc EXCEPT ![t] = "ready"]
  /\ call' = [call EXCEPT ![t] = [key |-> k, request |-> r]]
  /\ UNCHANGED <<now, pending, records, answer>>

\* Mutant: a record is dropped at the cutoff already.
FreshBeforeCutoff(response) == response # None => response.at + Retention > now

\* Every pass through the lock section first drops what has expired: a record
\* stays while created_at >= now - Retention.
Fresh(response) == response # None => response.at + Retention >= now
Purged == [k \in Keys |-> IF Fresh(records[k]) THEN records[k] ELSE None]

\* The lock section as seen by task t, up to what it finds under its key.
Examine(t) ==
  /\ pc[t] = "ready"
  /\ records' = Purged
  /\ UNCHANGED <<now, call>>

Return(t, outcome) ==
  /\ pc' = [pc EXCEPT ![t] = "returned"]
  /\ answer' = [answer EXCEPT ![t] = outcome]

\* Mutant: any record of the key is replayed.
ReplayOfAnyRequest(t) ==
  LET k == call[t].key IN
  /\ Examine(t)
  /\ Purged[k] # None
  /\ Return(t, [state |-> "replayed", key |-> k, response |-> Purged[k]])
  /\ UNCHANGED pending

\* A record of the same command and hash is replayed; of another, refused.
Replay(t) ==
  LET k == call[t].key IN
  /\ Examine(t)
  /\ Purged[k] # None
  /\ Purged[k].request = call[t].request
  /\ Return(t, [state |-> "replayed", key |-> k, response |-> Purged[k]])
  /\ UNCHANGED pending

Conflict(t) ==
  LET k == call[t].key IN
  /\ Examine(t)
  /\ Purged[k] # None
  /\ Purged[k].request # call[t].request
  /\ Return(t, [state |-> "conflict", key |-> k])
  /\ UNCHANGED pending

\* Mutant: the pending event is not looked for.
ClaimUnlocked(t) ==
  LET k == call[t].key IN
  /\ Examine(t)
  /\ Purged[k] = None
  /\ pending' = [pending EXCEPT ![k] = t]
  /\ pc' = [pc EXCEPT ![t] = "running"]
  /\ UNCHANGED answer

Claim(t) ==
  LET k == call[t].key IN
  /\ Examine(t)
  /\ Purged[k] = None
  /\ pending[k] = None
  /\ pending' = [pending EXCEPT ![k] = t]
  /\ pc' = [pc EXCEPT ![t] = "running"]
  /\ UNCHANGED answer

Wait(t) ==
  LET k == call[t].key IN
  /\ Examine(t)
  /\ Purged[k] = None
  /\ pending[k] # None
  /\ pc' = [pc EXCEPT ![t] = "waiting"]
  /\ UNCHANGED <<pending, answer>>
-----------------------------------------------------------------------------
\* `self._pending.pop(key).set()': whoever waits on the event runs again.
Release(t, outcome) ==
  LET k == call[t].key IN
  /\ pending' = [pending EXCEPT ![k] = None]
  /\ pc' = [u \in Tasks |->
              IF u = t THEN "returned"
              ELSE IF pc[u] = "waiting" /\ call[u].key = k THEN "ready" ELSE pc[u]]
  /\ answer' = [answer EXCEPT ![t] = outcome]
  /\ UNCHANGED <<now, call>>

\* Mutant: the whole outcome is recorded for the response.
SucceedWithOutcome(t) ==
  LET response == [request |-> call[t].request, by |-> t, at |-> now]
      outcome == [state |-> "created", key |-> call[t].key, response |-> response] IN
  /\ pc[t] = "running"
  /\ records' = [records EXCEPT ![call[t].key] = outcome]
  /\ Release(t, outcome)

\* The operation answered: its response, stamped now, is recorded and released.
Succeed(t) ==
  LET response == [request |-> call[t].request, by |-> t, at |-> now] IN
  /\ pc[t] = "running"
  /\ records' = [records EXCEPT ![call[t].key] = response]
  /\ Release(t, [state |-> "created", key |-> call[t].key, response |-> response])

\* Mutants: a failure is recorded like a response, or leaves the event behind.
FailRecorded(t) ==
  /\ pc[t] = "running"
  /\ records' = [records EXCEPT ![call[t].key] =
                   [request |-> call[t].request, by |-> t, at |-> now]]
  /\ Release(t, [state |-> "failed"])

FailUnreleased(t) ==
  /\ pc[t] = "running"
  /\ Return(t, [state |-> "failed"])
  /\ UNCHANGED <<now, call, pending, records>>

\* The operation raised or its task was cancelled: only the finally clause runs.
Fail(t) ==
  /\ pc[t] = "running"
  /\ Release(t, [state |-> "failed"])
  /\ UNCHANGED records

\* A task that does not hold the key is cancelled between two lock sections.
Cancel(t) ==
  /\ pc[t] \in {"ready", "waiting"}
  /\ Return(t, [state |-> "failed"])
  /\ UNCHANGED <<now, call, pending, records>>

Execute(t) == Replay(t) \/ Conflict(t) \/ Claim(t) \/ Wait(t)

Next ==
  \/ Tick
  \/ \E t \in Tasks, k \in Keys, r \in Requests : Invoke(t, k, r)
  \/ \E t \in Tasks : Execute(t) \/ Succeed(t) \/ Fail(t) \/ Cancel(t)

Spec == Init /\ [][Next]_vars

\* The event loop runs every task that is ready, and operations end: an await
\* that never completes would be the application's, not the store's.
Fairness ==
  /\ \A t \in Tasks : WF_vars(Execute(t))
  /\ \A t \in Tasks : WF_vars(Succeed(t) \/ Fail(t))

FairSpec == Spec /\ Fairness
-----------------------------------------------------------------------------
\* A key has an event exactly while one task runs its operation: two operations
\* of one key never overlap, and no path leaves an event behind.
Running(k) == {t \in Tasks : pc[t] = "running" /\ call[t].key = k}

SingleFlight ==
  \A k \in Keys : Running(k) = IF pending[k] = None THEN {} ELSE {pending[k]}

\* Within the retention of a completed operation no other operation of the key
\* completes, whatever calls, failures and cancellations happen in between.
Created(t) == answer[t] # None /\ answer[t].state = "created"

OncePerRetention ==
  \A t, u \in Tasks :
    Created(t) /\ Created(u) /\ t # u /\ answer[t].key = answer[u].key
      => \/ answer[t].response.at + Retention < answer[u].response.at
         \/ answer[u].response.at + Retention < answer[t].response.at

\* A replay hands out what an operation of the very same request really returned,
\* and a conflict is reported only where another request completed.
AnswersJustified ==
  \A t \in Tasks :
    /\ answer[t] # None /\ answer[t].state = "replayed" =>
         \E u \in Tasks : /\ Created(u)
                          /\ call[u] = call[t]
                          /\ answer[u].response = answer[t].response
    /\ answer[t] # None /\ answer[t].state = "conflict" =>
         \E u \in Tasks : /\ Created(u)
                          /\ call[u].key = call[t].key
                          /\ call[u].request # call[t].request

\* The store implements IdempotentExecution: claiming, waiting, waking and
\* purging are invisible to the caller.
Implements == Abstract!AbsSpec

\* Every invocation returns: neither the failure of the operation it waits for
\* nor a burst of other callers leaves it waiting for ever.
EveryCallReturns == \A t \in Tasks : pc[t] = "ready" ~> pc[t] = "returned"
=============================================================================
