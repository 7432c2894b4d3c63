-------------------------- MODULE Idempotency_proofs --------------------------
(***************************************************************************)
(* Proofs about Idempotency, for any tasks, keys, requests and retention.  *)
(***************************************************************************)
EXTENDS Idempotency, TLAPS

\* A task has arguments once invoked and an outcome once returned.
Stages ==
  \A t \in Tasks : /\ pc[t] # "idle" => call[t] \in Call
                   /\ pc[t] = "returned" <=> answer[t] # None

\* A key that is held remembers nothing: its holder purged it and only the
\* holder may write.
HeldIsUnrecorded == \A k \in Keys : pending[k] # None => records[k] = None

\* What a key remembers was returned to the task that computed it.
RecordsOrigin ==
  \A k \in Keys : records[k] # None =>
    \E u \in Tasks : Created(u) /\ answer[u].key = k /\ answer[u].response = records[k]

\* A completed operation is remembered, or too old to be.
CreatedRemembered ==
  \A t \in Tasks : Created(t) =>
    LET k == answer[t].key
        a == answer[t].response IN
    /\ call[t] = [key |-> k, request |-> a.request]
    /\ a.at <= now
    /\ \/ records[k] = a /\ a.by = t
       \/ a.at + Retention < now /\ records[k] = None
       \/ records[k] # None /\ a.at + Retention < records[k].at /\ records[k].at <= now

IInv ==
  /\ TypeOK
  /\ SingleFlight
  /\ Stages
  /\ HeldIsUnrecorded
  /\ RecordsOrigin
  /\ CreatedRemembered
  /\ OncePerRetention
  /\ AnswersJustified
-----------------------------------------------------------------------------
LEMMA TypeInit == Init => TypeOK
  BY DEF Init, TypeOK, PC

LEMMA PurgedType == TypeOK => Purged \in [Keys -> Abstract!Response \cup {None}]
  BY DEF TypeOK, Purged

LEMMA TypeStep == TypeOK /\ Stages /\ [Next]_vars => TypeOK'
  <1> SUFFICES ASSUME TypeOK, Stages, [Next]_vars
               PROVE  TypeOK'
    OBVIOUS
  <1> USE DEF TypeOK, PC
  <1>1. CASE Tick
    BY <1>1 DEF Tick
  <1>2. ASSUME NEW t \in Tasks, NEW k \in Keys, NEW r \in Requests, Invoke(t, k, r)
        PROVE  TypeOK'
    BY <1>2 DEF Invoke, Call
  <1>3. ASSUME NEW t \in Tasks, Replay(t)
        PROVE  TypeOK'
    <2>1. call[t].key \in Keys
      BY <1>3 DEF Replay, Examine, Stages, Call
    <2>2. Purged[call[t].key] \in Abstract!Response
      BY <1>3, <2>1, PurgedType DEF Replay
    <2>3. answer'[t] \in Abstract!Answer
      BY <1>3, <2>1, <2>2 DEF Replay, Return, Abstract!Answer
    <2>4. QED
      BY <1>3, <2>3, PurgedType DEF Replay, Examine, Return
  <1>4. ASSUME NEW t \in Tasks, Conflict(t)
        PROVE  TypeOK'
    <2>1. call[t].key \in Keys
      BY <1>4 DEF Conflict, Examine, Stages, Call
    <2>2. answer'[t] \in Abstract!Answer
      BY <1>4, <2>1 DEF Conflict, Return, Abstract!Answer
    <2>3. QED
      BY <1>4, <2>2, PurgedType DEF Conflict, Examine, Return
  <1>5. ASSUME NEW t \in Tasks, Claim(t)
        PROVE  TypeOK'
    BY <1>5, PurgedType DEF Claim, Examine
  <1>6. ASSUME NEW t \in Tasks, Wait(t)
        PROVE  TypeOK'
    BY <1>6, PurgedType DEF Wait, Examine
  <1>7. ASSUME NEW t \in Tasks, Succeed(t)
        PROVE  TypeOK'
    <2> DEFINE response == [request |-> call[t].request, by |-> t, at |-> now]
    <2>1. call[t] \in Call
      BY <1>7 DEF Succeed, Stages
    <2>2. response \in Abstract!Response
      BY <2>1 DEF Call, Abstract!Response
    <2>3. [state |-> "created", key |-> call[t].key, response |-> response] \in Abstract!Answer
      BY <2>1, <2>2 DEF Call, Abstract!Answer
    <2>4. QED
      BY <1>7, <2>1, <2>2, <2>3 DEF Succeed, Release, Call
  <1>8. ASSUME NEW t \in Tasks, Fail(t)
        PROVE  TypeOK'
    BY <1>8 DEF Fail, Release, Abstract!Answer
  <1>9. ASSUME NEW t \in Tasks, Cancel(t)
        PROVE  TypeOK'
    BY <1>9 DEF Cancel, Return, Abstract!Answer
  <1>10. CASE UNCHANGED vars
    BY <1>10 DEF vars
  <1>11. QED
    BY <1>1, <1>2, <1>3, <1>4, <1>5, <1>6, <1>7, <1>8, <1>9, <1>10 DEF Next, Execute
-----------------------------------------------------------------------------
LEMMA InitInv == Init => IInv
  <1> SUFFICES ASSUME Init PROVE IInv
    OBVIOUS
  <1> USE DEF Init
  <1>1. TypeOK
    BY TypeInit
  <1>2. SingleFlight
    BY DEF SingleFlight, Running
  <1>3. ~ \E t \in Tasks : Created(t) \/ answer[t] # None
    BY DEF Created
  <1>4. QED
    BY <1>1, <1>2, <1>3 DEF IInv, Stages, HeldIsUnrecorded, RecordsOrigin,
         CreatedRemembered, OncePerRetention, AnswersJustified

\* The clock only ages what is remembered.
LEMMA TickStep == IInv /\ Tick => IInv'
  <1> SUFFICES ASSUME IInv, Tick PROVE IInv'
    OBVIOUS
  <1> USE DEF IInv, Tick
  <1>1. TypeOK'
    BY TypeStep DEF Next
  <1>2. CreatedRemembered'
    BY RetentionAssumption DEF CreatedRemembered, Created, TypeOK, Abstract!Response, Abstract!Answer
  <1>3. QED
    BY <1>1, <1>2 DEF SingleFlight, Running, Stages, HeldIsUnrecorded, RecordsOrigin,
         OncePerRetention, AnswersJustified, Created

\* A new invocation has no outcome yet, and the old ones keep their arguments.
LEMMA InvokeStep ==
  ASSUME NEW t \in Tasks, NEW k \in Keys, NEW r \in Requests, IInv, Invoke(t, k, r)
  PROVE  IInv'
  <1> USE DEF IInv, Invoke
  <1>1. TypeOK'
    BY TypeStep DEF Next
  <1>2. answer[t] = None
    BY DEF Stages
  <1>3. SingleFlight'
    BY DEF SingleFlight, Running, TypeOK
  <1>4. Stages'
    BY DEF Stages, TypeOK, Call
  <1>5. CreatedRemembered'
    BY <1>2 DEF CreatedRemembered, Created, TypeOK
  <1>6. AnswersJustified'
    BY <1>2 DEF AnswersJustified, Created, TypeOK
  <1>7. QED
    BY <1>1, <1>3, <1>4, <1>5, <1>6 DEF HeldIsUnrecorded, RecordsOrigin, OncePerRetention, Created

\* Purging drops only what its clock has outlived.
LEMMA PurgedOld ==
  ASSUME IInv, NEW k \in Keys
  PROVE  \/ Purged[k] = records[k]
         \/ records[k] # None /\ Purged[k] = None /\ records[k].at + Retention < now
  BY RetentionAssumption DEF IInv, TypeOK, Purged, Fresh, Abstract!Response

LEMMA PurgeRemembers ==
  ASSUME IInv, records' = Purged, UNCHANGED now, NEW t \in Tasks, Created(t)
  PROVE  LET k == answer[t].key
             a == answer[t].response IN
         \/ records'[k] = a /\ a.by = t
         \/ a.at + Retention < now /\ records'[k] = None
         \/ records'[k] # None /\ a.at + Retention < records'[k].at /\ records'[k].at <= now
  <1> DEFINE k == answer[t].key
             a == answer[t].response
  <1>1. answer[t] \in Abstract!Answer /\ answer[t].state = "created"
    BY DEF IInv, TypeOK, Created
  <1>2. k \in Keys /\ a.at \in Nat
    BY <1>1 DEF Abstract!Answer, Abstract!Response
  <1>3. records[k] # None => records[k].at \in Nat
    BY <1>2 DEF IInv, TypeOK, Abstract!Response
  <1>4. now \in Nat
    BY DEF IInv, TypeOK
  <1>5. \/ records[k] = a /\ a.by = t
        \/ a.at + Retention < now /\ records[k] = None
        \/ records[k] # None /\ a.at + Retention < records[k].at /\ records[k].at <= now
    BY DEF IInv, CreatedRemembered
  <1>6. CASE Purged[k] = records[k]
    BY <1>5, <1>6
  <1>7. CASE records[k] # None /\ Purged[k] = None /\ records[k].at + Retention < now
    BY <1>2, <1>3, <1>4, <1>5, <1>7, RetentionAssumption
  <1>8. QED
    BY <1>2, <1>6, <1>7, PurgedOld

\* What every pass through the lock section keeps, whatever its outcome, as long
\* as the outcome it gives is none of "created".
LEMMA ExamineKeeps ==
  ASSUME IInv, NEW t \in Tasks, Examine(t),
         NEW o, answer' = [answer EXCEPT ![t] = o],
         o # None => o.state # "created"
  PROVE  /\ \A u \in Tasks : Created(u)' <=> Created(u)
         /\ \A u \in Tasks : Created(u) => answer'[u] = answer[u]
         /\ RecordsOrigin'
         /\ CreatedRemembered'
         /\ OncePerRetention'
  <1> USE DEF Examine
  <1>1. answer[t] = None
    BY DEF IInv, Stages
  <1>2. \A u \in Tasks : Created(u)' <=> Created(u)
    BY <1>1 DEF Created, IInv, TypeOK
  <1>3. \A u \in Tasks : Created(u) => answer'[u] = answer[u]
    BY <1>1 DEF Created, IInv, TypeOK
  <1>4. \A k \in Keys : records'[k] # None => records'[k] = records[k]
    BY PurgedOld
  <1>5. RecordsOrigin'
    BY <1>2, <1>3, <1>4 DEF RecordsOrigin, IInv
  <1>6. CreatedRemembered'
    <2> SUFFICES ASSUME NEW u \in Tasks, Created(u)
                 PROVE  LET k == answer[u].key
                            a == answer[u].response IN
                        /\ call[u] = [key |-> k, request |-> a.request]
                        /\ a.at <= now
                        /\ \/ records'[k] = a /\ a.by = u
                           \/ a.at + Retention < now /\ records'[k] = None
                           \/ /\ records'[k] # None
                              /\ a.at + Retention < records'[k].at
                              /\ records'[k].at <= now
      BY <1>2, <1>3 DEF CreatedRemembered
    <2>1. QED
      BY PurgeRemembers DEF IInv, CreatedRemembered
  <1>7. OncePerRetention'
    BY <1>2, <1>3 DEF OncePerRetention, IInv
  <1>8. QED
    BY <1>2, <1>3, <1>5, <1>6, <1>7

LEMMA ReplayStep == ASSUME NEW t \in Tasks, IInv, Replay(t) PROVE IInv'
  <1> DEFINE k == call[t].key
             o == [state |-> "replayed", key |-> k, response |-> Purged[k]]
  <1>1. answer' = [answer EXCEPT ![t] = o] /\ Examine(t)
    BY DEF Replay, Return
  <1>2. o # None /\ o.state # "created"
    <2>1. o \in Abstract!Answer
      BY PurgedType DEF Replay, Examine, IInv, TypeOK, Stages, Call, Abstract!Answer
    <2>2. QED
      BY <2>1, NoneAssumption
  <1>3. /\ \A u \in Tasks : Created(u)' <=> Created(u)
        /\ \A u \in Tasks : Created(u) => answer'[u] = answer[u]
        /\ RecordsOrigin' /\ CreatedRemembered' /\ OncePerRetention'
    BY <1>1, <1>2, ExamineKeeps
  <1>4. TypeOK'
    BY TypeStep DEF IInv, Next, Execute
  <1>5. SingleFlight'
    BY DEF IInv, SingleFlight, Running, Replay, Examine, Return, TypeOK
  <1>6. Stages'
    BY <1>1, <1>2 DEF IInv, Stages, Replay, Examine, Return, TypeOK
  <1>7. HeldIsUnrecorded'
    BY <1>1, PurgedOld DEF IInv, HeldIsUnrecorded, Replay, Examine
  <1>8. AnswersJustified'
    <2>1. k \in Keys /\ Purged[k] = records[k] /\ records[k] # None
      BY PurgedOld DEF Replay, Examine, IInv, Stages, Call
    <2>2. PICK u \in Tasks : Created(u) /\ answer[u].key = k /\ answer[u].response = records[k]
      BY <2>1 DEF IInv, RecordsOrigin
    <2>3. call[u] = call[t]
      <3>1. call[u] = [key |-> k, request |-> records[k].request]
        BY <2>2 DEF IInv, CreatedRemembered
      <3>2. call[t] \in Call
        BY DEF Replay, Examine, IInv, Stages
      <3>3. QED
        BY <2>1, <3>1, <3>2 DEF Replay, Call
    <2>4. answer'[t] = o
      BY <1>1 DEF IInv, TypeOK
    <2>5. \A v \in Tasks : v # t => answer'[v] = answer[v]
      BY <1>1 DEF IInv, TypeOK
    <2>6. QED
      BY <1>1, <1>3, <2>1, <2>2, <2>3, <2>4, <2>5 DEF AnswersJustified, IInv, Examine
  <1>9. QED
    BY <1>3, <1>4, <1>5, <1>6, <1>7, <1>8 DEF IInv

LEMMA ConflictStep == ASSUME NEW t \in Tasks, IInv, Conflict(t) PROVE IInv'
  <1> DEFINE k == call[t].key
             o == [state |-> "conflict", key |-> k]
  <1>1. answer' = [answer EXCEPT ![t] = o] /\ Examine(t)
    BY DEF Conflict, Return
  <1>2. o # None /\ o.state # "created"
    <2>1. o \in Abstract!Answer
      BY DEF Conflict, Examine, IInv, TypeOK, Stages, Call, Abstract!Answer
    <2>2. QED
      BY <2>1, NoneAssumption
  <1>3. /\ \A u \in Tasks : Created(u)' <=> Created(u)
        /\ \A u \in Tasks : Created(u) => answer'[u] = answer[u]
        /\ RecordsOrigin' /\ CreatedRemembered' /\ OncePerRetention'
    BY <1>1, <1>2, ExamineKeeps
  <1>4. TypeOK'
    BY TypeStep DEF IInv, Next, Execute
  <1>5. SingleFlight'
    BY DEF IInv, SingleFlight, Running, Conflict, Examine, Return, TypeOK
  <1>6. Stages'
    BY <1>1, <1>2 DEF IInv, Stages, Conflict, Examine, Return, TypeOK
  <1>7. HeldIsUnrecorded'
    BY <1>1, PurgedOld DEF IInv, HeldIsUnrecorded, Conflict, Examine
  <1>8. AnswersJustified'
    <2>1. k \in Keys /\ Purged[k] = records[k] /\ records[k] # None
      BY PurgedOld DEF Conflict, Examine, IInv, Stages, Call
    <2>2. PICK u \in Tasks : Created(u) /\ answer[u].key = k /\ answer[u].response = records[k]
      BY <2>1 DEF IInv, RecordsOrigin
    <2>3. call[u].key = call[t].key /\ call[u].request # call[t].request
      <3>1. call[u] = [key |-> k, request |-> records[k].request]
        BY <2>2 DEF IInv, CreatedRemembered
      <3>2. QED
        BY <2>1, <3>1 DEF Conflict
    <2>4. answer'[t] = o
      BY <1>1 DEF IInv, TypeOK
    <2>5. \A v \in Tasks : v # t => answer'[v] = answer[v]
      BY <1>1 DEF IInv, TypeOK
    <2>6. QED
      BY <1>1, <1>3, <2>2, <2>3, <2>4, <2>5 DEF AnswersJustified, IInv, Examine
  <1>9. QED
    BY <1>3, <1>4, <1>5, <1>6, <1>7, <1>8 DEF IInv

\* Claiming and waiting give no outcome.
LEMMA ClaimOrWaitStep ==
  ASSUME NEW t \in Tasks, IInv, Claim(t) \/ Wait(t) PROVE IInv'
  <1>1. /\ Examine(t) /\ answer' = answer /\ answer[t] = None
        /\ answer' = [answer EXCEPT ![t] = None]
    BY DEF Claim, Wait, Examine, IInv, Stages, TypeOK
  <1>2. /\ \A u \in Tasks : Created(u)' <=> Created(u)
        /\ RecordsOrigin' /\ CreatedRemembered' /\ OncePerRetention'
    BY <1>1, ExamineKeeps
  <1>3. TypeOK'
    BY TypeStep DEF IInv, Next, Execute
  <1>4. SingleFlight'
    BY NoneAssumption DEF IInv, SingleFlight, Running, Claim, Wait, Examine, TypeOK
  <1>5. Stages'
    BY <1>1 DEF IInv, Stages, Claim, Wait, Examine, TypeOK
  <1>6. HeldIsUnrecorded'
    BY PurgedOld DEF IInv, HeldIsUnrecorded, Claim, Wait, Examine, TypeOK
  <1>7. AnswersJustified'
    BY <1>1, <1>2 DEF IInv, AnswersJustified, Examine
  <1>8. QED
    BY <1>2, <1>3, <1>4, <1>5, <1>6, <1>7 DEF IInv

\* An operation that answers: its key remembered nothing, so every earlier
\* operation of the key is older than the retention.
LEMMA SucceedStep == ASSUME NEW t \in Tasks, IInv, Succeed(t) PROVE IInv'
  <1> DEFINE k == call[t].key
             a == [request |-> call[t].request, by |-> t, at |-> now]
             o == [state |-> "created", key |-> k, response |-> a]
  <1>1. /\ pc[t] = "running" /\ call[t] \in Call /\ k \in Keys
        /\ now \in Nat /\ answer[t] = None
    BY DEF Succeed, IInv, Stages, TypeOK, Call
  <1>2. a \in Abstract!Response /\ o \in Abstract!Answer
    BY <1>1 DEF Call, Abstract!Response, Abstract!Answer
  <1>3. pending[k] = t /\ records[k] = None
    BY <1>1, NoneAssumption DEF IInv, SingleFlight, Running, HeldIsUnrecorded
  <1>4. /\ answer'[t] = o /\ o # None /\ a # None
        /\ \A u \in Tasks : u # t => answer'[u] = answer[u]
        /\ records'[k] = a
        /\ \A j \in Keys : j # k => records'[j] = records[j]
        /\ now' = now /\ call' = call
    BY <1>1, <1>2, NoneAssumption DEF Succeed, Release, IInv, TypeOK
  <1>5. Created(t)' /\ \A u \in Tasks : u # t => (Created(u)' <=> Created(u))
    BY <1>4 DEF Created
  <1>6. \A u \in Tasks : Created(u) => answer[u] \in Abstract!Answer /\ answer[u].state = "created"
    BY DEF Created, IInv, TypeOK
  <1>7. \A u \in Tasks : Created(u) => /\ answer[u].key \in Keys
                                       /\ answer[u].response \in Abstract!Response
    BY <1>6 DEF Abstract!Answer
  <1>8. ~Created(t)
    BY <1>1 DEF Created
  <1>9. \A u \in Tasks : Created(u) /\ answer[u].key = k => answer[u].response.at + Retention < now
    BY <1>3, <1>7, NoneAssumption DEF IInv, CreatedRemembered
  <1>10. TypeOK'
    BY TypeStep DEF IInv, Next
  <1>11. SingleFlight'
    BY <1>1, <1>3, NoneAssumption DEF IInv, SingleFlight, Running, Succeed, Release, TypeOK
  <1>12. Stages'
    BY <1>4 DEF IInv, Stages, Succeed, Release, TypeOK
  <1>13. HeldIsUnrecorded'
    BY <1>1 DEF IInv, HeldIsUnrecorded, Succeed, Release, TypeOK
  <1>14. RecordsOrigin'
    BY <1>4, <1>5, <1>8 DEF IInv, RecordsOrigin
  <1>15. CreatedRemembered'
    <2> SUFFICES ASSUME NEW u \in Tasks, Created(u)'
                 PROVE  LET j == answer'[u].key
                            b == answer'[u].response IN
                        /\ call[u] = [key |-> j, request |-> b.request]
                        /\ b.at <= now
                        /\ \/ records'[j] = b /\ b.by = u
                           \/ b.at + Retention < now /\ records'[j] = None
                           \/ /\ records'[j] # None
                              /\ b.at + Retention < records'[j].at
                              /\ records'[j].at <= now
      BY <1>4 DEF CreatedRemembered
    <2>1. CASE u = t
      BY <2>1, <1>1, <1>4 DEF Call
    <2>2. CASE u # t /\ answer[u].key = k
      BY <2>2, <1>1, <1>4, <1>5, <1>9 DEF IInv, CreatedRemembered
    <2>3. CASE u # t /\ answer[u].key # k
      <3>1. Created(u) /\ answer'[u] = answer[u] /\ answer[u].key \in Keys
        BY <2>3, <1>4, <1>5, <1>7
      <3>2. records'[answer[u].key] = records[answer[u].key]
        BY <2>3, <3>1, <1>4
      <3>3. QED
        BY <3>1, <3>2 DEF IInv, CreatedRemembered
    <2>4. QED
      BY <2>1, <2>2, <2>3
  <1>16. OncePerRetention'
    BY <1>4, <1>5, <1>9 DEF IInv, OncePerRetention
  <1>17. AnswersJustified'
    <2>1. o.state = "created"
      OBVIOUS
    <2>2. \A u \in Tasks : Created(u) => Created(u)' /\ answer'[u] = answer[u]
      BY <1>4, <1>5, <1>8
    <2>3. ASSUME NEW v \in Tasks, answer'[v] # None, answer'[v].state # "created"
          PROVE  answer'[v] = answer[v]
      BY <2>1, <2>3, <1>4
    <2>4. QED
      BY <1>4, <2>2, <2>3 DEF IInv, AnswersJustified
  <1>18. QED
    BY <1>10, <1>11, <1>12, <1>13, <1>14, <1>15, <1>16, <1>17 DEF IInv

\* A failure records nothing.
LEMMA FailStep == ASSUME NEW t \in Tasks, IInv, Fail(t) \/ Cancel(t) PROVE IInv'
  <1> DEFINE o == [state |-> "failed"]
  <1>1. /\ answer[t] = None /\ pc[t] \in {"running", "ready", "waiting"}
        /\ call[t] \in Call /\ o \in Abstract!Answer /\ o # None
    BY NoneAssumption DEF Fail, Cancel, IInv, Stages, TypeOK, Abstract!Answer
  <1>2. /\ answer'[t] = o /\ \A u \in Tasks : u # t => answer'[u] = answer[u]
        /\ UNCHANGED <<now, call, records>>
    BY DEF Fail, Cancel, Release, Return, IInv, TypeOK
  <1>3. \A u \in Tasks : /\ Created(u)' <=> Created(u)
                         /\ Created(u) => answer'[u] = answer[u]
    BY <1>1, <1>2 DEF Created
  <1>4. TypeOK'
    BY TypeStep DEF IInv, Next
  <1>5. SingleFlight'
    BY NoneAssumption DEF IInv, SingleFlight, Running, Fail, Cancel, Release, Return, TypeOK
  <1>6. Stages'
    BY <1>1, <1>2 DEF IInv, Stages, Fail, Cancel, Release, Return, TypeOK
  <1>7. HeldIsUnrecorded'
    BY DEF IInv, HeldIsUnrecorded, Fail, Cancel, Release, TypeOK
  <1>8. RecordsOrigin' /\ CreatedRemembered' /\ OncePerRetention'
    BY <1>2, <1>3 DEF IInv, RecordsOrigin, CreatedRemembered, OncePerRetention
  <1>9. AnswersJustified'
    BY <1>2, <1>3 DEF IInv, AnswersJustified
  <1>10. QED
    BY <1>4, <1>5, <1>6, <1>7, <1>8, <1>9 DEF IInv

LEMMA Inductive == IInv /\ [Next]_vars => IInv'
  <1> SUFFICES ASSUME IInv, [Next]_vars PROVE IInv'
    OBVIOUS
  <1>1. CASE UNCHANGED vars
    BY <1>1 DEF vars, IInv, TypeOK, SingleFlight, Running, Stages, HeldIsUnrecorded,
         RecordsOrigin, CreatedRemembered, OncePerRetention, AnswersJustified, Created
  <1>2. QED
    BY <1>1, TickStep, InvokeStep, ReplayStep, ConflictStep, ClaimOrWaitStep,
       SucceedStep, FailStep DEF Next, Execute

-----------------------------------------------------------------------------
\* Every variable of the store keeps its type under any interleaving of calls,
\* failures, cancellations and purges (MemoryIdempotencyStore.execute).
THEOREM TypeCorrect == Spec => []TypeOK
  <1>1. IInv => TypeOK
    BY DEF IInv
  <1>2. QED
    BY <1>1, InitInv, Inductive, PTL DEF Spec

\* At most one operation of a key runs at a time, and the key has an event exactly
\* while it runs: no exit of execute() leaks an event or steals another's.
THEOREM MutualExclusion == Spec => []SingleFlight
  <1>1. IInv => SingleFlight
    BY DEF IInv
  <1>2. QED
    BY <1>1, InitInv, Inductive, PTL DEF Spec

\* Two completed operations of one key are more than the retention apart, however
\* often the key was retried in between.
THEOREM RunsOncePerRetention == Spec => []OncePerRetention
  <1>1. IInv => OncePerRetention
    BY DEF IInv
  <1>2. QED
    BY <1>1, InitInv, Inductive, PTL DEF Spec

\* A replayed response was produced for the same key, command and hash, and a
\* conflict is only reported against another request that completed.
THEOREM ReplaysAreFaithful == Spec => []AnswersJustified
  <1>1. IInv => AnswersJustified
    BY DEF IInv
  <1>2. QED
    BY <1>1, InitInv, Inductive, PTL DEF Spec
-----------------------------------------------------------------------------
\* A pass through the lock section forgets no more than the abstract store may.
LEMMA PurgeForgets == IInv /\ records' = Purged => Abstract!Forgotten(records')
  <1> SUFFICES ASSUME IInv, records' = Purged, NEW k \in Keys
               PROVE  \/ records'[k] = records[k]
                      \/ records[k] # None /\ now > records[k].at + Retention /\ records'[k] = None
    BY DEF Abstract!Forgotten
  <1>1. records[k] # None => records[k].at \in Nat /\ now \in Nat
    BY DEF IInv, TypeOK, Abstract!Response
  <1>2. QED
    BY <1>1, PurgedOld, RetentionAssumption

\* A task that examines the store does not hold any key.
LEMMA ExaminerHoldsNothing ==
  ASSUME IInv, NEW t \in Tasks, pc[t] # "running"
  PROVE  \A k \in Keys : pending[k] # t
  BY NoneAssumption DEF IInv, SingleFlight, Running

LEMMA AbstractInit == Init => Abstract!AbsInit
  BY DEF Init, Abstract!AbsInit

LEMMA AbstractStep == IInv /\ [Next]_vars => [Abstract!AbsNext]_Abstract!absVars
  <1> SUFFICES ASSUME IInv, [Next]_vars
               PROVE  Abstract!AbsNext \/ UNCHANGED <<now, pending, records, answer>>
    BY DEF Abstract!absVars
  <1>1. CASE Tick
    BY <1>1 DEF Tick, Abstract!AbsNext, Abstract!AbsTick
  <1>2. ASSUME NEW t \in Tasks, NEW k \in Keys, NEW r \in Requests, Invoke(t, k, r)
        PROVE  UNCHANGED <<now, pending, records, answer>>
    BY <1>2 DEF Invoke
  <1>3. ASSUME NEW t \in Tasks, Replay(t) \/ Conflict(t)
        PROVE  Abstract!AbsNext
    <2> DEFINE k == call[t].key
               r == call[t].request
    <2>1. k \in Keys /\ r \in Requests /\ answer[t] = None /\ pc[t] # "running"
      BY <1>3 DEF Replay, Conflict, Examine, IInv, Stages, Call
    <2>2. records' = Purged /\ UNCHANGED <<now, pending>> /\ Purged[k] # None
      BY <1>3 DEF Replay, Conflict, Examine
    <2>3. Purged[k] = records[k]
      BY <2>1, <2>2, PurgedOld
    <2>4. answer' = [answer EXCEPT ![t] =
                       IF records[k].request = r
                         THEN [state |-> "replayed", key |-> k, response |-> records[k]]
                         ELSE [state |-> "conflict", key |-> k]]
      BY <1>3, <2>3 DEF Replay, Conflict, Return
    <2>5. Abstract!AbsLookup(t, k, r)
      BY <2>1, <2>2, <2>4, PurgeForgets, ExaminerHoldsNothing DEF Abstract!AbsLookup
    <2>6. QED
      BY <2>1, <2>5 DEF Abstract!AbsNext
  <1>4. ASSUME NEW t \in Tasks, Claim(t)
        PROVE  Abstract!AbsNext
    <2>1. call[t].key \in Keys /\ answer[t] = None /\ pc[t] # "running"
      BY <1>4 DEF Claim, Examine, IInv, Stages, Call
    <2>2. Abstract!AbsBegin(t, call[t].key)
      BY <1>4, <2>1, PurgeForgets, ExaminerHoldsNothing DEF Claim, Examine, Abstract!AbsBegin
    <2>3. QED
      BY <2>1, <2>2 DEF Abstract!AbsNext
  <1>5. ASSUME NEW t \in Tasks, Wait(t)
        PROVE  Abstract!AbsNext
    BY <1>5, PurgeForgets DEF Wait, Examine, Abstract!AbsNext, Abstract!AbsForget
  <1>6. ASSUME NEW t \in Tasks, Succeed(t)
        PROVE  Abstract!AbsNext
    <2>1. call[t].key \in Keys /\ call[t].request \in Requests /\ pending[call[t].key] = t
      BY <1>6, NoneAssumption DEF Succeed, IInv, Stages, Call, SingleFlight, Running
    <2>2. Abstract!AbsSucceed(t, call[t].key, call[t].request)
      BY <1>6, <2>1 DEF Succeed, Release, Abstract!AbsSucceed
    <2>3. QED
      BY <2>1, <2>2 DEF Abstract!AbsNext
  <1>7. ASSUME NEW t \in Tasks, Fail(t)
        PROVE  Abstract!AbsNext
    <2> DEFINE k == call[t].key
    <2>1. k \in Keys /\ answer[t] = None /\ pending[k] = t
      BY <1>7, NoneAssumption DEF Fail, IInv, Stages, Call, SingleFlight, Running
    <2>2. \A j \in Keys : pending[j] = t => j = k
      BY NoneAssumption DEF IInv, SingleFlight, Running
    <2>3. pending' = [j \in Keys |-> IF pending[j] = t THEN None ELSE pending[j]]
      BY <1>7, <2>1, <2>2 DEF Fail, Release, IInv, TypeOK
    <2>4. Abstract!AbsFail(t)
      BY <1>7, <2>1, <2>3 DEF Fail, Release, Abstract!AbsFail
    <2>5. QED
      BY <2>4 DEF Abstract!AbsNext
  <1>8. ASSUME NEW t \in Tasks, Cancel(t)
        PROVE  Abstract!AbsNext
    <2>1. answer[t] = None /\ pc[t] # "running"
      BY <1>8 DEF Cancel, IInv, Stages
    <2>2. pending = [j \in Keys |-> IF pending[j] = t THEN None ELSE pending[j]]
      BY <2>1, ExaminerHoldsNothing DEF IInv, TypeOK
    <2>3. Abstract!AbsFail(t)
      BY <1>8, <2>1, <2>2 DEF Cancel, Return, Abstract!AbsFail
    <2>4. QED
      BY <2>3 DEF Abstract!AbsNext
  <1>9. CASE UNCHANGED vars
    BY <1>9 DEF vars
  <1>10. QED
    BY <1>1, <1>2, <1>3, <1>4, <1>5, <1>6, <1>7, <1>8, <1>9 DEF Next, Execute

\* The store with its lock, events and waiters implements IdempotentExecution:
\* to its callers, execute() runs or replays the operation in one step.
THEOREM Refinement == Spec => Implements
  <1>1. QED
    BY AbstractInit, AbstractStep, InitInv, Inductive, PTL DEF Spec, Implements, Abstract!AbsSpec
=============================================================================
