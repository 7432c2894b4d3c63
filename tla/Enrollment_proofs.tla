--------------------------- MODULE Enrollment_proofs ---------------------------
(***************************************************************************)
(* Proofs about Enrollment, for any number of concurrent executions,       *)
(* Agents, documents, claims, requests and policy decisions.               *)
(***************************************************************************)
EXTENDS Enrollment, TLAPS

\* Nobody waits for a factory that is over.
WaitersHaveFactory ==
  \A t \in Tasks : pc[t] = "waiting" => pending[agent[t]] # None

\* A task that started knows its Agent and request, one that did not has no reply, and
\* one that updates found a record.
Started ==
  \A t \in Tasks :
    /\ pc[t] # "idle" => agent[t] \in Agents /\ request[t] \in Request
    /\ pc[t] = "idle" => agent[t] = None /\ reply[t] = None
    /\ pc[t] = "updating" => snapshot[t] # None

\* Who is creating supplied the required claims.
CreatorsComplete ==
  \A t \in Tasks :
    pc[t] \in {"creating", "waiting", "admitting"} => RequiredClaims \subseteq request[t].claims

\* What an update starts from is an earlier state of the Agent's only enrollment.
SnapshotsGenuine ==
  \A t \in Tasks : pc[t] = "updating" =>
    /\ records[agent[t]] # None
    /\ snapshot[t].creator = records[agent[t]].creator
    /\ snapshot[t].status \in given[agent[t]]
    /\ RequiredClaims \subseteq snapshot[t].claims

\* A record is only created where there is none.
AdmittingIsFirst == \A a \in Agents : pending[a] # None => records[a] = None

IInv ==
  /\ TypeOK
  /\ Started
  /\ SoleFactory
  /\ WaitersHaveFactory
  /\ CreatorsComplete
  /\ SnapshotsGenuine
  /\ AdmittingIsFirst
  /\ CompleteClaims
  /\ StatusGiven
-----------------------------------------------------------------------------
LEMMA EffectiveType ==
  ASSUME NEW r \in Requests
  PROVE  Effective(r) \in Request /\ Effective(r).claims = r.claims
  <1>1. r \in Request
    BY RequestsAssumption
  <1>2. QED
    BY <1>1 DEF Effective, Request

\* An answer made from a record of the Agent's status history is a reply.
LEMMA ResultType ==
  ASSUME NEW record \in Record, NEW r \in Request
  PROVE  /\ Result(record, r) \in Reply
         /\ Result(record, r).status = record.status
         /\ Result(record, r) # None
  <1>1. Result(record, r) \in Reply /\ Result(record, r).status = record.status
    BY DEF Result, Reply, Record, Request
  <1>2. QED
    BY <1>1, NoneAssumption

LEMMA RefusalType == \A c \in {403, 422, 500} : [code |-> c] \in Reply /\ [code |-> c] # None
  <1>1. \A c \in {403, 422, 500} : [code |-> c] \in Reply
    BY DEF Reply
  <1>2. QED
    BY <1>1, NoneAssumption

LEMMA CreatedType ==
  ASSUME IInv, NEW t \in Tasks, NEW d \in Decisions, pc[t] = "admitting"
  PROVE  /\ Created(t, d) \in Record /\ Created(t, d) # None
         /\ RequiredClaims \subseteq Created(t, d).claims
         /\ Created(t, d).status = d.status /\ d.status \in Statuses
  <1>1. request[t] \in Request /\ RequiredClaims \subseteq request[t].claims
    BY DEF IInv, Started, CreatorsComplete
  <1>2. d.status \in Statuses
    BY DecisionsAssumption DEF Decision, Statuses
  <1>3. Created(t, d) \in Record
    BY <1>1, <1>2 DEF Created, Record, Statuses
  <1>4. QED
    BY <1>1, <1>2, <1>3, RequiredAssumption, NoneAssumption DEF Created

LEMMA UpdatedType ==
  ASSUME IInv, NEW t \in Tasks, NEW d \in Decisions, pc[t] = "updating"
  PROVE  /\ Updated(t, d) \in Record /\ Updated(t, d) # None
         /\ RequiredClaims \subseteq Updated(t, d).claims
         /\ Updated(t, d).status = snapshot[t].status
         /\ Updated(t, d).creator = snapshot[t].creator
  <1>1. snapshot[t] \in Record /\ request[t] \in Request
    BY DEF IInv, Started, TypeOK
  <1>2. RequiredClaims \subseteq snapshot[t].claims
    BY DEF IInv, SnapshotsGenuine
  <1>3. d.owner # None => d.owner \in BOOLEAN
    BY DecisionsAssumption DEF Decision
  <1>4. Updated(t, d) \in Record
    BY <1>1, <1>3 DEF Updated, Record
  <1>5. QED
    BY <1>1, <1>2, <1>4, NoneAssumption DEF Updated, Record

-----------------------------------------------------------------------------
LEMMA InitInv == Init => IInv
  <1> SUFFICES ASSUME Init PROVE IInv
    OBVIOUS
  <1>1. TypeOK
    BY MaxSavesAssumption DEF Init, TypeOK
  <1>2. QED
    BY <1>1 DEF Init, IInv, Started, SoleFactory, WaitersHaveFactory, CreatorsComplete,
         SnapshotsGenuine, AdmittingIsFirst, CompleteClaims, StatusGiven

LEMMA FindStep ==
  ASSUME IInv, NEW t \in Tasks, NEW a \in Agents, NEW body \in Requests, Find(t, a, body)
  PROVE  IInv'
  <1> DEFINE r == Effective(body)
  <1>1. r \in Request
    BY EffectiveType
  <1>2. /\ pc[t] = "idle" /\ UNCHANGED <<records, pending, given, saves>>
        /\ agent' = [agent EXCEPT ![t] = a]
        /\ request' = [request EXCEPT ![t] = r]
        /\ snapshot' = [snapshot EXCEPT ![t] = records[a]]
    BY DEF Find
  <1>3. /\ pc' = [pc EXCEPT ![t] = pc'[t]]
        /\ pc'[t] \in {"updating", "done", "creating"}
        /\ pc'[t] = "updating" <=> records[a] # None
        /\ pc'[t] = "creating" => RequiredClaims \subseteq r.claims
    BY DEF Find, Unmet, IInv, TypeOK
  <1>4. reply' = [reply EXCEPT ![t] = reply'[t]] /\ reply'[t] \in {None, [code |-> 422]}
    BY DEF Find, IInv, TypeOK
  <1>5. TypeOK'
    BY <1>1, <1>2, <1>3, <1>4, RefusalType DEF IInv, TypeOK
  <1>6. Started'
    BY <1>1, <1>2, <1>3, <1>4, NoneAssumption DEF IInv, TypeOK, Started
  <1>7. SoleFactory' /\ WaitersHaveFactory' /\ AdmittingIsFirst'
    <2>1. \A u \in Tasks : /\ u # t => pc'[u] = pc[u] /\ agent'[u] = agent[u]
                           /\ pc'[t] \notin {"admitting", "waiting"}
      BY <1>2, <1>3 DEF IInv, TypeOK
    <2>2. SoleFactory'
      BY <1>2, <2>1 DEF IInv, SoleFactory
    <2>3. WaitersHaveFactory' /\ AdmittingIsFirst'
      BY <1>2, <2>1 DEF IInv, WaitersHaveFactory, AdmittingIsFirst
    <2>4. QED
      BY <2>2, <2>3
  <1>8. CreatorsComplete'
    BY <1>2, <1>3 DEF IInv, TypeOK, CreatorsComplete
  <1>9. SnapshotsGenuine'
    BY <1>2, <1>3 DEF IInv, TypeOK, SnapshotsGenuine, StatusGiven, CompleteClaims
  <1>10. CompleteClaims'
    BY <1>2 DEF IInv, CompleteClaims
  <1>11. StatusGiven'
    <2>1. \A u \in Tasks : u # t => agent'[u] = agent[u] /\ reply'[u] = reply[u]
      BY <1>2, <1>4 DEF IInv, TypeOK
    <2>2. reply'[t] = None \/ reply'[t].code # 200
      BY <1>4
    <2>3. QED
      BY <1>2, <2>1, <2>2 DEF IInv, StatusGiven
  <1>12. QED
    BY <1>5, <1>6, <1>7, <1>8, <1>9, <1>10, <1>11 DEF IInv

\* An execution without a factory that ends and writes nothing.
LEMMA AnswerStep ==
  ASSUME IInv, NEW t \in Tasks, NEW result, Answer(t, result),
         pc[t] \in {"creating", "waiting", "updating"},
         UNCHANGED <<store, agent, request, snapshot, given, saves>>,
         result \in Reply, result.code = 200 => result.status \in given[agent[t]]
  PROVE  IInv'
  <1>1. /\ pc' = [pc EXCEPT ![t] = "done"] /\ reply' = [reply EXCEPT ![t] = result]
        /\ UNCHANGED <<records, pending, agent, request, snapshot, given, saves>>
    BY DEF Answer, store
  <1>2. TypeOK'
    BY <1>1 DEF IInv, TypeOK
  <1>3. Started' /\ CreatorsComplete' /\ SnapshotsGenuine'
    BY <1>1 DEF IInv, TypeOK, Started, CreatorsComplete, SnapshotsGenuine
  <1>4. SoleFactory' /\ WaitersHaveFactory' /\ AdmittingIsFirst' /\ CompleteClaims'
    BY <1>1 DEF IInv, TypeOK, SoleFactory, WaitersHaveFactory, AdmittingIsFirst, CompleteClaims
  <1>5. StatusGiven'
    BY <1>1 DEF IInv, TypeOK, StatusGiven
  <1>6. QED
    BY <1>2, <1>3, <1>4, <1>5 DEF IInv

LEMMA ReuseStep == ASSUME IInv, NEW t \in Tasks, Reuse(t) PROVE IInv'
  <1> DEFINE record == records[agent[t]]
  <1>1. record \in Record /\ request[t] \in Request /\ record.status \in given[agent[t]]
    BY DEF Reuse, IInv, Started, TypeOK, StatusGiven
  <1>2. Answer(t, Result(record, request[t]))
    BY DEF Reuse
  <1>3. QED
    BY <1>1, <1>2, AnswerStep, ResultType DEF Reuse

LEMMA UpdateAnswerStep ==
  ASSUME IInv, NEW t \in Tasks, NEW d \in Decisions,
         UpdateRefused(t, d) \/ UpdateSkipped(t, d) \/ UpdateIncomplete(t, d)
  PROVE  IInv'
  <1>1. CASE UpdateRefused(t, d) \/ UpdateIncomplete(t, d)
    BY <1>1, AnswerStep, RefusalType DEF UpdateRefused, UpdateIncomplete
  <1>2. CASE UpdateSkipped(t, d)
    <2>1. /\ snapshot[t] \in Record /\ request[t] \in Request
          /\ snapshot[t].status \in given[agent[t]]
      BY <1>2 DEF UpdateSkipped, IInv, Started, TypeOK, SnapshotsGenuine
    <2>2. QED
      BY <1>2, <2>1, AnswerStep, ResultType DEF UpdateSkipped
  <1>3. QED
    BY <1>1, <1>2

LEMMA AbortStep == ASSUME IInv, NEW t \in Tasks, Abort(t) PROVE IInv'
  BY AnswerStep, RefusalType DEF Abort

LEMMA CreationQueueStep ==
  ASSUME IInv, NEW t \in Tasks, ClaimCreation(t) \/ AwaitCreation(t)
  PROVE  IInv'
  <1> USE DEF ClaimCreation, AwaitCreation
  <1>1. agent[t] \in Agents /\ pc[t] = "creating"
    BY DEF IInv, Started
  <1>2. TypeOK'
    BY DEF IInv, TypeOK, store
  <1>3. Started' /\ CreatorsComplete' /\ SnapshotsGenuine'
    BY DEF IInv, TypeOK, Started, CreatorsComplete, SnapshotsGenuine, store
  <1>4. SoleFactory'
    BY <1>1, NoneAssumption DEF IInv, TypeOK, SoleFactory, store
  <1>5. WaitersHaveFactory' /\ AdmittingIsFirst'
    BY <1>1, NoneAssumption DEF IInv, TypeOK, WaitersHaveFactory, AdmittingIsFirst, Started, store
  <1>6. CompleteClaims' /\ StatusGiven'
    BY DEF IInv, TypeOK, CompleteClaims, StatusGiven, store
  <1>7. QED
    BY <1>2, <1>3, <1>4, <1>5, <1>6 DEF IInv

\* What the end of a factory does to the tasks, whatever it leaves in the store.
LEMMA ReleaseKeeps ==
  ASSUME IInv, NEW t \in Tasks, pc[t] = "admitting", NEW result \in Reply, Release(t, result),
         UNCHANGED <<agent, request, snapshot, saves>>
  PROVE  /\ agent[t] \in Agents /\ pending[agent[t]] = t /\ records[agent[t]] = None
         /\ pc' \in [Tasks -> {"idle", "creating", "waiting", "admitting", "updating", "done"}]
         /\ pending' \in [Agents -> Tasks \cup {None}]
         /\ reply' \in [Tasks -> Reply \cup {None}]
         /\ reply'[t] = result /\ \A u \in Tasks : u # t => reply'[u] = reply[u]
         /\ Started' /\ CreatorsComplete' /\ SoleFactory' /\ WaitersHaveFactory'
         /\ \A u \in Tasks : pc'[u] = "updating" => pc[u] = "updating" /\ agent[u] # agent[t]
         /\ \A a \in Agents : pending'[a] # None => a # agent[t] /\ pending[a] # None
  <1> USE DEF Release
  <1>1. agent[t] \in Agents /\ pending[agent[t]] = t
    BY NoneAssumption DEF IInv, Started, SoleFactory
  <1>2. records[agent[t]] = None
    BY <1>1, NoneAssumption DEF IInv, AdmittingIsFirst
  <1>3. /\ pc' \in [Tasks -> {"idle", "creating", "waiting", "admitting", "updating", "done"}]
        /\ pending' \in [Agents -> Tasks \cup {None}]
        /\ reply' \in [Tasks -> Reply \cup {None}]
    BY DEF IInv, TypeOK
  <1>4. reply'[t] = result /\ \A u \in Tasks : u # t => reply'[u] = reply[u]
    BY DEF IInv, TypeOK
  <1>5. Started'
    BY DEF IInv, TypeOK, Started
  <1>6. CreatorsComplete'
    BY DEF IInv, TypeOK, CreatorsComplete
  <1>7. SoleFactory'
    BY <1>1, NoneAssumption DEF IInv, TypeOK, SoleFactory
  <1>8. WaitersHaveFactory'
    BY <1>1 DEF IInv, TypeOK, WaitersHaveFactory, Started
  <1>9. \A u \in Tasks : pc'[u] = "updating" => pc[u] = "updating" /\ agent[u] # agent[t]
    BY <1>2 DEF IInv, SnapshotsGenuine
  <1>10. \A a \in Agents : pending'[a] # None => a # agent[t] /\ pending[a] # None
    BY <1>1 DEF IInv, TypeOK
  <1>11. QED
    BY <1>1, <1>2, <1>3, <1>4, <1>5, <1>6, <1>7, <1>8, <1>9, <1>10

LEMMA AdmitStep == ASSUME IInv, NEW t \in Tasks, NEW d \in Decisions, Admit(t, d) PROVE IInv'
  <1> DEFINE a == agent[t]
             new == Created(t, d)
             result == Result(new, request[t])
  <1>1. /\ pc[t] = "admitting" /\ Release(t, result)
        /\ records' = [records EXCEPT ![a] = new]
        /\ given' = [given EXCEPT ![a] = @ \cup {d.status}]
        /\ UNCHANGED <<agent, request, snapshot, saves>>
    BY DEF Admit
  <1>2. /\ new \in Record /\ new # None /\ RequiredClaims \subseteq new.claims
        /\ new.status = d.status /\ d.status \in Statuses
    BY <1>1, CreatedType
  <1>3. request[t] \in Request
    BY <1>1 DEF IInv, Started
  <1>4. result \in Reply /\ result.status = d.status
    BY <1>2, <1>3, ResultType
  <1>5. /\ a \in Agents /\ records[a] = None
        /\ pc' \in [Tasks -> {"idle", "creating", "waiting", "admitting", "updating", "done"}]
        /\ pending' \in [Agents -> Tasks \cup {None}]
        /\ reply' \in [Tasks -> Reply \cup {None}]
        /\ reply'[t] = result /\ \A u \in Tasks : u # t => reply'[u] = reply[u]
        /\ Started' /\ CreatorsComplete' /\ SoleFactory' /\ WaitersHaveFactory'
        /\ \A u \in Tasks : pc'[u] = "updating" => pc[u] = "updating" /\ agent[u] # a
        /\ \A b \in Agents : pending'[b] # None => b # a /\ pending[b] # None
    BY <1>1, <1>4, ReleaseKeeps
  <1>6. /\ records'[a] = new /\ \A b \in Agents : b # a => records'[b] = records[b]
        /\ given'[a] = given[a] \cup {d.status} /\ \A b \in Agents : given[b] \subseteq given'[b]
    BY <1>1, <1>5 DEF IInv, TypeOK
  <1>7. TypeOK'
    BY <1>1, <1>2, <1>5 DEF IInv, TypeOK
  <1>8. SnapshotsGenuine'
    <2> SUFFICES ASSUME NEW u \in Tasks, pc'[u] = "updating"
                 PROVE  /\ records'[agent[u]] # None
                        /\ snapshot[u].creator = records'[agent[u]].creator
                        /\ snapshot[u].status \in given'[agent[u]]
                        /\ RequiredClaims \subseteq snapshot[u].claims
      BY <1>1 DEF SnapshotsGenuine
    <2>1. pc[u] = "updating" /\ agent[u] # a /\ agent[u] \in Agents
      BY <1>5 DEF IInv, Started
    <2>2. QED
      BY <2>1, <1>6 DEF IInv, SnapshotsGenuine
  <1>9. AdmittingIsFirst' /\ CompleteClaims'
    BY <1>2, <1>5, <1>6 DEF IInv, AdmittingIsFirst, CompleteClaims
  <1>10. StatusGiven'
    <2>1. \A b \in Agents : records'[b] # None => records'[b].status \in given'[b]
      BY <1>2, <1>6 DEF IInv, StatusGiven
    <2>2. ASSUME NEW u \in Tasks, reply'[u] # None, reply'[u].code = 200
          PROVE  reply'[u].status \in given'[agent'[u]]
      <3>1. CASE u = t
        BY <3>1, <1>1, <1>4, <1>5, <1>6
      <3>2. CASE u # t
        <4>1. reply[u].status \in given[agent[u]] /\ agent[u] \in Agents
          BY <3>2, <2>2, <1>5 DEF IInv, StatusGiven, Started
        <4>2. CASE agent[u] = a
          BY <3>2, <4>1, <4>2, <1>1, <1>5, <1>6
        <4>3. CASE agent[u] # a
          BY <3>2, <4>1, <4>3, <1>1, <1>5, <1>6
        <4>4. QED
          BY <4>2, <4>3
      <3>3. QED
        BY <3>1, <3>2
    <2>3. QED
      BY <2>1, <2>2 DEF StatusGiven
  <1>11. QED
    BY <1>5, <1>7, <1>8, <1>9, <1>10 DEF IInv

LEMMA AdmissionFailsStep == ASSUME IInv, NEW t \in Tasks, AdmissionFails(t) PROVE IInv'
  <1> DEFINE result == [code |-> 500]
  <1>1. /\ pc[t] = "admitting" /\ Release(t, result) /\ result \in Reply
        /\ UNCHANGED <<records, agent, request, snapshot, given, saves>>
    BY RefusalType DEF AdmissionFails
  <1>2. /\ pc' \in [Tasks -> {"idle", "creating", "waiting", "admitting", "updating", "done"}]
        /\ pending' \in [Agents -> Tasks \cup {None}]
        /\ reply' \in [Tasks -> Reply \cup {None}]
        /\ reply'[t] = result /\ \A u \in Tasks : u # t => reply'[u] = reply[u]
        /\ Started' /\ CreatorsComplete' /\ SoleFactory' /\ WaitersHaveFactory'
        /\ \A u \in Tasks : pc'[u] = "updating" => pc[u] = "updating"
        /\ \A a \in Agents : pending'[a] # None => pending[a] # None
    BY <1>1, ReleaseKeeps
  <1>3. TypeOK' /\ SnapshotsGenuine' /\ AdmittingIsFirst' /\ CompleteClaims' /\ StatusGiven'
    BY <1>1, <1>2 DEF IInv, TypeOK, SnapshotsGenuine, AdmittingIsFirst, CompleteClaims, StatusGiven
  <1>4. QED
    BY <1>2, <1>3 DEF IInv

\* A save made from a stale record still keeps the identity, the required claims
\* and a status the Agent once had.
LEMMA UpdateSavedStep ==
  ASSUME IInv, NEW t \in Tasks, NEW d \in Decisions, UpdateSaved(t, d)
  PROVE  IInv'
  <1> DEFINE a == agent[t]
             new == Updated(t, d)
             result == Result(new, request[t])
  <1>1. /\ pc[t] = "updating" /\ pc' = [pc EXCEPT ![t] = "done"]
        /\ reply' = [reply EXCEPT ![t] = result]
        /\ records' = [records EXCEPT ![a] = new]
        /\ UNCHANGED <<pending, agent, request, snapshot, given, saves>>
    BY DEF UpdateSaved, Answer
  <1>2. a \in Agents /\ request[t] \in Request
    BY <1>1 DEF IInv, Started
  <1>3. /\ new \in Record /\ new # None /\ RequiredClaims \subseteq new.claims
        /\ new.status = snapshot[t].status /\ new.creator = snapshot[t].creator
    BY <1>1, UpdatedType
  <1>4. /\ records[a] # None /\ new.creator = records[a].creator /\ new.status \in given[a]
    BY <1>1, <1>3 DEF IInv, SnapshotsGenuine
  <1>5. result \in Reply /\ result.status = new.status
    BY <1>2, <1>3, ResultType
  <1>6. TypeOK'
    BY <1>1, <1>3, <1>5 DEF IInv, TypeOK
  <1>7. records'[a] = new /\ \A b \in Agents : b # a => records'[b] = records[b]
    BY <1>1, <1>2 DEF IInv, TypeOK
  <1>8. Started' /\ CreatorsComplete'
    BY <1>1 DEF IInv, TypeOK, Started, CreatorsComplete
  <1>9. SoleFactory' /\ WaitersHaveFactory'
    BY <1>1 DEF IInv, TypeOK, SoleFactory, WaitersHaveFactory
  <1>10. SnapshotsGenuine'
    <2> SUFFICES ASSUME NEW u \in Tasks, pc'[u] = "updating"
                 PROVE  /\ records'[agent[u]] # None
                        /\ snapshot[u].creator = records'[agent[u]].creator
                        /\ snapshot[u].status \in given[agent[u]]
                        /\ RequiredClaims \subseteq snapshot[u].claims
      BY <1>1 DEF SnapshotsGenuine
    <2>1. pc[u] = "updating" /\ agent[u] \in Agents
      BY <1>1 DEF IInv, TypeOK, Started
    <2>2. QED
      BY <2>1, <1>3, <1>4, <1>7 DEF IInv, SnapshotsGenuine
  <1>11. AdmittingIsFirst' /\ CompleteClaims'
    BY <1>1, <1>3, <1>4, <1>7 DEF IInv, AdmittingIsFirst, CompleteClaims
  <1>12. StatusGiven'
    BY <1>1, <1>4, <1>5, <1>7 DEF IInv, TypeOK, StatusGiven
  <1>13. QED
    BY <1>6, <1>8, <1>9, <1>10, <1>11, <1>12 DEF IInv

LEMMA ApplicationStep == IInv /\ Application => IInv'
  <1> SUFFICES ASSUME IInv, NEW a \in Agents,
                      \/ \E s \in Statuses : SetStatus(a, s)
                      \/ \E d \in RequiredDocs : RequireAgain(a, d)
               PROVE  IInv'
    BY DEF Application
  <1>1. /\ records[a] # None /\ records[a] \in Record
        /\ UNCHANGED <<pending, pc, agent, request, snapshot, reply>>
        /\ saves' \in 0..MaxSaves
    BY MaxSavesAssumption DEF SetStatus, RequireAgain, IInv, TypeOK, local
  <1>2. PICK new \in Record :
          /\ records' = [records EXCEPT ![a] = new]
          /\ new.creator = records[a].creator /\ new.claims = records[a].claims
          /\ new.status \in given'[a]
    <2>1. CASE \E s \in Statuses : SetStatus(a, s)
      <3>1. PICK s \in Statuses : SetStatus(a, s)
        BY <2>1
      <3>2. [records[a] EXCEPT !.status = s] \in Record
        BY <1>1 DEF Record
      <3>3. s \in given'[a]
        BY <3>1 DEF SetStatus, IInv, TypeOK
      <3>4. QED
        BY <1>1, <3>1, <3>2, <3>3 DEF SetStatus, Record
    <2>2. CASE \E d \in RequiredDocs : RequireAgain(a, d)
      <3>1. PICK d \in RequiredDocs : RequireAgain(a, d)
        BY <2>2
      <3>2. [records[a] EXCEPT !.renew = @ \cup {d}] \in Record
        BY <1>1, RequiredAssumption DEF Record
      <3>3. QED
        BY <1>1, <3>1, <3>2 DEF RequireAgain, Record, IInv, StatusGiven
    <2>3. QED
      BY <2>1, <2>2
  <1>3. /\ given' \in [Agents -> SUBSET Statuses]
        /\ \A b \in Agents : given[b] \subseteq given'[b]
    BY DEF SetStatus, RequireAgain, IInv, TypeOK
  <1>4. new # None /\ records'[a] = new /\ \A b \in Agents : b # a => records'[b] = records[b]
    BY <1>1, <1>2, NoneAssumption DEF IInv, TypeOK
  <1>5. TypeOK'
    BY <1>1, <1>2, <1>3 DEF IInv, TypeOK
  <1>6. Started' /\ CreatorsComplete' /\ SoleFactory' /\ WaitersHaveFactory'
    BY <1>1 DEF IInv, Started, CreatorsComplete, SoleFactory, WaitersHaveFactory
  <1>7. SnapshotsGenuine'
    BY <1>1, <1>2, <1>3, <1>4 DEF IInv, SnapshotsGenuine, Started
  <1>8. AdmittingIsFirst' /\ CompleteClaims'
    BY <1>1, <1>2, <1>4 DEF IInv, AdmittingIsFirst, CompleteClaims
  <1>9. StatusGiven'
    <2>1. \A u \in Tasks : reply[u] # None /\ reply[u].code = 200 =>
            reply[u].status \in given'[agent[u]]
      BY <1>3 DEF IInv, StatusGiven, Started
    <2>2. QED
      BY <1>1, <1>2, <1>3, <1>4, <2>1 DEF IInv, StatusGiven
  <1>10. QED
    BY <1>5, <1>6, <1>7, <1>8, <1>9 DEF IInv

LEMMA Inductive == IInv /\ [Next]_vars => IInv'
  <1> SUFFICES ASSUME IInv, [Next]_vars PROVE IInv'
    OBVIOUS
  <1>1. CASE UNCHANGED vars
    BY <1>1 DEF vars, IInv, TypeOK, Started, SoleFactory, WaitersHaveFactory, CreatorsComplete,
         SnapshotsGenuine, AdmittingIsFirst, CompleteClaims, StatusGiven
  <1>2. CASE Application
    BY <1>2, ApplicationStep
  <1>3. ASSUME NEW t \in Tasks, NEW a \in Agents, NEW r \in Requests, Find(t, a, r)
        PROVE  IInv'
    BY <1>3, FindStep
  <1>4. ASSUME NEW t \in Tasks, Step(t) \/ Fail(t)
        PROVE  IInv'
    BY <1>4, ReuseStep, CreationQueueStep, AdmissionFailsStep, AbortStep DEF Step, Fail
  <1>5. ASSUME NEW t \in Tasks, Decide(t)
        PROVE  IInv'
    BY <1>5, AdmitStep, UpdateAnswerStep, UpdateSavedStep DEF Decide
  <1>6. QED
    BY <1>1, <1>2, <1>3, <1>4, <1>5 DEF Next
LEMMA InvariantHolds == Spec => []IInv
  <1>1. Init => IInv
    BY InitInv
  <1>2. IInv /\ [Next]_vars => IInv'
    BY Inductive
  <1>3. QED
    BY <1>1, <1>2, PTL DEF Spec
-----------------------------------------------------------------------------
\* The store, the tasks and the answers keep their types.
THEOREM TypeCorrect == Spec => []TypeOK
  <1>1. IInv => TypeOK
    BY DEF IInv
  <1>2. QED
    BY <1>1, InvariantHolds, PTL

\* find_or_create() runs one factory at a time for an Agent, and its pending event is
\* there exactly while one runs, whichever factories raise.
THEOREM OneFactory == Spec => []SoleFactory
  <1>1. IInv => SoleFactory
    BY DEF IInv
  <1>2. QED
    BY <1>1, InvariantHolds, PTL

\* Every waiter has a factory to wait for.
THEOREM NoLostWaiter == Spec => []WaitersHaveFactory
  <1>1. IInv => WaitersHaveFactory
    BY DEF IInv
  <1>2. QED
    BY <1>1, InvariantHolds, PTL

\* A declaration that is acknowledged, on record or in what an update starts from, was
\* made by a request of that Agent.
DeclaredTo(a) == UNION {Declared(request[t]) : t \in {u \in Tasks : agent[u] = a}}
AcksGenuine ==
  /\ \A a \in Agents : records[a] # None => records[a].acked \subseteq DeclaredTo(a)
  /\ \A t \in Tasks : pc[t] = "updating" => snapshot[t].acked \subseteq DeclaredTo(agent[t])

\* A request stays what it was declared in, for it is set once, when its task starts.
LEMMA DeclarationsStay ==
  ASSUME IInv, [Next]_vars
  PROVE  \A a \in Agents : DeclaredTo(a) \subseteq DeclaredTo(a)'
  <1>1. ASSUME NEW t \in Tasks, NEW a \in Agents, agent[t] = a
        PROVE  agent'[t] = a /\ request'[t] = request[t]
    <2>1. pc[t] # "idle"
      BY <1>1, NoneAssumption DEF IInv, Started
    <2>2. CASE \E u \in Tasks, b \in Agents, r \in Requests : Find(u, b, r)
      BY <1>1, <2>1, <2>2 DEF Find, IInv, TypeOK
    <2>3. CASE UNCHANGED <<agent, request>>
      BY <1>1, <2>3
    <2>4. QED
      BY <2>2, <2>3 DEF Next, Application, SetStatus, RequireAgain, local, Step, Reuse,
         ClaimCreation, AwaitCreation, Decide, Admit, UpdateRefused, UpdateSkipped,
         UpdateIncomplete, UpdateSaved, Fail, AdmissionFails, Abort, vars
  <1>2. QED
    BY <1>1 DEF DeclaredTo

LEMMA AcksStep == ASSUME IInv, AcksGenuine, [Next]_vars PROVE AcksGenuine'
  <1>1. \A a \in Agents : DeclaredTo(a) \subseteq DeclaredTo(a)'
    BY DeclarationsStay
  <1>2. ASSUME NEW t \in Tasks, NEW d \in Decisions, Admit(t, d) PROVE AcksGenuine'
    <2>1. Created(t, d).acked \subseteq DeclaredTo(agent[t])
      BY DEF Created, DeclaredTo
    <2>2. QED
      BY <1>1, <1>2, <2>1 DEF Admit, Release, AcksGenuine, IInv, TypeOK, Started
  <1>3. ASSUME NEW t \in Tasks, NEW d \in Decisions, UpdateSaved(t, d) PROVE AcksGenuine'
    <2>1. pc[t] = "updating" /\ agent[t] \in Agents /\ snapshot[t] \in Record
      BY <1>3 DEF UpdateSaved, IInv, TypeOK, Started
    <2>2. Updated(t, d).acked \subseteq snapshot[t].acked \cup Declared(request[t])
      BY <2>1 DEF Updated, Record
    <2>3. Updated(t, d).acked \subseteq DeclaredTo(agent[t])
      BY <2>1, <2>2 DEF AcksGenuine, DeclaredTo
    <2>4. QED
      BY <1>1, <1>3, <2>1, <2>3 DEF UpdateSaved, Answer, AcksGenuine, IInv, TypeOK, Started
  <1>4. ASSUME NEW t \in Tasks, NEW a \in Agents, NEW r \in Requests, Find(t, a, r)
        PROVE  AcksGenuine'
    BY <1>1, <1>4, NoneAssumption DEF Find, AcksGenuine, IInv, TypeOK, Started
  <1>5. CASE Application
    <2>1. UNCHANGED <<pc, snapshot, agent>>
      BY <1>5 DEF Application, SetStatus, RequireAgain, local
    <2>2. \A a \in Agents : records'[a] # None =>
            records[a] # None /\ records'[a].acked = records[a].acked
      BY <1>5, NoneAssumption DEF Application, SetStatus, RequireAgain, IInv, TypeOK, Record
    <2>3. QED
      BY <1>1, <2>1, <2>2 DEF AcksGenuine, IInv, TypeOK, Started
  <1>6. ASSUME UNCHANGED <<records, snapshot, agent>>,
               \A t \in Tasks : pc'[t] = "updating" => pc[t] = "updating"
        PROVE  AcksGenuine'
    BY <1>1, <1>6 DEF AcksGenuine, IInv, TypeOK, Started
  <1>7. CASE UNCHANGED vars
    BY <1>6, <1>7 DEF vars
  <1>8. ASSUME NEW t \in Tasks, Step(t) \/ Fail(t) PROVE AcksGenuine'
    BY <1>6, <1>8 DEF Step, Fail, Reuse, ClaimCreation, AwaitCreation, AdmissionFails, Abort,
       Answer, Release, store, IInv, TypeOK
  <1>9. ASSUME NEW t \in Tasks, NEW d \in Decisions,
               UpdateRefused(t, d) \/ UpdateSkipped(t, d) \/ UpdateIncomplete(t, d)
        PROVE  AcksGenuine'
    BY <1>6, <1>9 DEF UpdateRefused, UpdateSkipped, UpdateIncomplete, Answer, store, IInv, TypeOK
  <1>10. QED
    BY <1>2, <1>3, <1>4, <1>5, <1>7, <1>8, <1>9 DEF Next, Decide

\* What is on record is sound, however stale the record that an update was merged with:
\* the required claims are there, every status on record or in an answer was decided at
\* creation or set by the application, and what is acknowledged was declared.
THEOREM RecordsAreSound == Spec => []RecordsSound
  <1>1. Init => AcksGenuine
    BY DEF Init, AcksGenuine
  <1>2. IInv /\ AcksGenuine /\ [Next]_vars => AcksGenuine'
    BY AcksStep
  <1>3. IInv /\ AcksGenuine => RecordsSound
    <2>1. AcksGenuine => AckedWasDeclared
      BY DEF AcksGenuine, AckedWasDeclared, DeclaredTo
    <2>2. QED
      BY <2>1 DEF IInv, RecordsSound
  <1>4. QED
    BY <1>1, <1>2, <1>3, InvariantHolds, PTL DEF Spec

LEMMA IdentityKept ==
  ASSUME IInv, [Next]_vars, NEW a \in Agents, records[a] # None
  PROVE  records'[a] # None /\ records'[a].creator = records[a].creator
  <1>1. CASE UNCHANGED records
    BY <1>1
  <1>2. ASSUME NEW t \in Tasks, NEW d \in Decisions, Admit(t, d)
        PROVE  records'[a] = records[a]
    <2>1. pc[t] = "admitting" /\ pending[agent[t]] # None /\ agent[t] \in Agents
      BY <1>2, NoneAssumption DEF Admit, IInv, Started, SoleFactory
    <2>2. agent[t] # a
      BY <2>1 DEF IInv, AdmittingIsFirst
    <2>3. QED
      BY <1>2, <2>2 DEF Admit, IInv, TypeOK
  <1>3. ASSUME NEW t \in Tasks, NEW d \in Decisions, UpdateSaved(t, d)
        PROVE  records'[a] # None /\ records'[a].creator = records[a].creator
    <2>1. pc[t] = "updating" /\ records' = [records EXCEPT ![agent[t]] = Updated(t, d)]
      BY <1>3 DEF UpdateSaved
    <2>2. Updated(t, d) # None /\ Updated(t, d).creator = snapshot[t].creator
      BY <2>1, UpdatedType
    <2>3. snapshot[t].creator = records[agent[t]].creator
      BY <2>1 DEF IInv, SnapshotsGenuine
    <2>4. CASE agent[t] = a
      BY <2>1, <2>2, <2>3, <2>4 DEF IInv, TypeOK
    <2>5. CASE agent[t] # a
      BY <2>1, <2>5 DEF IInv, TypeOK
    <2>6. QED
      BY <2>4, <2>5
  <1>4. ASSUME NEW b \in Agents, NEW s \in Statuses, SetStatus(b, s)
        PROVE  records'[a] # None /\ records'[a].creator = records[a].creator
    <2>1. records[b] \in Record /\ [records[b] EXCEPT !.status = s] \in Record
      BY <1>4 DEF SetStatus, IInv, TypeOK, Record
    <2>2. records' = [records EXCEPT ![b] = [records[b] EXCEPT !.status = s]]
      BY <1>4 DEF SetStatus
    <2>3. QED
      BY <2>1, <2>2, NoneAssumption DEF IInv, TypeOK, Record
  <1>5. ASSUME NEW b \in Agents, NEW d \in RequiredDocs, RequireAgain(b, d)
        PROVE  records'[a] # None /\ records'[a].creator = records[a].creator
    <2>1. /\ records[b] \in Record
          /\ [records[b] EXCEPT !.renew = @ \cup {d}] \in Record
      BY <1>5, RequiredAssumption DEF RequireAgain, IInv, TypeOK, Record
    <2>2. records' = [records EXCEPT ![b] = [records[b] EXCEPT !.renew = @ \cup {d}]]
      BY <1>5 DEF RequireAgain
    <2>3. QED
      BY <2>1, <2>2, NoneAssumption DEF IInv, TypeOK, Record
  <1>6. CASE ~ UNCHANGED records
    <2>1. \/ \E t \in Tasks, d \in Decisions : Admit(t, d) \/ UpdateSaved(t, d)
          \/ \E b \in Agents, s \in Statuses : SetStatus(b, s)
          \/ \E b \in Agents, d \in RequiredDocs : RequireAgain(b, d)
      BY <1>6 DEF Next, Application, Find, Step, Reuse, ClaimCreation, AwaitCreation, Decide,
           UpdateRefused, UpdateSkipped, UpdateIncomplete, Fail, AdmissionFails, Abort,
           store, vars
    <2>2. QED
      BY <2>1, <1>2, <1>3, <1>4, <1>5
  <1>7. QED
    BY <1>1, <1>6

\* Whatever races and however stale the record an update was made from, the Agent
\* keeps the enrollment, with its identity, that was created first.
THEOREM IdentityIsStable == Spec => OneEnrollment
  <1>1. IInv /\ [Next]_vars =>
          [\A a \in Agents : records[a] # None =>
             records'[a] # None /\ records'[a].creator = records[a].creator]_vars
    BY IdentityKept
  <1>2. QED
    BY <1>1, InvariantHolds, PTL DEF Spec, OneEnrollment

\* Only the update that t waits for writes the record and ends t in one step.
LEMMA MergeKeeps ==
  ASSUME IInv, [Next]_vars, NEW t \in Tasks, pc[t] = "updating", pc'[t] = "done",
         records'[agent[t]] # records[agent[t]], snapshot[t] = records[agent[t]]
  PROVE  LET old == records[agent[t]]  new == records'[agent[t]] IN
         /\ old.claims \subseteq new.claims
         /\ old.acked \subseteq new.acked
         /\ new.renew \subseteq old.renew
         /\ new.status = old.status
  <1>1. PICK d \in Decisions : UpdateSaved(t, d)
    <2>1. \/ \E u \in Tasks, d \in Decisions : Admit(u, d) \/ UpdateSaved(u, d)
          \/ \E b \in Agents, s \in Statuses : SetStatus(b, s)
          \/ \E b \in Agents, d \in RequiredDocs : RequireAgain(b, d)
      BY DEF Next, Application, Find, Step, Reuse, ClaimCreation, AwaitCreation, Decide,
           UpdateRefused, UpdateSkipped, UpdateIncomplete, Fail, AdmissionFails, Abort,
           store, vars
    <2>2. ASSUME NEW u \in Tasks, NEW d \in Decisions, Admit(u, d) PROVE FALSE
      <3>1. u # t /\ pc'[t] # "done"
        BY <2>2 DEF Admit, Release
      <3>2. QED
        BY <3>1
    <2>3. ASSUME NEW u \in Tasks, NEW d \in Decisions, UpdateSaved(u, d) PROVE u = t
      BY <2>3 DEF UpdateSaved, Answer, IInv, TypeOK
    <2>4. ASSUME \/ \E b \in Agents, s \in Statuses : SetStatus(b, s)
                 \/ \E b \in Agents, d \in RequiredDocs : RequireAgain(b, d)
          PROVE  pc' = pc
      BY <2>4 DEF SetStatus, RequireAgain, local
    <2>5. QED
      BY <2>1, <2>2, <2>3, <2>4
  <1>2. agent[t] \in Agents /\ snapshot[t] \in Record /\ Updated(t, d) \in Record
    BY UpdatedType DEF IInv, Started, TypeOK
  <1>3. records'[agent[t]] = Updated(t, d)
    BY <1>1, <1>2 DEF UpdateSaved, IInv, TypeOK
  <1>4. /\ snapshot[t].claims \subseteq Updated(t, d).claims
        /\ snapshot[t].acked \subseteq Updated(t, d).acked
        /\ Updated(t, d).renew \subseteq snapshot[t].renew
        /\ Updated(t, d).status = snapshot[t].status
    BY <1>2 DEF Updated, Record
  <1>5. QED
    BY <1>3, <1>4

\* A repeated Enroll keeps the claims, acknowledgements and status on record, and asks for
\* no document again, if nobody wrote between its read and its save (_update_enrollment).
THEOREM MergeIsMonotone == Spec => UndisturbedMerge
  <1>1. IInv /\ [Next]_vars =>
          [\A t \in Tasks :
             pc[t] = "updating" /\ records'[agent[t]] # records[agent[t]]
               /\ pc'[t] = "done" /\ snapshot[t] = records[agent[t]] =>
                 LET old == records[agent[t]]
                     new == records'[agent[t]] IN
                 /\ old.claims \subseteq new.claims
                 /\ old.acked \subseteq new.acked
                 /\ new.renew \subseteq old.renew
                 /\ new.status = old.status]_vars
    BY MergeKeeps
  <1>2. QED
    BY <1>1, InvariantHolds, PTL DEF Spec, UndisturbedMerge
=============================================================================
