---------------------------- MODULE Platform_proofs ----------------------------
(***************************************************************************)
(* Proofs about Platform, for any number of requests, principals, Services *)
(* and identities, any generators of identity material and any clock: its  *)
(* own properties, and that its requests implement IdempotentExecution (by *)
(* way of PlatformIdempotency).                                            *)
(***************************************************************************)
EXTENDS PlatformIdempotency, TLAPS

Holding == {"resolving", "locating", "creating", "storing", "deciding", "handling", "signing",
            "verifying"}
PCs == Holding \cup {"idle", "authorizing", "entering", "transiting", "done"}

\* The request and the record of a task are those that its stage works on.
JobFits(t) ==
  /\ pc[t] # "idle" => job[t] \in Job
  /\ pc[t] = "entering" => job[t].op # "update"
  /\ pc[t] \in {"resolving", "locating", "creating", "storing"} => job[t].op = "provision"
  /\ pc[t] = "deciding" => job[t].op \in {"sign", "verify"}
  /\ pc[t] \in {"handling", "signing"} => job[t].op = "sign"
  /\ pc[t] = "verifying" => job[t].op = "verify"
  /\ pc[t] = "transiting" => job[t].op = "update"
  /\ pc[t] # "idle" /\ job[t].op = "verify" => job[t].assertion \in Signed \cup Forged

SnapshotFits(t) ==
  /\ pc[t] \in {"authorizing", "entering", "deciding", "handling", "signing", "verifying",
                "transiting"} =>
       job[t].op = "provision" \/ snapshot[t] \in Record
  /\ pc[t] = "storing" => snapshot[t] \in Material /\ snapshot[t] \in keys
  /\ pc[t] \in {"authorizing", "transiting"} /\ job[t].op = "update" => Owns(job[t])

Fits(t) == JobFits(t) /\ SnapshotFits(t)

\* A use whose assertion is live is remembered.
UsesRemembered ==
  \A u \in uses :
    /\ u.assertion \in Signed /\ u.at < u.assertion.exp /\ u.at <= now
    /\ pc[u.by] # "idle" /\ u.assertion.service = job[u.by].service
    /\ u.assertion.exp <= now \/ u.assertion.exp <= used[IdentifierOf(u.assertion)]

UsedOnce ==
  \A u, v \in uses :
    IdentifierOf(u.assertion) = IdentifierOf(v.assertion) /\ u # v =>
      u.assertion.exp <= v.at \/ v.assertion.exp <= u.at

IInv ==
  /\ TypeOK
  /\ HoldersProceed
  /\ IdentitiesComplete
  /\ \A t \in Tasks : Fits(t)
  /\ UsesRemembered
  /\ UsedOnce
-----------------------------------------------------------------------------
(* What a step leaves alone. *)

OthersWait(t) ==
  \A u \in Tasks \ {t} : pc'[u] = pc[u] /\ job'[u] = job[u] /\ snapshot'[u] = snapshot[u]

\* Identities are only added and keep their owners; keys and signatures are only added.
Grows ==
  /\ \A i \in Ids : records[i] # None =>
       records'[i] # None /\ records'[i].principal = records[i].principal
  /\ keys \subseteq keys' /\ issued \subseteq issued'

LEMMA JobKinds ==
  \A j \in Job :
    /\ j.op = "provision" => j \in Provision
    /\ j.op = "sign" => j \in SignRequest
    /\ j.op = "verify" => j \in Verification
    /\ j.op = "update" => j \in Lifecycle
    /\ j.op \in {"provision", "sign", "verify", "update"}
    /\ j.principal \in Principals
  BY DEF Job, Provision, SignRequest, Verification, Lifecycle

\* The requests of every kind that hold a key.
LEMMA JobKeys ==
  ASSUME NEW j \in Job, j.op # "update"
  PROVE  j.key \in Keys /\ j.service \in Services
  BY DEF Job, Provision, SignRequest, Verification, Lifecycle

LEMMA OthersKeep ==
  ASSUME IInv, Grows, NEW t \in Tasks, OthersWait(t), Fits(t)'
  PROVE  \A u \in Tasks : Fits(u)'
  <1> SUFFICES ASSUME NEW u \in Tasks \ {t} PROVE Fits(u)'
    OBVIOUS
  <1>1. Fits(u) /\ pc'[u] = pc[u] /\ job'[u] = job[u] /\ snapshot'[u] = snapshot[u]
    BY DEF IInv, OthersWait
  <1>2. Signed \subseteq Signed'
    BY DEF Signed, Grows
  <1>3. JobFits(u)'
    BY <1>1, <1>2 DEF Fits, JobFits
  <1>4. ASSUME pc[u] \in {"authorizing", "transiting"}, job[u].op = "update"
        PROVE  Owns(job[u])'
    <2>1. job[u] \in Lifecycle /\ Owns(job[u])
      BY <1>1, <1>4, JobKinds DEF Fits, JobFits, SnapshotFits
    <2>2. QED
      BY <1>1, <2>1 DEF Owns, Grows, Lifecycle
  <1>5. SnapshotFits(u)'
    BY <1>1, <1>4 DEF Fits, SnapshotFits, Grows
  <1>6. QED
    BY <1>3, <1>5 DEF Fits
-----------------------------------------------------------------------------
(* Who holds executions and creations after a step of t. *)

HoldersOf(t) ==
  /\ \A k \in Principals \X Keys :
       \/ executing'[k] = None
       \/ executing'[k] # t /\ executing'[k] = executing[k]
       \/ executing'[k] = t /\ pc'[t] \in Holding /\ KeyOf(t)' = k
  /\ \A s \in Scope :
       \/ pending'[s] = None
       \/ pending'[s] # t /\ pending'[s] = pending[s]
       \/ pending'[s] = t /\ pc'[t] \in {"creating", "storing"} /\ ScopeOf(job'[t]) = s

LEMMA HoldersKeep ==
  ASSUME IInv, NEW t \in Tasks, OthersWait(t), HoldersOf(t)
  PROVE  HoldersProceed'
  <1>1. HoldersProceed /\ TypeOK
    BY DEF IInv
  <1>2. ASSUME NEW k \in Principals \X Keys, executing'[k] # None
        PROVE  /\ pc'[executing'[k]] \notin {"idle", "authorizing", "entering", "transiting", "done"}
               /\ KeyOf(executing[k])' = k
    <2>1. CASE executing'[k] = t
      BY <1>2, <2>1 DEF HoldersOf, Holding
    <2>2. CASE executing'[k] # t
      <3>1. executing'[k] = executing[k] /\ executing[k] \in Tasks \ {t}
        BY <1>1, <1>2, <2>2 DEF HoldersOf, TypeOK
      <3>2. QED
        BY <1>1, <1>2, <3>1 DEF HoldersProceed, OthersWait, KeyOf
    <2>3. QED
      BY <2>1, <2>2
  <1>3. ASSUME NEW s \in Scope, pending'[s] # None
        PROVE  pc'[pending'[s]] \in {"creating", "storing"} /\ ScopeOf(job'[pending'[s]]) = s
    <2>1. CASE pending'[s] = t
      BY <1>3, <2>1 DEF HoldersOf
    <2>2. CASE pending'[s] # t
      <3>1. pending'[s] = pending[s] /\ pending[s] \in Tasks \ {t}
        BY <1>1, <1>3, <2>2 DEF HoldersOf, TypeOK
      <3>2. QED
        BY <1>1, <1>3, <3>1 DEF HoldersProceed, OthersWait
    <2>3. QED
      BY <2>1, <2>2
  <1>4. QED
    BY <1>2, <1>3 DEF HoldersProceed

\* A step that takes and releases nothing and stays within the same part of the request.
LEMMA HoldersSame ==
  ASSUME IInv, NEW t \in Tasks, OthersWait(t), UNCHANGED <<executing, pending>>,
         \/ pc[t] \notin Holding
         \/ /\ pc'[t] \in Holding /\ job'[t] = job[t]
            /\ pc[t] \in {"creating", "storing"} => pc'[t] \in {"creating", "storing"}
  PROVE  HoldersOf(t)
  BY DEF IInv, HoldersProceed, HoldersOf, TypeOK, Holding, KeyOf, Scope

\* A step that answers an idempotent request releases what t executes.
LEMMA HoldersConclude ==
  ASSUME IInv, NEW t \in Tasks, NEW r, Conclude(t, r), pc[t] \in Holding,
         job[t] \in Job, job[t].op # "update",
         \A s \in Scope : \/ pending'[s] = None
                          \/ pending'[s] = pending[s] /\ pending'[s] # t
  PROVE  OthersWait(t) /\ HoldersOf(t)
  <1>1. KeyOf(t) \in Principals \X Keys /\ TypeOK /\ HoldersProceed
    BY JobKinds, JobKeys DEF KeyOf, IInv
  <1>2. OthersWait(t)
    BY <1>1 DEF OthersWait, Conclude, Answer, TypeOK
  <1>3. \A k \in Principals \X Keys : executing[k] = t => k = KeyOf(t)
    BY <1>1, NoneAssumption DEF HoldersProceed
  <1>4. executing' = [executing EXCEPT ![KeyOf(t)] = None]
    BY DEF Conclude
  <1>5. \A k \in Principals \X Keys :
          \/ executing'[k] = None
          \/ executing'[k] = executing[k] /\ executing'[k] # t
    BY <1>1, <1>3, <1>4 DEF TypeOK
  <1>6. QED
    BY <1>2, <1>5 DEF HoldersOf
-----------------------------------------------------------------------------
(* The identity store and the uses of assertions under steps that do not touch them. *)

LEMMA IdentitiesKeep ==
  ASSUME IInv, NEW t \in Tasks, OthersWait(t), UNCHANGED <<records, byDid, byScope>>,
         keys \subseteq keys',
         \A s \in Scope : pending[s] # t => pending'[s] = pending[s],
         pc'[t] \in {"creating", "storing"} =>
           /\ ScopeOf(job'[t]) \in Scope
           /\ pending'[ScopeOf(job'[t])] = t /\ byScope[ScopeOf(job'[t])] = None
  PROVE  IdentitiesComplete'
  <1>1. RecordsIndexed' /\ IndexesLead'
    BY DEF IInv, IdentitiesComplete, RecordsIndexed, IndexesLead
  <1>2. ASSUME NEW u \in Tasks \ {t}, pc'[u] \in {"creating", "storing"}
        PROVE  pending'[ScopeOf(job'[u])] = u /\ byScope'[ScopeOf(job'[u])] = None
    <2>1. pc[u] \in {"creating", "storing"} /\ job'[u] = job[u] /\ Fits(u)
      BY <1>2 DEF OthersWait, IInv
    <2>2. pending[ScopeOf(job[u])] = u /\ byScope[ScopeOf(job[u])] = None
      BY <2>1 DEF IInv, IdentitiesComplete, SoleCreator
    <2>3. ScopeOf(job[u]) \in Scope
      BY <2>1, JobKinds, JobKeys DEF Fits, JobFits, Scope, ScopeOf
    <2>4. QED
      BY <2>1, <2>2, <2>3
  <1>3. SoleCreator'
    BY <1>2 DEF SoleCreator
  <1>4. QED
    BY <1>1, <1>3 DEF IdentitiesComplete

LEMMA UsesKeep ==
  ASSUME IInv, NEW t \in Tasks, OthersWait(t), UNCHANGED <<now, used, uses>>, Grows,
         pc'[t] # "idle", pc[t] # "idle" => job'[t] = job[t]
  PROVE  UsesRemembered' /\ UsedOnce'
  <1>1. Signed \subseteq Signed'
    BY DEF Signed, Grows
  <1>2. \A u \in uses : u.by \in Tasks
    BY DEF IInv, TypeOK
  <1>3. \A u \in uses : pc[u.by] # "idle" => pc'[u.by] # "idle" /\ job'[u.by] = job[u.by]
    BY <1>2 DEF OthersWait
  <1>4. UsesRemembered'
    BY <1>1, <1>3 DEF IInv, UsesRemembered
  <1>5. UsedOnce'
    BY DEF IInv, UsedOnce
  <1>6. QED
    BY <1>4, <1>5
-----------------------------------------------------------------------------
(* Types *)

TaskTypes ==
  /\ pc \in [Tasks -> PCs]
  /\ job \in [Tasks -> Job \cup {None}]
  /\ snapshot \in [Tasks -> Record \cup Material \cup {None}]
  /\ until \in [Tasks -> Nat]
  /\ reply \in [Tasks -> Reply \cup {None}]

LEMMA TypesOfTasks == TypeOK => TaskTypes
  BY DEF TypeOK, TaskTypes, PCs, Holding

LEMMA TypesTogether ==
  ASSUME TypeOK, TaskTypes', now' \in Nat,
         records' \in [Ids -> Record \cup {None}],
         byDid' \in [Dids -> Ids \cup {None}],
         byScope' \in [Scope -> Ids \cup {None}],
         pending' \in [Scope -> Tasks \cup {None}],
         keys' \subseteq Material,
         used' \in [Identifier -> Nat],
         executing' \in [Principals \X Keys -> Tasks \cup {None}],
         memo' \in [Principals \X Keys -> Memo \cup {None}],
         issued' \subseteq [assertion : Assertion, by : Tasks],
         uses' \subseteq [assertion : Assertion, at : Nat, by : Tasks]
  PROVE  TypeOK'
  BY DEF TypeOK, TaskTypes, PCs, Holding

\* A step that changes no shared state but executions.
LEMMA TypesQuiet ==
  ASSUME TypeOK, TaskTypes', UNCHANGED shared,
         executing' \in [Principals \X Keys -> Tasks \cup {None}],
         memo' \in [Principals \X Keys -> Memo \cup {None}]
  PROVE  TypeOK'
  BY TypesTogether DEF TypeOK, shared, identities

LEMMA GotoTypes ==
  ASSUME TypeOK, NEW t \in Tasks, NEW l \in PCs, Goto(t, l)
  PROVE  TaskTypes' /\ OthersWait(t) /\ pc'[t] = l /\ UNCHANGED <<job, snapshot>>
  BY TypesOfTasks DEF TaskTypes, Goto, OthersWait

LEMMA AnswerTypes ==
  ASSUME TypeOK, NEW t \in Tasks, NEW r \in Reply, Answer(t, r)
  PROVE  TaskTypes' /\ OthersWait(t) /\ pc'[t] = "done" /\ UNCHANGED <<job, snapshot>>
  BY TypesOfTasks DEF TaskTypes, Answer, OthersWait, PCs

LEMMA ConcludeTypes ==
  ASSUME TypeOK, NEW t \in Tasks, NEW r \in Reply, Conclude(t, r),
         job[t] \in Job, job[t].op # "update"
  PROVE  /\ TaskTypes' /\ pc'[t] = "done" /\ UNCHANGED <<job, snapshot>>
         /\ executing' \in [Principals \X Keys -> Tasks \cup {None}]
         /\ memo' \in [Principals \X Keys -> Memo \cup {None}]
  <1>1. KeyOf(t) \in Principals \X Keys
    BY JobKinds, JobKeys DEF KeyOf
  <1>2. [job |-> job[t], reply |-> r, at |-> now] \in Memo
    BY DEF Memo, TypeOK
  <1>3. Answer(t, r)
    BY DEF Conclude
  <1>4. QED
    BY <1>1, <1>2, <1>3, AnswerTypes DEF Conclude, TypeOK

LEMMA Codes ==
  \A c \in {"not_recognized", "invalid_request", "rejected", "unverified", "pending",
            "conflict", "error"} : [code |-> c] \in Reply
  BY DEF Reply

LEMMA RefusalType == \A t \in Tasks : Refusal(t) \in Reply
  BY Codes DEF Refusal
-----------------------------------------------------------------------------
(* Steps that touch neither identities nor uses: they may take a request in, answer it, or take *)
(* or release its execution.                                                                    *)
LEMMA QuietStep ==
  ASSUME IInv, TypeOK', NEW t \in Tasks, OthersWait(t), HoldersOf(t), Fits(t)',
         UNCHANGED <<now, identities, used, uses>>, issued \subseteq issued',
         pc'[t] \notin {"idle", "creating", "storing"},
         pc[t] # "idle" => job'[t] = job[t]
  PROVE  IInv'
  <1>1. Grows
    BY DEF Grows, identities
  <1>2. \A u \in Tasks : Fits(u)'
    BY <1>1, OthersKeep
  <1>3. HoldersProceed'
    BY HoldersKeep
  <1>4. IdentitiesComplete'
    BY IdentitiesKeep DEF identities
  <1>5. UsesRemembered' /\ UsedOnce'
    BY <1>1, UsesKeep
  <1>6. QED
    BY <1>2, <1>3, <1>4, <1>5 DEF IInv

\* What fits a task whose request goes on with the same request and record.
LEMMA SameRequest ==
  ASSUME IInv, NEW t \in Tasks, UNCHANGED <<job, snapshot>>, pc[t] # "idle",
         issued \subseteq issued'
  PROVE  /\ job'[t] = job[t] /\ job[t] \in Job
         /\ job[t].op = "verify" => job[t].assertion \in Signed' \cup Forged
         /\ pc'[t] = "done" => Fits(t)'
  <1>1. Fits(t)
    BY DEF IInv
  <1>2. Signed \subseteq Signed'
    BY DEF Signed
  <1>3. QED
    BY <1>1, <1>2 DEF Fits, JobFits, SnapshotFits

\* An answer that concludes an execution without touching identities or uses.
LEMMA QuietConclusion ==
  ASSUME IInv, NEW t \in Tasks, NEW r \in Reply, Conclude(t, r), pc[t] \in Holding,
         UNCHANGED <<now, identities, used, uses>>,
         issued \subseteq issued', issued' \subseteq [assertion : Assertion, by : Tasks],
         pc[t] \notin {"creating", "storing"}
  PROVE  IInv'
  <1>1. job[t] \in Job /\ job[t].op # "update" /\ pc[t] # "idle" /\ TypeOK
    BY DEF IInv, Fits, JobFits, Holding
  <1>2. /\ TaskTypes' /\ pc'[t] = "done" /\ UNCHANGED <<job, snapshot>>
        /\ executing' \in [Principals \X Keys -> Tasks \cup {None}]
        /\ memo' \in [Principals \X Keys -> Memo \cup {None}]
    BY <1>1, ConcludeTypes
  <1>3. TypeOK'
    BY <1>1, <1>2, TypesTogether DEF TypeOK, identities
  <1>4. \A s \in Scope : pending'[s] = pending[s] /\ pending[s] # t
    BY <1>1, NoneAssumption DEF IInv, HoldersProceed, identities
  <1>5. OthersWait(t) /\ HoldersOf(t)
    BY <1>1, <1>4, HoldersConclude
  <1>6. QED
    BY <1>1, <1>2, <1>3, <1>5, SameRequest, QuietStep
-----------------------------------------------------------------------------
(* The actions: requests that arrive *)

LEMMA ArriveStep ==
  ASSUME IInv, NEW t \in Tasks, NEW r \in Job, NEW record \in Record \cup {None},
         Arrive(t, r, record),
         r.op = "provision" \/ record \in Record,
         r.op = "update" => Owns(r),
         r.op = "verify" => r.assertion \in Signed \cup Forged
  PROVE  IInv'
  <1>1. TypeOK /\ TaskTypes
    BY TypesOfTasks DEF IInv
  <1>2. /\ pc'[t] = "authorizing" /\ job'[t] = r /\ snapshot'[t] = record /\ OthersWait(t)
        /\ pc[t] = "idle" /\ TaskTypes'
    BY <1>1 DEF Arrive, TaskTypes, OthersWait, PCs
  <1>3. TypeOK'
    BY <1>1, <1>2, TypesQuiet DEF Arrive, TypeOK
  <1>4. HoldersOf(t)
    BY <1>2, HoldersSame DEF Arrive, shared, identities, Holding
  <1>5. Fits(t)'
    BY <1>2, JobKinds DEF Arrive, Fits, JobFits, SnapshotFits, Owns, Signed, shared, identities
  <1>6. QED
    BY <1>2, <1>3, <1>4, <1>5, QuietStep DEF Arrive, shared, identities

LEMMA TurnAwayStep ==
  ASSUME IInv, NEW t \in Tasks, NEW r \in Job, NEW c, [code |-> c] \in Reply,
         TurnAway(t, r, c),
         r.op = "verify" => r.assertion \in Signed \cup Forged
  PROVE  IInv'
  <1>1. TypeOK /\ TaskTypes
    BY TypesOfTasks DEF IInv
  <1>2. /\ pc'[t] = "done" /\ job'[t] = r /\ OthersWait(t)
        /\ pc[t] = "idle" /\ TaskTypes'
    BY <1>1 DEF TurnAway, TaskTypes, OthersWait, PCs
  <1>3. TypeOK'
    BY <1>1, <1>2, TypesQuiet DEF TurnAway, TypeOK
  <1>4. HoldersOf(t)
    BY <1>2, HoldersSame DEF TurnAway, shared, identities, Holding
  <1>5. Fits(t)'
    BY <1>2 DEF TurnAway, Fits, JobFits, SnapshotFits, Signed, shared
  <1>6. QED
    BY <1>2, <1>3, <1>4, <1>5, QuietStep DEF TurnAway, shared, identities

LEMMA AskStep ==
  ASSUME IInv, NEW t \in Tasks, Ask(t)
  PROVE  IInv'
  <1>1. CASE AskProvision(t)
    <2>1. PICK r \in Requests : r.op = "provision" /\ Arrive(t, r, None)
      BY <1>1 DEF AskProvision
    <2>2. QED
      BY <2>1, ArriveStep, RequestsAssumption
  <1>2. CASE AskSign(t)
    <2>1. PICK r \in Requests :
            /\ r.op = "sign"
            /\ \/ TurnAway(t, r, "invalid_request") \/ TurnAway(t, r, "not_recognized")
               \/ Owns(r) /\ Arrive(t, r, records[r.id])
      BY <1>2 DEF AskSign
    <2>2. r \in Job /\ r.id \in Ids /\ (Owns(r) => records[r.id] \in Record)
      BY <2>1, RequestsAssumption, JobKinds DEF SignRequest, Owns, IInv, TypeOK
    <2>3. QED
      BY <2>1, <2>2, ArriveStep, TurnAwayStep, Codes
  <1>3. CASE AskUpdate(t)
    <2>1. PICK r \in Requests :
            /\ r.op = "update"
            /\ \/ TurnAway(t, r, "not_recognized")
               \/ Owns(r) /\ Arrive(t, r, records[r.id])
      BY <1>3 DEF AskUpdate
    <2>2. r \in Job /\ r.id \in Ids /\ (Owns(r) => records[r.id] \in Record)
      BY <2>1, RequestsAssumption, JobKinds DEF Lifecycle, Owns, IInv, TypeOK
    <2>3. QED
      BY <2>1, <2>2, ArriveStep, TurnAwayStep, Codes
  <1>4. CASE AskVerify(t)
    <2>1. PICK r \in Requests :
            /\ r.op = "verify" /\ r.assertion \in Signed \cup Forged
            /\ \/ TurnAway(t, r, "unverified")
               \/ byDid[r.assertion.did] # None /\ Arrive(t, r, records[byDid[r.assertion.did]])
      BY <1>4 DEF AskVerify
    <2>2. r \in Job /\ r.assertion.did \in Dids
      BY <2>1, RequestsAssumption, JobKinds DEF Verification, Assertion
    <2>3. byDid[r.assertion.did] # None => records[byDid[r.assertion.did]] \in Record
      BY <2>2 DEF IInv, TypeOK, IdentitiesComplete, IndexesLead
    <2>4. QED
      BY <2>1, <2>2, <2>3, ArriveStep, TurnAwayStep, Codes
  <1>5. QED
    BY <1>1, <1>2, <1>3, <1>4 DEF Ask
-----------------------------------------------------------------------------
(* The actions: authorization and the idempotency store *)

\* A task that goes on at l, taking and releasing nothing.
LEMMA GotoStep ==
  ASSUME IInv, NEW t \in Tasks, NEW l \in PCs, Goto(t, l), pc[t] # "idle",
         UNCHANGED <<shared, executing, memo>>, Fits(t)',
         l \notin {"idle", "creating", "storing"},
         \/ pc[t] \notin Holding
         \/ l \in Holding /\ pc[t] \notin {"creating", "storing"}
  PROVE  IInv'
  <1>1. TaskTypes' /\ OthersWait(t) /\ pc'[t] = l /\ UNCHANGED <<job, snapshot>>
    BY GotoTypes DEF IInv
  <1>2. TypeOK'
    BY <1>1, TypesQuiet DEF IInv, TypeOK
  <1>3. HoldersOf(t)
    BY <1>1, HoldersSame DEF shared, identities
  <1>4. QED
    BY <1>1, <1>2, <1>3, QuietStep DEF shared, identities

\* A task that holds nothing is answered.
LEMMA AnswerStep ==
  ASSUME IInv, NEW t \in Tasks, NEW r \in Reply, Answer(t, r),
         pc[t] \notin Holding, pc[t] # "idle", UNCHANGED <<shared, executing, memo>>
  PROVE  IInv'
  <1>1. TaskTypes' /\ OthersWait(t) /\ pc'[t] = "done" /\ UNCHANGED <<job, snapshot>>
    BY AnswerTypes DEF IInv
  <1>2. TypeOK'
    BY <1>1, TypesQuiet DEF IInv, TypeOK
  <1>3. HoldersOf(t)
    BY <1>1, HoldersSame DEF shared, identities
  <1>4. Fits(t)'
    BY <1>1, SameRequest DEF shared
  <1>5. QED
    BY <1>1, <1>2, <1>3, <1>4, QuietStep DEF shared, identities

LEMMA AuthorizeStep ==
  ASSUME IInv, NEW t \in Tasks, Authorize(t)
  PROVE  IInv'
  <1>1. /\ pc[t] = "authorizing" /\ UNCHANGED <<shared, executing, memo>>
        /\ Fits(t) /\ TypeOK
    BY DEF Authorize, IInv
  <1>2. CASE Answer(t, Refusal(t))
    BY <1>1, <1>2, AnswerStep, RefusalType DEF Holding
  <1>3. ASSUME NEW l \in {"entering", "transiting"}, Goto(t, l),
               l = "entering" <=> job[t].op # "update"
        PROVE  IInv'
    <2>1. pc'[t] = l /\ UNCHANGED <<job, snapshot>> /\ l \in PCs
      BY <1>1, <1>3, GotoTypes DEF PCs
    <2>2. Fits(t)'
      BY <1>1, <1>3, <2>1 DEF Fits, JobFits, SnapshotFits, Owns, Signed, shared, identities
    <2>3. QED
      BY <1>1, <1>3, <2>1, <2>2, GotoStep DEF Holding
  <1>4. QED
    BY <1>2, <1>3 DEF Authorize

LEMMA ReplayStep ==
  ASSUME IInv, NEW t \in Tasks, Replay(t)
  PROVE  IInv'
  <1>1. job[t] \in Job /\ job[t].op # "update" /\ TypeOK /\ pc[t] = "entering"
    BY DEF IInv, Fits, JobFits, Replay
  <1>2. KeyOf(t) \in Principals \X Keys
    BY <1>1, JobKinds, JobKeys DEF KeyOf
  <1>3. memo[KeyOf(t)] \in Memo
    BY <1>1, <1>2 DEF Replay, Remembered, TypeOK
  <1>4. PICK r \in Reply : Answer(t, r)
    BY <1>3, Codes DEF Replay, Memo
  <1>5. QED
    BY <1>1, <1>4, AnswerStep DEF Replay, Holding

LEMMA EnterStep ==
  ASSUME IInv, NEW t \in Tasks, Enter(t)
  PROVE  IInv'
  <1>1. job[t] \in Job /\ job[t].op # "update" /\ TypeOK /\ pc[t] = "entering" /\ Fits(t)
    BY DEF IInv, Fits, JobFits, Enter
  <1>2. KeyOf(t) \in Principals \X Keys
    BY <1>1, JobKinds, JobKeys DEF KeyOf
  <1>3. PICK l \in {"resolving", "deciding"} :
          Goto(t, l) /\ (l = "resolving" <=> job[t].op = "provision")
    BY DEF Enter
  <1>4. TaskTypes' /\ OthersWait(t) /\ pc'[t] = l /\ UNCHANGED <<job, snapshot>>
    BY <1>1, <1>3, GotoTypes DEF PCs, Holding
  <1>5. executing' = [executing EXCEPT ![KeyOf(t)] = t] /\ UNCHANGED <<shared, memo>>
    BY DEF Enter
  <1>6. TypeOK'
    BY <1>1, <1>2, <1>4, <1>5, TypesQuiet DEF TypeOK
  <1>7. HoldersOf(t)
    <2>1. \A k \in Principals \X Keys : executing[k] # t
      BY <1>1, NoneAssumption DEF IInv, HoldersProceed
    <2>2. \A s \in Scope : pending'[s] = pending[s] /\ pending[s] # t
      BY <1>1, <1>5, NoneAssumption DEF IInv, HoldersProceed, shared, identities
    <2>3. pc'[t] \in Holding /\ KeyOf(t)' = KeyOf(t)
      BY <1>4 DEF Holding, KeyOf
    <2>4. QED
      BY <1>1, <1>2, <1>5, <2>1, <2>2, <2>3 DEF HoldersOf, TypeOK
  <1>8. Fits(t)'
    BY <1>1, <1>3, <1>4, <1>5, JobKinds DEF Fits, JobFits, SnapshotFits, Signed, shared
  <1>9. QED
    BY <1>4, <1>5, <1>6, <1>7, <1>8, QuietStep DEF shared, identities
-----------------------------------------------------------------------------
(* The actions: provisioning *)

LEMMA ResolveStep ==
  ASSUME IInv, NEW t \in Tasks, Resolve(t)
  PROVE  IInv'
  <1>1. pc[t] = "resolving" /\ UNCHANGED shared /\ Fits(t) /\ TypeOK
    BY DEF Resolve, IInv
  <1>2. CASE Conclude(t, [code |-> "invalid_request"])
    BY <1>1, <1>2, QuietConclusion, Codes DEF Holding, shared, IInv, TypeOK
  <1>3. CASE Goto(t, "locating") /\ UNCHANGED <<executing, memo>>
    <2>1. pc'[t] = "locating" /\ UNCHANGED <<job, snapshot>>
      BY <1>1, <1>3, GotoTypes DEF PCs, Holding
    <2>2. Fits(t)'
      BY <1>1, <2>1 DEF Fits, JobFits, SnapshotFits, Signed, shared
    <2>3. QED
      BY <1>1, <1>3, <2>2, GotoStep DEF Holding, PCs
  <1>4. QED
    BY <1>2, <1>3 DEF Resolve

LEMMA IdentityReplyType == \A r \in Record : IdentityReply(r) \in Reply
  BY DEF Record, IdentityReply, Reply

LEMMA LocateStep ==
  ASSUME IInv, NEW t \in Tasks, Locate(t)
  PROVE  IInv'
  <1> DEFINE s == ScopeOf(job[t])
  <1>1. /\ pc[t] = "locating" /\ Fits(t) /\ TypeOK /\ HoldersProceed /\ IdentitiesComplete
        /\ UNCHANGED <<now, records, byDid, byScope, keys, used, issued, uses>>
    BY DEF Locate, IInv
  <1>2. job[t] \in Job /\ job[t].op = "provision" /\ s \in Scope
    BY <1>1, JobKinds, JobKeys DEF Fits, JobFits, Scope, ScopeOf
  <1>3. CASE byScope[s] # None /\ Conclude(t, IdentityReply(records[byScope[s]])) /\ UNCHANGED pending
    <2>1. records[byScope[s]] \in Record
      BY <1>1, <1>2, <1>3 DEF TypeOK, IdentitiesComplete, IndexesLead
    <2>2. QED
      BY <1>1, <1>3, <2>1, IdentityReplyType, QuietConclusion DEF Holding, identities, TypeOK
  <1>4. CASE /\ byScope[s] = None /\ pending[s] = None /\ pending' = [pending EXCEPT ![s] = t]
             /\ Goto(t, "creating") /\ UNCHANGED <<executing, memo>>
    <2>1. TaskTypes' /\ OthersWait(t) /\ pc'[t] = "creating" /\ UNCHANGED <<job, snapshot>>
      BY <1>1, <1>4, GotoTypes DEF PCs, Holding
    <2>2. TypeOK'
      BY <1>1, <1>2, <1>4, <2>1, TypesTogether DEF TypeOK
    <2>3. pending'[s] = t /\ \A r \in Scope \ {s} : pending'[r] = pending[r] /\ pending[r] # t
      BY <1>1, <1>2, <1>4, NoneAssumption DEF TypeOK, HoldersProceed
    <2>4. HoldersOf(t)
      <3>1. \A k \in Principals \X Keys : executing[k] = t => KeyOf(t)' = k
        BY <1>1, <2>1, NoneAssumption DEF HoldersProceed, KeyOf
      <3>2. QED
        BY <1>4, <2>1, <2>3, <3>1 DEF HoldersOf, Holding
    <2>5. Fits(t)'
      BY <1>1, <2>1 DEF Fits, JobFits, SnapshotFits, Signed
    <2>6. Grows
      BY <1>1 DEF Grows
    <2>7. IdentitiesComplete'
      <3>1. RecordsIndexed' /\ IndexesLead'
        BY <1>1 DEF IdentitiesComplete, RecordsIndexed, IndexesLead
      <3>2. ASSUME NEW u \in Tasks \ {t}, pc'[u] \in {"creating", "storing"}
            PROVE  pending'[ScopeOf(job'[u])] = u /\ byScope'[ScopeOf(job'[u])] = None
        <4>1. pc[u] \in {"creating", "storing"} /\ job'[u] = job[u] /\ Fits(u)
          BY <2>1, <3>2 DEF OthersWait, IInv
        <4>2. pending[ScopeOf(job[u])] = u /\ byScope[ScopeOf(job[u])] = None
          BY <1>1, <4>1 DEF IdentitiesComplete, SoleCreator
        <4>3. ScopeOf(job[u]) \in Scope /\ ScopeOf(job[u]) # s
          BY <1>4, <4>1, <4>2, JobKinds, JobKeys, NoneAssumption DEF Fits, JobFits, Scope, ScopeOf
        <4>4. QED
          BY <1>1, <2>3, <4>1, <4>2, <4>3
      <3>3. SoleCreator'
        BY <1>1, <1>4, <2>1, <2>3, <3>2 DEF SoleCreator
      <3>4. QED
        BY <3>1, <3>3 DEF IdentitiesComplete
    <2>8. QED
      BY <1>1, <2>1, <2>2, <2>4, <2>5, <2>6, <2>7, OthersKeep, HoldersKeep, UsesKeep DEF IInv
  <1>5. QED
    BY <1>3, <1>4 DEF Locate

LEMMA CreateStep ==
  ASSUME IInv, NEW t \in Tasks, Create(t)
  PROVE  IInv'
  <1>1. /\ pc[t] = "creating" /\ Fits(t) /\ TypeOK /\ TaskTypes
        /\ UNCHANGED <<now, records, byDid, byScope, pending, used, issued, uses, executing, memo,
                       job, until, reply>>
    BY TypesOfTasks DEF Create, IInv
  <1>2. PICK m \in Materials : /\ keys' = keys \cup {m}
                               /\ snapshot' = [snapshot EXCEPT ![t] = m]
                               /\ pc' = [pc EXCEPT ![t] = "storing"]
    BY DEF Create
  <1>3. m \in Material
    BY MaterialsAssumption
  <1>4. /\ TaskTypes' /\ OthersWait(t) /\ pc'[t] = "storing" /\ job'[t] = job[t]
        /\ snapshot'[t] = m
    BY <1>1, <1>2, <1>3 DEF TaskTypes, OthersWait, PCs, Holding
  <1>5. TypeOK'
    BY <1>1, <1>2, <1>3, <1>4, TypesTogether DEF TypeOK
  <1>6. HoldersOf(t)
    BY <1>1, <1>4, HoldersSame DEF Holding
  <1>7. Fits(t)'
    BY <1>1, <1>2, <1>3, <1>4 DEF Fits, JobFits, SnapshotFits, Signed
  <1>8. Grows
    BY <1>1, <1>2 DEF Grows
  <1>9. IdentitiesComplete'
    <2>1. ScopeOf(job[t]) \in Scope
      BY <1>1, JobKinds, JobKeys DEF Fits, JobFits, Scope, ScopeOf
    <2>2. pending[ScopeOf(job[t])] = t /\ byScope[ScopeOf(job[t])] = None
      BY <1>1 DEF IInv, IdentitiesComplete, SoleCreator
    <2>3. QED
      BY <1>1, <1>2, <1>4, <2>1, <2>2, IdentitiesKeep
  <1>10. QED
    BY <1>1, <1>4, <1>5, <1>6, <1>7, <1>8, <1>9, OthersKeep, HoldersKeep, UsesKeep DEF IInv

LEMMA StoreStep ==
  ASSUME IInv, NEW t \in Tasks, Store(t)
  PROVE  IInv' /\ \A i \in Ids : records[i] # None => records'[i] = records[i]
  <1> DEFINE m == snapshot[t]
             s == ScopeOf(job[t])
             record == [id |-> m.id, did |-> m.did, principal |-> job[t].principal,
                        service |-> job[t].service, status |-> "active"]
  <1>1. /\ pc[t] = "storing" /\ Fits(t) /\ TypeOK /\ HoldersProceed /\ IdentitiesComplete
        /\ UNCHANGED <<now, keys, used, issued, uses>>
        /\ records[m.id] = None /\ byDid[m.did] = None
        /\ records' = [records EXCEPT ![m.id] = record]
        /\ byDid' = [byDid EXCEPT ![m.did] = m.id]
        /\ byScope' = [byScope EXCEPT ![s] = m.id]
        /\ pending' = [pending EXCEPT ![s] = None]
        /\ Conclude(t, IdentityReply(record))
    BY DEF Store, IInv, Unique
  <1>2. /\ job[t] \in Job /\ job[t].op = "provision" /\ s \in Scope
        /\ job[t].principal \in Principals /\ job[t].service \in Services
        /\ m \in Material /\ m \in keys
    BY <1>1, JobKinds, JobKeys DEF Fits, JobFits, SnapshotFits, Scope, ScopeOf
  <1>3. /\ m.id \in Ids /\ m.did \in Dids /\ m = [id |-> m.id, did |-> m.did]
        /\ record \in Record /\ ScopeOf(record) = s
    BY <1>2 DEF Material, Record, Statuses, ScopeOf
  <1>4. pending[s] = t /\ byScope[s] = None
    BY <1>1 DEF IdentitiesComplete, SoleCreator
  <1>5. /\ TaskTypes' /\ pc'[t] = "done" /\ UNCHANGED <<job, snapshot>>
        /\ executing' \in [Principals \X Keys -> Tasks \cup {None}]
        /\ memo' \in [Principals \X Keys -> Memo \cup {None}]
    BY <1>1, <1>2, <1>3, IdentityReplyType, ConcludeTypes
  <1>6. TypeOK'
    BY <1>1, <1>2, <1>3, <1>5, TypesTogether DEF TypeOK
  <1>7. \A r \in Scope \ {s} : pending'[r] = pending[r] /\ pending[r] # t
    BY <1>1, <1>2, NoneAssumption DEF TypeOK, HoldersProceed
  <1>8. OthersWait(t) /\ HoldersOf(t)
    BY <1>1, <1>2, <1>7, HoldersConclude DEF Holding, TypeOK
  <1>9. record # None /\ m.id # None
    BY <1>3, NoneAssumption
  <1>10. \A i \in Ids : records[i] # None => records'[i] = records[i] /\ i # m.id
    BY <1>1, <1>3 DEF TypeOK
  <1>11. Grows
    BY <1>1, <1>10 DEF Grows
  <1>12. Fits(t)'
    BY <1>1, <1>5, SameRequest
  <1>13. IdentitiesComplete'
    <2>1. RecordsIndexed'
      <3>1. ASSUME NEW i \in Ids, i # m.id, records'[i] # None
            PROVE  /\ records'[i].id = i
                   /\ byDid'[records'[i].did] = i /\ byScope'[ScopeOf(records'[i])] = i
                   /\ [id |-> i, did |-> records'[i].did] \in keys'
        <4>1. records'[i] = records[i] /\ records[i] # None
          BY <1>1, <1>3, <3>1 DEF TypeOK
        <4>2. /\ records[i].id = i
              /\ byDid[records[i].did] = i /\ byScope[ScopeOf(records[i])] = i
              /\ [id |-> i, did |-> records[i].did] \in keys
          BY <1>1, <4>1 DEF IdentitiesComplete, RecordsIndexed
        <4>3. records[i].did \in Dids /\ ScopeOf(records[i]) \in Scope
          BY <1>1, <4>1 DEF TypeOK, Record, Scope, ScopeOf
        <4>4. records[i].did # m.did /\ ScopeOf(records[i]) # s
          BY <1>1, <1>4, <4>2, NoneAssumption
        <4>5. QED
          BY <1>1, <1>2, <1>3, <4>1, <4>2, <4>3, <4>4 DEF TypeOK
      <3>2. /\ records'[m.id].id = m.id
            /\ byDid'[records'[m.id].did] = m.id /\ byScope'[ScopeOf(records'[m.id])] = m.id
            /\ [id |-> m.id, did |-> records'[m.id].did] \in keys'
        <4>1. records'[m.id] = record /\ byDid'[m.did] = m.id /\ byScope'[s] = m.id
          BY <1>1, <1>2, <1>3 DEF TypeOK
        <4>2. QED
          BY <1>1, <1>2, <1>3, <4>1
      <3>3. QED
        BY <3>1, <3>2 DEF RecordsIndexed
    <2>2. IndexesLead'
      <3>1. records'[m.id] = record
        BY <1>1, <1>3 DEF TypeOK
      <3>2. ASSUME NEW d \in Dids, byDid'[d] # None
            PROVE  records'[byDid'[d]] # None /\ records'[byDid'[d]].did = d
        <4>1. CASE d = m.did
          BY <1>1, <1>3, <1>9, <3>1, <4>1 DEF TypeOK
        <4>2. CASE d # m.did
          BY <1>1, <1>3, <1>10, <3>2, <4>2 DEF TypeOK, IdentitiesComplete, IndexesLead
        <4>3. QED
          BY <4>1, <4>2
      <3>3. ASSUME NEW r \in Scope, byScope'[r] # None
            PROVE  records'[byScope'[r]] # None /\ ScopeOf(records'[byScope'[r]]) = r
        <4>1. CASE r = s
          BY <1>1, <1>2, <1>3, <1>9, <3>1, <4>1 DEF TypeOK
        <4>2. CASE r # s
          BY <1>1, <1>2, <1>10, <3>3, <4>2 DEF TypeOK, IdentitiesComplete, IndexesLead
        <4>3. QED
          BY <4>1, <4>2
      <3>4. QED
        BY <3>2, <3>3 DEF IndexesLead
    <2>3. SoleCreator'
      <3>1. ASSUME NEW u \in Tasks, pc'[u] \in {"creating", "storing"}
            PROVE  pending'[ScopeOf(job'[u])] = u /\ byScope'[ScopeOf(job'[u])] = None
        <4>1. u # t /\ pc[u] \in {"creating", "storing"} /\ job'[u] = job[u] /\ Fits(u)
          BY <1>5, <1>8, <3>1 DEF OthersWait, IInv
        <4>2. pending[ScopeOf(job[u])] = u /\ byScope[ScopeOf(job[u])] = None
          BY <1>1, <4>1 DEF IdentitiesComplete, SoleCreator
        <4>3. ScopeOf(job[u]) \in Scope /\ ScopeOf(job[u]) # s
          BY <1>4, <4>1, <4>2, JobKinds, JobKeys DEF Fits, JobFits, Scope, ScopeOf
        <4>4. QED
          BY <1>1, <1>2, <1>7, <4>1, <4>2, <4>3 DEF TypeOK
      <3>2. QED
        BY <3>1 DEF SoleCreator
    <2>4. QED
      BY <2>1, <2>2, <2>3 DEF IdentitiesComplete
  <1>14. QED
    BY <1>1, <1>5, <1>6, <1>8, <1>10, <1>11, <1>12, <1>13, OthersKeep, HoldersKeep, UsesKeep DEF IInv

\* A request that fails releases whatever it holds.
LEMMA RaiseStep ==
  ASSUME IInv, NEW t \in Tasks, pc[t] # "idle", Raise(t)
  PROVE  IInv'
  <1>1. /\ TypeOK /\ Answer(t, [code |-> "error"])
        /\ UNCHANGED <<now, records, byDid, byScope, keys, used, memo, issued, uses>>
        /\ pending' = Released(pending, t) /\ executing' = Released(executing, t)
    BY DEF IInv, Raise
  <1>2. TaskTypes' /\ OthersWait(t) /\ pc'[t] = "done" /\ UNCHANGED <<job, snapshot>>
    BY <1>1, AnswerTypes, Codes
  <1>3. /\ pending' \in [Scope -> Tasks \cup {None}]
        /\ \A s \in Scope : pending'[s] = IF pending[s] = t THEN None ELSE pending[s]
    BY <1>1 DEF Released, TypeOK
  <1>4. /\ executing' \in [Principals \X Keys -> Tasks \cup {None}]
        /\ \A k \in Principals \X Keys :
             executing'[k] = IF executing[k] = t THEN None ELSE executing[k]
    BY <1>1 DEF Released, TypeOK
  <1>5. TypeOK'
    BY <1>1, <1>2, <1>3, <1>4, TypesTogether DEF TypeOK
  <1>6. HoldersOf(t)
    BY <1>3, <1>4 DEF HoldersOf
  <1>7. Fits(t)'
    BY <1>1, <1>2, SameRequest
  <1>8. IdentitiesComplete'
    BY <1>1, <1>2, <1>3, IdentitiesKeep
  <1>9. Grows
    BY <1>1 DEF Grows
  <1>10. QED
    BY <1>1, <1>2, <1>5, <1>6, <1>7, <1>8, <1>9, OthersKeep, HoldersKeep, UsesKeep DEF IInv
-----------------------------------------------------------------------------
(* The actions: signing and hosted verification *)

LEMMA DeclineStep ==
  ASSUME IInv, NEW t \in Tasks, Decline(t) \/ Defer(t) \/ RefuseAssertion(t)
  PROVE  IInv'
  <1>1. /\ pc[t] \in {"deciding", "handling", "verifying"} /\ UNCHANGED shared
        /\ \E c \in {"unverified", "rejected", "pending"} : Conclude(t, [code |-> c])
    BY DEF Decline, Defer, RefuseAssertion
  <1>2. PICK r \in Reply : Conclude(t, r)
    BY <1>1, Codes
  <1>3. QED
    BY <1>1, <1>2, QuietConclusion DEF Holding, shared, IInv, TypeOK

LEMMA PermitStep ==
  ASSUME IInv, NEW t \in Tasks, Permit(t)
  PROVE  IInv'
  <1>1. /\ pc[t] = "deciding" /\ Fits(t) /\ TypeOK /\ UNCHANGED <<shared, executing, memo>>
    BY DEF Permit, IInv
  <1>2. PICK l \in {"verifying", "handling"} :
          Goto(t, l) /\ (l = "verifying" <=> job[t].op = "verify")
    BY DEF Permit
  <1>3. pc'[t] = l /\ UNCHANGED <<job, snapshot>> /\ l \in PCs /\ l \in Holding
    BY <1>1, <1>2, GotoTypes DEF PCs, Holding
  <1>4. Fits(t)'
    BY <1>1, <1>2, <1>3 DEF Fits, JobFits, SnapshotFits, Signed, shared
  <1>5. QED
    BY <1>1, <1>2, <1>3, <1>4, GotoStep

LEMMA LeaveToKeyStoreStep ==
  ASSUME IInv, NEW t \in Tasks, LeaveToKeyStore(t)
  PROVE  IInv'
  <1>1. /\ pc[t] = "handling" /\ Fits(t) /\ TypeOK /\ TaskTypes
        /\ UNCHANGED <<shared, executing, memo, job, snapshot, reply>>
        /\ until' = [until EXCEPT ![t] = now + job[t].lifetime]
        /\ pc' = [pc EXCEPT ![t] = "signing"]
    BY TypesOfTasks DEF LeaveToKeyStore, IInv
  <1>2. now + job[t].lifetime \in Nat
    BY <1>1, JobKinds, TimesAssumption DEF Fits, JobFits, SignRequest, TypeOK
  <1>3. TaskTypes' /\ OthersWait(t) /\ pc'[t] = "signing"
    BY <1>1, <1>2 DEF TaskTypes, OthersWait, PCs, Holding
  <1>4. TypeOK'
    BY <1>1, <1>3, TypesQuiet DEF TypeOK
  <1>5. HoldersOf(t)
    BY <1>1, <1>3, HoldersSame DEF Holding, shared, identities
  <1>6. Fits(t)'
    BY <1>1, <1>3 DEF Fits, JobFits, SnapshotFits, Signed, shared
  <1>7. QED
    BY <1>1, <1>3, <1>4, <1>5, <1>6, QuietStep DEF shared, identities

LEMMA IssueStep ==
  ASSUME IInv, NEW t \in Tasks, NEW exp \in Nat, pc[t] \in {"handling", "signing"}, Issue(t, exp)
  PROVE  IInv'
  <1> DEFINE a == [did |-> snapshot[t].did, service |-> job[t].service, jti |-> job[t].jti,
                   exp |-> exp, genuine |-> TRUE]
  <1>1. Fits(t) /\ TypeOK
    BY DEF IInv
  <1>2. a \in Assertion
    BY <1>1, JobKinds DEF Fits, JobFits, SnapshotFits, SignRequest, Record, Assertion
  <1>3. [code |-> "signed", assertion |-> a] \in Reply
    BY <1>2 DEF Reply
  <1>4. /\ issued' = issued \cup {[assertion |-> a, by |-> t]}
        /\ Conclude(t, [code |-> "signed", assertion |-> a])
        /\ UNCHANGED <<now, identities, used, uses>>
    BY DEF Issue
  <1>5. issued \subseteq issued' /\ issued' \subseteq [assertion : Assertion, by : Tasks]
    <2>1. [assertion |-> a, by |-> t] \in [assertion : Assertion, by : Tasks]
      BY <1>2
    <2>2. issued \subseteq [assertion : Assertion, by : Tasks]
      BY <1>1 DEF TypeOK
    <2> HIDE DEF a
    <2>3. QED
      BY <1>4, <2>1, <2>2
  <1>6. QED
    BY <1>3, <1>4, <1>5, QuietConclusion DEF Holding

LEMMA SignStep ==
  ASSUME IInv, NEW t \in Tasks, Sign(t) \/ HandlerSigns(t)
  PROVE  IInv'
  <1>1. CASE Sign(t)
    BY <1>1, IssueStep DEF Sign, IInv, TypeOK
  <1>2. CASE HandlerSigns(t)
    <2>1. PICK iat \in 0 .. now : pc[t] = "handling" /\ Issue(t, iat + job[t].lifetime)
      BY <1>2 DEF HandlerSigns
    <2>2. job[t].lifetime \in Nat /\ now \in Nat
      BY <2>1, JobKinds, TimesAssumption DEF IInv, TypeOK, Fits, JobFits, SignRequest
    <2>3. QED
      BY <2>1, <2>2, IssueStep
  <1>3. QED
    BY <1>1, <1>2

LEMMA VerifyStep ==
  ASSUME IInv, NEW t \in Tasks, Verify(t)
  PROVE  IInv'
  <1> DEFINE a == job[t].assertion
             use == [assertion |-> a, at |-> now, by |-> t]
  <1>1. /\ pc[t] = "verifying" /\ Fits(t) /\ TypeOK /\ HoldersProceed
        /\ a.genuine /\ a.service = job[t].service /\ now < a.exp
        /\ used[IdentifierOf(a)] <= now
        /\ used' = [used EXCEPT ![IdentifierOf(a)] = a.exp]
        /\ uses' = uses \cup {use}
        /\ Conclude(t, [code |-> "verified", id |-> snapshot[t].id])
        /\ UNCHANGED <<now, identities, issued>>
    BY DEF Verify, Live, Unused, IInv
  <1>2. /\ job[t] \in Job /\ job[t].op = "verify" /\ a \in Assertion /\ a \in Signed
        /\ snapshot[t].id \in Ids
    BY <1>1, JobKinds, ForgedAssumption DEF Fits, JobFits, SnapshotFits, Verification, Record
  <1>3. a.exp \in Nat /\ IdentifierOf(a) \in Identifier /\ now \in Nat
    BY <1>1, <1>2 DEF Assertion, Identifier, IdentifierOf, TypeOK
  <1>4. [code |-> "verified", id |-> snapshot[t].id] \in Reply
    BY <1>2 DEF Reply
  <1>5. /\ TaskTypes' /\ pc'[t] = "done" /\ UNCHANGED <<job, snapshot>>
        /\ executing' \in [Principals \X Keys -> Tasks \cup {None}]
        /\ memo' \in [Principals \X Keys -> Memo \cup {None}]
    BY <1>1, <1>2, <1>4, ConcludeTypes
  <1>6. use \in [assertion : Assertion, at : Nat, by : Tasks]
    BY <1>2, <1>3
  <1>7. uses' \subseteq [assertion : Assertion, at : Nat, by : Tasks]
    <2> HIDE DEF use
    <2>1. QED
      BY <1>1, <1>6 DEF TypeOK
  <1>8. TypeOK'
    BY <1>1, <1>3, <1>5, <1>7, TypesTogether DEF TypeOK, identities
  <1>9. \A s \in Scope : pending'[s] = pending[s] /\ pending[s] # t
    BY <1>1, NoneAssumption DEF HoldersProceed, identities
  <1>10. OthersWait(t) /\ HoldersOf(t)
    BY <1>1, <1>2, <1>9, HoldersConclude DEF Holding
  <1>11. Fits(t)' /\ Grows
    BY <1>1, <1>5, SameRequest DEF Grows, identities
  <1>12. IdentitiesComplete'
    BY <1>1, <1>5, <1>10, IdentitiesKeep DEF identities
  <1>13. \A u \in uses : u.at \in Nat /\ u.assertion \in Assertion /\ u.assertion.exp \in Nat
                         /\ u.by \in Tasks /\ IdentifierOf(u.assertion) \in Identifier
    BY <1>1 DEF TypeOK, Assertion, Identifier, IdentifierOf
  <1>14. \A u \in uses : IdentifierOf(u.assertion) = IdentifierOf(a) => u.assertion.exp <= now
    BY <1>1, <1>3, <1>13 DEF IInv, UsesRemembered, TypeOK
  <1>15. UsesRemembered'
    <2>1. ASSUME NEW u \in uses
          PROVE  /\ u.assertion \in Signed' /\ u.at < u.assertion.exp /\ u.at <= now'
                 /\ pc'[u.by] # "idle" /\ u.assertion.service = job'[u.by].service
                 /\ u.assertion.exp <= now' \/ u.assertion.exp <= used'[IdentifierOf(u.assertion)]
      <3>1. /\ u.assertion \in Signed /\ u.at < u.assertion.exp /\ u.at <= now
            /\ pc[u.by] # "idle" /\ u.assertion.service = job[u.by].service
            /\ u.assertion.exp <= now \/ u.assertion.exp <= used[IdentifierOf(u.assertion)]
        BY DEF IInv, UsesRemembered
      <3>2. pc'[u.by] # "idle" /\ job'[u.by] = job[u.by]
        BY <1>5, <1>10, <1>13, <3>1 DEF OthersWait
      <3>3. IdentifierOf(u.assertion) = IdentifierOf(a)
              \/ used'[IdentifierOf(u.assertion)] = used[IdentifierOf(u.assertion)]
        BY <1>1, <1>3, <1>13 DEF TypeOK
      <3>4. QED
        BY <1>1, <1>14, <3>1, <3>2, <3>3 DEF Signed
    <2>2. /\ use.assertion \in Signed' /\ use.at < use.assertion.exp /\ use.at <= now'
          /\ pc'[use.by] # "idle" /\ use.assertion.service = job'[use.by].service
          /\ use.assertion.exp <= used'[IdentifierOf(use.assertion)]
      BY <1>1, <1>2, <1>3, <1>5 DEF Signed, TypeOK
    <2> HIDE DEF use
    <2>3. QED
      BY <1>1, <2>1, <2>2 DEF UsesRemembered
  <1>16. UsedOnce'
    <2>1. \A u \in uses : IdentifierOf(u.assertion) = IdentifierOf(use.assertion) =>
                            u.assertion.exp <= use.at
      BY <1>14
    <2> HIDE DEF use
    <2>2. QED
      BY <1>1, <2>1 DEF UsedOnce, IInv
  <1>17. QED
    BY <1>8, <1>10, <1>11, <1>12, <1>15, <1>16, OthersKeep, HoldersKeep DEF IInv
-----------------------------------------------------------------------------
(* The actions: lifecycle and time *)

LEMMA TransitStep ==
  ASSUME IInv, NEW t \in Tasks, Transit(t)
  PROVE  /\ IInv'
         /\ \A i \in Ids : \/ records'[i] = records[i]
                           \/ /\ job[t].id = i /\ job[t].principal = records[i].principal
                              /\ records'[i] = [records[i] EXCEPT !.status = job[t].status]
  <1> DEFINE i == job[t].id
  <1>1. /\ pc[t] = "transiting" /\ Fits(t) /\ TypeOK /\ HoldersProceed /\ IdentitiesComplete
        /\ UNCHANGED <<now, byDid, byScope, pending, keys, used, issued, uses, executing, memo>>
    BY DEF Transit, IInv
  <1>2. job[t] \in Lifecycle /\ Owns(job[t])
    BY <1>1, JobKinds DEF Fits, JobFits, SnapshotFits
  <1>3. /\ i \in Ids /\ job[t].status \in Statuses /\ records[i] \in Record
        /\ job[t].principal = records[i].principal
    BY <1>1, <1>2 DEF Lifecycle, Owns, TypeOK
  <1>4. CASE Answer(t, [code |-> "rejected"]) /\ UNCHANGED records
    <2>1. UNCHANGED <<shared, executing, memo>>
      BY <1>1, <1>4 DEF shared, identities
    <2>2. QED
      BY <1>1, <1>4, <2>1, AnswerStep, Codes DEF Holding
  <1>5. CASE /\ records' = [records EXCEPT ![i].status = job[t].status]
             /\ Answer(t, IdentityReply(records'[i]))
    <2>1. /\ records'[i] = [records[i] EXCEPT !.status = job[t].status]
          /\ \A j \in Ids \ {i} : records'[j] = records[j]
      BY <1>1, <1>3, <1>5 DEF TypeOK
    <2>2. /\ records'[i] \in Record /\ records'[i].id = records[i].id
          /\ records'[i].did = records[i].did
          /\ records'[i].principal = records[i].principal
          /\ records'[i].service = records[i].service
      BY <1>3, <2>1 DEF Record
    <2>3. records' \in [Ids -> Record \cup {None}]
      BY <1>1, <1>5, <2>1, <2>2 DEF TypeOK
    <2>4. \A j \in Ids :
            /\ records'[j] = None <=> records[j] = None
            /\ records[j] # None =>
                 /\ records'[j].id = records[j].id /\ records'[j].did = records[j].did
                 /\ records'[j].principal = records[j].principal
                 /\ ScopeOf(records'[j]) = ScopeOf(records[j])
      BY <1>3, <2>1, <2>2, NoneAssumption DEF ScopeOf
    <2>5. TaskTypes' /\ OthersWait(t) /\ pc'[t] = "done" /\ UNCHANGED <<job, snapshot>>
      BY <1>1, <1>5, <2>2, IdentityReplyType, AnswerTypes
    <2>6. TypeOK'
      BY <1>1, <2>3, <2>5, TypesTogether DEF TypeOK
    <2>7. HoldersOf(t) /\ Fits(t)' /\ Grows
      BY <1>1, <2>4, <2>5, HoldersSame, SameRequest DEF Holding, Grows
    <2>8. RecordsIndexed' /\ IndexesLead'
      <3>1. RecordsIndexed'
        BY <1>1, <2>4 DEF IdentitiesComplete, RecordsIndexed
      <3>2. \A d \in Dids : byDid'[d] # None =>
              records'[byDid'[d]] # None /\ records'[byDid'[d]].did = d
        BY <1>1, <2>4 DEF IdentitiesComplete, IndexesLead, TypeOK
      <3>3. \A s \in Scope : byScope'[s] # None =>
              records'[byScope'[s]] # None /\ ScopeOf(records'[byScope'[s]]) = s
        <4>1. \A s \in Scope : byScope[s] # None => byScope[s] \in Ids
          BY <1>1 DEF TypeOK
        <4> QED
          BY <1>1, <2>4, <4>1 DEF IdentitiesComplete, IndexesLead
      <3> QED
        BY <3>1, <3>2, <3>3 DEF IndexesLead
    <2>9. SoleCreator'
      BY <1>1, <2>5 DEF IdentitiesComplete, SoleCreator, OthersWait
    <2>10. QED
      BY <1>1, <1>3, <2>1, <2>5, <2>6, <2>7, <2>8, <2>9, OthersKeep, HoldersKeep, UsesKeep
         DEF IInv, IdentitiesComplete
  <1>6. QED
    BY <1>4, <1>5 DEF Transit

LEMMA TickStep ==
  ASSUME IInv, Tick
  PROVE  IInv'
  <1>1. /\ now' = now + 1 /\ TypeOK
        /\ UNCHANGED <<identities, used, issued, uses, executing, memo, pc, job, snapshot, until,
                       reply>>
    BY DEF Tick, IInv
  <1>2. TypeOK'
    BY <1>1 DEF TypeOK, identities
  <1>3. HoldersProceed' /\ IdentitiesComplete' /\ UsedOnce'
    BY <1>1 DEF IInv, HoldersProceed, IdentitiesComplete, RecordsIndexed, IndexesLead, SoleCreator,
                UsedOnce, identities, KeyOf
  <1>4. \A t \in Tasks : Fits(t)'
    BY <1>1 DEF IInv, Fits, JobFits, SnapshotFits, Owns, Signed, identities
  <1>5. \A u \in uses : u.at \in Nat /\ u.assertion.exp \in Nat
    BY <1>1 DEF TypeOK, Assertion
  <1>6. UsesRemembered'
    BY <1>1, <1>5 DEF IInv, UsesRemembered, Signed, TypeOK
  <1>7. QED
    BY <1>2, <1>3, <1>4, <1>6 DEF IInv
-----------------------------------------------------------------------------
(* The beginning *)

LEMMA OnlyElement ==
  ASSUME NEW S
  PROVE  Only(S) # None => Only(S) \in S
  BY DEF Only

LEMMA OnlyOne ==
  ASSUME NEW S, NEW x \in S, \A y \in S : y = x
  PROVE  Only(S) = x
  BY DEF Only

LEMMA InitIdentities == Init => IdentitiesComplete
  <1> SUFFICES ASSUME Init PROVE IdentitiesComplete
    OBVIOUS
  <1>1. \A r \in Provisioned : /\ r \in Record /\ r.id \in Ids /\ r.did \in Dids
                               /\ ScopeOf(r) \in Scope /\ r # None /\ r.id # None
    BY ProvisionedAssumption, NoneAssumption DEF Record, Scope, ScopeOf
  <1>2. ASSUME NEW i \in Ids, records[i] # None
        PROVE  records[i] \in Provisioned /\ records[i].id = i
    <2>1. records[i] = Only({r \in Provisioned : r.id = i})
      BY DEF Init
    <2>2. QED
      BY <1>2, <2>1, OnlyElement
  <1>3. ASSUME NEW d \in Dids, byDid[d] # None
        PROVE  \E r \in Provisioned : r.did = d /\ byDid[d] = r.id
    <2>1. byDid[d] = Only({r.id : r \in {r \in Provisioned : r.did = d}})
      BY DEF Init
    <2>2. QED
      BY <1>3, <2>1, OnlyElement
  <1>4. ASSUME NEW s \in Scope, byScope[s] # None
        PROVE  \E r \in Provisioned : ScopeOf(r) = s /\ byScope[s] = r.id
    <2>1. byScope[s] = Only({r.id : r \in {r \in Provisioned : ScopeOf(r) = s}})
      BY DEF Init
    <2>2. QED
      BY <1>4, <2>1, OnlyElement
  <1>5. ASSUME NEW r \in Provisioned
        PROVE  records[r.id] = r /\ byDid[r.did] = r.id /\ byScope[ScopeOf(r)] = r.id
    <2>1. Only({q \in Provisioned : q.id = r.id}) = r
      <3>1. r \in {q \in Provisioned : q.id = r.id}
        OBVIOUS
      <3>2. \A y \in {q \in Provisioned : q.id = r.id} : y = r
        BY ProvisionedAssumption
      <3>3. QED
        BY <3>1, <3>2, OnlyOne
    <2>2. Only({q.id : q \in {q \in Provisioned : q.did = r.did}}) = r.id
      <3>1. r.id \in {q.id : q \in {q \in Provisioned : q.did = r.did}}
        OBVIOUS
      <3>2. \A y \in {q.id : q \in {q \in Provisioned : q.did = r.did}} : y = r.id
        BY ProvisionedAssumption
      <3>3. QED
        BY <3>1, <3>2, OnlyOne
    <2>3. Only({q.id : q \in {q \in Provisioned : ScopeOf(q) = ScopeOf(r)}}) = r.id
      <3>1. r.id \in {q.id : q \in {q \in Provisioned : ScopeOf(q) = ScopeOf(r)}}
        OBVIOUS
      <3>2. \A y \in {q.id : q \in {q \in Provisioned : ScopeOf(q) = ScopeOf(r)}} : y = r.id
        BY ProvisionedAssumption
      <3>3. QED
        BY <3>1, <3>2, OnlyOne
    <2>4. QED
      BY <1>1, <2>1, <2>2, <2>3 DEF Init
  <1>6. RecordsIndexed
    <2>1. keys = {[id |-> r.id, did |-> r.did] : r \in Provisioned}
      BY DEF Init
    <2>2. QED
      BY <1>2, <1>5, <2>1 DEF RecordsIndexed
  <1>7. IndexesLead
    BY <1>1, <1>3, <1>4, <1>5 DEF IndexesLead
  <1>8. SoleCreator
    BY DEF Init, SoleCreator
  <1>9. QED
    BY <1>6, <1>7, <1>8 DEF IdentitiesComplete

LEMMA InitIInv == Init => IInv
  <1> SUFFICES ASSUME Init PROVE IInv
    OBVIOUS
  <1>1. /\ records \in [Ids -> Record \cup {None}]
        /\ byDid \in [Dids -> Ids \cup {None}]
        /\ byScope \in [Scope -> Ids \cup {None}]
    <2>1. \A i \in Ids : Only({r \in Provisioned : r.id = i}) \in Record \cup {None}
      BY OnlyElement, ProvisionedAssumption
    <2>2. ASSUME NEW S \in SUBSET Provisioned PROVE Only({r.id : r \in S}) \in Ids \cup {None}
      <3>1. {r.id : r \in S} \subseteq Ids
        BY ProvisionedAssumption DEF Record
      <3>2. QED
        BY <3>1, OnlyElement
    <2>3. /\ \A d \in Dids : {r \in Provisioned : r.did = d} \in SUBSET Provisioned
          /\ \A s \in Scope : {r \in Provisioned : ScopeOf(r) = s} \in SUBSET Provisioned
      OBVIOUS
    <2>4. QED
      BY <2>1, <2>2, <2>3 DEF Init
  <1>2. keys \subseteq Material
    BY ProvisionedAssumption DEF Init, Material, Record
  <1>3. TypeOK
    BY <1>1, <1>2 DEF Init, TypeOK
  <1>4. HoldersProceed
    BY DEF Init, HoldersProceed
  <1>5. \A t \in Tasks : Fits(t)
    BY DEF Init, Fits, JobFits, SnapshotFits
  <1>6. UsesRemembered /\ UsedOnce
    BY DEF Init, UsesRemembered, UsedOnce
  <1>7. QED
    BY <1>3, <1>4, <1>5, <1>6, InitIdentities DEF IInv
-----------------------------------------------------------------------------
(* The invariant and what follows from it *)

LEMMA TaskSteps ==
  ASSUME IInv, NEW t \in Tasks, Ask(t) \/ Proceed(t) \/ Fail(t)
  PROVE  IInv'
  <1>1. CASE Collide(t) \/ Fail(t)
    BY <1>1, RaiseStep DEF Collide, Fail
  <1>2. QED
    BY <1>1, AskStep, AuthorizeStep, ReplayStep, EnterStep, ResolveStep, LocateStep, CreateStep,
       StoreStep, DeclineStep, PermitStep, LeaveToKeyStoreStep, SignStep, VerifyStep, TransitStep
       DEF Proceed

LEMMA StutterStep ==
  ASSUME IInv, UNCHANGED vars
  PROVE  IInv'
  BY DEF IInv, vars, shared, identities, TypeOK, HoldersProceed, IdentitiesComplete, RecordsIndexed,
         IndexesLead, SoleCreator, Fits, JobFits, SnapshotFits, Owns, Signed, UsesRemembered,
         UsedOnce, KeyOf

LEMMA NextStep == IInv /\ [Next]_vars => IInv'
  BY TaskSteps, TickStep, StutterStep DEF Next

\* The invariant of the requests' stages, of the identity store and of the replay store.
THEOREM InvariantHolds == Spec => []IInv
  BY InitIInv, NextStep, PTL DEF Spec

\* The Platform's stores, requests and answers keep their types.
THEOREM TypeCorrect == Spec => []TypeOK
  <1>1. IInv => TypeOK
    BY DEF IInv
  <1>2. QED
    BY <1>1, InvariantHolds, PTL

\* The identity store stays whole, whatever fails and whatever the generators return.
THEOREM StoreStaysWhole == Spec => []IdentitiesComplete
  <1>1. IInv => IdentitiesComplete
    BY DEF IInv
  <1>2. QED
    BY <1>1, InvariantHolds, PTL

\* Every execution and every creation is held by a request that can go on.
THEOREM NoCircularWait == Spec => []HoldersProceed
  <1>1. IInv => HoldersProceed
    BY DEF IInv
  <1>2. QED
    BY <1>1, InvariantHolds, PTL

\* Hosted verification accepts only what was signed, and one live assertion of an identifier once.
THEOREM AcceptedOnce == Spec => []VerifiedOnce
  <1>1. IInv => VerifiedOnce
    BY DEF IInv, UsesRemembered, UsedOnce, VerifiedOnce
  <1>2. QED
    BY <1>1, InvariantHolds, PTL

\* Steps other than Store and Transit leave the records as they are.
LEMMA RecordsKept ==
  ASSUME NEW t \in Tasks, Ask(t) \/ Proceed(t) \/ Fail(t), ~ Store(t), ~ Transit(t)
  PROVE  UNCHANGED records
  BY DEF Ask, AskProvision, AskSign, AskUpdate, AskVerify, Arrive, TurnAway, Proceed, Authorize,
         Replay, Enter, Resolve, Locate, Create, Collide, Raise, Decline, Permit, LeaveToKeyStore,
         Defer, HandlerSigns, Sign, Issue, Verify, RefuseAssertion, Fail, shared, identities

\* An identity stands: only an update of its owner changes it, and only its status.
THEOREM IdentitiesStand == Spec => IdentityStands
  <1> DEFINE Stands ==
        \A i \in Ids : records[i] # None =>
          \/ records'[i] = records[i]
          \/ \E t \in Tasks :
               /\ pc[t] = "transiting" /\ job[t].id = i
               /\ job[t].principal = records[i].principal
               /\ records'[i] = [records[i] EXCEPT !.status = job[t].status]
  <1>1. ASSUME IInv, [Next]_vars PROVE Stands
    <2>1. CASE UNCHANGED records
      BY <2>1
    <2>2. ASSUME NEW t \in Tasks, Store(t) PROVE Stands
      BY <1>1, <2>2, StoreStep
    <2>3. ASSUME NEW t \in Tasks, Transit(t) PROVE Stands
      <3>1. pc[t] = "transiting"
        BY <2>3 DEF Transit
      <3>2. QED
        BY <1>1, <2>3, <3>1, TransitStep
    <2>4. CASE UNCHANGED vars \/ Tick
      BY <2>1, <2>4 DEF vars, shared, identities, Tick
    <2>5. QED
      BY <1>1, <2>1, <2>2, <2>3, <2>4, RecordsKept DEF Next
  <1>2. IInv /\ [Next]_vars => [Stands]_vars
    BY <1>1
  <1>3. QED
    BY <1>2, InvariantHolds, PTL DEF Spec, IdentityStands
-----------------------------------------------------------------------------
(* Answers: what a request has checked at its stage, and what is remembered *)

Checked(t) ==
  /\ pc[t] # "done" => reply[t] = None
  /\ pc[t] \in {"authorizing", "entering", "deciding", "handling", "signing"}
       /\ job[t].op = "sign" =>
       /\ snapshot[t].id = job[t].id /\ snapshot[t].principal = job[t].principal
       /\ job[t].lifetime <= MaximumLifetime
  /\ pc[t] \in {"entering", "deciding", "handling", "signing"} /\ job[t].op = "sign" =>
       snapshot[t].service = job[t].service
  /\ pc[t] \in {"handling", "signing", "verifying"} => snapshot[t].status = "active"
  /\ pc[t] = "signing" => until[t] <= now + MaximumLifetime

AInv ==
  /\ \A t \in Tasks : Checked(t)
  /\ AnswersJustified
  /\ \A k \in Principals \X Keys :
       memo[k] # None => Justified(memo[k].job, memo[k].reply)
  /\ \A s \in issued : pc[s.by] = "done"
  /\ \A u \in uses : pc[u.by] = "done"

OthersStand(t) ==
  \A u \in Tasks \ {t} : /\ pc'[u] = pc[u] /\ job'[u] = job[u] /\ snapshot'[u] = snapshot[u]
                         /\ until'[u] = until[u] /\ reply'[u] = reply[u]

\* What answers rest on stays: the identity of a scope, signatures and uses.
Stays ==
  /\ \A s \in Scope : byScope[s] # None => byScope'[s] = byScope[s]
  /\ issued \subseteq issued' /\ uses \subseteq uses' /\ now <= now'
  /\ \A u \in Tasks : pc[u] = "done" => /\ pc'[u] = "done" /\ job'[u] = job[u]
                                        /\ snapshot'[u] = snapshot[u]

LEMMA LimitStays ==
  \A exp, before, after, limit \in Nat :
    exp <= before + limit /\ before <= after => exp <= after + limit
  OBVIOUS

LEMMA JustifiedStays ==
  ASSUME IInv, now' \in Nat, AInv, Stays, NEW j \in Job, NEW r \in Reply, Justified(j, r)
  PROVE  Justified(j, r)'
  <1>1. TypeOK
    BY DEF IInv
  <1>2. ASSUME r.code = "identity", j.op = "provision"
        PROVE  byScope'[ScopeOf(j)] = r.id
    <2>1. r.id \in Ids /\ ScopeOf(j) \in Scope
      BY <1>2, JobKinds, JobKeys DEF Reply, Scope, ScopeOf
    <2>2. byScope[ScopeOf(j)] = r.id
      BY <1>2 DEF Justified
    <2>3. QED
      BY <2>1, <2>2, NoneAssumption DEF Stays
  <1>3. \A s \in issued : /\ s \in issued' /\ s.by \in Tasks /\ job'[s.by] = job[s.by]
                          /\ snapshot'[s.by] = snapshot[s.by] /\ s.assertion.exp \in Nat
    BY <1>1 DEF AInv, Stays, TypeOK, Assertion
  <1>4. \A u \in uses : /\ u \in uses' /\ u.by \in Tasks /\ job'[u.by] = job[u.by]
                        /\ snapshot'[u.by] = snapshot[u.by]
    BY <1>1 DEF AInv, Stays, TypeOK
  <1>5. ASSUME NEW exp \in Nat, exp <= now + MaximumLifetime PROVE exp <= now' + MaximumLifetime
    <2>1. now \in Nat /\ now <= now' /\ now' \in Nat /\ MaximumLifetime \in Nat
      BY <1>1, TimesAssumption DEF Stays, TypeOK
    <2>2. QED
      BY <1>5, <2>1, LimitStays
  <1>6. r.code = "signed" =>
          \E s \in issued' :
            LET a == s.assertion  record == snapshot'[s.by] IN
            /\ a = r.assertion /\ job'[s.by] = j
            /\ j.op = "sign" /\ a.jti = j.jti /\ a.service = j.service
            /\ record.id = j.id /\ record.did = a.did /\ ScopeOf(record) = ScopeOf(j)
            /\ record.status = "active" /\ a.exp <= now' + MaximumLifetime
    BY <1>3, <1>5 DEF Justified
  <1>7. r.code = "verified" =>
          \E u \in uses' :
            /\ job'[u.by] = j /\ u.assertion = j.assertion
            /\ snapshot'[u.by].id = r.id /\ snapshot'[u.by].status = "active"
    BY <1>4 DEF Justified
  <1>8. QED
    BY <1>2, <1>6, <1>7 DEF Justified

\* A step of t: what is left to show is about what t has checked and answers.
LEMMA AnswerKept ==
  ASSUME IInv, IInv', AInv, NEW t \in Tasks, pc[t] # "done", OthersStand(t), Checked(t)',
         pc[t] # "idle" => job'[t] = job[t],
         \A s \in Scope : byScope[s] # None => byScope'[s] = byScope[s],
         issued \subseteq issued', uses \subseteq uses', UNCHANGED now,
         reply'[t] # None => Justified(job[t], reply[t])',
         \A k \in Principals \X Keys :
           \/ memo'[k] = memo[k]
           \/ memo'[k].job = job'[t] /\ memo'[k].reply = reply'[t] /\ reply'[t] # None,
         \A s \in issued' : s \in issued \/ (s.by = t /\ pc'[t] = "done"),
         \A u \in uses' : u \in uses \/ (u.by = t /\ pc'[t] = "done")
  PROVE  AInv'
  <1>1. TypeOK /\ TypeOK' /\ now \in Nat
    BY DEF IInv, TypeOK
  <1>2. Stays
    BY <1>1 DEF OthersStand, Stays
  <1>3. \A u \in Tasks : Checked(u)'
    <2> SUFFICES ASSUME NEW u \in Tasks \ {t} PROVE Checked(u)'
      OBVIOUS
    <2>1. Checked(u)
      BY DEF AInv
    <2>2. QED
      BY <2>1 DEF Checked, OthersStand
  <1>4. AnswersJustified'
    <2>1. ASSUME NEW u \in Tasks \ {t}, reply'[u] # None PROVE Justified(job[u], reply[u])'
      <3>1. reply'[u] = reply[u] /\ job'[u] = job[u] /\ reply[u] \in Reply
        BY <1>1, <2>1 DEF OthersStand, TypeOK
      <3>2. job[u] \in Job
        <4>1. pc[u] = "done"
          BY <2>1, <3>1 DEF AInv, Checked
        <4>2. QED
          BY <4>1 DEF IInv, Fits, JobFits
      <3>3. Justified(job[u], reply[u])
        BY <2>1, <3>1 DEF AInv, AnswersJustified
      <3>4. QED
        BY <1>1, <1>2, <3>1, <3>2, <3>3, JustifiedStays DEF Justified
    <2>2. QED
      BY <2>1 DEF AnswersJustified
  <1>5. ASSUME NEW k \in Principals \X Keys, memo'[k] # None
        PROVE  Justified(memo[k].job, memo[k].reply)'
    <2>1. CASE memo'[k] = memo[k]
      <3>1. memo[k].job \in Job /\ memo[k].reply \in Reply
        BY <1>1, <1>5, <2>1 DEF TypeOK, Memo
      <3>2. Justified(memo[k].job, memo[k].reply)
        BY <1>5, <2>1 DEF AInv
      <3>3. QED
        BY <1>1, <1>2, <2>1, <3>1, <3>2, JustifiedStays DEF Justified
    <2>2. CASE memo'[k].job = job'[t] /\ memo'[k].reply = reply'[t] /\ reply'[t] # None
      BY <2>2 DEF Justified
    <2>3. QED
      BY <2>1, <2>2
  <1>6. /\ \A s \in issued' : pc'[s.by] = "done"
        /\ \A u \in uses' : pc'[u.by] = "done"
    BY <1>1, <1>2 DEF Stays, AInv, TypeOK
  <1>7. QED
    BY <1>3, <1>4, <1>5, <1>6 DEF AInv

\* A task goes on.
LEMMA GotoKept ==
  ASSUME IInv, IInv', AInv, NEW t \in Tasks, NEW l, Goto(t, l), pc[t] \notin {"idle", "done"},
         l # "done", UNCHANGED <<now, byScope, issued, uses, memo>>,
         job[t].op = "sign" /\ l \in {"entering", "deciding", "handling", "signing"} =>
           /\ pc[t] \in {"authorizing", "entering", "deciding", "handling", "signing"}
           /\ snapshot[t].service = job[t].service,
         l \in {"handling", "verifying"} => snapshot[t].status = "active",
         l \notin {"authorizing", "signing"}
  PROVE  AInv'
  <1>1. TypeOK /\ Checked(t)
    BY DEF IInv, AInv
  <1>2. /\ OthersStand(t) /\ pc'[t] = l /\ job'[t] = job[t] /\ snapshot'[t] = snapshot[t]
        /\ reply'[t] = reply[t]
    BY <1>1 DEF Goto, OthersStand, TypeOK
  <1>3. reply[t] = None
    BY <1>1 DEF Checked
  <1>4. Checked(t)'
    BY <1>1, <1>2, <1>3 DEF Checked
  <1>5. reply'[t] # None => Justified(job[t], reply[t])'
    BY <1>2, <1>3
  <1>6. QED
    BY <1>2, <1>4, <1>5, AnswerKept

\* A task answers, and may have its answer remembered.
LEMMA AnswerGiven ==
  ASSUME IInv, IInv', AInv, NEW t \in Tasks, NEW r \in Reply, pc[t] \notin {"idle", "done"},
         (Answer(t, r) /\ UNCHANGED memo) \/ Conclude(t, r),
         \A s \in Scope : byScope[s] # None => byScope'[s] = byScope[s],
         issued \subseteq issued', uses \subseteq uses', UNCHANGED now,
         \A s \in issued' : s \in issued \/ s.by = t,
         \A u \in uses' : u \in uses \/ u.by = t,
         Justified(job[t], r)'
  PROVE  AInv'
  <1>1. TypeOK /\ Answer(t, r) /\ r # None
    BY NoneAssumption DEF IInv, Conclude
  <1>2. /\ OthersStand(t) /\ pc'[t] = "done" /\ job'[t] = job[t] /\ snapshot'[t] = snapshot[t]
        /\ reply'[t] = r
    BY <1>1 DEF Answer, OthersStand, TypeOK
  <1>3. Checked(t)'
    BY <1>2 DEF Checked
  <1>4. \A k \in Principals \X Keys :
          \/ memo'[k] = memo[k]
          \/ memo'[k].job = job'[t] /\ memo'[k].reply = reply'[t] /\ reply'[t] # None
    BY <1>1, <1>2 DEF Conclude, TypeOK
  <1>5. Justified(job[t], reply[t])'
    BY <1>2 DEF Justified
  <1>6. QED
    BY <1>2, <1>3, <1>4, <1>5, AnswerKept

LEMMA Plain ==
  ASSUME NEW j, NEW r, r.code \notin {"identity", "signed", "verified"}
  PROVE  Justified(j, r)'
  BY DEF Justified

\* An answer that promises nothing, about the same identities and uses.
LEMMA PlainKept ==
  ASSUME IInv, IInv', AInv, NEW t \in Tasks, NEW r \in Reply, pc[t] \notin {"idle", "done"},
         (Answer(t, r) /\ UNCHANGED memo) \/ Conclude(t, r),
         UNCHANGED <<now, byScope, issued, uses>>,
         r.code \notin {"identity", "signed", "verified"}
  PROVE  AInv'
  BY AnswerGiven, Plain

LEMMA AskKept ==
  ASSUME IInv, IInv', AInv, NEW t \in Tasks, Ask(t)
  PROVE  AInv'
  <1>1. TypeOK /\ Checked(t)
    BY DEF IInv, AInv
  <1>2. ASSUME NEW r \in Job, NEW record, Arrive(t, r, record),
               r.op = "sign" => /\ record.id = r.id /\ record.principal = r.principal
                                /\ r.lifetime <= MaximumLifetime
        PROVE  AInv'
    <2>1. /\ OthersStand(t) /\ pc[t] = "idle" /\ pc'[t] = "authorizing" /\ job'[t] = r
          /\ snapshot'[t] = record /\ reply'[t] = None
          /\ UNCHANGED <<shared, executing, memo, until, reply>>
      BY <1>1, <1>2 DEF Arrive, OthersStand, TypeOK, Checked
    <2>2. Checked(t)'
      BY <1>2, <2>1 DEF Checked
    <2>3. reply'[t] # None => Justified(job[t], reply[t])'
      BY <2>1
    <2>4. QED
      BY <2>1, <2>2, <2>3, AnswerKept DEF shared, identities
  <1>3. ASSUME NEW r \in Job, NEW c, TurnAway(t, r, c),
               c \in {"not_recognized", "invalid_request", "unverified"}
        PROVE  AInv'
    <2>1. /\ OthersStand(t) /\ pc[t] = "idle" /\ pc'[t] = "done" /\ job'[t] = r
          /\ reply'[t] = [code |-> c]
          /\ UNCHANGED <<shared, executing, memo, until, snapshot>>
      BY <1>1, <1>3 DEF TurnAway, OthersStand, TypeOK
    <2>2. Checked(t)' /\ Justified(job[t], reply[t])'
      BY <1>3, <2>1 DEF Checked, Justified
    <2>3. QED
      BY <2>1, <2>2, AnswerKept DEF shared, identities
  <1>4. CASE AskProvision(t)
    BY <1>2, <1>4, RequestsAssumption DEF AskProvision
  <1>5. CASE AskSign(t)
    <2>1. PICK r \in Requests :
            /\ r.op = "sign"
            /\ \/ TurnAway(t, r, "invalid_request") \/ TurnAway(t, r, "not_recognized")
               \/ Owns(r) /\ Arrive(t, r, records[r.id]) /\ r.lifetime <= MaximumLifetime
      BY <1>5 DEF AskSign
    <2>2. r \in Job /\ r.id \in Ids
      BY <2>1, RequestsAssumption, JobKinds DEF SignRequest
    <2>3. Owns(r) => records[r.id].id = r.id /\ records[r.id].principal = r.principal
      BY <2>2 DEF Owns, IInv, IdentitiesComplete, RecordsIndexed
    <2>4. QED
      BY <1>2, <1>3, <2>1, <2>2, <2>3
  <1>6. CASE AskUpdate(t)
    <2>1. PICK r \in Requests :
            /\ r.op = "update"
            /\ TurnAway(t, r, "not_recognized") \/ Arrive(t, r, records[r.id])
      BY <1>6 DEF AskUpdate
    <2>2. QED
      BY <1>2, <1>3, <2>1, RequestsAssumption
  <1>7. CASE AskVerify(t)
    <2>1. PICK r \in Requests :
            /\ r.op = "verify"
            /\ TurnAway(t, r, "unverified") \/ Arrive(t, r, records[byDid[r.assertion.did]])
      BY <1>7 DEF AskVerify
    <2>2. QED
      BY <1>2, <1>3, <2>1, RequestsAssumption
  <1>8. QED
    BY <1>4, <1>5, <1>6, <1>7 DEF Ask

LEMMA AuthorizationKept ==
  ASSUME IInv, IInv', AInv, NEW t \in Tasks, Authorize(t) \/ Replay(t) \/ Enter(t)
  PROVE  AInv'
  <1>1. TypeOK /\ Fits(t)
    BY DEF IInv
  <1>2. CASE Authorize(t)
    <2>1. pc[t] = "authorizing" /\ UNCHANGED <<shared, executing, memo>>
      BY <1>2 DEF Authorize
    <2>2. CASE Answer(t, Refusal(t))
      <3>1. Refusal(t).code \notin {"identity", "signed", "verified"}
        BY DEF Refusal
      <3>2. QED
        BY <2>1, <2>2, <3>1, RefusalType, PlainKept DEF shared, identities
    <2>3. ASSUME NEW l \in {"entering", "transiting"}, Goto(t, l),
                 l = "entering" /\ job[t].op = "sign" => snapshot[t].service = job[t].service
          PROVE  AInv'
      BY <2>1, <2>3, GotoKept DEF shared, identities
    <2>4. QED
      BY <1>2, <2>2, <2>3 DEF Authorize
  <1>3. CASE Replay(t)
    <2>1. job[t] \in Job /\ job[t].op # "update" /\ pc[t] = "entering"
      BY <1>1, <1>3 DEF Fits, JobFits, Replay
    <2>2. KeyOf(t) \in Principals \X Keys
      BY <2>1, JobKinds, JobKeys DEF KeyOf
    <2>3. /\ memo[KeyOf(t)] \in Memo /\ memo[KeyOf(t)] # None
          /\ UNCHANGED <<shared, executing, memo>>
      BY <1>1, <1>3, <2>2 DEF Replay, Remembered, TypeOK
    <2>4. CASE memo[KeyOf(t)].job = job[t]
      <3>1. memo[KeyOf(t)].reply \in Reply /\ Answer(t, memo[KeyOf(t)].reply)
        BY <1>3, <2>3, <2>4 DEF Replay, Memo
      <3>2. Justified(job[t], memo[KeyOf(t)].reply)
        BY <2>2, <2>3, <2>4 DEF AInv
      <3>3. Stays
        BY <1>1, <2>1, <2>3, <3>1 DEF Answer, Stays, TypeOK, shared, identities
      <3>4. ASSUME NEW r \in Reply, r = memo[KeyOf(t)].reply
            PROVE  Justified(job[t], r)'
        <4>1. ASSUME NEW j \in Job, j = job[t] PROVE Justified(j, r)'
          BY <1>1, <2>3, <3>2, <3>3, <3>4, <4>1, JustifiedStays DEF TypeOK, shared
        <4>2. job' = job
          BY <3>1 DEF Answer
        <4>3. QED
          BY <2>1, <4>1, <4>2 DEF Justified
      <3>5. QED
        BY <2>1, <2>3, <3>1, <3>4, AnswerGiven DEF shared, identities
    <2>5. CASE memo[KeyOf(t)].job # job[t]
      BY <1>3, <2>1, <2>3, <2>5, Codes, PlainKept DEF Replay, shared, identities
    <2>6. QED
      BY <2>4, <2>5
  <1>4. CASE Enter(t)
    <2>1. pc[t] = "entering" /\ UNCHANGED <<shared, memo>> /\ Checked(t)
      BY <1>4 DEF Enter, AInv
    <2>2. PICK l \in {"resolving", "deciding"} : Goto(t, l)
      BY <1>4 DEF Enter
    <2>3. QED
      BY <2>1, <2>2, GotoKept DEF Checked, shared, identities
  <1>5. QED
    BY <1>2, <1>3, <1>4

\* A provisioning is answered by the identity of its scope.
LEMMA IdentityGiven ==
  ASSUME IInv, IInv', AInv, NEW t \in Tasks, pc[t] \in {"locating", "storing"},
         NEW record \in Record, Conclude(t, IdentityReply(record)),
         \A s \in Scope : byScope[s] # None => byScope'[s] = byScope[s],
         UNCHANGED <<now, issued, uses>>, byScope'[ScopeOf(job[t])] = record.id
  PROVE  AInv'
  <1>1. IdentityReply(record) \in Reply
    BY IdentityReplyType
  <1>2. job' = job
    BY DEF Conclude, Answer
  <1>3. ASSUME NEW r \in Reply, r = IdentityReply(record) PROVE AInv'
    <2>1. r.code = "identity" /\ r.id = record.id
      BY <1>3 DEF IdentityReply
    <2>2. Justified(job[t], r)'
      BY <1>2, <2>1 DEF Justified
    <2>3. QED
      BY <1>3, <2>2, AnswerGiven
  <1>4. QED
    BY <1>1, <1>3

LEMMA ProvisionKept ==
  ASSUME IInv, IInv', AInv, NEW t \in Tasks,
         Resolve(t) \/ Locate(t) \/ Create(t) \/ Store(t)
  PROVE  AInv'
  <1>1. TypeOK /\ Fits(t) /\ IdentitiesComplete
    BY DEF IInv
  <1>2. CASE Resolve(t)
    <2>1. /\ pc[t] = "resolving" /\ UNCHANGED shared
          /\ \/ Conclude(t, [code |-> "invalid_request"])
             \/ Goto(t, "locating") /\ UNCHANGED memo
      BY <1>2 DEF Resolve
    <2>2. QED
      BY <2>1, Codes, PlainKept, GotoKept DEF shared, identities
  <1>3. CASE Locate(t)
    <2>1. /\ pc[t] = "locating" /\ job[t] \in Job /\ job[t].op = "provision"
          /\ ScopeOf(job[t]) \in Scope
          /\ UNCHANGED <<now, records, byDid, byScope, keys, used, issued, uses>>
      BY <1>1, <1>3, JobKinds, JobKeys DEF Locate, Fits, JobFits, Scope, ScopeOf
    <2>2. CASE byScope[ScopeOf(job[t])] # None
                 /\ Conclude(t, IdentityReply(records[byScope[ScopeOf(job[t])]]))
      <3>1. byScope[ScopeOf(job[t])] \in Ids
        BY <1>1, <2>1, <2>2 DEF TypeOK
      <3>2. records[byScope[ScopeOf(job[t])]] # None
        BY <1>1, <2>1, <2>2 DEF IdentitiesComplete, IndexesLead
      <3>3. /\ records[byScope[ScopeOf(job[t])]] \in Record
            /\ records[byScope[ScopeOf(job[t])]].id = byScope[ScopeOf(job[t])]
        BY <1>1, <3>1, <3>2 DEF IdentitiesComplete, RecordsIndexed, TypeOK
      <3>4. QED
        BY <2>1, <2>2, <3>3, IdentityGiven
    <2>3. CASE Goto(t, "creating") /\ UNCHANGED memo
      BY <2>1, <2>3, GotoKept
    <2>4. QED
      BY <1>3, <2>2, <2>3 DEF Locate
  <1>4. CASE Create(t)
    <2>1. /\ pc[t] = "creating" /\ pc'[t] = "storing" /\ OthersStand(t) /\ job'[t] = job[t]
          /\ reply'[t] = reply[t]
          /\ UNCHANGED <<now, byScope, issued, uses, memo>>
      BY <1>1, <1>4 DEF Create, OthersStand, TypeOK
    <2>2. Checked(t)' /\ reply[t] = None
      BY <2>1 DEF AInv, Checked
    <2>3. reply'[t] # None => Justified(job[t], reply[t])'
      BY <2>1, <2>2
    <2>4. QED
      BY <2>1, <2>2, <2>3, AnswerKept
  <1>5. CASE Store(t)
    <2> DEFINE m == snapshot[t]
               record == [id |-> m.id, did |-> m.did, principal |-> job[t].principal,
                          service |-> job[t].service, status |-> "active"]
    <2>1. /\ pc[t] = "storing" /\ UNCHANGED <<now, keys, used, issued, uses>>
          /\ byScope' = [byScope EXCEPT ![ScopeOf(job[t])] = m.id]
          /\ Conclude(t, IdentityReply(record))
      BY <1>5 DEF Store
    <2>2. /\ job[t] \in Job /\ job[t].op = "provision" /\ ScopeOf(job[t]) \in Scope
          /\ job[t].principal \in Principals /\ job[t].service \in Services /\ m \in Material
      BY <1>1, <2>1, JobKinds, JobKeys DEF Fits, JobFits, SnapshotFits, Scope, ScopeOf
    <2>3. record \in Record /\ record.id = m.id
      BY <2>2 DEF Material, Record, Statuses
    <2>4. byScope[ScopeOf(job[t])] = None
      BY <1>1, <2>1 DEF IdentitiesComplete, SoleCreator
    <2>5. /\ \A q \in Scope : byScope[q] # None => byScope'[q] = byScope[q]
          /\ byScope'[ScopeOf(job[t])] = m.id
      BY <1>1, <2>1, <2>2, <2>4 DEF TypeOK
    <2> HIDE DEF record
    <2>6. QED
      BY <2>1, <2>3, <2>5, IdentityGiven
  <1>6. QED
    BY <1>2, <1>3, <1>4, <1>5

LEMMA IssueKept ==
  ASSUME IInv, IInv', AInv, NEW t \in Tasks, NEW exp \in Nat, pc[t] \in {"handling", "signing"},
         Issue(t, exp), exp <= now + MaximumLifetime
  PROVE  AInv'
  <1>1. /\ job[t] \in SignRequest /\ job[t].op = "sign" /\ snapshot[t] \in Record
        /\ snapshot[t].id = job[t].id /\ snapshot[t].principal = job[t].principal
        /\ snapshot[t].service = job[t].service /\ snapshot[t].status = "active"
    BY JobKinds DEF IInv, Fits, JobFits, SnapshotFits, AInv, Checked
  <1>2. [did |-> snapshot[t].did, service |-> job[t].service, jti |-> job[t].jti,
         exp |-> exp, genuine |-> TRUE] \in Assertion
    BY <1>1 DEF SignRequest, Record, Assertion
  <1>3. ASSUME NEW a \in Assertion,
               a = [did |-> snapshot[t].did, service |-> job[t].service, jti |-> job[t].jti,
                    exp |-> exp, genuine |-> TRUE]
        PROVE  AInv'
    <2>1. /\ issued' = issued \cup {[assertion |-> a, by |-> t]}
          /\ Conclude(t, [code |-> "signed", assertion |-> a])
          /\ UNCHANGED <<now, byScope, used, uses>>
      BY <1>3 DEF Issue, identities
    <2>2. job' = job /\ snapshot' = snapshot
      BY <2>1 DEF Conclude, Answer
    <2>3. [code |-> "signed", assertion |-> a] \in Reply
      BY DEF Reply
    <2>4. a.did = snapshot[t].did /\ a.service = job[t].service /\ a.jti = job[t].jti /\ a.exp = exp
      BY <1>3
    <2>5. ASSUME NEW r \in Reply, r = [code |-> "signed", assertion |-> a] PROVE AInv'
      <3>1. r.code = "signed" /\ r.assertion = a
        BY <2>5
      <3>2. [assertion |-> a, by |-> t] \in issued'
        BY <2>1
      <3>3. /\ job'[t] = job[t] /\ snapshot'[t].id = job[t].id /\ snapshot'[t].did = a.did
            /\ ScopeOf(snapshot'[t]) = ScopeOf(job[t]) /\ snapshot'[t].status = "active"
            /\ a.exp <= now' + MaximumLifetime
        BY <1>1, <2>1, <2>2, <2>4 DEF ScopeOf
      <3>4. \E s \in issued' :
              LET record == snapshot'[s.by] IN
              /\ s.assertion = a /\ job'[s.by] = job[t]
              /\ record.id = job[t].id /\ record.did = a.did
              /\ ScopeOf(record) = ScopeOf(job[t]) /\ record.status = "active"
        <4>1. WITNESS [assertion |-> a, by |-> t] \in issued'
        <4>2. QED
          BY <3>3
      <3>5. Justified(job[t], r)'
        BY <1>1, <2>2, <2>4, <3>1, <3>3, <3>4 DEF Justified
      <3>6. QED
        BY <2>1, <2>5, <3>5, AnswerGiven
    <2>6. QED
      BY <2>3, <2>5
  <1>4. QED
    BY <1>2, <1>3

LEMMA SigningKept ==
  ASSUME IInv, IInv', AInv, NEW t \in Tasks,
         Decline(t) \/ Permit(t) \/ LeaveToKeyStore(t) \/ Defer(t) \/ HandlerSigns(t) \/ Sign(t)
  PROVE  AInv'
  <1>1. TypeOK /\ Fits(t) /\ Checked(t) /\ now \in Nat /\ MaximumLifetime \in Nat
    BY TimesAssumption DEF IInv, AInv, TypeOK
  <1>2. pc[t] \in {"handling", "signing"} =>
          job[t].lifetime \in Nat /\ job[t].lifetime <= MaximumLifetime
    BY <1>1, JobKinds, TimesAssumption DEF Fits, JobFits, SignRequest, Checked
  <1>3. CASE Decline(t)
    BY <1>3, Codes, PlainKept DEF Decline, shared, identities
  <1>4. CASE Permit(t)
    <2>1. /\ pc[t] = "deciding" /\ snapshot[t].status = "active" /\ UNCHANGED <<shared, memo>>
          /\ job[t].op = "sign" => snapshot[t].service = job[t].service
      BY <1>1, <1>4 DEF Permit, Checked
    <2>2. PICK l \in {"verifying", "handling"} : Goto(t, l)
      BY <1>4 DEF Permit
    <2>3. QED
      BY <2>1, <2>2, GotoKept DEF shared, identities
  <1>5. CASE LeaveToKeyStore(t)
    <2>1. /\ pc[t] = "handling" /\ pc'[t] = "signing" /\ OthersStand(t) /\ job'[t] = job[t]
          /\ snapshot'[t] = snapshot[t] /\ reply'[t] = reply[t]
          /\ until'[t] = now + job[t].lifetime
          /\ UNCHANGED <<now, byScope, issued, uses, memo>>
      BY <1>1, <1>5 DEF LeaveToKeyStore, OthersStand, TypeOK, shared, identities
    <2>2. until'[t] <= now' + MaximumLifetime
      BY <1>1, <1>2, <2>1
    <2>3. Checked(t)' /\ reply[t] = None
      BY <1>1, <2>1, <2>2 DEF Checked
    <2>4. reply'[t] # None => Justified(job[t], reply[t])'
      BY <2>1, <2>3
    <2>5. QED
      BY <2>1, <2>3, <2>4, AnswerKept
  <1>6. CASE Defer(t)
    BY <1>6, Codes, PlainKept DEF Defer, shared, identities
  <1>7. CASE HandlerSigns(t)
    <2>1. PICK iat \in 0 .. now : pc[t] = "handling" /\ Issue(t, iat + job[t].lifetime)
      BY <1>7 DEF HandlerSigns
    <2>2. iat + job[t].lifetime \in Nat /\ iat + job[t].lifetime <= now + MaximumLifetime
      BY <1>1, <1>2, <2>1
    <2>3. QED
      BY <2>1, <2>2, IssueKept
  <1>8. CASE Sign(t)
    <2>1. until[t] \in Nat /\ until[t] <= now + MaximumLifetime
      BY <1>1, <1>8 DEF Sign, Checked, TypeOK
    <2>2. QED
      BY <1>8, <2>1, IssueKept DEF Sign
  <1>9. QED
    BY <1>3, <1>4, <1>5, <1>6, <1>7, <1>8

LEMMA VerificationKept ==
  ASSUME IInv, IInv', AInv, NEW t \in Tasks, Verify(t) \/ RefuseAssertion(t)
  PROVE  AInv'
  <1>1. CASE Verify(t)
    <2>1. /\ pc[t] = "verifying" /\ UNCHANGED <<now, byScope, issued>>
          /\ uses' = uses \cup {[assertion |-> job[t].assertion, at |-> now, by |-> t]}
          /\ Conclude(t, [code |-> "verified", id |-> snapshot[t].id])
      BY <1>1 DEF Verify, identities
    <2>2. snapshot[t].id \in Ids /\ snapshot[t].status = "active" /\ job[t].op = "verify"
      BY <2>1 DEF IInv, Fits, JobFits, SnapshotFits, Record, AInv, Checked
    <2>3. job' = job /\ snapshot' = snapshot
      BY <2>1 DEF Conclude, Answer
    <2>4. ASSUME NEW i \in Ids, i = snapshot[t].id PROVE AInv'
      <3>1. [code |-> "verified", id |-> i] \in Reply
        BY DEF Reply
      <3>2. ASSUME NEW r \in Reply, r = [code |-> "verified", id |-> i] PROVE AInv'
        <4>1. r.code = "verified" /\ r.id = i
          BY <3>2
        <4>2. [assertion |-> job[t].assertion, at |-> now, by |-> t] \in uses'
          BY <2>1
        <4>3. \E u \in uses' :
                /\ job'[u.by] = job[t] /\ u.assertion = job[t].assertion
                /\ snapshot'[u.by].id = i /\ snapshot'[u.by].status = "active"
          <5>1. WITNESS [assertion |-> job[t].assertion, at |-> now, by |-> t] \in uses'
          <5>2. QED
            BY <2>2, <2>3, <2>4
        <4>4. Justified(job[t], r)'
          BY <2>3, <4>1, <4>3 DEF Justified
        <4>5. QED
          BY <2>1, <2>4, <3>2, <4>4, AnswerGiven
      <3>3. QED
        BY <3>1, <3>2
    <2>5. QED
      BY <2>2, <2>4
  <1>2. CASE RefuseAssertion(t)
    BY <1>2, Codes, PlainKept DEF RefuseAssertion, shared, identities
  <1>3. QED
    BY <1>1, <1>2

LEMMA TransitionKept ==
  ASSUME IInv, IInv', AInv, NEW t \in Tasks, Transit(t)
  PROVE  AInv'
  <1>1. /\ pc[t] = "transiting" /\ UNCHANGED <<now, byScope, issued, uses, memo>>
        /\ job[t] \in Job /\ job[t].op = "update" /\ job[t].id \in Ids
    BY JobKinds DEF Transit, IInv, Fits, JobFits, Lifecycle
  <1>2. CASE Answer(t, [code |-> "rejected"])
    BY <1>1, <1>2, Codes, PlainKept
  <1>3. CASE Answer(t, IdentityReply(records'[job[t].id]))
    <2>1. job' = job
      BY <1>3 DEF Answer
    <2>2. records'[job[t].id] \in Record
      <3>1. job[t].status \in Statuses /\ records[job[t].id] \in Record
        BY <1>1, JobKinds DEF IInv, TypeOK, Fits, SnapshotFits, Owns, Lifecycle
      <3>2. \/ records'[job[t].id] = records[job[t].id]
            \/ records'[job[t].id] = [records[job[t].id] EXCEPT !.status = job[t].status]
        BY <1>1, TransitStep
      <3>3. QED
        BY <3>1, <3>2 DEF Record
    <2>3. ASSUME NEW r \in Reply, r = IdentityReply(records'[job[t].id]) PROVE AInv'
      <3>1. Justified(job[t], r)'
        BY <1>1, <2>1, <2>3 DEF Justified, IdentityReply
      <3>2. QED
        BY <1>1, <1>3, <2>3, <3>1, AnswerGiven
    <2>4. QED
      BY <2>2, <2>3, IdentityReplyType
  <1>4. QED
    BY <1>2, <1>3 DEF Transit

LEMMA RaisedKept ==
  ASSUME IInv, IInv', AInv, NEW t \in Tasks, Collide(t) \/ Fail(t)
  PROVE  AInv'
  BY Codes, PlainKept DEF Collide, Fail, Raise

LEMMA QuietKept ==
  ASSUME IInv, IInv', AInv, Tick \/ UNCHANGED vars
  PROVE  AInv'
  <1>1. /\ now \in Nat /\ now' \in Nat /\ now <= now' /\ TypeOK
        /\ UNCHANGED <<byScope, issued, uses, memo, pc, job, snapshot, until, reply>>
    BY DEF IInv, TypeOK, Tick, vars, shared, identities
  <1>2. Stays
    BY <1>1 DEF Stays
  <1>3. ASSUME NEW j \in Job, NEW r \in Reply, Justified(j, r) PROVE Justified(j, r)'
    BY <1>1, <1>2, <1>3, JustifiedStays
  <1>4. \A t \in Tasks : Checked(t)'
    <2> SUFFICES ASSUME NEW t \in Tasks PROVE Checked(t)'
      OBVIOUS
    <2>1. Checked(t) /\ until[t] \in Nat /\ MaximumLifetime \in Nat
      BY <1>1, TimesAssumption DEF AInv, TypeOK
    <2>2. until[t] <= now + MaximumLifetime => until[t] <= now' + MaximumLifetime
      BY <1>1, <2>1, LimitStays
    <2>3. QED
      BY <1>1, <2>1, <2>2 DEF Checked
  <1>5. AnswersJustified'
    <2> SUFFICES ASSUME NEW t \in Tasks, reply'[t] # None PROVE Justified(job[t], reply[t])'
      BY DEF AnswersJustified
    <2>1. reply[t] \in Reply /\ job[t] \in Job /\ Justified(job[t], reply[t])
      BY <1>1 DEF TypeOK, AInv, AnswersJustified, Checked, IInv, Fits, JobFits
    <2>2. ASSUME NEW j \in Job, NEW r \in Reply, j = job[t], r = reply[t]
          PROVE  Justified(job[t], reply[t])'
      <3>1. Justified(j, r)'
        BY <1>3, <2>1, <2>2
      <3>2. QED
        BY <1>1, <2>2, <3>1 DEF Justified
    <2>3. QED
      BY <2>1, <2>2
  <1>6. ASSUME NEW k \in Principals \X Keys, memo'[k] # None
        PROVE  Justified(memo[k].job, memo[k].reply)'
    <2>1. memo[k].job \in Job /\ memo[k].reply \in Reply /\ Justified(memo[k].job, memo[k].reply)
      BY <1>1, <1>6 DEF TypeOK, Memo, AInv
    <2>2. ASSUME NEW j \in Job, NEW r \in Reply, j = memo[k].job, r = memo[k].reply
          PROVE  Justified(memo[k].job, memo[k].reply)'
      <3>1. Justified(j, r)'
        BY <1>3, <2>1, <2>2
      <3>2. QED
        BY <1>1, <2>2, <3>1 DEF Justified
    <2>3. QED
      BY <2>1, <2>2
  <1>7. QED
    BY <1>1, <1>4, <1>5, <1>6 DEF AInv
-----------------------------------------------------------------------------
LEMMA InitAInv == Init => AInv
  BY DEF Init, AInv, Checked, AnswersJustified

LEMMA NextKept == IInv /\ IInv' /\ AInv /\ [Next]_vars => AInv'
  <1> SUFFICES ASSUME IInv, IInv', AInv, [Next]_vars PROVE AInv'
    OBVIOUS
  <1>1. ASSUME NEW t \in Tasks, Ask(t) \/ Proceed(t) \/ Fail(t) PROVE AInv'
    BY <1>1, AskKept, AuthorizationKept, ProvisionKept, SigningKept, VerificationKept,
       TransitionKept, RaisedKept DEF Proceed
  <1>2. QED
    BY <1>1, QuietKept DEF Next

\* What any request is told, at once, at the end or as a replay of an earlier answer, is about
\* what it asked, and was signed, accepted or provisioned for that (_idempotent, _provision,
\* _sign and _verify).
THEOREM AnswersFit == Spec => []AnswersJustified
  <1>1. AInv => AnswersJustified
    BY DEF AInv
  <1>2. QED
    BY <1>1, InitAInv, NextKept, InvariantHolds, PTL DEF Spec
-----------------------------------------------------------------------------
(* The promise of the idempotency store (PlatformIdempotency). *)

\* What is remembered for a key is the reply of a request that has ended; a request that
\* executes holds its key; and the store has told a request nothing before its end.
HistoryType ==
  /\ kept \in [Principals \X Keys -> Abstract!Response \cup {None}]
  /\ DOMAIN told = Tasks /\ told = [t \in Tasks |-> told[t]]
  /\ \A t \in Tasks : pc[t] # "idle" => job[t] \in Requests

KeptFits ==
  \A k \in Principals \X Keys :
    /\ kept[k] # None =>
         /\ memo[k] # None
         /\ kept[k].request = memo[k].job /\ kept[k].at = memo[k].at
         /\ job[kept[k].by] = memo[k].job /\ reply[kept[k].by] = memo[k].reply
         /\ pc[kept[k].by] = "done"
    /\ Remembered(k) => kept[k] # None

Busy == \A t \in Tasks : pc[t] \in Holding => executing[KeyOf(t)] = t

ToldFits ==
  \A t \in Tasks :
    /\ pc[t] # "done" => told[t] = None
    /\ told[t] # None =>
         /\ told[t].state \in {"created", "replayed"} =>
              /\ told[t].response.by \in Tasks /\ pc[told[t].response.by] = "done"
              /\ job[told[t].response.by] = job[t] /\ reply[told[t].response.by] = reply[t]
         /\ told[t].state = "conflict" => reply[t] = [code |-> "conflict"]
         /\ told[t].state = "failed" => reply[t] = [code |-> "error"]

HistoryFits == HistoryType /\ KeptFits /\ Busy /\ ToldFits

\* A step of t that the store takes no part in, or that ends an execution.
Alone(t) ==
  /\ \A u \in Tasks \ {t} : pc'[u] = pc[u] /\ job'[u] = job[u] /\ reply'[u] = reply[u]
  /\ now' = now

Goes(t) == pc'[t] \in Holding /\ UNCHANGED <<executing, memo, reply>>
Ends(t, r) ==
  /\ pc'[t] = "done" /\ reply'[t] = r
  /\ memo' = [memo EXCEPT ![KeyOf(t)] = [job |-> job[t], reply |-> r, at |-> now]]
  /\ executing' = [executing EXCEPT ![KeyOf(t)] = None]

LEMMA Concludes ==
  ASSUME TypeOK, NEW t \in Tasks, NEW r, Conclude(t, r)
  PROVE  Ends(t, r) /\ job' = job
         /\ \A u \in Tasks \ {t} : pc'[u] = pc[u] /\ reply'[u] = reply[u]
  BY DEF TypeOK, Conclude, Answer, Ends

LEMMA GoesOn ==
  ASSUME TypeOK, NEW t \in Tasks, NEW l \in Holding, Goto(t, l), UNCHANGED <<executing, memo>>
  PROVE  Goes(t) /\ job' = job
         /\ \A u \in Tasks \ {t} : pc'[u] = pc[u] /\ reply'[u] = reply[u]
  BY DEF TypeOK, Goto, Goes

LEMMA OperateStep ==
  ASSUME IInv, NEW t \in Tasks, Operate(t)
  PROVE  /\ pc[t] \in Holding /\ Alone(t) /\ job' = job
         /\ Goes(t) \/ \E r \in Reply : Ends(t, r)
  <1>t. TypeOK /\ Fits(t)
    BY DEF IInv
  <1>1. CASE Resolve(t)
    BY <1>t, <1>1, Concludes, GoesOn, Codes DEF Resolve, Holding, shared, Alone
  <1>2. CASE Locate(t)
    <2>1. byScope[ScopeOf(job[t])] # None => records[byScope[ScopeOf(job[t])]] \in Record
      <3>1. job[t] \in Job /\ job[t].op = "provision"
        BY <1>t, <1>2 DEF Locate, Fits, JobFits
      <3>2. ScopeOf(job[t]) \in Scope
        BY <3>1, JobKinds, JobKeys DEF Scope, ScopeOf
      <3> QED
        BY <3>2 DEF IInv, TypeOK, IdentitiesComplete, IndexesLead
    <2> QED
      BY <1>t, <1>2, <2>1, IdentityReplyType, Concludes, GoesOn DEF Locate, Holding, Alone
  <1>3. CASE Create(t)
    BY <1>t, <1>3 DEF Create, Holding, Alone, Goes, TypeOK
  <1>4. CASE Store(t)
    <2> DEFINE m == snapshot[t]
               record == [id |-> m.id, did |-> m.did, principal |-> job[t].principal,
                          service |-> job[t].service, status |-> "active"]
    <2>1. pc[t] = "storing" /\ now' = now /\ Conclude(t, IdentityReply(record))
      BY <1>4 DEF Store
    <2>2. /\ job[t] \in Job /\ job[t].op = "provision" /\ m \in Material
          /\ job[t].principal \in Principals /\ job[t].service \in Services
      BY <1>t, <2>1, JobKinds, JobKeys DEF Fits, JobFits, SnapshotFits
    <2>3. record \in Record
      BY <2>2 DEF Material, Record, Statuses
    <2>4. pc[t] \in Holding
      BY <2>1 DEF Holding
    <2> HIDE DEF record
    <2> QED
      BY <1>t, <2>1, <2>3, <2>4, IdentityReplyType, Concludes DEF Alone
  <1>5. CASE Decline(t) \/ Defer(t) \/ RefuseAssertion(t)
    <2>1. PICK c \in {"rejected", "unverified", "pending"} : Conclude(t, [code |-> c])
      BY <1>5 DEF Decline, Defer, RefuseAssertion
    <2>2. pc[t] \in Holding /\ now' = now
      BY <1>5 DEF Decline, Defer, RefuseAssertion, Holding, shared
    <2> QED
      BY <1>t, <2>1, <2>2, Concludes, Codes DEF Alone
  <1>6. CASE Permit(t)
    BY <1>t, <1>6, GoesOn DEF Permit, Holding, shared, Alone
  <1>7. CASE LeaveToKeyStore(t)
    BY <1>t, <1>7 DEF LeaveToKeyStore, Holding, shared, Alone, Goes, TypeOK
  <1>8. CASE HandlerSigns(t) \/ Sign(t)
    <2>1. pc[t] \in {"handling", "signing"} /\ pc[t] \in Holding
      BY <1>8 DEF HandlerSigns, Sign, Holding
    <2>2. PICK exp \in Nat : Issue(t, exp)
      <3>1. job[t].lifetime \in Nat /\ now \in Nat /\ until[t] \in Nat
        BY <1>t, <2>1, JobKinds, TimesAssumption DEF TypeOK, Fits, JobFits, SignRequest
      <3> QED
        BY <1>8, <3>1 DEF HandlerSigns, Sign
    <2> DEFINE a == [did |-> snapshot[t].did, service |-> job[t].service, jti |-> job[t].jti,
                     exp |-> exp, genuine |-> TRUE]
    <2>3. a \in Assertion
      BY <1>t, <2>1, JobKinds DEF Fits, JobFits, SnapshotFits, SignRequest, Record, Assertion
    <2>4. [code |-> "signed", assertion |-> a] \in Reply
      BY <2>3 DEF Reply
    <2>5. Conclude(t, [code |-> "signed", assertion |-> a]) /\ now' = now
      BY <2>2 DEF Issue
    <2> HIDE DEF a
    <2> QED
      BY <1>t, <2>1, <2>4, <2>5, Concludes DEF Alone
  <1>9. CASE Verify(t)
    <2>1. /\ pc[t] = "verifying" /\ now' = now
          /\ Conclude(t, [code |-> "verified", id |-> snapshot[t].id])
      BY <1>9 DEF Verify
    <2>2. [code |-> "verified", id |-> snapshot[t].id] \in Reply
      BY <1>t, <2>1 DEF Fits, JobFits, SnapshotFits, Record, Reply
    <2>3. pc[t] \in Holding
      BY <2>1 DEF Holding
    <2> QED
      BY <1>t, <2>1, <2>2, <2>3, Concludes DEF Alone
  <1> QED
    BY <1>1, <1>2, <1>3, <1>4, <1>5, <1>6, <1>7, <1>8, <1>9 DEF Operate

LEMMA ElseStep ==
  ASSUME TypeOK, NEW t \in Tasks, Ask(t) \/ Authorize(t) \/ Transit(t)
  PROVE  /\ Alone(t) /\ UNCHANGED <<executing, memo>>
         /\ pc[t] \in {"idle", "authorizing", "transiting"}
         /\ pc'[t] \in {"authorizing", "entering", "transiting", "done"}
         /\ job'[t] = job[t] \/ (pc[t] = "idle" /\ job'[t] \in Requests)
         /\ job'[t] \in Requests \/ (pc[t] # "idle" /\ job'[t] = job[t])
  <1>1. ASSUME NEW r \in Requests, NEW record, Arrive(t, r, record)
        PROVE  /\ Alone(t) /\ UNCHANGED <<executing, memo>> /\ pc[t] = "idle"
               /\ pc'[t] = "authorizing" /\ job'[t] = r
    BY <1>1 DEF Arrive, Alone, shared, TypeOK
  <1>2. ASSUME NEW r \in Requests, NEW code, TurnAway(t, r, code)
        PROVE  /\ Alone(t) /\ UNCHANGED <<executing, memo>> /\ pc[t] = "idle"
               /\ pc'[t] = "done" /\ job'[t] = r
    BY <1>2 DEF TurnAway, Alone, shared, TypeOK
  <1>3. CASE AskProvision(t)
    BY <1>3, <1>1 DEF AskProvision
  <1>4. CASE AskSign(t)
    BY <1>4, <1>1, <1>2 DEF AskSign
  <1>5. CASE AskUpdate(t)
    BY <1>5, <1>1, <1>2 DEF AskUpdate
  <1>6. CASE AskVerify(t)
    BY <1>6, <1>1, <1>2 DEF AskVerify
  <1>7. CASE Authorize(t)
    BY <1>7 DEF Authorize, Alone, shared, TypeOK, Answer, Goto
  <1>8. CASE Transit(t)
    BY <1>8 DEF Transit, Alone, TypeOK, Answer
  <1> QED
    BY <1>3, <1>4, <1>5, <1>6, <1>7, <1>8 DEF Ask

LEMMA KeyOfTask ==
  ASSUME IInv, NEW t \in Tasks, pc[t] \in Holding \cup {"entering"}
  PROVE  KeyOf(t) \in Principals \X Keys /\ job[t] \in Job
  <1>1. job[t] \in Job /\ job[t].op # "update"
    BY DEF IInv, Fits, JobFits, Holding
  <1> QED
    BY <1>1, JobKinds, JobKeys DEF KeyOf

\* The key of t is free, or another request's, while t waits to enter.
LEMMA EntersFree ==
  ASSUME IInv, NEW t \in Tasks, pc[t] = "entering"
  PROVE  \A k \in Principals \X Keys : executing[k] # t
  BY NoneAssumption DEF IInv, HoldersProceed

LEMMA HistoryInit == ObservedInit => HistoryFits
  <1> SUFFICES ASSUME ObservedInit PROVE HistoryFits
    OBVIOUS
  <1> USE DEF ObservedInit, Init
  <1>1. HistoryType
    BY DEF HistoryType
  <1>2. KeptFits /\ Busy /\ ToldFits
    BY DEF KeptFits, Remembered, Busy, Holding, ToldFits
  <1> QED
    BY <1>1, <1>2 DEF HistoryFits

\* The step of t leaves what is remembered and told as it was.
LEMMA HistoryStands ==
  ASSUME IInv, HistoryFits, NEW t \in Tasks, Alone(t), UNCHANGED <<executing, memo, history>>,
         pc[t] # "done", pc[t] = "idle" \/ job'[t] = job[t],
         pc'[t] # "idle" => job'[t] \in Requests,
         pc'[t] \in Holding => executing[KeyOf(t)'] = t
  PROVE  HistoryFits'
  <1> USE DEF HistoryFits, Alone
  <1>1. HistoryType'
    BY DEF HistoryType, history
  <1>2. KeptFits'
    <2>1. \A j \in Principals \X Keys : Remembered(j)' <=> Remembered(j)
      BY DEF Remembered
    <2>2. \A j \in Principals \X Keys : kept[j] # None => kept[j].by \in Tasks
      BY DEF HistoryType, Abstract!Response
    <2> QED
      BY <2>1, <2>2 DEF KeptFits, history
  <1>3. Busy'
    BY DEF Busy, KeyOf
  <1>4. ToldFits'
    BY DEF ToldFits, history
  <1> QED
    BY <1>1, <1>2, <1>3, <1>4

LEMMA EnterObserved ==
  ASSUME IInv, HistoryFits, NEW t \in Tasks, ObserveEnter(t)
  PROVE  HistoryFits' /\ Abstract!AbsBegin(t, KeyOf(t)) /\ KeyOf(t) \in Principals \X Keys
  <1> DEFINE k == KeyOf(t)
  <1> USE DEF HistoryFits
  <1>1. /\ pc[t] = "entering" /\ ~Remembered(k) /\ executing[k] = None
        /\ executing' = [executing EXCEPT ![k] = t]
        /\ kept' = [kept EXCEPT ![k] = None] /\ told' = told
        /\ now' = now /\ memo' = memo /\ job' = job /\ reply' = reply
        /\ pc' = [pc EXCEPT ![t] = pc'[t]] /\ pc'[t] \in Holding
    BY DEF ObserveEnter, Enter, Goto, shared, IInv, TypeOK, Holding
  <1>2. k \in Principals \X Keys
    BY <1>1, KeyOfTask
  <1>3. Alone(t) /\ KeyOf(t)' = k
    BY <1>1 DEF Alone, KeyOf, IInv, TypeOK
  <1>4. HistoryType'
    BY <1>1, <1>2 DEF HistoryType, IInv, TypeOK
  <1>5. KeptFits'
    <2>1. \A j \in Principals \X Keys : Remembered(j)' <=> Remembered(j)
      BY <1>1 DEF Remembered
    <2>2. \A j \in Principals \X Keys : kept'[j] = IF j = k THEN None ELSE kept[j]
      BY <1>1, <1>2 DEF HistoryType
    <2>3. \A u \in Tasks : pc[u] = "done" => pc'[u] = "done"
      BY <1>1, <1>3 DEF Alone
    <2>4. \A j \in Principals \X Keys : kept[j] # None => kept[j].by \in Tasks
      BY DEF HistoryType, Abstract!Response
    <2> QED
      BY <1>1, <2>1, <2>2, <2>3, <2>4 DEF KeptFits
  <1>6. Busy'
    <2>1. ASSUME NEW u \in Tasks \ {t}, pc'[u] \in Holding PROVE executing'[KeyOf(u)'] = u
      <3>1. executing[KeyOf(u)] = u /\ KeyOf(u)' = KeyOf(u) /\ KeyOf(u) \in Principals \X Keys
        BY <1>1, <1>3, <2>1, KeyOfTask DEF Busy, Alone, KeyOf
      <3> QED
        BY <1>1, <3>1, NoneAssumption DEF IInv, TypeOK
    <2>2. executing'[KeyOf(t)'] = t
      BY <1>1, <1>2, <1>3 DEF IInv, TypeOK
    <2> QED
      BY <2>1, <2>2 DEF Busy
  <1>7. ToldFits'
    BY <1>1, <1>3 DEF ToldFits, Alone
  <1>8. Abstract!Forgotten(kept')
    <2>1. kept[k] = None \/ now > kept[k].at + Retention
      <3> SUFFICES ASSUME kept[k] # None PROVE now > kept[k].at + Retention
        OBVIOUS
      <3>1. kept[k].at = memo[k].at /\ kept[k].at \in Nat
        BY <1>2 DEF KeptFits, HistoryType, Abstract!Response
      <3>2. memo[k] # None
        BY <1>2, <1>1 DEF KeptFits
      <3> QED
        BY <1>1, <3>1, <3>2, TimesAssumption DEF Remembered, IInv, TypeOK
    <2>2. \A j \in Principals \X Keys : kept'[j] = IF j = k THEN None ELSE kept[j]
      BY <1>1, <1>2 DEF HistoryType
    <2> QED
      BY <2>1, <2>2 DEF Abstract!Forgotten
  <1>9. Abstract!AbsBegin(t, k)
    <2>1. told[t] = None /\ kept'[k] = None /\ (\A j \in Principals \X Keys : executing[j] # t)
      BY <1>1, <1>2, EntersFree DEF ToldFits, HistoryType
    <2> QED
      BY <1>1, <1>8, <2>1 DEF Abstract!AbsBegin
  <1> QED
    BY <1>2, <1>4, <1>5, <1>6, <1>7, <1>9

LEMMA ReplayObserved ==
  ASSUME IInv, HistoryFits, NEW t \in Tasks, ObserveReplay(t)
  PROVE  HistoryFits' /\ Abstract!AbsLookup(t, KeyOf(t), job[t]) /\ job[t] \in Requests
         /\ KeyOf(t) \in Principals \X Keys
  <1> DEFINE k == KeyOf(t)
             outcome == IF memo[k].job = job[t]
                        THEN [state |-> "replayed", key |-> k, response |-> kept[k]]
                        ELSE [state |-> "conflict", key |-> k]
             answer == IF memo[k].job = job[t] THEN memo[k].reply ELSE [code |-> "conflict"]
  <1> USE DEF HistoryFits
  <1>1. /\ pc[t] = "entering" /\ Remembered(k)
        /\ told' = [told EXCEPT ![t] = outcome]
        /\ reply' = [reply EXCEPT ![t] = answer]
        /\ pc' = [pc EXCEPT ![t] = "done"]
        /\ kept' = kept /\ now' = now /\ memo' = memo /\ job' = job /\ executing' = executing
    BY DEF ObserveReplay, Tell, Replay, Answer, shared
  <1>2. k \in Principals \X Keys /\ job[t] \in Requests
    BY <1>1, KeyOfTask DEF HistoryType
  <1>3. Alone(t) /\ pc'[t] = "done" /\ reply'[t] = answer
    BY <1>1 DEF Alone, IInv, TypeOK
  <1>4. /\ kept[k] # None /\ kept[k].request = memo[k].job
        /\ kept[k].by \in Tasks \ {t} /\ pc[kept[k].by] = "done"
        /\ job[kept[k].by] = memo[k].job /\ reply[kept[k].by] = memo[k].reply
    BY <1>1, <1>2 DEF KeptFits, HistoryType, Abstract!Response
  <1>5. told'[t] = outcome /\ \A u \in Tasks \ {t} : told'[u] = told[u]
    BY <1>1 DEF HistoryType
  <1>6. HistoryType'
    BY <1>1, <1>3 DEF HistoryType, Alone
  <1>7. KeptFits'
    <2>1. \A j \in Principals \X Keys : Remembered(j)' <=> Remembered(j)
      BY <1>1 DEF Remembered
    <2>2. \A j \in Principals \X Keys : kept[j] # None => kept[j].by \in Tasks
      BY DEF HistoryType, Abstract!Response
    <2> QED
      BY <1>1, <1>3, <2>1, <2>2 DEF KeptFits, Alone
  <1>8. Busy'
    BY <1>1, <1>3 DEF Busy, Holding, Alone, KeyOf
  <1>9. ToldFits'
    <2>1. ASSUME NEW u \in Tasks \ {t} PROVE (pc'[u] # "done" => told'[u] = None) /\
             (told'[u] # None =>
         /\ told'[u].state \in {"created", "replayed"} =>
              /\ told'[u].response.by \in Tasks /\ pc'[told'[u].response.by] = "done"
              /\ job'[told'[u].response.by] = job'[u] /\ reply'[told'[u].response.by] = reply'[u]
         /\ told'[u].state = "conflict" => reply'[u] = [code |-> "conflict"]
         /\ told'[u].state = "failed" => reply'[u] = [code |-> "error"])
      BY <1>1, <1>3, <1>5, <2>1 DEF ToldFits, Alone
    <2>2. CASE memo[k].job = job[t]
      <3>1. told'[t] = [state |-> "replayed", key |-> k, response |-> kept[k]]
            /\ reply'[t] = memo[k].reply
        BY <1>3, <1>5, <2>2
      <3> HIDE DEF outcome, answer
      <3>2. told'[t].state = "replayed" /\ told'[t].response = kept[k]
        BY <3>1
      <3> QED
        BY <1>1, <1>3, <1>4, <2>1, <2>2, <3>1, <3>2 DEF ToldFits, Alone
    <2>3. CASE memo[k].job # job[t]
      <3>1. told'[t].state = "conflict" /\ reply'[t] = [code |-> "conflict"]
        BY <1>3, <1>5, <2>3
      <3> HIDE DEF outcome, answer
      <3> QED
        BY <1>3, <2>1, <3>1 DEF ToldFits
    <2> QED
      BY <2>2, <2>3
  <1>10. Abstract!AbsLookup(t, k, job[t])
    <2>1. told[t] = None /\ (\A j \in Principals \X Keys : executing[j] # t)
      BY <1>1, EntersFree DEF ToldFits
    <2>2. Abstract!Forgotten(kept')
      BY <1>1 DEF Abstract!Forgotten
    <2> QED
      BY <1>1, <1>4, <2>1, <2>2 DEF Abstract!AbsLookup
  <1> QED
    BY <1>2, <1>6, <1>7, <1>8, <1>9, <1>10

LEMMA OperationObserved ==
  ASSUME IInv, HistoryFits, NEW t \in Tasks, ObserveOperation(t)
  PROVE  /\ HistoryFits'
         /\ \/ UNCHANGED <<now, executing, kept, told>>
            \/ /\ Abstract!AbsSucceed(t, KeyOf(t), job[t]) /\ job[t] \in Requests
               /\ KeyOf(t) \in Principals \X Keys
  <1> DEFINE k == KeyOf(t)
             response == [request |-> job[t], by |-> t, at |-> now]
             outcome == [state |-> "created", key |-> k, response |-> response]
  <1> USE DEF HistoryFits
  <1>1. /\ pc[t] \in Holding /\ Alone(t) /\ job' = job
        /\ Goes(t) \/ \E r \in Reply : Ends(t, r)
    BY OperateStep DEF ObserveOperation
  <1>2. k \in Principals \X Keys /\ job[t] \in Job /\ executing[k] = t /\ job[t] \in Requests
    BY <1>1, KeyOfTask DEF Busy, HistoryType, Holding
  <1>3. CASE Goes(t)
    <2>1. UNCHANGED history
      BY <1>3 DEF ObserveOperation, Goes, Holding
    <2>2. pc'[t] \in Holding => executing[KeyOf(t)'] = t
      BY <1>1, <1>2 DEF KeyOf
    <2>3. pc'[t] # "idle" => job'[t] \in Requests
      BY <1>1, <1>2
    <2>4. HistoryFits'
      BY <1>1, <1>3, <2>1, <2>2, <2>3, HistoryStands DEF Goes, Holding
    <2> QED
      BY <1>1, <1>3, <2>1, <2>4 DEF Goes, Alone, history
  <1>4. ASSUME NEW r \in Reply, Ends(t, r)
        PROVE  HistoryFits' /\ Abstract!AbsSucceed(t, k, job[t])
    <2>1. /\ kept' = [kept EXCEPT ![k] = response]
          /\ told' = [told EXCEPT ![t] = outcome]
      BY <1>4 DEF ObserveOperation, Ends, Tell
    <2>2. /\ pc'[t] = "done" /\ reply'[t] = r /\ now' = now
          /\ memo' = [memo EXCEPT ![k] = [job |-> job[t], reply |-> r, at |-> now]]
          /\ executing' = [executing EXCEPT ![k] = None]
          /\ \A u \in Tasks \ {t} : pc'[u] = pc[u] /\ reply'[u] = reply[u]
      BY <1>1, <1>4 DEF Ends, Alone
    <2>3. response \in Abstract!Response /\ response # None
      BY <1>2, NoneAssumption DEF Abstract!Response, IInv, TypeOK
    <2>4. /\ \A j \in Principals \X Keys : kept'[j] = IF j = k THEN response ELSE kept[j]
          /\ \A j \in Principals \X Keys :
               memo'[j] = IF j = k THEN [job |-> job[t], reply |-> r, at |-> now] ELSE memo[j]
          /\ told'[t] = outcome /\ \A u \in Tasks \ {t} : told'[u] = told[u]
      BY <1>2, <2>1, <2>2 DEF HistoryType, IInv, TypeOK
    <2>5. HistoryType'
      <3>1. kept' \in [Principals \X Keys -> Abstract!Response \cup {None}]
        BY <1>2, <2>1, <2>3 DEF HistoryType
      <3>2. DOMAIN told' = Tasks /\ told' = [u \in Tasks |-> told'[u]]
        BY <2>1 DEF HistoryType
      <3>3. \A u \in Tasks : pc'[u] # "idle" => job'[u] \in Requests
        BY <1>1, <1>2, <2>2 DEF HistoryType
      <3> QED
        BY <3>1, <3>2, <3>3 DEF HistoryType
    <2>6. KeptFits'
      <3>1. ASSUME NEW j \in Principals \X Keys, j # k
            PROVE  /\ kept'[j] = kept[j] /\ memo'[j] = memo[j] /\ (Remembered(j)' <=> Remembered(j))
                   /\ kept[j] # None => kept[j].by \in Tasks \ {t} /\ pc[kept[j].by] = "done"
        <4>1. pc[t] # "done"
          BY <1>1 DEF Holding
        <4>2. kept[j] # None => kept[j].by \in Tasks
          BY DEF HistoryType, Abstract!Response
        <4> QED
          BY <2>2, <2>4, <3>1, <4>1, <4>2 DEF Remembered, KeptFits
      <3>2. /\ kept'[k].request = memo'[k].job /\ kept'[k].at = memo'[k].at
            /\ memo'[k] # None
            /\ kept'[k].by = t /\ memo'[k].job = job[t] /\ memo'[k].reply = r /\ kept'[k] # None
        <4>1. [job |-> job[t], reply |-> r, at |-> now] \in Memo
          BY <1>2 DEF Memo, IInv, TypeOK
        <4> QED
          BY <1>2, <2>3, <2>4, <4>1, NoneAssumption
      <3>3. ASSUME NEW j \in Principals \X Keys, j # k
            PROVE  /\ kept'[j] # None =>
                        /\ memo'[j] # None
                        /\ kept'[j].request = memo'[j].job /\ kept'[j].at = memo'[j].at
                        /\ job'[kept'[j].by] = memo'[j].job /\ reply'[kept'[j].by] = memo'[j].reply
                        /\ pc'[kept'[j].by] = "done"
                   /\ Remembered(j)' => kept'[j] # None
        BY <1>1, <2>2, <3>1, <3>3 DEF KeptFits
      <3> HIDE DEF k
      <3> QED
        BY <1>1, <2>2, <3>2, <3>3 DEF KeptFits
    <2>7. Busy'
      <3>1. ASSUME NEW u \in Tasks, pc'[u] \in Holding PROVE executing'[KeyOf(u)'] = u
        <4>1. u # t /\ pc[u] \in Holding
          BY <2>2, <3>1 DEF Holding
        <4>2. executing[KeyOf(u)] = u /\ KeyOf(u) \in Principals \X Keys /\ KeyOf(u)' = KeyOf(u)
          BY <1>1, <4>1, KeyOfTask DEF Busy, KeyOf
        <4> QED
          BY <1>2, <2>2, <4>1, <4>2 DEF IInv, TypeOK
      <3> QED
        BY <3>1 DEF Busy
    <2>8. ToldFits'
      <3>1. told'[t].state = "created" /\ told'[t].response.by = t
        BY <2>4
      <3>2. ASSUME NEW u \in Tasks \ {t}
            PROVE  /\ told'[u] = told[u] /\ pc'[u] = pc[u] /\ reply'[u] = reply[u]
                   /\ (told[u] # None /\ told[u].state \in {"created", "replayed"}) =>
                        told[u].response.by \in Tasks \ {t}
        <4>1. pc[t] # "done"
          BY <1>1 DEF Holding
        <4> QED
          BY <2>2, <2>4, <4>1 DEF ToldFits
      <3> HIDE DEF outcome, response, k
      <3> QED
        BY <1>1, <2>2, <3>1, <3>2 DEF ToldFits
    <2>9. Abstract!AbsSucceed(t, k, job[t])
      BY <1>2, <2>1, <2>2 DEF Abstract!AbsSucceed
    <2> QED
      BY <2>5, <2>6, <2>7, <2>8, <2>9
  <1> QED
    BY <1>1, <1>2, <1>3, <1>4

LEMMA FailureObserved ==
  ASSUME IInv, HistoryFits, NEW t \in Tasks, ObserveFailure(t)
  PROVE  /\ HistoryFits'
         /\ Abstract!AbsFail(t) \/ UNCHANGED <<now, executing, kept, told>>
  <1> DEFINE free == [j \in Principals \X Keys |->
                        IF executing[j] = t THEN None ELSE executing[j]]
  <1> USE DEF HistoryFits
  <1>1. /\ pc[t] \notin {"idle", "done"} /\ kept' = kept /\ now' = now /\ memo' = memo
        /\ job' = job /\ executing' = free
        /\ pc' = [pc EXCEPT ![t] = "done"] /\ reply' = [reply EXCEPT ![t] = [code |-> "error"]]
    BY DEF ObserveFailure, Collide, Fail, Raise, Released, Answer, IInv, TypeOK
  <1>2. /\ Alone(t) /\ pc'[t] = "done" /\ reply'[t] = [code |-> "error"]
        /\ job[t] \in Requests
    BY <1>1 DEF Alone, IInv, TypeOK, HistoryType
  <1>3. CASE pc[t] \in {"authorizing", "transiting"}
    <2>1. UNCHANGED history
      BY <1>1, <1>3 DEF ObserveFailure, history
    <2>2. \A j \in Principals \X Keys : executing[j] # t
      BY <1>3, NoneAssumption DEF IInv, HoldersProceed
    <2>3. executing' = executing
      BY <1>1, <2>2 DEF IInv, TypeOK
    <2>4. HistoryFits'
      BY <1>1, <1>2, <2>1, <2>3, HistoryStands DEF Holding
    <2> QED
      BY <1>1, <2>1, <2>3, <2>4 DEF history
  <1>4. CASE pc[t] \notin {"authorizing", "transiting"}
    <2>1. told' = [told EXCEPT ![t] = [state |-> "failed"]]
      BY <1>4 DEF ObserveFailure, Tell
    <2>2. told'[t] = [state |-> "failed"] /\ \A u \in Tasks \ {t} : told'[u] = told[u]
      BY <2>1 DEF HistoryType
    <2>3. HistoryType'
      BY <1>1, <1>2, <2>1 DEF HistoryType, Alone
    <2>4. KeptFits'
      <3>1. \A j \in Principals \X Keys : Remembered(j)' <=> Remembered(j)
        BY <1>1 DEF Remembered
      <3>2. \A j \in Principals \X Keys : kept[j] # None =>
              kept[j].by \in Tasks \ {t} /\ pc[kept[j].by] = "done"
        BY <1>1 DEF HistoryType, Abstract!Response, KeptFits
      <3> QED
        BY <1>1, <1>2, <3>1, <3>2 DEF KeptFits, Alone
    <2>5. Busy'
      <3>1. ASSUME NEW u \in Tasks, pc'[u] \in Holding PROVE executing'[KeyOf(u)'] = u
        <4>1. u # t /\ pc[u] \in Holding
          BY <1>2, <3>1 DEF Holding, Alone
        <4>2. executing[KeyOf(u)] = u /\ KeyOf(u) \in Principals \X Keys /\ KeyOf(u)' = KeyOf(u)
          BY <1>1, <4>1, KeyOfTask DEF Busy, KeyOf
        <4> QED
          BY <1>1, <4>1, <4>2
      <3> QED
        BY <3>1 DEF Busy
    <2>6. ToldFits'
      <3>1. ASSUME NEW u \in Tasks \ {t}
            PROVE  /\ told'[u] = told[u] /\ pc'[u] = pc[u] /\ reply'[u] = reply[u]
                   /\ (told[u] # None /\ told[u].state \in {"created", "replayed"}) =>
                        told[u].response.by \in Tasks \ {t}
        BY <1>1, <1>2, <2>2 DEF ToldFits, Alone
      <3>2. told'[t].state = "failed"
        BY <2>2
      <3> QED
        BY <1>1, <1>2, <3>1, <3>2 DEF ToldFits, Alone
    <2>7. Abstract!AbsFail(t)
      <3>1. told[t] = None
        BY <1>1 DEF ToldFits
      <3> QED
        BY <1>1, <2>1, <3>1 DEF Abstract!AbsFail
    <2> QED
      BY <2>3, <2>4, <2>5, <2>6, <2>7
  <1> QED
    BY <1>3, <1>4

LEMMA ElseObserved ==
  ASSUME IInv, HistoryFits, NEW t \in Tasks, ObserveElse(t)
  PROVE  HistoryFits' /\ UNCHANGED <<now, executing, kept, told>>
  <1>1. UNCHANGED history
    BY DEF ObserveElse, Otherwise
  <1>2. /\ Alone(t) /\ UNCHANGED <<executing, memo>> /\ pc[t] # "done"
        /\ pc'[t] \notin Holding /\ (pc[t] = "idle" \/ job'[t] = job[t])
        /\ job'[t] \in Requests
    BY ElseStep DEF ObserveElse, Otherwise, IInv, HistoryFits, HistoryType, Holding
  <1> QED
    BY <1>1, <1>2, HistoryStands DEF Alone, history

LEMMA TickObserved ==
  ASSUME IInv, HistoryFits, Tick, UNCHANGED history
  PROVE  HistoryFits' /\ Abstract!AbsTick
  <1> USE DEF HistoryFits, Tick, history
  <1>1. now \in Nat /\ now' = now + 1
    BY DEF IInv, TypeOK
  <1>2. \A j \in Principals \X Keys : Remembered(j)' => Remembered(j)
    BY <1>1, TimesAssumption DEF Remembered, IInv, TypeOK, Memo
  <1>3. HistoryType' /\ KeptFits' /\ Busy' /\ ToldFits'
    BY <1>2 DEF HistoryType, KeptFits, Busy, KeyOf, ToldFits
  <1> QED
    BY <1>3 DEF Abstract!AbsTick

LEMMA ObservedStutter ==
  ASSUME HistoryFits, UNCHANGED <<vars, history>>
  PROVE  HistoryFits' /\ UNCHANGED <<now, executing, kept, told>>
  <1>1. UNCHANGED <<now, executing, memo, pc, job, reply, kept, told>>
    BY DEF vars, shared, history
  <1>2. HistoryType' /\ KeptFits' /\ Busy' /\ ToldFits'
    BY <1>1 DEF HistoryFits, HistoryType, KeptFits, Remembered, Busy, KeyOf, ToldFits
  <1> QED
    BY <1>1, <1>2 DEF HistoryFits

\* Observation adds nothing to what the Platform does.
LEMMA ObservedNextIsNext == [ObservedNext]_<<vars, history>> => [Next]_vars
  BY DEF ObservedNext, ObserveEnter, ObserveReplay, ObserveOperation, ObserveFailure, ObserveElse, Otherwise,
         Operate, Next, Proceed

LEMMA ObservedStep ==
  IInv /\ HistoryFits /\ [ObservedNext]_<<vars, history>> =>
    HistoryFits' /\ [Abstract!AbsNext]_(Abstract!absVars)
  <1> SUFFICES ASSUME IInv, HistoryFits, [ObservedNext]_<<vars, history>>
               PROVE  HistoryFits' /\ [Abstract!AbsNext]_(Abstract!absVars)
    OBVIOUS
  <1>1. CASE UNCHANGED <<vars, history>>
    BY <1>1, ObservedStutter DEF Abstract!absVars
  <1>2. CASE Tick /\ UNCHANGED history
    BY <1>2, TickObserved DEF Abstract!AbsNext
  <1>3. ASSUME NEW t \in Tasks, ObserveEnter(t)
        PROVE  HistoryFits' /\ [Abstract!AbsNext]_(Abstract!absVars)
    BY <1>3, EnterObserved DEF Abstract!AbsNext
  <1>4. ASSUME NEW t \in Tasks, ObserveReplay(t)
        PROVE  HistoryFits' /\ [Abstract!AbsNext]_(Abstract!absVars)
    BY <1>4, ReplayObserved DEF Abstract!AbsNext
  <1>5. ASSUME NEW t \in Tasks, ObserveOperation(t)
        PROVE  HistoryFits' /\ [Abstract!AbsNext]_(Abstract!absVars)
    BY <1>5, OperationObserved DEF Abstract!AbsNext, Abstract!absVars
  <1>6. ASSUME NEW t \in Tasks, ObserveFailure(t)
        PROVE  HistoryFits' /\ [Abstract!AbsNext]_(Abstract!absVars)
    BY <1>6, FailureObserved DEF Abstract!AbsNext, Abstract!absVars
  <1>7. ASSUME NEW t \in Tasks, ObserveElse(t)
        PROVE  HistoryFits' /\ [Abstract!AbsNext]_(Abstract!absVars)
    BY <1>7, ElseObserved DEF Abstract!absVars
  <1> QED
    BY <1>1, <1>2, <1>3, <1>4, <1>5, <1>6, <1>7 DEF ObservedNext

\* Every step of the Platform is one of those that are observed; and since what an observation
\* adds is determined by the state before it, there is one for every behaviour of the Platform.
THEOREM EveryStepIsObserved ==
  Next <=> \/ Tick
           \/ \E t \in Tasks : \/ Enter(t) \/ Replay(t) \/ Operate(t) \/ Otherwise(t)
                             \/ Collide(t) \/ Fail(t)
  BY DEF Next, Proceed, Operate, Otherwise

\* The history variables only observe: with them the Platform does what it does without.
THEOREM ObservedIsPlatform == ObservedSpec => Spec
  <1>1. ObservedInit => Init
    BY DEF ObservedInit
  <1> QED
    BY <1>1, ObservedNextIsNext, PTL DEF ObservedSpec, Spec

LEMMA HistoryHolds == ObservedSpec => [](IInv /\ HistoryFits)
  <1>1. IInv /\ HistoryFits /\ [ObservedNext]_<<vars, history>> => HistoryFits'
    BY ObservedStep
  <1> QED
    BY <1>1, HistoryInit, ObservedIsPlatform, InvariantHolds, PTL DEF ObservedSpec

\* The Platform's handling of Idempotency-Keys meets the promise of an idempotency store, for
\* any number of callers and keys: an operation runs only where nothing is remembered and
\* nothing runs, its answer is what every later request of the key is told, and a failed
\* one leaves no trace.
THEOREM PlatformExecutesIdempotently == ObservedSpec => ExecutesIdempotently
  <1>1. ObservedInit => Abstract!AbsInit
    BY DEF ObservedInit, Init, Abstract!AbsInit
  <1>2. IInv /\ HistoryFits /\ [ObservedNext]_<<vars, history>> =>
          [Abstract!AbsNext]_(Abstract!absVars)
    BY ObservedStep
  <1> QED
    BY <1>1, <1>2, HistoryHolds, PTL DEF ObservedSpec, ExecutesIdempotently, Abstract!AbsSpec

\* What a caller is told agrees with what the idempotency store told its request: a replay
\* is the answer of the same request's execution, another request gets a conflict, and a
\* failure an error.
THEOREM AnswersFollow == ObservedSpec => []RepliesFollow
  <1>1. HistoryFits => RepliesFollow
    BY DEF HistoryFits, ToldFits, RepliesFollow
  <1> QED
    BY <1>1, HistoryHolds, PTL
=============================================================================
