------------------------------ MODULE Enrollment ------------------------------
(***************************************************************************)
(* The Enroll command's stored operation: AepService.enroll's execute and  *)
(* _update_enrollment (service/service.py) over MemoryEnrollmentStore      *)
(* (service/stores.py).  A task is one execution, already past assertion   *)
(* and idempotency; several run at once for one Agent when it, or two of   *)
(* its processes, use different idempotency keys.  The enrollment policy   *)
(* is awaited between reading the record and writing it; the application   *)
(* owns the store and saves lifecycle changes into it at any time.         *)
(***************************************************************************)
EXTENDS Naturals, FiniteSets, NoValue

CONSTANTS
  Tasks,
  Agents,
  ClaimNames,     \* claim names and document ids a request may use ...
  DocumentIds,
  Documents,      \* ... ids of _document.service_documents
  RequiredDocs,   \* those with enrollment = "required"
  AdvertisedClaims,
  RequiredClaims,
  DocumentsSupported, \* whether the Service Documents extension is advertised
  Requests,       \* Enroll bodies: claim names and declared document ids
  Decisions,      \* what the enrollment policy may decide
  MaxSaves        \* bound on the application's own saves

Statuses == {"active", "pending", "rejected", "suspended", "terminated", "unavailable"}

\* `declared' is None when the body omits acknowledged_document_ids; it and the
\* claims may name ids and claims that the Service does not advertise.
Request == [claims : SUBSET ClaimNames, declared : (SUBSET DocumentIds) \cup {None}]

\* `owner' stands for owner_action_required, requirements_pending and
\* verification_pending, which are treated alike; None leaves them as they are.
Decision == [status : {"active", "pending", "rejected"},
             owner : BOOLEAN \cup {None}, update : BOOLEAN]

ASSUME RequiredAssumption ==
  /\ RequiredDocs \subseteq Documents /\ Documents \subseteq DocumentIds
  /\ RequiredClaims \subseteq AdvertisedClaims /\ AdvertisedClaims \subseteq ClaimNames
ASSUME RequestsAssumption == Requests \subseteq Request
ASSUME DecisionsAssumption == Decisions \subseteq Decision
ASSUME MaxSavesAssumption == MaxSaves \in Nat
ASSUME DocumentsSupportedAssumption == DocumentsSupported \in BOOLEAN

VARIABLES
  records,   \* MemoryEnrollmentStore._records
  pending,   \* MemoryEnrollmentStore._pending: the task whose factory runs
  pc, agent, request,
  snapshot,  \* snapshot[t]: the record t found, which its update will rewrite
  reply,     \* reply[t]: the result of the operation
  given,     \* history: statuses an Agent got from its first decision or the application
  saves      \* how many times the application saved

store == <<records, pending>>
local == <<pc, agent, request, snapshot, reply>>
vars == <<records, pending, pc, agent, request, snapshot, reply, given, saves>>

\* `creator' stands for what creation fixes: enrollment_id, created_at and since.
Record == [status : Statuses, claims : SUBSET AdvertisedClaims, acked : SUBSET Documents,
           renew : SUBSET Documents, owner : BOOLEAN, creator : Tasks]

Reply == [code : {200}, status : Statuses, declared : (SUBSET DocumentIds) \cup {None}]
           \cup [code : {403, 422, 500}]

ASSUME NoneAssumption ==
  /\ None \notin Tasks \cup Agents
  /\ None \notin Record /\ None \notin Reply /\ None \notin Request

TypeOK ==
  /\ records \in [Agents -> Record \cup {None}]
  /\ pending \in [Agents -> Tasks \cup {None}]
  /\ pc \in [Tasks -> {"idle", "creating", "waiting", "admitting", "updating", "done"}]
  /\ agent \in [Tasks -> Agents \cup {None}]
  /\ request \in [Tasks -> Request \cup {None}]
  /\ snapshot \in [Tasks -> Record \cup {None}]
  /\ reply \in [Tasks -> Reply \cup {None}]
  /\ given \in [Agents -> SUBSET Statuses]
  /\ saves \in 0..MaxSaves

Init ==
  /\ records = [a \in Agents |-> None]
  /\ pending = [a \in Agents |-> None]
  /\ pc = [t \in Tasks |-> "idle"]
  /\ agent = [t \in Tasks |-> None]
  /\ request = [t \in Tasks |-> None]
  /\ snapshot = [t \in Tasks |-> None]
  /\ reply = [t \in Tasks |-> None]
  /\ given = [a \in Agents |-> {}]
  /\ saves = 0
-----------------------------------------------------------------------------
\* execute() drops the declaration when the extension is not advertised.
Effective(r) == IF DocumentsSupported THEN r ELSE [r EXCEPT !.declared = None]

Declared(r) == IF r.declared = None THEN {} ELSE r.declared

\* _missing_document_ids, for no record and for a record
MissingDocs(record) ==
  IF record = None THEN RequiredDocs
  ELSE {d \in RequiredDocs : d \notin record.acked \/ d \in record.renew}

\* Documents are only asked for when the request declares nothing at all.
Unmet(record, claims, r) ==
  \/ ~ RequiredClaims \subseteq claims
  \/ r.declared = None /\ MissingDocs(record) # {}

\* _enrollment_result: the declaration is echoed, except to a rejected Agent.
Result(record, r) ==
  [code |-> 200, status |-> record.status,
   declared |-> IF record.status = "rejected" THEN None ELSE r.declared]

Answer(t, result) ==
  /\ pc' = [pc EXCEPT ![t] = "done"]
  /\ reply' = [reply EXCEPT ![t] = result]

\* execute() finds the record: it updates what exists, refuses an incomplete first
\* request and otherwise goes on to create.
Find(t, a, body) ==
  LET r == Effective(body)
      found == records[a]
      refused == found = None /\ Unmet(None, r.claims, r) IN
  /\ pc[t] = "idle"
  /\ agent' = [agent EXCEPT ![t] = a]
  /\ request' = [request EXCEPT ![t] = r]
  /\ snapshot' = [snapshot EXCEPT ![t] = found]
  /\ pc' = [pc EXCEPT ![t] = IF found # None THEN "updating"
                             ELSE IF refused THEN "done" ELSE "creating"]
  /\ reply' = [reply EXCEPT ![t] = IF refused THEN [code |-> 422] ELSE None]
  /\ UNCHANGED <<records, pending, given, saves>>
-----------------------------------------------------------------------------
(* find_or_create *)

\* Somebody else created the record meanwhile: it answers this request too.
Reuse(t) ==
  /\ pc[t] = "creating"
  /\ records[agent[t]] # None
  /\ Answer(t, Result(records[agent[t]], request[t]))
  /\ UNCHANGED <<store, agent, request, snapshot, given, saves>>

\* Mutants: a factory starts beside another one, or after one that created the record.
ClaimBeside(t) ==
  /\ pc[t] = "creating"
  /\ records[agent[t]] = None
  /\ pending' = [pending EXCEPT ![agent[t]] = t]
  /\ pc' = [pc EXCEPT ![t] = "admitting"]
  /\ UNCHANGED <<records, agent, request, snapshot, reply, given, saves>>

ClaimAfterwards(t) ==
  /\ pc[t] = "creating"
  /\ pending[agent[t]] = None
  /\ pending' = [pending EXCEPT ![agent[t]] = t]
  /\ pc' = [pc EXCEPT ![t] = "admitting"]
  /\ UNCHANGED <<records, agent, request, snapshot, reply, given, saves>>

ClaimCreation(t) ==
  /\ pc[t] = "creating"
  /\ records[agent[t]] = None
  /\ pending[agent[t]] = None
  /\ pending' = [pending EXCEPT ![agent[t]] = t]
  /\ pc' = [pc EXCEPT ![t] = "admitting"]
  /\ UNCHANGED <<records, agent, request, snapshot, reply, given, saves>>

AwaitCreation(t) ==
  /\ pc[t] = "creating"
  /\ records[agent[t]] = None
  /\ pending[agent[t]] # None
  /\ pc' = [pc EXCEPT ![t] = "waiting"]
  /\ UNCHANGED <<store, agent, request, snapshot, reply, given, saves>>

\* The factory's task is over: its event is removed and set.
Release(t, result) ==
  /\ pending' = [pending EXCEPT ![agent[t]] = None]
  /\ pc' = [u \in Tasks |->
              IF u = t THEN "done"
              ELSE IF pc[u] = "waiting" /\ agent[u] = agent[t] THEN "creating" ELSE pc[u]]
  /\ reply' = [reply EXCEPT ![t] = result]

\* Mutant: ids are acknowledged that the Service does not know.
CreatedUnfiltered(t, d) ==
  [status |-> d.status, claims |-> request[t].claims \cap AdvertisedClaims,
   acked |-> IF d.status = "rejected" THEN {} ELSE Declared(request[t]),
   renew |-> {}, owner |-> d.owner = TRUE, creator |-> t]

\* create(): the policy decided on the first enrollment.
Created(t, d) ==
  [status |-> d.status,
   claims |-> request[t].claims \cap AdvertisedClaims,
   acked |-> IF d.status = "rejected" THEN {} ELSE Declared(request[t]) \cap Documents,
   renew |-> {},
   owner |-> d.owner = TRUE,
   creator |-> t]

Admit(t, d) ==
  /\ pc[t] = "admitting"
  /\ records' = [records EXCEPT ![agent[t]] = Created(t, d)]
  /\ given' = [given EXCEPT ![agent[t]] = @ \cup {d.status}]
  /\ Release(t, Result(Created(t, d), request[t]))
  /\ UNCHANGED <<agent, request, snapshot, saves>>

\* Mutant: a policy that raises leaves the event behind.
AdmissionFailsUnreleased(t) ==
  /\ pc[t] = "admitting"
  /\ Answer(t, [code |-> 500])
  /\ UNCHANGED <<store, agent, request, snapshot, given, saves>>

\* The policy raised, or the task was cancelled while deciding.
AdmissionFails(t) ==
  /\ pc[t] = "admitting"
  /\ Release(t, [code |-> 500])
  /\ UNCHANGED <<records, agent, request, snapshot, given, saves>>
-----------------------------------------------------------------------------
(* _update_enrollment, when the policy has decided on a repeated request *)

\* Mutants: the supplied claims replace the stored ones; the decision's status does.
UpdatedClaims(t, d) ==
  [snapshot[t] EXCEPT !.claims = request[t].claims \cap AdvertisedClaims]

UpdatedStatus(t, d) ==
  [snapshot[t] EXCEPT !.claims = @ \cup (request[t].claims \cap AdvertisedClaims),
                      !.status = d.status]

Updated(t, d) ==
  LET old == snapshot[t]
      r == request[t] IN
  [old EXCEPT !.claims = @ \cup (r.claims \cap AdvertisedClaims),
              !.acked = @ \cup (Declared(r) \cap Documents),
              !.renew = @ \ Declared(r),
              !.owner = IF d.owner = None THEN @ ELSE d.owner]

UpdateRefused(t, d) ==
  /\ pc[t] = "updating"
  /\ d.status = "rejected"
  /\ Answer(t, [code |-> 403])
  /\ UNCHANGED <<store, agent, request, snapshot, given, saves>>

UpdateSkipped(t, d) ==
  /\ pc[t] = "updating"
  /\ d.status # "rejected"
  /\ ~ d.update
  /\ Answer(t, Result(snapshot[t], request[t]))
  /\ UNCHANGED <<store, agent, request, snapshot, given, saves>>

UpdateIncomplete(t, d) ==
  /\ pc[t] = "updating"
  /\ d.status # "rejected"
  /\ d.update
  /\ Unmet(snapshot[t], Updated(t, d).claims, request[t])
  /\ Answer(t, [code |-> 422])
  /\ UNCHANGED <<store, agent, request, snapshot, given, saves>>

\* save() writes the whole record, made from the one this task found.
UpdateSaved(t, d) ==
  /\ pc[t] = "updating"
  /\ d.status # "rejected"
  /\ d.update
  /\ ~ Unmet(snapshot[t], Updated(t, d).claims, request[t])
  /\ records' = [records EXCEPT ![agent[t]] = Updated(t, d)]
  /\ Answer(t, Result(Updated(t, d), request[t]))
  /\ UNCHANGED <<pending, agent, request, snapshot, given, saves>>

\* A task without a factory fails: its policy raised, or it was cancelled.
Abort(t) ==
  /\ pc[t] \in {"creating", "waiting", "updating"}
  /\ Answer(t, [code |-> 500])
  /\ UNCHANGED <<store, agent, request, snapshot, given, saves>>
-----------------------------------------------------------------------------
\* The application saves a new lifecycle status, or asks for documents again.
SetStatus(a, s) ==
  /\ saves < MaxSaves
  /\ records[a] # None
  /\ records[a].status # s
  /\ records' = [records EXCEPT ![a].status = s]
  /\ given' = [given EXCEPT ![a] = @ \cup {s}]
  /\ saves' = saves + 1
  /\ UNCHANGED <<pending, local>>

RequireAgain(a, d) ==
  /\ saves < MaxSaves
  /\ records[a] # None
  /\ records' = [records EXCEPT ![a].renew = @ \cup {d}]
  /\ saves' = saves + 1
  /\ UNCHANGED <<pending, local, given>>

Application ==
  \E a \in Agents : \/ \E s \in Statuses : SetStatus(a, s)
                    \/ \E d \in RequiredDocs : RequireAgain(a, d)

Decide(t) ==
  \E d \in Decisions :
    \/ Admit(t, d)
    \/ UpdateRefused(t, d)
    \/ UpdateSkipped(t, d)
    \/ UpdateIncomplete(t, d)
    \/ UpdateSaved(t, d)

Step(t) == Reuse(t) \/ ClaimCreation(t) \/ AwaitCreation(t)
Fail(t) == AdmissionFails(t) \/ Abort(t)

Next ==
  \/ Application
  \/ \E t \in Tasks : \/ \E a \in Agents, r \in Requests : Find(t, a, r)
                      \/ Step(t) \/ Decide(t) \/ Fail(t)

Spec == Init /\ [][Next]_vars

\* Ready tasks run, and a policy that is asked decides unless its task fails first;
\* the application need not act.
FairSpec == Spec /\ \A t \in Tasks : WF_vars(Step(t)) /\ WF_vars(Decide(t))
-----------------------------------------------------------------------------
\* The policy decides a first enrollment in one task at a time, and the Agent has a
\* pending event exactly then: find_or_create() neither runs two factories for an
\* Agent nor leaves its event behind when one raises.
SoleFactory ==
  \A a \in Agents :
    {t \in Tasks : pc[t] = "admitting" /\ agent[t] = a}
      = IF pending[a] = None THEN {} ELSE {pending[a]}

\* Whoever reads an enrollment may rely on the required claims being in it, although
\* only the request, or the merge with a stale record, was tested for them.
CompleteClaims ==
  \A a \in Agents : records[a] # None => RequiredClaims \subseteq records[a].claims

\* An Enroll never makes up a lifecycle status: what the record has, and what any
\* answer reports, the first decision or the application gave to the Agent.
StatusGiven ==
  /\ \A a \in Agents : records[a] # None => records[a].status \in given[a]
  /\ \A t \in Tasks : reply[t] # None /\ reply[t].code = 200
       => reply[t].status \in given[agent[t]]

\* An acknowledgement on record was declared by a request of that Agent.
AckedWasDeclared ==
  \A a \in Agents : records[a] # None =>
    \A d \in records[a].acked :
      \E t \in Tasks : agent[t] = a /\ d \in Declared(request[t])

\* What is on record is sound, whatever was read before the policy was awaited.
RecordsSound == CompleteClaims /\ StatusGiven /\ AckedWasDeclared

\* The enrollment made first is the only one: whatever races, its identity stays.
OneEnrollment ==
  [][\A a \in Agents : records[a] # None =>
       records'[a] # None /\ records'[a].creator = records[a].creator]_vars

\* "Previously stored claims and acknowledgements survive omission on repeated
\* Enroll" (README.md:329) when nobody wrote between its read and its save.
UndisturbedMerge ==
  [][\A t \in Tasks :
       pc[t] = "updating" /\ records'[agent[t]] # records[agent[t]]
         /\ pc'[t] = "done" /\ snapshot[t] = records[agent[t]] =>
           LET old == records[agent[t]]
               new == records'[agent[t]] IN
           /\ old.claims \subseteq new.claims
           /\ old.acked \subseteq new.acked
           /\ new.renew \subseteq old.renew
           /\ new.status = old.status]_vars

\* Every execution ends, whichever factories raise and whoever else enrolls.
EveryEnrollEnds == \A t \in Tasks : pc[t] # "idle" ~> pc[t] = "done"

\* "Repeated Enroll merges supplied claims without replacing the enrollment
\* identity, creation time, lifecycle state, or issued credentials"
\* (README.md:255): only the application changes the status of an enrollment.
RepeatedEnrollKeepsLifecycle ==
  [][\A a \in Agents :
       records[a] # None /\ records'[a].status # records[a].status
         => \E s \in Statuses : SetStatus(a, s)]_vars

\* The known ids whose declaration a successful Enroll echoes are on record then:
\* "EnrollmentRecord.acknowledged_document_ids retains accepted known IDs"
\* (README.md:321), unless the policy left the record unchanged.
EchoedIsStored ==
  [][\A t \in Tasks :
       pc[t] = "creating" /\ reply'[t] # None /\ reply'[t].code = 200
         /\ reply'[t].declared # None
         => reply'[t].declared \cap Documents \subseteq records'[agent[t]].acked]_vars
=============================================================================
