------------------------------- MODULE Platform -------------------------------
(***************************************************************************)
(* The hosted identity Platform (platform/platform.py): provision, sign,   *)
(* update_identity and verify over MemoryIdentityStore and                 *)
(* MemoryReplayStore (platform/stores.py).  A task is one request.  It is  *)
(* suspended while the application's authorizer, resolver, policies and    *)
(* key store answer, and decides by the identity record it read before.    *)
(* The idempotency store is what IdempotentExecution says of it: a request *)
(* enters when no other one of its key is executing.                       *)
(***************************************************************************)
EXTENDS Integers, NoValue

CONSTANTS
  Tasks,
  Principals, Services,
  Ids, Dids,    \* agent_identity_id; agent_did, which the agent_did_id determines
  Keys,         \* Idempotency-Keys
  Jtis,         \* identifiers of assertions, with their operation
  Materials,    \* what the generators of identifiers may return
  Forged,       \* assertions that the Platform did not sign
  Lifetimes,    \* what sign requests may ask for
  Requests,     \* what callers ask
  Provisioned,  \* the records of the identity store at the start
  MaximumLifetime,
  Retention,    \* of the idempotency store
  MaxTime       \* bound on the clock

Material == [id : Ids, did : Dids]
Assertion == [did : Dids, service : Services, jti : Jtis, exp : Nat, genuine : BOOLEAN]

ASSUME MaterialsAssumption == Materials \subseteq Material
ASSUME ForgedAssumption == Forged \subseteq Assertion /\ \A a \in Forged : ~ a.genuine
ASSUME TimesAssumption ==
  /\ Lifetimes \subseteq Nat
  /\ MaximumLifetime \in Nat /\ Retention \in Nat /\ MaxTime \in Nat

VARIABLES
  now,         \* the Platform's clock
  records,     \* MemoryIdentityStore: _records ...
  byDid,       \* ... _by_agent_did and _by_agent_did_id
  byScope,     \* ... _by_scope
  pending,     \* ... _pending: the task whose factory runs
  keys,        \* the identities that the key store made a key for
  used,        \* MemoryReplayStore._records
  executing,   \* idempotency: who executes, what is remembered
  memo,
  pc, job,
  snapshot,    \* snapshot[t]: the record that t read, or the material it made
  until,       \* until[t]: the expiry of the assertion t is having signed
  reply,
  issued,      \* history: assertions and the tasks that signed them, and the uses
  uses         \*   of them that hosted verification accepted

identities == <<records, byDid, byScope, pending, keys>>
shared == <<now, identities, used, issued, uses>>
vars == <<shared, executing, memo, pc, job, snapshot, until, reply>>

Scope == Principals \X Services
Statuses == {"active", "revoked", "suspended", "terminated"}
Record == [id : Ids, did : Dids, principal : Principals, service : Services, status : Statuses]

Provision == [op : {"provision"}, principal : Principals, service : Services, key : Keys]
SignRequest == [op : {"sign"}, principal : Principals, id : Ids, service : Services,
                jti : Jtis, lifetime : Lifetimes, key : Keys]
Verification == [op : {"verify"}, principal : Principals, assertion : Assertion,
                 service : Services, key : Keys]
Lifecycle == [op : {"update"}, principal : Principals, id : Ids, status : Statuses]
Job == Provision \cup SignRequest \cup Verification \cup Lifecycle

ASSUME RequestsAssumption == Requests \subseteq Job

ScopeOf(r) == <<r.principal, r.service>>

ASSUME ProvisionedAssumption ==
  /\ Provisioned \subseteq Record
  /\ \A r, s \in Provisioned :
       r # s => r.id # s.id /\ r.did # s.did /\ ScopeOf(r) # ScopeOf(s)

Identifier == Services \X Dids \X Jtis
IdentifierOf(a) == <<a.service, a.did, a.jti>>

Reply == [code : {"not_recognized", "invalid_request", "rejected", "unverified", "pending",
                  "conflict", "error"}]
           \cup [code : {"identity"}, id : Ids, status : Statuses]
           \cup [code : {"signed"}, assertion : Assertion]
           \cup [code : {"verified"}, id : Ids]
Memo == [job : Job, reply : Reply, at : Nat]

\* None is no record of any kind.
ASSUME NoneAssumption ==
  /\ None \notin Tasks /\ None \notin Ids
  /\ None \notin Record /\ None \notin Memo /\ None \notin Reply /\ None \notin Job
  /\ None \notin [request : Job, by : Tasks, at : Nat]

TypeOK ==
  /\ now \in Nat
  /\ records \in [Ids -> Record \cup {None}]
  /\ byDid \in [Dids -> Ids \cup {None}]
  /\ byScope \in [Scope -> Ids \cup {None}]
  /\ pending \in [Scope -> Tasks \cup {None}]
  /\ keys \subseteq Material
  /\ used \in [Identifier -> Nat]
  /\ executing \in [Principals \X Keys -> Tasks \cup {None}]
  /\ memo \in [Principals \X Keys -> Memo \cup {None}]
  /\ pc \in [Tasks -> {"idle", "authorizing", "entering", "resolving", "locating", "creating",
                       "storing", "deciding", "handling", "signing", "verifying",
                       "transiting", "done"}]
  /\ job \in [Tasks -> Job \cup {None}]
  /\ snapshot \in [Tasks -> Record \cup Material \cup {None}]
  /\ until \in [Tasks -> Nat]
  /\ reply \in [Tasks -> Reply \cup {None}]
  /\ issued \subseteq [assertion : Assertion, by : Tasks]
  /\ uses \subseteq [assertion : Assertion, at : Nat, by : Tasks]

Only(S) == IF S = {} THEN None ELSE CHOOSE x \in S : TRUE

\* An identifier that is not remembered is remembered until 0.
Init ==
  /\ now = 0
  /\ records = [i \in Ids |-> Only({r \in Provisioned : r.id = i})]
  /\ byDid = [d \in Dids |-> Only({r.id : r \in {r \in Provisioned : r.did = d}})]
  /\ byScope = [s \in Scope |-> Only({r.id : r \in {r \in Provisioned : ScopeOf(r) = s}})]
  /\ pending = [s \in Scope |-> None]
  /\ keys = {[id |-> r.id, did |-> r.did] : r \in Provisioned}
  /\ used = [i \in Identifier |-> 0]
  /\ executing = [k \in Principals \X Keys |-> None]
  /\ memo = [k \in Principals \X Keys |-> None]
  /\ pc = [t \in Tasks |-> "idle"]
  /\ job = [t \in Tasks |-> None]
  /\ snapshot = [t \in Tasks |-> None]
  /\ until = [t \in Tasks |-> 0]
  /\ reply = [t \in Tasks |-> None]
  /\ issued = {}
  /\ uses = {}

----------------------------------------------------------------------------
\* Where the next suspension of t is, and what t answers its caller.
Goto(t, l) == pc' = [pc EXCEPT ![t] = l] /\ UNCHANGED <<job, snapshot, until, reply>>

Answer(t, r) ==
  /\ pc' = [pc EXCEPT ![t] = "done"]
  /\ reply' = [reply EXCEPT ![t] = r]
  /\ UNCHANGED <<job, snapshot, until>>

Refusal(t) == [code |-> IF job[t].op = "verify" THEN "unverified" ELSE "not_recognized"]

KeyOf(t) == <<job[t].principal, job[t].key>>

\* _store_result: the answer is remembered and the key free again.
Conclude(t, r) ==
  /\ memo' = [memo EXCEPT ![KeyOf(t)] = [job |-> job[t], reply |-> r, at |-> now]]
  /\ executing' = [executing EXCEPT ![KeyOf(t)] = None]
  /\ Answer(t, r)

Released(holder, t) == [x \in DOMAIN holder |-> IF holder[x] = t THEN None ELSE holder[x]]

\* Mutant: a failed creation leaves its event in _pending.
RaisePending(t) ==
  /\ executing' = Released(executing, t)
  /\ Answer(t, [code |-> "error"])
  /\ UNCHANGED <<now, records, byDid, byScope, pending, keys, used, memo, issued, uses>>

\* The finally clauses of find_or_create and execute; nothing is remembered.
Raise(t) ==
  /\ pending' = Released(pending, t)
  /\ executing' = Released(executing, t)
  /\ Answer(t, [code |-> "error"])
  /\ UNCHANGED <<now, records, byDid, byScope, keys, used, memo, issued, uses>>

Tick == now < MaxTime /\ now' = now + 1 /\ UNCHANGED <<identities, used, issued, uses, executing,
                                                        memo, pc, job, snapshot, until, reply>>

----------------------------------------------------------------------------
\* Request r arrives at an idle task, which goes on with the record it read or is answered at once.
Arrive(t, r, record) ==
  /\ pc[t] = "idle"
  /\ pc' = [pc EXCEPT ![t] = "authorizing"]
  /\ job' = [job EXCEPT ![t] = r]
  /\ snapshot' = [snapshot EXCEPT ![t] = record]
  /\ UNCHANGED <<shared, executing, memo, until, reply>>

TurnAway(t, r, code) ==
  /\ pc[t] = "idle"
  /\ pc' = [pc EXCEPT ![t] = "done"]
  /\ job' = [job EXCEPT ![t] = r]
  /\ reply' = [reply EXCEPT ![t] = [code |-> code]]
  /\ UNCHANGED <<shared, executing, memo, snapshot, until>>

Owns(r) == records[r.id] # None /\ records[r.id].principal = r.principal

AskProvision(t) == \E r \in {r \in Requests : r.op = "provision"} : Arrive(t, r, None)

AskSign(t) == \E r \in {r \in Requests : r.op = "sign"} :
  \/ r.lifetime > MaximumLifetime /\ TurnAway(t, r, "invalid_request")
  \/ r.lifetime <= MaximumLifetime /\ ~ Owns(r) /\ TurnAway(t, r, "not_recognized")
  \/ r.lifetime <= MaximumLifetime /\ Owns(r) /\ Arrive(t, r, records[r.id])

AskUpdate(t) == \E r \in {r \in Requests : r.op = "update"} :
  \/ ~ Owns(r) /\ TurnAway(t, r, "not_recognized")
  \/ Owns(r) /\ Arrive(t, r, records[r.id])

Signed == {s.assertion : s \in issued}

\* The assertion's issuer is looked up before its signature is checked.
AskVerify(t) ==
  \E r \in {r \in Requests : r.op = "verify" /\ r.assertion \in Signed \cup Forged} :
    LET i == byDid[r.assertion.did]
        known == i # None /\ records[i].service = r.service
    IN  \/ ~ known /\ TurnAway(t, r, "unverified")
        \/ known /\ Arrive(t, r, records[i])

\* authorizer.authorize, and what sign and update_identity decide next.
Authorize(t) ==
  /\ pc[t] = "authorizing"
  /\ \/ Answer(t, Refusal(t))
     \/ job[t].op = "sign" /\ snapshot[t].service # job[t].service /\ Answer(t, Refusal(t))
     \/ job[t].op = "sign" /\ snapshot[t].service = job[t].service /\ Goto(t, "entering")
     \/ job[t].op \in {"provision", "verify"} /\ Goto(t, "entering")
     \/ job[t].op = "update" /\ Goto(t, "transiting")
  /\ UNCHANGED <<shared, executing, memo>>

\* _idempotent, up to the operation.
Remembered(k) == memo[k] # None /\ memo[k].at + Retention >= now

\* Mutant: the request hash is not compared.
ReplayOfAnyRequest(t) ==
  /\ pc[t] = "entering" /\ Remembered(KeyOf(t))
  /\ Answer(t, memo[KeyOf(t)].reply)
  /\ UNCHANGED <<shared, executing, memo>>

Replay(t) ==
  /\ pc[t] = "entering" /\ Remembered(KeyOf(t))
  /\ Answer(t, IF memo[KeyOf(t)].job = job[t] THEN memo[KeyOf(t)].reply
               ELSE [code |-> "conflict"])
  /\ UNCHANGED <<shared, executing, memo>>

Enter(t) ==
  /\ pc[t] = "entering" /\ ~ Remembered(KeyOf(t)) /\ executing[KeyOf(t)] = None
  /\ executing' = [executing EXCEPT ![KeyOf(t)] = t]
  /\ Goto(t, IF job[t].op = "provision" THEN "resolving" ELSE "deciding")
  /\ UNCHANGED <<shared, memo>>

----------------------------------------------------------------------------
\* _provision: the service DID resolves or it does not.
Resolve(t) ==
  /\ pc[t] = "resolving"
  /\ \/ Conclude(t, [code |-> "invalid_request"])
     \/ Goto(t, "locating") /\ UNCHANGED <<executing, memo>>
  /\ UNCHANGED shared

IdentityReply(record) == [code |-> "identity", id |-> record.id, status |-> record.status]

\* Mutant: the scope is not claimed while its identity is created.
LocateUnclaimed(t) == LET s == ScopeOf(job[t]) IN
  /\ pc[t] = "locating"
  /\ \/ /\ byScope[s] # None
        /\ Conclude(t, IdentityReply(records[byScope[s]]))
     \/ byScope[s] = None /\ Goto(t, "creating") /\ UNCHANGED <<executing, memo>>
  /\ UNCHANGED shared

\* find_or_create: the scope's identity or the right to create it.  A task that meets the pending
\* event of another waits here: its turns of the loop until then change nothing.
Locate(t) == LET s == ScopeOf(job[t]) IN
  /\ pc[t] = "locating"
  /\ \/ /\ byScope[s] # None
        /\ Conclude(t, IdentityReply(records[byScope[s]]))
        /\ UNCHANGED pending
     \/ /\ byScope[s] = None /\ pending[s] = None
        /\ pending' = [pending EXCEPT ![s] = t]
        /\ Goto(t, "creating")
        /\ UNCHANGED <<executing, memo>>
  /\ UNCHANGED <<now, records, byDid, byScope, keys, used, issued, uses>>

\* _create_identity: the generators choose m and the key store makes its key.
Create(t) == \E m \in Materials :
  /\ pc[t] = "creating"
  /\ keys' = keys \cup {m}
  /\ snapshot' = [snapshot EXCEPT ![t] = m]
  /\ pc' = [pc EXCEPT ![t] = "storing"]
  /\ UNCHANGED <<now, records, byDid, byScope, pending, used, issued, uses, executing, memo,
                 job, until, reply>>

\* Mutant: only the DID is tested for uniqueness.
UniqueDid(m) == byDid[m.did] = None

Unique(m) == records[m.id] = None /\ byDid[m.did] = None

\* find_or_create, when the factory returned unique material.
Store(t) ==
  /\ pc[t] = "storing" /\ Unique(snapshot[t])
  /\ LET m == snapshot[t]
         s == ScopeOf(job[t])
         record == [id |-> m.id, did |-> m.did, principal |-> job[t].principal,
                    service |-> job[t].service, status |-> "active"]
     IN  /\ records' = [records EXCEPT ![m.id] = record]
         /\ byDid' = [byDid EXCEPT ![m.did] = m.id]
         /\ byScope' = [byScope EXCEPT ![s] = m.id]
         /\ pending' = [pending EXCEPT ![s] = None]
         /\ Conclude(t, IdentityReply(record))
  /\ UNCHANGED <<now, keys, used, issued, uses>>

Collide(t) == pc[t] = "storing" /\ ~ Unique(snapshot[t]) /\ Raise(t)

----------------------------------------------------------------------------
\* _sign and _verify decide by the status in the record that was read on arrival; the lifecycle
\* policy may refuse an active identity too.
Decline(t) ==
  /\ pc[t] = "deciding"
  /\ Conclude(t, [code |-> IF job[t].op = "verify" THEN "unverified" ELSE "rejected"])
  /\ UNCHANGED shared

Permit(t) ==
  /\ pc[t] = "deciding" /\ snapshot[t].status = "active"
  /\ Goto(t, IF job[t].op = "verify" THEN "verifying" ELSE "handling")
  /\ UNCHANGED <<shared, executing, memo>>

\* Mutant: the lifetime is taken off the time.
LeaveExpired(t) ==
  /\ pc[t] = "handling"
  /\ until' = [until EXCEPT ![t] = now - job[t].lifetime]
  /\ pc' = [pc EXCEPT ![t] = "signing"]
  /\ UNCHANGED <<shared, executing, memo, job, snapshot, reply>>

\* The sign handler leaves the request to the key store (as when there is no handler), or defers it.
LeaveToKeyStore(t) ==
  /\ pc[t] = "handling"
  /\ until' = [until EXCEPT ![t] = now + job[t].lifetime]
  /\ pc' = [pc EXCEPT ![t] = "signing"]
  /\ UNCHANGED <<shared, executing, memo, job, snapshot, reply>>

Defer(t) == pc[t] = "handling" /\ Conclude(t, [code |-> "pending"]) /\ UNCHANGED shared

Issue(t, exp) ==
  LET a == [did |-> snapshot[t].did, service |-> job[t].service, jti |-> job[t].jti,
            exp |-> exp, genuine |-> TRUE]
  IN  /\ issued' = issued \cup {[assertion |-> a, by |-> t]}
      /\ Conclude(t, [code |-> "signed", assertion |-> a])
      /\ UNCHANGED <<now, identities, used, uses>>

\* key_store.sign, with the times of the reading before it.
Sign(t) == pc[t] = "signing" /\ Issue(t, until[t])

\* The handler signs itself; _validate_sign_result asks for the lifetime, an issue time that has come
\* and an expiry that has not.
HandlerSigns(t) ==
  /\ pc[t] = "handling"
  /\ \E iat \in 0 .. now :
       now < iat + job[t].lifetime /\ Issue(t, iat + job[t].lifetime)

\* _verify after the key has arrived: signature, audience, expiry, then consume, all at one time.
Live(t) == LET a == job[t].assertion IN
  a.genuine /\ a.did = snapshot[t].did /\ a.service = job[t].service /\ now < a.exp

\* MemoryReplayStore.consume remembers an identifier until its assertion expires.
Unused(a) == used[IdentifierOf(a)] <= now

\* Mutant: the identifier is remembered until the time of its use.
VerifyForgetful(t) == LET a == job[t].assertion IN
  /\ pc[t] = "verifying" /\ Live(t) /\ Unused(a)
  /\ used' = [used EXCEPT ![IdentifierOf(a)] = now]
  /\ uses' = uses \cup {[assertion |-> a, at |-> now, by |-> t]}
  /\ Conclude(t, [code |-> "verified", id |-> snapshot[t].id])
  /\ UNCHANGED <<now, identities, issued>>

Verify(t) == LET a == job[t].assertion IN
  /\ pc[t] = "verifying" /\ Live(t) /\ Unused(a)
  /\ used' = [used EXCEPT ![IdentifierOf(a)] = a.exp]
  /\ uses' = uses \cup {[assertion |-> a, at |-> now, by |-> t]}
  /\ Conclude(t, [code |-> "verified", id |-> snapshot[t].id])
  /\ UNCHANGED <<now, identities, issued>>

RefuseAssertion(t) ==
  /\ pc[t] = "verifying" /\ ~ (Live(t) /\ Unused(job[t].assertion))
  /\ Conclude(t, [code |-> "unverified"])
  /\ UNCHANGED shared

\* update_identity: can_transition answers for the record that was read, update_status reads afresh.
Transit(t) == LET i == job[t].id IN
  /\ pc[t] = "transiting"
  /\ \/ Answer(t, [code |-> "rejected"]) /\ UNCHANGED records
     \/ /\ records' = [records EXCEPT ![i].status = job[t].status]
        /\ Answer(t, IdentityReply(records'[i]))
  /\ UNCHANGED <<now, byDid, byScope, pending, keys, used, issued, uses, executing, memo>>

\* A collaborator of the application raises, or the request is cancelled, at any suspension.
Fail(t) == pc[t] \notin {"idle", "done"} /\ Raise(t)

----------------------------------------------------------------------------
Ask(t) == AskProvision(t) \/ AskSign(t) \/ AskUpdate(t) \/ AskVerify(t)

Proceed(t) ==
  \/ Authorize(t) \/ Replay(t) \/ Enter(t)
  \/ Resolve(t) \/ Locate(t) \/ Create(t) \/ Store(t) \/ Collide(t)
  \/ Decline(t) \/ Permit(t) \/ LeaveToKeyStore(t) \/ Defer(t) \/ HandlerSigns(t) \/ Sign(t)
  \/ Verify(t) \/ RefuseAssertion(t) \/ Transit(t)

Next == Tick \/ \E t \in Tasks : Ask(t) \/ Proceed(t) \/ Fail(t)

Spec == Init /\ [][Next]_vars

----------------------------------------------------------------------------
\* Every record is in both indexes, which lead to nothing else, and has its key.
RecordsIndexed ==
  \A i \in Ids : records[i] # None =>
    /\ records[i].id = i
    /\ byDid[records[i].did] = i /\ byScope[ScopeOf(records[i])] = i
    /\ [id |-> i, did |-> records[i].did] \in keys

IndexesLead ==
  /\ \A d \in Dids : byDid[d] # None => records[byDid[d]] # None /\ records[byDid[d]].did = d
  /\ \A s \in Scope : byScope[s] # None =>
       records[byScope[s]] # None /\ ScopeOf(records[byScope[s]]) = s

\* The one task whose creation is pending in a scope makes keys for it, and only while
\* the scope has no identity.
SoleCreator ==
  \A t \in Tasks : pc[t] \in {"creating", "storing"} =>
    pending[ScopeOf(job[t])] = t /\ byScope[ScopeOf(job[t])] = None

\* The identity store stays whole while requests provision at the same time and fail half
\* way: an identity is found by id, DID and scope or not at all, has its key, shares
\* neither DID nor scope, and no scope has two creations (find_or_create).
IdentitiesComplete == RecordsIndexed /\ IndexesLead /\ SoleCreator

\* An identity keeps its DID, owner and Service forever, whatever the generators return;
\* only an update_identity of its owner changes its status, to the one asked for.
IdentityStands ==
  [][\A i \in Ids : records[i] # None =>
       \/ records'[i] = records[i]
       \/ \E t \in Tasks :
            /\ pc[t] = "transiting" /\ job[t].id = i
            /\ job[t].principal = records[i].principal
            /\ records'[i] = [records[i] EXCEPT !.status = job[t].status]]_vars

\* Reply r fits job j.  An identity is the one of the caller's scope.  An assertion was
\* signed for the same request of the identity's owner, by an identity that was active and
\* of that Service when the request arrived, within the limit.  A verification was accepted
\* for the same request, of an identity that was active then.
Justified(j, r) ==
  /\ r.code = "identity" /\ j.op = "provision" => byScope[ScopeOf(j)] = r.id
  /\ r.code = "signed" =>
       \E s \in issued :
         LET a == s.assertion  record == snapshot[s.by] IN
         /\ a = r.assertion /\ job[s.by] = j
         /\ j.op = "sign" /\ a.jti = j.jti /\ a.service = j.service
         /\ record.id = j.id /\ record.did = a.did /\ ScopeOf(record) = ScopeOf(j)
         /\ record.status = "active" /\ a.exp <= now + MaximumLifetime
  /\ r.code = "verified" =>
       \E u \in uses :
         /\ job[u.by] = j /\ u.assertion = j.assertion
         /\ snapshot[u.by].id = r.id /\ snapshot[u.by].status = "active"

\* What a caller is told is about what it asked and was done for that, replayed or not.
AnswersJustified == \A t \in Tasks : reply[t] # None => Justified(job[t], reply[t])

\* Hosted verification accepts only what was signed, for the Service it is for, before it
\* expires, and only one assertion of an identifier until that has expired, whoever asks
\* and under whatever Idempotency-Keys.
VerifiedOnce ==
  /\ \A u \in uses :
       /\ u.assertion \in Signed /\ u.at < u.assertion.exp
       /\ u.assertion.service = job[u.by].service
  /\ \A u, v \in uses :
       IdentifierOf(u.assertion) = IdentifierOf(v.assertion) /\ u # v =>
         u.assertion.exp <= v.at \/ v.assertion.exp <= u.at

\* No request waits for one that waits for it or has ended.  The holder of an execution is
\* past its own wait for one, and the task whose creation is pending waits for nothing but
\* the key store: who waits for an execution, and then for a creation, waits for a task
\* that can go on, also when other holders failed (the finally clauses).
HoldersProceed ==
  /\ \A k \in Principals \X Keys : executing[k] # None =>
       /\ pc[executing[k]] \notin {"idle", "authorizing", "entering", "transiting", "done"}
       /\ KeyOf(executing[k]) = k
  /\ \A s \in Scope : pending[s] # None =>
       pc[pending[s]] \in {"creating", "storing"} /\ ScopeOf(job[pending[s]]) = s
=============================================================================
