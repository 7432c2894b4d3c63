------------------------------ MODULE AgentSession ------------------------------
(***************************************************************************)
(* An Agent's sessions with one Service (agent/client.py): the commands    *)
(* and authentication_headers of ServiceSession over MemoryIdentityStore   *)
(* and MemoryCredentialStore (agent/stores.py).  A task is one call of a   *)
(* session.  Its steps are the stretches between two awaits.  A request    *)
(* and its answer cross a transport that may lose either: a lost request   *)
(* is one that nothing ever serves, and a call that timed out may still    *)
(* have its request served.  The Service appears by what its modules show  *)
(* of it: one step per request, and an answer that is remembered by        *)
(* idempotency key (for longer than the clock runs here).  Its operator    *)
(* changes the Agent's standing at any time.  A call whose inspect() fails *)
(* has no effect, and is left out.                                         *)
(***************************************************************************)
EXTENDS Naturals, FiniteSets, Sequences, SequencesExt, AuthenticationMethods

CONSTANTS
  Tasks,
  Sessions,     \* ServiceSession objects of the Agent, for the one Service
  SessionOf,    \* SessionOf[t]: the session that t is a call of
  Dids,         \* Agent DIDs the identity provider may come up with
  Existing,     \* whether the provider is an ExistingIdentityProvider
  StatusToo,    \* whether the Service supports Status
  BuiltIn,      \* the Grant Types whose Grant response the Agent parses
  Methods,      \* authentication.methods of the Inspect document
  Keys,         \* idempotency keys an application gives
  Ids,          \* credential identifiers
  JobsOf,       \* JobsOf[t]: the calls considered for t
  Lifetime,     \* of a credential
  MaxTime,      \* bound on the clock
  MaxChanges    \* bound on the Service's changes of the Agent's standing

Job == [op : {"enroll", "status", "wait", "grant", "revoke", "headers", "forget"},
        type : Types \cup {None}, id : Ids \cup {None}, key : Keys \cup {None},
        allowed : SUBSET (Types \cup {Jwt})]

\* RandomIdempotencyKeyProvider never repeats a key: the key it makes for t is t.
AnyKey == Keys \cup Tasks

ASSUME SessionAssumption ==
  /\ JobsOf \in [Tasks -> SUBSET Job] /\ SessionOf \in [Tasks -> Sessions]
  /\ \A t \in Tasks : \A j \in JobsOf[t] :
       (j.op = "grant" => j.type # None) /\ (j.op = "forget" => j.id # None)
  /\ Methods \in Seq(Types \cup {Jwt}) /\ BuiltIn \subseteq Types /\ Jwt \notin Types
  /\ Existing \in BOOLEAN /\ StatusToo \in BOOLEAN
  /\ Lifetime \in Nat \ {0} /\ MaxTime \in Nat /\ MaxChanges \in Nat
ASSUME DistinctAssumption ==
  /\ None \notin Tasks \cup Sessions \cup Dids \cup Types \cup Keys \cup Ids
  /\ Keys \cap Tasks = {}

VARIABLES
  now,
  identity,     \* identity[s]: ServiceSession._identity
  active,       \* active[s]: ServiceSession._authoritative_active_enrollment
  lock,         \* lock[s]: who holds ServiceSession._identity_lock ...
  agentLock,    \* ... and Agent._identity_lock
  stored,       \* MemoryIdentityStore._records, for this Service
  store,        \* MemoryCredentialStore._records, for this Service
  pc, job, did,
  todo,         \* todo[t]: the credentials a Revoke has yet to delete
  mail,         \* mail[t]: the request or the answer of t in transit
  reply,
  standing, changes, \* the Service: the Agent's standing ...
  issued,       \* ... the credentials it granted ...
  memo,         \* ... and the answers it remembers
  seen,         \* history: the records a Revoke of t had to delete when t began
  told,         \* history: the statuses the Service told t
  gone          \* history: the credentials that were revoked when a Grant t began

agent == <<identity, active, lock, agentLock, stored, store>>
service == <<standing, changes, issued, memo>>
calls == <<pc, job, did, todo, mail, reply>>
history == <<seen, told, gone>>
vars == <<now, agent, calls, service, history>>

Standings == {"none", "pending", "active", "ended"}

\* "by" is the Grant that saved the record: it stands for the identity of the object.
Record == [type : Types, expires : Nat, at : Nat, by : Tasks]
Granted == [type : Types, expires : Nat, revoked : BOOLEAN]
Request == [op : {"enroll", "status", "grant", "revoke"}, type : Types \cup {None},
            id : Ids \cup {None}, key : AnyKey \cup {None}]
Answer == [code : {"status"}, status : Standings]
            \cup [code : {"credential"}, id : Ids]
            \cup [code : {"revoked", "problem"}]
Reply == Answer \cup [code : {"headers"}, id : Ids] \cup [code : {"assertion"}, did : Dids]
           \cup [code : {"failed", "unavailable", "inactive", "forgotten"}]
Waiting == {"session", "agent", "creating", "finding"}

\* None is no record of any kind.
ASSUME NoneAssumption ==
  None \notin Job \cup Record \cup Granted \cup Request \cup Reply
               \cup [request : Request, answer : Answer]

TypeOK ==
  /\ now \in 0..MaxTime
  /\ identity \in [Sessions -> Dids \cup {None}]
  /\ active \in [Sessions -> BOOLEAN]
  /\ lock \in [Sessions -> Tasks \cup {None}]
  /\ agentLock \in Tasks \cup {None}
  /\ stored \in Dids \cup {None}
  /\ store \in [Ids -> Record \cup {None}]
  /\ pc \in [Tasks -> Waiting \cup {"idle", "ready", "probing", "sent", "saving", "deleting",
                                    "sleeping", "done"}]
  /\ job \in [Tasks -> Job \cup {None}]
  /\ did \in [Tasks -> Dids \cup {None}]
  /\ todo \in [Tasks -> SUBSET Ids]
  /\ mail \in [Tasks -> Request \cup Answer \cup {None}]
  /\ reply \in [Tasks -> Reply \cup {None}]
  /\ standing \in Standings /\ changes \in 0..MaxChanges
  /\ issued \in [Ids -> Granted \cup {None}]
  /\ memo \in [AnyKey -> [request : Request, answer : Answer] \cup {None}]
  /\ seen \in [Tasks -> SUBSET Record]
  /\ told \in [Tasks -> SUBSET Standings]
  /\ gone \in [Tasks -> SUBSET Ids]

\* A new Agent; the Service may know its identity from an earlier life.
Init ==
  /\ now = 0
  /\ identity = [s \in Sessions |-> None] /\ active = [s \in Sessions |-> FALSE]
  /\ lock = [s \in Sessions |-> None] /\ agentLock = None
  /\ stored = None /\ store = [i \in Ids |-> None]
  /\ pc = [t \in Tasks |-> "idle"] /\ job = [t \in Tasks |-> None]
  /\ did = [t \in Tasks |-> None]
  /\ todo = [t \in Tasks |-> {}] /\ mail = [t \in Tasks |-> None]
  /\ reply = [t \in Tasks |-> None]
  /\ standing \in {"none", "active"} /\ changes = 0
  /\ issued = [i \in Ids |-> None] /\ memo = [k \in AnyKey |-> None]
  /\ seen = [t \in Tasks |-> {}] /\ told = [t \in Tasks |-> {}]
  /\ gone = [t \in Tasks |-> {}]
-----------------------------------------------------------------------------
GoTo(t, where) == pc' = [pc EXCEPT ![t] = where] /\ UNCHANGED reply
Return(t, value) ==
  /\ pc' = [pc EXCEPT ![t] = "done"]
  /\ reply' = [reply EXCEPT ![t] = value]
Raise(t, code) == Return(t, [code |-> code])

Tick ==
  /\ now < MaxTime
  /\ now' = now + 1
  /\ UNCHANGED <<agent, calls, service, history>>

\* What a Revoke deletes from the Agent's own store, whatever the Service revoked.
Selected(selector, i, type) ==
  \/ selector.type = None
  \/ i = selector.id
  \/ selector.id = None /\ type = selector.type

\* Expired records leave the store when it is listed.
Unexpired == [i \in Ids |-> IF store[i] # None /\ store[i].expires <= now
                            THEN None ELSE store[i]]

\* A call begins with inspect().  A Grant needs an identity that exists;
\* the other commands make one when there is none.
Begin(t, j) ==
  /\ pc[t] = "idle"
  /\ job' = [job EXCEPT ![t] = j]
  /\ seen' = [seen EXCEPT ![t] =
       IF j.op = "revoke"
       THEN {store[i] : i \in {h \in Ids : store[h] # None /\ Selected(j, h, store[h].type)}}
       ELSE {}]
  /\ gone' = [gone EXCEPT ![t] =
       IF j.op = "grant" THEN {i \in Ids : issued[i] # None /\ issued[i].revoked} ELSE {}]
  /\ UNCHANGED <<now, agent, did, todo, mail, service, told>>

BeginCommand(t, j) ==
  /\ j.op \in {"enroll", "status", "wait", "grant", "revoke"}
  /\ Begin(t, j)
  /\ GoTo(t, IF j.op = "grant" THEN "agent" ELSE "session")
-----------------------------------------------------------------------------
\* _resolve_identity: the session's lock, and inside it the Agent's.
EnterSession(t) ==
  LET s == SessionOf[t] IN
  /\ pc[t] = "session"
  /\ lock[s] = None
  /\ IF identity[s] # None
     THEN /\ did' = [did EXCEPT ![t] = identity[s]]
          /\ GoTo(t, "ready")
          /\ UNCHANGED lock
     ELSE /\ lock' = [lock EXCEPT ![s] = t]
          /\ GoTo(t, "agent")
          /\ UNCHANGED did
  /\ UNCHANGED <<now, identity, active, agentLock, stored, store, job, todo, mail,
                 service, history>>

Leave(t) ==
  /\ lock' = [lock EXCEPT ![SessionOf[t]] = IF @ = t THEN None ELSE @]
  /\ agentLock' = IF agentLock = t THEN None ELSE agentLock

\* The identity in the store is d: the session of t keeps it, unless t is a Grant.
Adopt(t, d) ==
  /\ identity' = IF job[t].op = "grant" THEN identity
                 ELSE [identity EXCEPT ![SessionOf[t]] = d]
  /\ did' = [did EXCEPT ![t] = d]
  /\ Leave(t)
  /\ GoTo(t, "ready")

\* Mutant: the Agent's lock is not waited for.
EnterAgentUnlocked(t) ==
  /\ pc[t] = "agent"
  /\ \/ stored # None /\ Adopt(t, stored)
     \/ /\ stored = None
        /\ job[t].op # "grant" \/ Existing
        /\ agentLock' = t
        /\ GoTo(t, IF job[t].op = "grant" THEN "finding" ELSE "creating")
        /\ UNCHANGED <<identity, lock, did>>
  /\ UNCHANGED <<now, active, stored, store, job, todo, mail, service, history>>

EnterAgent(t) ==
  /\ pc[t] = "agent"
  /\ agentLock = None
  /\ \/ stored # None /\ Adopt(t, stored)
     \/ /\ stored = None
        /\ job[t].op # "grant" \/ Existing
        /\ agentLock' = t
        /\ GoTo(t, IF job[t].op = "grant" THEN "finding" ELSE "creating")
        /\ UNCHANGED <<identity, lock, did>>
     \/ /\ stored = None /\ job[t].op = "grant" /\ ~Existing
        /\ Raise(t, "failed")
        /\ UNCHANGED <<identity, lock, agentLock, did>>
  /\ UNCHANGED <<now, active, stored, store, job, todo, mail, service, history>>

\* get_or_create_identity, or find_identity_by_service_did, returned d ...
Provide(t, d) ==
  /\ pc[t] \in {"creating", "finding"}
  /\ stored' = d
  /\ Adopt(t, d)
  /\ UNCHANGED <<now, active, store, job, todo, mail, service, history>>

\* ... or raised, or returned nothing, or an identity that _validate_identity refuses.
ProvideNone(t) ==
  /\ pc[t] \in {"creating", "finding"}
  /\ Leave(t)
  /\ Raise(t, "failed")
  /\ UNCHANGED <<now, identity, active, stored, store, job, did, todo, mail, service,
                 history>>
-----------------------------------------------------------------------------
\* Mutant: the key a Grant makes is the same for every Grant.
KeyOfGrants(t) ==
  IF job[t].op \in {"status", "wait"} THEN None
  ELSE IF job[t].key # None THEN job[t].key
  ELSE IF job[t].op = "grant" THEN CHOOSE k \in Keys : TRUE ELSE t

\* _idempotency_key: the application's key, or a new one.
KeyOf(t) ==
  IF job[t].op \in {"status", "wait"} THEN None
  ELSE IF job[t].key = None THEN t ELSE job[t].key

Transmit(t, op, key) ==
  mail' = [mail EXCEPT ![t] = [op |-> op, type |-> job[t].type, id |-> job[t].id, key |-> key]]

\* The command is signed and sent.  A Grant asks for the Status first, unless the session
\* was last told that the enrollment is active.
Send(t) ==
  /\ pc[t] = "ready" /\ job[t].op # "headers"
  /\ IF job[t].op = "grant" /\ ~active[SessionOf[t]] /\ StatusToo
     THEN Transmit(t, "status", None) /\ GoTo(t, "probing")
     ELSE /\ Transmit(t, IF job[t].op = "wait" THEN "status" ELSE job[t].op, KeyOf(t))
          /\ GoTo(t, "sent")
  /\ UNCHANGED <<now, agent, job, did, todo, service, history>>

\* The signer raises, or its assertion does not match the request.
SignerFails(t) ==
  /\ pc[t] = "ready"
  /\ Raise(t, "failed")
  /\ UNCHANGED <<now, agent, job, did, todo, mail, service, history>>

\* request_timeout is over, or the transport fails; the request may still arrive.
Timeout(t) ==
  /\ pc[t] \in {"probing", "sent"}
  /\ Raise(t, "failed")
  /\ mail' = [mail EXCEPT ![t] = IF @ \in Request THEN @ ELSE None]
  /\ UNCHANGED <<now, agent, job, did, todo, service, history>>

\* The answer of the Service reaches the call that waits for it.
Arrived(t, where) == pc[t] = where /\ mail[t] \in Answer
Consume(t) == mail' = [mail EXCEPT ![t] = None]

LearnStatus(t) ==
  active' = [active EXCEPT ![SessionOf[t]] = mail[t].status = "active"]

\* The Status that a Grant asked for: the Grant goes on only if it says active.
ReceiveProbe(t) ==
  /\ Arrived(t, "probing")
  /\ \/ /\ mail[t].code = "status"
        /\ LearnStatus(t)
        /\ IF mail[t].status = "active"
           THEN Transmit(t, "grant", KeyOf(t)) /\ GoTo(t, "sent")
           ELSE Consume(t) /\ Raise(t, "inactive")
     \/ /\ mail[t].code = "problem"
        /\ Consume(t) /\ Raise(t, "failed")
        /\ UNCHANGED active
  /\ UNCHANGED <<now, identity, lock, agentLock, stored, store, job, did, todo,
                 service, history>>

\* Enroll and Status set the flag; wait_for_active goes on polling while pending.
ReceiveStatus(t) ==
  /\ Arrived(t, "sent") /\ mail[t].code = "status"
  /\ LearnStatus(t)
  /\ Consume(t)
  /\ IF job[t].op # "wait" \/ mail[t].status = "active" THEN Return(t, mail[t])
     ELSE IF mail[t].status = "ended" THEN Raise(t, "failed")
     ELSE GoTo(t, "sleeping")
  /\ UNCHANGED <<now, identity, lock, agentLock, stored, store, job, did, todo,
                 service, history>>

\* The answer to an Enroll does not repeat the documents that it acknowledged: the flag
\* stays as it was.
Unacknowledged(t) ==
  /\ Arrived(t, "sent") /\ mail[t].code = "status" /\ job[t].op = "enroll"
  /\ Consume(t) /\ Raise(t, "failed")
  /\ UNCHANGED <<now, agent, job, did, todo, service, history>>

\* A built-in credential is saved; an expired one is refused by the store, and the
\* response of any other Grant Type is only handed to the caller.
ReceiveCredential(t) ==
  LET id == mail[t].id  type == job[t].type  expires == issued[id].expires IN
  /\ Arrived(t, "sent") /\ mail[t].code = "credential"
  /\ Consume(t)
  /\ \/ type \notin BuiltIn /\ Return(t, mail[t]) /\ UNCHANGED store
     \/ /\ type \in BuiltIn /\ expires > now
        /\ store' = [store EXCEPT ![id] =
             [type |-> type, expires |-> expires, at |-> now, by |-> t]]
        /\ Return(t, mail[t])
     \/ type \in BuiltIn /\ expires <= now /\ Raise(t, "failed") /\ UNCHANGED store
  /\ UNCHANGED <<now, identity, active, lock, agentLock, stored, job, did, todo,
                 service, history>>

\* A Revoke lists the Agent's credentials, and then deletes them one by one.
ReceiveRevoked(t) ==
  /\ Arrived(t, "sent") /\ mail[t].code = "revoked"
  /\ Consume(t)
  /\ store' = Unexpired
  /\ todo' = [todo EXCEPT ![t] =
       {i \in Ids : Unexpired[i] # None /\ Selected(job[t], i, Unexpired[i].type)}]
  /\ GoTo(t, "deleting")
  /\ UNCHANGED <<now, identity, active, lock, agentLock, stored, job, did, service,
                 history>>

\* Mutant: the loop ends with its first deletion.
DeleteFirst(t) ==
  /\ pc[t] = "deleting"
  /\ \/ todo[t] = {} /\ UNCHANGED store
     \/ \E i \in todo[t] : store' = [store EXCEPT ![i] = None]
  /\ Return(t, [code |-> "revoked"])
  /\ UNCHANGED <<now, identity, active, lock, agentLock, stored, job, did, todo, mail, service,
                 history>>

DeleteOne(t) ==
  /\ pc[t] = "deleting"
  /\ IF todo[t] = {}
     THEN /\ Return(t, [code |-> "revoked"])
          /\ UNCHANGED <<store, todo>>
     ELSE /\ \E i \in todo[t] :
               /\ store' = [store EXCEPT ![i] = None]
               /\ todo' = [todo EXCEPT ![t] = @ \ {i}]
          /\ UNCHANGED <<pc, reply>>
  /\ UNCHANGED <<now, identity, active, lock, agentLock, stored, job, did, mail,
                 service, history>>

ReceiveProblem(t) ==
  /\ Arrived(t, "sent") /\ mail[t].code = "problem"
  /\ Consume(t) /\ Raise(t, "failed")
  /\ UNCHANGED <<now, agent, job, did, todo, service, history>>

\* wait_for_active slept for the interval, or is over, wherever it is.
PollAgain(t) ==
  /\ pc[t] = "sleeping"
  /\ GoTo(t, "session")
  /\ UNCHANGED <<now, agent, job, did, todo, mail, service, history>>

\* Mutant: a poll that is over keeps its locks.
GiveUpHolding(t) ==
  /\ pc[t] \notin {"idle", "done"} /\ job[t].op = "wait"
  /\ Raise(t, "failed")
  /\ mail' = [mail EXCEPT ![t] = IF @ \in Request THEN @ ELSE None]
  /\ UNCHANGED <<now, agent, job, did, todo, service, history>>

GiveUp(t) ==
  /\ pc[t] \notin {"idle", "done"} /\ job[t].op = "wait"
  /\ Leave(t)
  /\ Raise(t, "failed")
  /\ mail' = [mail EXCEPT ![t] = IF @ \in Request THEN @ ELSE None]
  /\ UNCHANGED <<now, identity, active, stored, store, job, did, todo, service, history>>
-----------------------------------------------------------------------------
\* The methods a call of authentication_headers may use, in the Service's order, and those
\* for which a stored credential is looked for when none is named.
Usable(j) == SelectSeq(Methods, LAMBDA m : m \in j.allowed)
Automatic(j) ==
  LET usable == Usable(j)
      asserted == {n \in 1..Len(usable) : usable[n] = Jwt}
  IN {n \in 1..Len(usable) :
        /\ j.type = None => \A k \in asserted : n < k
        /\ j.type \in {None, usable[n]}}

\* The credential _find_credential may return: of the first method that has one, the newest.
Found(j, i) ==
  LET records == Unexpired
      Holding(n) == {h \in Ids : records[h] # None /\ records[h].type = Usable(j)[n]}
  IN IF j.id # None
     THEN /\ i = j.id /\ records[i] # None
          /\ j.type \in {None, records[i].type}
          /\ records[i].type \in ToSet(Usable(j))
     ELSE \E n \in Automatic(j) :
            /\ i \in Holding(n)
            /\ \A k \in Automatic(j) : k < n => Holding(k) = {}
            /\ \A h \in Holding(n) : records[h].at <= records[i].at

\* A selection the call cannot honour is an error, and no reason to ask for a Grant.
Misfit(j) ==
  \/ j.type # None /\ j.type \notin ToSet(Usable(j))
  \/ /\ j.id # None /\ Unexpired[j.id] # None
     /\ ~Found(j, j.id)

AskHeaders(t, j) ==
  /\ j.op = "headers"
  /\ Begin(t, j)
  /\ store' = IF j.id = None THEN Unexpired ELSE [store EXCEPT ![j.id] = Unexpired[j.id]]
  /\ \/ Misfit(j) /\ Raise(t, "failed")
     \/ \E i \in Ids : ~Misfit(j) /\ Found(j, i) /\ Return(t, [code |-> "headers", id |-> i])
     \/ /\ \A i \in Ids : ~Found(j, i)
        /\ ~Misfit(j)
        /\ IF j.id = None /\ j.type = None /\ Jwt \in ToSet(Usable(j))
           THEN GoTo(t, "session") ELSE Raise(t, "unavailable")
  /\ UNCHANGED <<identity, active, lock, agentLock, stored>>

\* Without a stored credential, the request carries a client assertion.
SignHeaders(t) ==
  /\ pc[t] = "ready" /\ job[t].op = "headers"
  /\ Return(t, [code |-> "assertion", did |-> did[t]])
  /\ UNCHANGED <<now, agent, job, did, todo, mail, service, history>>

Forget(t, j) ==
  /\ j.op = "forget"
  /\ Begin(t, j)
  /\ store' = [store EXCEPT ![j.id] = None]
  /\ Raise(t, "forgotten")
  /\ UNCHANGED <<identity, active, lock, agentLock, stored>>
-----------------------------------------------------------------------------
\* The operations of the Service, as its own modules have them.  An Enroll decides about
\* a new Agent and tells the status of a known one; both may be refused.
Decide(request, answer) ==
  \/ /\ standing = "none"
     /\ \E s \in Standings \ {"none"} :
          standing' = s /\ answer = [code |-> "status", status |-> s]
     /\ UNCHANGED <<changes, issued>>
  \/ /\ standing # "none"
     /\ answer = [code |-> "status", status |-> standing]
     /\ UNCHANGED <<standing, changes, issued>>
  \/ /\ answer = [code |-> "problem"]
     /\ UNCHANGED <<standing, changes, issued>>

\* Mutant: the lifetime is taken off the time.
IssueExpired(request, answer) ==
  IF standing = "active"
  THEN /\ \E i \in Ids :
            /\ issued[i] = None
            /\ issued' = [issued EXCEPT ![i] =
                 [type |-> request.type, expires |-> now - Lifetime, revoked |-> FALSE]]
            /\ answer = [code |-> "credential", id |-> i]
       /\ UNCHANGED <<standing, changes>>
  ELSE answer = [code |-> "problem"] /\ UNCHANGED <<standing, changes, issued>>

Issue(request, answer) ==
  IF standing = "active"
  THEN /\ \E i \in Ids :
            /\ issued[i] = None
            /\ issued' = [issued EXCEPT ![i] =
                 [type |-> request.type, expires |-> now + Lifetime, revoked |-> FALSE]]
            /\ answer = [code |-> "credential", id |-> i]
       /\ UNCHANGED <<standing, changes>>
  ELSE answer = [code |-> "problem"] /\ UNCHANGED <<standing, changes, issued>>

Withdraw(request, answer) ==
  IF standing # "none"
  THEN /\ issued' = [i \in Ids |->
            IF /\ issued[i] # None
               /\ request.type \in {None, issued[i].type}
               /\ request.id \in {None, i}
            THEN [issued[i] EXCEPT !.revoked = TRUE] ELSE issued[i]]
       /\ answer = [code |-> "revoked"]
       /\ UNCHANGED <<standing, changes>>
  ELSE answer = [code |-> "problem"] /\ UNCHANGED <<standing, changes, issued>>

Execute(request, answer) ==
  \/ request.op = "enroll" /\ Decide(request, answer)
  \/ request.op = "grant" /\ Issue(request, answer)
  \/ request.op = "revoke" /\ Withdraw(request, answer)

Tell(t, answer) ==
  /\ mail' = [mail EXCEPT ![t] = IF pc[t] = "done" THEN None ELSE answer]
  /\ told' = [told EXCEPT ![t] = @ \cup (IF answer.code = "status" THEN {answer.status} ELSE {})]
  /\ UNCHANGED <<now, agent, pc, job, did, todo, reply, seen, gone>>

\* The first request of an idempotency key is executed, the same one again gets the same
\* answer, and another one a conflict.
ServeCommand(t, answer) ==
  LET request == mail[t]  key == request.key IN
  /\ request \in Request /\ request.op # "status"
  /\ \/ /\ memo[key] = None
        /\ Execute(request, answer)
        /\ memo' = [memo EXCEPT ![key] = [request |-> request, answer |-> answer]]
     \/ /\ memo[key] # None
        /\ answer = IF memo[key].request = request THEN memo[key].answer
                    ELSE [code |-> "problem"]
        /\ UNCHANGED service
  /\ Tell(t, answer)

ServeStatus(t) ==
  /\ mail[t] \in Request /\ mail[t].op = "status"
  /\ Tell(t, IF standing = "none" THEN [code |-> "problem"]
             ELSE [code |-> "status", status |-> standing])
  /\ UNCHANGED service

ChangeStanding(s) ==
  /\ changes < MaxChanges
  /\ standing # "none" /\ s \notin {"none", standing}
  /\ standing' = s
  /\ changes' = changes + 1
  /\ UNCHANGED <<now, agent, calls, issued, memo, history>>
-----------------------------------------------------------------------------
Call(t) ==
  \E j \in JobsOf[t] : BeginCommand(t, j) \/ AskHeaders(t, j) \/ Forget(t, j)

Proceed(t) ==
  \/ EnterSession(t) \/ EnterAgent(t) \/ ProvideNone(t) \/ \E d \in Dids : Provide(t, d)
  \/ Send(t) \/ SignerFails(t) \/ SignHeaders(t) \/ Timeout(t)
  \/ ReceiveProbe(t) \/ ReceiveStatus(t) \/ Unacknowledged(t) \/ ReceiveCredential(t)
  \/ ReceiveRevoked(t) \/ ReceiveProblem(t) \/ DeleteOne(t) \/ PollAgain(t)

Serve(t) == ServeStatus(t) \/ \E answer \in Answer : ServeCommand(t, answer)

Next ==
  \/ Tick
  \/ \E t \in Tasks : Call(t) \/ Proceed(t) \/ GiveUp(t) \/ Serve(t)
  \/ \E s \in Standings : ChangeStanding(s)

Spec == Init /\ [][Next]_vars
-----------------------------------------------------------------------------
(* Properties *)

\* Everything the Agent signs for the Service bears one Agent DID, the stored one, however
\* many of its sessions began at once without an identity.
OneIdentity ==
  /\ \A t \in Tasks : did[t] # None => did[t] = stored
  /\ \A s \in Sessions : identity[s] # None => identity[s] = stored

\* When a Revoke returns, the Agent has forgotten every credential that it held when the
\* Revoke began and that the Revoke selected: other calls save and delete records while
\* the Revoke deletes them one by one from a list made earlier.
RevokeForgets ==
  \A t \in Tasks :
    reply[t] # None /\ reply[t].code = "revoked" => \A i \in Ids : store[i] \notin seen[t]

\* A call that ends with a status was told that status, by the Service and for itself;
\* and a Grant only fails for want of an active enrollment when it was told so itself,
\* whatever the answers of earlier calls left in the session.
StatusesTold ==
  \A t \in Tasks : reply[t] # None =>
    /\ reply[t].code = "status" => reply[t].status \in told[t]
    /\ reply[t].code = "status" /\ job[t].op = "wait" => "active" \in told[t]
    /\ reply[t].code = "inactive" => told[t] \ {"active"} # {}

\* A Grant returns a credential that the Service granted for the Grant Type asked for.  It
\* is one that was revoked before the call only when the application repeated a key, and
\* calls that repeat a key agree on the credential.
CredentialsGranted ==
  \A t \in Tasks : reply[t] # None /\ reply[t].code = "credential" =>
    /\ issued[reply[t].id] # None /\ issued[reply[t].id].type = job[t].type
    /\ reply[t].id \in gone[t] => job[t].key # None
    /\ \A u \in Tasks :
         reply[u] # None /\ reply[u].code = "credential" /\ job[u].key = job[t].key
           /\ job[t].key # None => reply[u] = reply[t]

AnswersJustified == StatusesTold /\ CredentialsGranted

\* Who holds the Agent's lock waits for no lock, and who holds a session's lock only waits
\* for the Agent's; a call that ended, or was cancelled, holds none.  So no call waits in
\* a circle, or for a call that is over.
HoldersProceed ==
  /\ agentLock # None => pc[agentLock] \in {"creating", "finding"}
  /\ \A s \in Sessions :
       lock[s] # None => SessionOf[lock[s]] = s /\ pc[lock[s]] \in {"agent", "creating"}
=============================================================================
