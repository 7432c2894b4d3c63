----------------------------- MODULE PlatformProvider -----------------------------
(***************************************************************************)
(* The Agent's identity provider for Platform-hosted identities            *)
(* (agent/platform_provider.py).  A task finds the Agent's identity for a  *)
(* Service at the Platform, gets or creates it, or has an assertion signed *)
(* with it.  Before every command it discovers the Platform, through the   *)
(* discovery cache, which the providers of an application may share.  The  *)
(* Platform is known by what its module shows of it: one identity for the  *)
(* Service, whose status its owner changes, and an answer that it          *)
(* remembers by idempotency key.                                           *)
(***************************************************************************)
EXTENDS DocumentCache, Sequences

CONSTANTS
  ProviderOf,  \* ProviderOf[t]: the PlatformIdentityProvider that t is a call of
  Keys,        \* what idempotency_key may return: the application's factory may repeat one
  Contexts,    \* what platform_context and pending_sign_resolver may return
  Resolves,    \* whether there is a pending_sign_resolver
  Calls,       \* the calls considered: a job for each task
  Timed,       \* bound: the calls during which the clock runs and the document changes
  MaxStages,   \* bound on the stages of a signing
  MaxChanges   \* bound on the changes of the identity's status

Tasks == Readers
Jobs == {"find", "resolve", "sign"}
Providers == {ProviderOf[t] : t \in Tasks}

ASSUME ProviderAssumption ==
  /\ LockOf = ProviderOf  \* every provider has a discovery lock of its own
  /\ None \notin Keys \cup Contexts
  /\ Calls \subseteq [Tasks -> Jobs] /\ Timed \subseteq Calls
  /\ Resolves \in BOOLEAN /\ MaxStages \in Nat /\ MaxChanges \in Nat

VARIABLES
  pc, job, phase,
  identityLock,     \* identityLock[p]: the task in get_or_create_identity of p
  key, previous,    \* the keys of this stage of a signing and of the stage before
  context,
  mail,             \* the request or the answer of t in transit
  reply,
  hosted, changes,  \* the Platform: the status of the identity it hosts ...
  memo,             \* ... and the answers it remembers
  took              \* history: the answers that deferred the signing of t

providerVars == <<pc, job, phase, identityLock, key, previous, context, mail, reply, took>>
platform == <<hosted, changes, memo>>
vars == <<cacheVars, providerVars, platform>>

Phases == {"list", "provision", "sign"}
Statuses == {"none", "active", "inactive"}
Request == [phase : Phases, by : Tasks, key : Keys \cup {None}, context : Contexts \cup {None}]
\* "by" and "stage" tell one execution of a signing at the Platform from another.
Answer == [code : {"identity"}, status : Statuses]
            \cup [code : {"signed", "pending"}, by : Tasks, stage : 0..MaxStages]
            \cup [code : {"problem"}]
Reply == [code : {"identity", "nothing", "signed", "pending", "error"}]

\* None is no request, no answer and no memory of the two.
ASSUME NoneAssumption ==
  None \notin Request \cup Answer \cup [request : Request, answer : Answer]

TypeOK ==
  /\ CacheTypeOK
  /\ pc \in [Tasks -> {"idle", "waiting", "keying", "discovering", "sent", "resolving", "done"}]
  /\ job \in [Tasks -> Jobs]
  /\ phase \in [Tasks -> Phases]
  /\ identityLock \in [Providers -> Tasks \cup {None}]
  /\ key \in [Tasks -> Keys \cup {None}] /\ previous \in [Tasks -> Keys \cup {None}]
  /\ context \in [Tasks -> Contexts \cup {None}]
  /\ mail \in [Tasks -> Request \cup Answer \cup {None}]
  /\ reply \in [Tasks -> Reply \cup {None}]
  /\ hosted \in Statuses /\ changes \in 0..MaxChanges
  /\ memo \in [Keys -> [request : Request, answer : Answer] \cup {None}]
  /\ took \in [Tasks -> Seq(Answer)] /\ \A t \in Tasks : Len(took[t]) <= MaxStages

\* A signer is made only for an identity that is active.
Init ==
  /\ CacheInit
  /\ pc = [t \in Tasks |-> "idle"] /\ job \in Calls
  /\ phase = [t \in Tasks |-> "list"]
  /\ identityLock = [p \in Providers |-> None]
  /\ key = [t \in Tasks |-> None] /\ previous = [t \in Tasks |-> None]
  /\ context = [t \in Tasks |-> None] /\ mail = [t \in Tasks |-> None]
  /\ reply = [t \in Tasks |-> None]
  /\ hosted = IF \E t \in Tasks : job[t] = "sign" THEN "active" ELSE "none"
  /\ changes = 0
  /\ memo = [k \in Keys |-> None] /\ took = [t \in Tasks |-> <<>>]
-----------------------------------------------------------------------------
\* The calls that _discover, and the end of a call, make of the variables above.
Discover(t, what) ==
  /\ Start(t)
  /\ phase' = [phase EXCEPT ![t] = what]
  /\ pc' = [pc EXCEPT ![t] = "discovering"]
  /\ UNCHANGED reply

Return(t, code) ==
  /\ pc' = [pc EXCEPT ![t] = "done"]
  /\ reply' = [reply EXCEPT ![t] = [code |-> code]]
  /\ identityLock' = [p \in Providers |->
       IF identityLock[p] = t THEN None ELSE identityLock[p]]
  /\ UNCHANGED <<phase, cacheVars>>

\* find_identity_by_service_did; get_or_create_identity, one at a time; and a signer,
\* which asks the application for the context of the signing.
AskFind(t) ==
  /\ pc[t] = "idle" /\ job[t] = "find"
  /\ Discover(t, "list")
  /\ UNCHANGED <<job, identityLock, key, previous, context, mail, took, platform>>

AskResolve(t) ==
  /\ pc[t] = "idle" /\ job[t] = "resolve"
  /\ pc' = [pc EXCEPT ![t] = "waiting"]
  /\ UNCHANGED <<cacheVars, job, phase, identityLock, key, previous, context, mail, reply,
                 took, platform>>

Enter(t) ==
  /\ pc[t] = "waiting" /\ identityLock[ProviderOf[t]] = None
  /\ identityLock' = [identityLock EXCEPT ![ProviderOf[t]] = t]
  /\ Discover(t, "list")
  /\ UNCHANGED <<job, key, previous, context, mail, took, platform>>

AskSign(t, c) ==
  /\ pc[t] = "idle" /\ job[t] = "sign"
  /\ context' = [context EXCEPT ![t] = c]
  /\ pc' = [pc EXCEPT ![t] = "keying"]
  /\ UNCHANGED <<cacheVars, job, phase, identityLock, key, previous, mail, reply, took,
                 platform>>

\* Mutant: the key of the stage before will do.
NewKeyAny(t, k) ==
  /\ pc[t] = "keying"
  /\ key' = [key EXCEPT ![t] = k]
  /\ Discover(t, "sign")
  /\ UNCHANGED <<job, identityLock, previous, context, mail, took, platform>>

\* A stage of a signing begins with a key, which must not be that of the stage before.
NewKey(t, k) ==
  /\ pc[t] = "keying"
  /\ IF k = previous[t]
     THEN Return(t, "error") /\ UNCHANGED key
     ELSE /\ key' = [key EXCEPT ![t] = k]
          /\ Discover(t, "sign")
          /\ UNCHANGED identityLock
  /\ UNCHANGED <<job, previous, context, mail, took, platform>>

\* The Platform is discovered, and the command is sent to the endpoint it advertises.
Discovered(t) ==
  /\ pc[t] = "discovering" /\ Use(t)
  /\ \E k \in IF phase[t] = "provision" THEN Keys ELSE {key[t]} :
       mail' = [mail EXCEPT ![t] = [phase |-> phase[t], by |-> t, key |-> k,
                                    context |-> context[t]]]
  /\ pc' = [pc EXCEPT ![t] = "sent"]
  /\ UNCHANGED <<job, phase, identityLock, key, previous, context, reply, took, platform>>

Undiscovered(t) ==
  /\ pc[t] = "discovering" /\ step[t] = "failed"
  /\ Return(t, "error")
  /\ UNCHANGED <<job, key, previous, context, mail, took, platform>>

Timeout(t) ==
  /\ pc[t] = "sent"
  /\ Return(t, "error")
  /\ UNCHANGED <<job, key, previous, context, mail, took, platform>>
-----------------------------------------------------------------------------
\* The Platform answers: the list is not idempotent, the other commands are.
AnswerList(t) ==
  /\ mail[t] \in Request /\ mail[t].phase = "list"
  /\ mail' = [mail EXCEPT ![t] = [code |-> "identity", status |-> hosted]]
  /\ UNCHANGED <<cacheVars, pc, job, phase, identityLock, key, previous, context, reply, took,
                 platform>>

Compute(request, answer) ==
  IF request.phase = "provision"
  THEN /\ hosted' = IF hosted = "none" THEN "active" ELSE hosted
       /\ answer = [code |-> "identity", status |-> hosted']
  ELSE /\ hosted' = hosted
       /\ \/ answer.code = "problem"
          \/ /\ hosted = "active" /\ answer.code \in {"signed", "pending"}
             /\ answer.by = request.by
             /\ answer.stage = Len(took[request.by])

AnswerCommand(t, answer) ==
  LET request == mail[t]  k == request.key IN
  /\ request \in Request /\ request.phase # "list"
  /\ \/ /\ memo[k] = None
        /\ Compute(request, answer)
        /\ memo' = [memo EXCEPT ![k] = [request |-> request, answer |-> answer]]
     \/ /\ memo[k] # None
        /\ answer = IF memo[k].request = request THEN memo[k].answer
                    ELSE [code |-> "problem"]
        /\ UNCHANGED <<hosted, memo>>
  /\ mail' = [mail EXCEPT ![t] = answer]
  /\ UNCHANGED <<cacheVars, pc, job, phase, identityLock, key, previous, context, reply, took,
                 changes>>

ChangeStatus(s) ==
  /\ changes < MaxChanges
  /\ hosted # "none" /\ s \notin {"none", hosted}
  /\ hosted' = s /\ changes' = changes + 1
  /\ UNCHANGED <<cacheVars, providerVars, memo>>
-----------------------------------------------------------------------------
Arrived(t, where) ==
  /\ pc[t] = "sent" /\ phase[t] = where /\ mail[t] \in Answer
  /\ mail' = [mail EXCEPT ![t] = None]

\* An active identity is used; without one, get_or_create_identity provisions it.
ReceiveList(t) ==
  /\ Arrived(t, "list")
  /\ IF mail[t].status = "active" THEN Return(t, "identity")
     ELSE IF job[t] = "find" THEN Return(t, "nothing")
     ELSE Discover(t, "provision") /\ UNCHANGED identityLock
  /\ UNCHANGED <<job, key, previous, context, took, platform>>

\* Mutant: what answers a provision is returned, whatever it is.
ReceiveIdentityUnchecked(t) ==
  /\ Arrived(t, "provision")
  /\ Return(t, mail[t].code)
  /\ UNCHANGED <<job, key, previous, context, took, platform>>

ReceiveIdentity(t) ==
  /\ Arrived(t, "provision")
  /\ Return(t, IF mail[t] = [code |-> "identity", status |-> "active"] THEN "identity"
               ELSE "error")
  /\ UNCHANGED <<job, key, previous, context, took, platform>>

\* A signed assertion is returned, and a pending answer resolved, if there is a resolver.
\* An answer may also be refused: for its status, Retry-After, or another assertion.
ReceiveSigned(t) ==
  /\ Arrived(t, "sign")
  /\ \/ mail[t].code = "pending" /\ Resolves /\ Len(took[t]) < MaxStages
        /\ took' = [took EXCEPT ![t] = Append(@, mail[t])]
        /\ pc' = [pc EXCEPT ![t] = "resolving"]
        /\ UNCHANGED <<cacheVars, phase, identityLock, reply>>
     \/ /\ mail[t].code \in {"signed", "pending"}
        /\ mail[t].code = "pending" => ~Resolves
        /\ Return(t, mail[t].code)
        /\ UNCHANGED took
     \/ Return(t, "error") /\ UNCHANGED took
  /\ UNCHANGED <<job, key, previous, context, platform>>

\* The resolver returns the context of the next stage, or raises.
Resolve(t, c) ==
  /\ pc[t] = "resolving"
  /\ context' = [context EXCEPT ![t] = c]
  /\ previous' = [previous EXCEPT ![t] = key[t]]
  /\ pc' = [pc EXCEPT ![t] = "keying"]
  /\ UNCHANGED <<cacheVars, job, phase, identityLock, key, mail, reply, took, platform>>

ResolverFails(t) ==
  /\ pc[t] = "resolving"
  /\ Return(t, "error")
  /\ UNCHANGED <<job, key, previous, context, mail, took, platform>>
-----------------------------------------------------------------------------
Caching(t) ==
  Find(t) \/ Respond(t) \/ ReceiveDocument(t) \/ Fail(t)

Next ==
  \/ job \in Timed /\ (Tick \/ Publish \/ Spoil) /\ UNCHANGED <<providerVars, platform>>
  \/ \E t \in Tasks :
       \/ pc[t] = "discovering" /\ Caching(t) /\ UNCHANGED <<providerVars, platform>>
       \/ AskFind(t) \/ AskResolve(t) \/ Enter(t)
       \/ \E c \in Contexts \cup {None} : AskSign(t, c) \/ Resolve(t, c)
       \/ \E k \in Keys : NewKey(t, k)
       \/ Discovered(t) \/ Undiscovered(t) \/ Timeout(t) \/ AnswerList(t)
       \/ \E answer \in Answer : AnswerCommand(t, answer)
       \/ ReceiveList(t) \/ ReceiveIdentity(t) \/ ReceiveSigned(t) \/ ResolverFails(t)
  \/ \E s \in Statuses : ChangeStatus(s)

Spec == Init /\ [][Next]_vars
-----------------------------------------------------------------------------
\* A stage of a signing is never answered by what answered the stage before it: the
\* Platform, which remembers its answers by key, executes every stage anew, whatever keys
\* the application's factory returns.
StagesAdvance ==
  \A t \in Tasks : \A n \in 1..(Len(took[t]) - 1) : took[t][n] # took[t][n + 1]
=============================================================================
