---------------------------- MODULE PlatformIdempotency ----------------------------
(***************************************************************************)
(* Platform as its idempotency store sees it.  Platform says of the store  *)
(* when a request enters, what is remembered for its key, and what is      *)
(* answered then; here two history variables add which of the requests     *)
(* computed what is remembered and what the store told each request, and   *)
(* with them every step is one that IdempotentExecution allows.  They only *)
(* observe: no step of Platform depends on them.                           *)
(***************************************************************************)
EXTENDS Platform

VARIABLES
  kept,  \* history: what is remembered for a key, with the request that computed it
  told   \* history: what the store told a request

history == <<kept, told>>

Abstract == INSTANCE IdempotentExecution
            WITH Keys <- Principals \X Keys, memo <- kept, answer <- told

ObservedInit ==
  /\ Init
  /\ kept = [k \in Principals \X Keys |-> None]
  /\ told = [t \in Tasks |-> None]

Tell(t, outcome) == told' = [told EXCEPT ![t] = outcome]

\* What the store forgets when a request enters: the key has no answer, or an expired one.
ObserveEnter(t) == Enter(t) /\ kept' = [kept EXCEPT ![KeyOf(t)] = None] /\ UNCHANGED told

ObserveReplay(t) ==
  /\ Replay(t)
  /\ Tell(t, IF memo[KeyOf(t)].job = job[t]
             THEN [state |-> "replayed", key |-> KeyOf(t), response |-> kept[KeyOf(t)]]
             ELSE [state |-> "conflict", key |-> KeyOf(t)])
  /\ UNCHANGED kept

\* The operation of a request goes on, or ends and has its answer remembered.
Operate(t) ==
  \/ Resolve(t) \/ Locate(t) \/ Create(t) \/ Store(t)
  \/ Decline(t) \/ Permit(t) \/ LeaveToKeyStore(t) \/ Defer(t) \/ HandlerSigns(t) \/ Sign(t)
  \/ Verify(t) \/ RefuseAssertion(t)

ObserveOperation(t) ==
  LET response == [request |-> job[t], by |-> t, at |-> now] IN
  /\ Operate(t)
  /\ IF pc'[t] # "done" THEN UNCHANGED history
     ELSE /\ kept' = [kept EXCEPT ![KeyOf(t)] = response]
          /\ Tell(t, [state |-> "created", key |-> KeyOf(t), response |-> response])

\* A request that fails before or after its dealings with the store is not told by the store.
ObserveFailure(t) ==
  /\ Collide(t) \/ Fail(t)
  /\ IF pc[t] \in {"authorizing", "transiting"} THEN UNCHANGED told
     ELSE Tell(t, [state |-> "failed"])
  /\ UNCHANGED kept

\* The store has no part in any other step of a request.
Otherwise(t) == Ask(t) \/ Authorize(t) \/ Transit(t)
ObserveElse(t) == Otherwise(t) /\ UNCHANGED history

ObservedNext ==
  \/ Tick /\ UNCHANGED history
  \/ \E t \in Tasks :
       \/ ObserveEnter(t) \/ ObserveReplay(t) \/ ObserveOperation(t) \/ ObserveFailure(t)
       \/ ObserveElse(t)

ObservedSpec == ObservedInit /\ [][ObservedNext]_<<vars, history>>
-----------------------------------------------------------------------------
\* The Platform's requests meet the promise of an idempotency store.
ExecutesIdempotently == Abstract!AbsSpec

\* What a caller is told agrees with what the store told its request: the reply of the
\* execution that the store names, for the same request, or a conflict, or an error.
RepliesFollow ==
  \A t \in Tasks : told[t] # None =>
    /\ told[t].state \in {"created", "replayed"} =>
         LET author == told[t].response.by IN
         job[author] = job[t] /\ reply[author] = reply[t]
    /\ told[t].state = "conflict" => reply[t] = [code |-> "conflict"]
    /\ told[t].state = "failed" => reply[t] = [code |-> "error"]
=============================================================================
