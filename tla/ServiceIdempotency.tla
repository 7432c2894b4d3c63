---------------------------- MODULE ServiceIdempotency ----------------------------
(***************************************************************************)
(* The Service's commands as its idempotency store sees them.  ServiceHttp *)
(* says of the store when a command enters, what is remembered for its     *)
(* key, and what is answered then; here two history variables add which of *)
(* the requests computed what is remembered and what the store told each   *)
(* request, and with them every step is one that IdempotentExecution       *)
(* allows.  They only observe: no step of ServiceHttp depends on them.     *)
(* ServiceHttp has no clock: nothing that is remembered expires.           *)
(***************************************************************************)
EXTENDS ServiceHttp

VARIABLES
  kept,  \* history: what is remembered for a key, with the request that computed it
  told   \* history: what the store told a request

history == <<kept, told>>

Abstract == INSTANCE IdempotentExecution
            WITH Keys <- Slots, Requests <- Contents, Retention <- 0, now <- 0,
                 executing <- running, memo <- kept, answer <- told

ObservedInit ==
  /\ Init
  /\ kept = [s \in Slots |-> None]
  /\ told = [t \in Tasks |-> None]

Tell(t, outcome) == told' = [told EXCEPT ![t] = outcome]

ObserveEnter(t) ==
  LET slot == SlotOf(t) IN
  /\ Enter(t)
  /\ \/ memo[slot] = None /\ UNCHANGED told
     \/ /\ memo[slot] # None
        /\ Tell(t, IF memo[slot].content = request[t].body.content
                   THEN [state |-> "replayed", key |-> slot, response |-> kept[slot]]
                   ELSE [state |-> "conflict", key |-> slot])
  /\ UNCHANGED kept

\* The operation of a command ends and has its answer remembered, or a Grant goes on.
Operate(t) ==
  \/ ExecuteGrant(t) \/ Issue(t) \/ ExecuteRevoke(t)
  \/ \E s \in Standings : EnrollNew(t, s)
  \/ \E decision \in {"reject", "keep", "update"} : EnrollKnown(t, decision)

ObserveOperation(t) ==
  LET response == [request |-> request[t].body.content, by |-> t, at |-> 0] IN
  /\ Operate(t)
  /\ IF pc'[t] # "done" THEN UNCHANGED history
     ELSE /\ kept' = [kept EXCEPT ![SlotOf(t)] = response]
          /\ Tell(t, [state |-> "created", key |-> SlotOf(t), response |-> response])

ObserveFailure(t) ==
  /\ \E part \in SUBSET Tasks : Fail(t, part)
  /\ Tell(t, [state |-> "failed"])
  /\ UNCHANGED kept

\* The store has no part in any other step of a request.
Otherwise(t) ==
  \/ ReadBody(t) \/ Disconnect(t) \/ Consume(t) \/ Refuse(t)
  \/ FindStatus(t) \/ FindNoSession(t) \/ CheckActive(t)
  \/ \E c \in Tasks : FindSession(t, c)
  \/ \E r \in Asks[t] : Receive(t, r)

ObserveElse(t) == Otherwise(t) /\ UNCHANGED history

ObservedNext ==
  \/ \E t \in Tasks :
       ObserveEnter(t) \/ ObserveOperation(t) \/ ObserveFailure(t) \/ ObserveElse(t)
  \/ \E g \in Agents, s \in Standings : ChangeStanding(g, s) /\ UNCHANGED history

ObservedSpec == ObservedInit /\ [][ObservedNext]_<<vars, history>>
-----------------------------------------------------------------------------
\* The Service's commands meet the promise of an idempotency store.
ExecutesIdempotently == Abstract!AbsSpec

\* What an Agent is told agrees with what the store told its command: the reply of the
\* execution that the store names, for the same key and content, or a conflict, or an error.
RepliesFollow ==
  \A t \in Tasks : told[t] # None =>
    /\ told[t].state \in {"created", "replayed"} =>
         LET author == told[t].response.by IN
         /\ SlotOf(author) = SlotOf(t) /\ reply[author] = reply[t]
         /\ request[author].body.content = request[t].body.content
    /\ told[t].state = "conflict" => reply[t] = Status(409)
    /\ told[t].state = "failed" => reply[t] = Status(500)
=============================================================================
