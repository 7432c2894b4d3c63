------------------------------- MODULE Agent_proofs --------------------------------
(***************************************************************************)
(* Proofs about the Agent: about AgentSession, for any tasks, sessions,    *)
(* calls, keys and credentials, and an unbounded clock; about              *)
(* ProtectedFetch and the operators of OpenApi that it uses, for any       *)
(* origins, OpenAPI documents, paths and number of redirects; and about    *)
(* the checks of AgentChecks, for any response, record and time.           *)
(***************************************************************************)
EXTENDS AgentSession, ProtectedFetch, AgentChecks, SequenceTheorems, FiniteSetTheorems,
        WellFoundedInduction, TLAPS

\* A call has begun with one of the jobs considered for it; before that it has nothing.
Begun ==
  \A t \in Tasks :
    /\ pc[t] # "idle" => job[t] \in JobsOf[t]
    /\ pc[t] = "idle" => job[t] = None /\ mail[t] = None /\ reply[t] = None
    /\ pc[t] = "ready" => did[t] # None
    /\ pc[t] \notin {"idle", "done"} => job[t].op # "forget"
    /\ pc[t] = "probing" => job[t].op = "grant"
    /\ pc[t] \in {"session", "sleeping"} => job[t].op # "grant"

\* The credential of an answer is one that the Service issued, for the Grant Type asked for.
IssuedFor(answer, type) ==
  answer.code = "credential" => issued[answer.id] # None /\ issued[answer.id].type = type

\* The request of t carries what its job says; its answer is remembered under its key, and
\* a status it was told, even after the call returned it.
FromMemo(t, answer) ==
  answer.code = "credential" =>
    /\ job[t].op = "grant" /\ memo[KeyOf(t)] # None /\ memo[KeyOf(t)].answer = answer
    /\ memo[KeyOf(t)].request.type = job[t].type

Memory(k) ==
  memo[k] # None =>
    /\ memo[k].answer.code = "credential" => memo[k].request.op = "grant"
    /\ IssuedFor(memo[k].answer, memo[k].request.type)
Remembered == \A k \in AnyKey : Memory(k)

MailOf(t) ==
  /\ mail[t] \in Request => mail[t].op = "status" \/ /\ mail[t].op = job[t].op
                                                     /\ mail[t].type = job[t].type
                                                     /\ mail[t].key = KeyOf(t)
  /\ mail[t] \in Answer => FromMemo(t, mail[t])
  /\ mail[t] \in Answer /\ mail[t].code = "status" => mail[t].status \in told[t]
Mailed == \A t \in Tasks : MailOf(t)
-----------------------------------------------------------------------------
LEMMA Codes ==
  /\ \A c \in {"failed", "unavailable", "inactive", "forgotten", "revoked"} : [code |-> c] \in Reply
  /\ \A i \in Ids : [code |-> "headers", id |-> i] \in Reply
  /\ \A d \in Dids : [code |-> "assertion", did |-> d] \in Reply
  /\ \A a \in Answer : a \in Reply
  /\ \A s \in Standings : [code |-> "status", status |-> s] \in Answer
  /\ [code |-> "problem"] \in Answer
  BY DEF Reply, Answer

LEMMA AnswerFields ==
  ASSUME NEW a \in Answer
  PROVE  /\ a \notin Request /\ a # None
         /\ a.code = "status" => a.status \in Standings
         /\ a.code = "credential" => a.id \in Ids
  <1>1. "code" \in DOMAIN a
    <2>1. CASE a \in [code : {"status"}, status : Standings]
      BY <2>1
    <2>2. CASE a \in [code : {"credential"}, id : Ids]
      BY <2>2
    <2>3. CASE a \in [code : {"revoked", "problem"}]
      BY <2>3
    <2>4. QED
      BY <2>1, <2>2, <2>3 DEF Answer
  <1>2. \A r \in Request : "code" \notin DOMAIN r
    BY DEF Request
  <1>3. a # None
    BY NoneAssumption, Codes
  <1>4. /\ a.code = "status" => a.status \in Standings
        /\ a.code = "credential" => a.id \in Ids
    BY DEF Answer
  <1>5. QED
    BY <1>1, <1>2, <1>3, <1>4

LEMMA KeyType ==
  ASSUME TypeOK, NEW t \in Tasks, job[t] \in Job, job[t].op \in {"enroll", "grant", "revoke"}
  PROVE  KeyOf(t) \in AnyKey
  BY DEF KeyOf, AnyKey, Job

LEMMA JobType == ASSUME Begun, NEW t \in Tasks, pc[t] # "idle"
                 PROVE  /\ job[t] \in Job /\ job[t] # None
                        /\ job[t].op = "grant" => job[t].type \in Types
                        /\ job[t].op = "forget" => job[t].id \in Ids
  <1>1. job[t] \in JobsOf[t] /\ job[t] \in Job
    BY SessionAssumption DEF Begun
  <1>2. QED
    BY <1>1, SessionAssumption, NoneAssumption DEF Job

LEMMA SentType ==
  ASSUME TypeOK, Begun, NEW t \in Tasks, pc[t] # "idle",
         NEW op \in {"enroll", "status", "grant", "revoke"}, NEW key \in AnyKey \cup {None}
  PROVE  [op |-> op, type |-> job[t].type, id |-> job[t].id, key |-> key] \in Request
  <1>1. job[t] \in Job
    BY JobType
  <1>2. QED
    BY <1>1 DEF Job, Request

LEMMA UnexpiredType ==
  ASSUME TypeOK
  PROVE  /\ Unexpired \in [Ids -> Record \cup {None}]
         /\ \A i \in Ids : Unexpired[i] \in {store[i], None}
  BY DEF Unexpired, TypeOK

Agreed == TypeOK /\ Begun /\ Remembered /\ Mailed

LEMMA AgreedInit == Init => Agreed
  <1> SUFFICES ASSUME Init PROVE Agreed
    OBVIOUS
  <1>1. None \notin Request /\ None \notin Answer
    BY NoneAssumption DEF Reply
  <1>2. TypeOK
    BY SessionAssumption DEF Init, TypeOK, Waiting, Standings
  <1>3. Begun /\ Remembered /\ Mailed
    BY <1>1 DEF Init, Begun, Remembered, Memory, Mailed, MailOf
  <1>4. QED
    BY <1>2, <1>3 DEF Agreed
-----------------------------------------------------------------------------
(* Types, and where answers come from *)

\* The calls' own steps change nothing at the Service, and no call's job.
LEMMA JobsStay ==
  ASSUME NEW t \in Tasks, Proceed(t) \/ GiveUp(t)
  PROVE  UNCHANGED <<now, job, service, history>> /\ pc[t] # "idle"
  BY DEF Proceed, GiveUp, EnterSession, EnterAgent, ProvideNone, Provide, Send, SignerFails,
     SignHeaders, Timeout, ReceiveProbe, ReceiveStatus, Unacknowledged, ReceiveCredential,
     ReceiveRevoked, ReceiveProblem, DeleteOne, PollAgain, Arrived

\* What a Grant saves is a record.
LEMMA SavedType ==
  ASSUME Agreed, NEW t \in Tasks, pc[t] # "idle", mail[t] \in Answer, mail[t].code = "credential"
  PROVE  [type |-> job[t].type, expires |-> issued[mail[t].id].expires, at |-> now, by |-> t]
           \in Record
  <1> USE DEF Agreed, TypeOK
  <1>1. mail[t].id \in Ids /\ job[t] \in Job
    BY AnswerFields, JobType
  <1>2. job[t].op = "grant" /\ job[t].type \in Types
    BY JobType DEF Mailed, MailOf, FromMemo
  <1>3. issued[mail[t].id] # None
    <2>1. KeyOf(t) \in AnyKey
      BY <1>1, <1>2, KeyType
    <2>2. QED
      BY <2>1 DEF Mailed, MailOf, FromMemo, Remembered, Memory, IssuedFor
  <1>4. QED
    BY <1>1, <1>2, <1>3, SessionAssumption DEF Granted, Record

LEMMA TypeStep == ASSUME Agreed, [Next]_vars PROVE TypeOK'
  <1> USE DEF Agreed, TypeOK
  <1>n. None \notin Request /\ None \notin Answer
    BY NoneAssumption DEF Reply
  <1>1. CASE UNCHANGED vars
    BY <1>1 DEF vars, agent, service, calls, history
  <1>2. CASE Tick
    BY <1>2, SessionAssumption DEF Tick, agent, service, calls, history
  <1>3. ASSUME NEW t \in Tasks, NEW j \in JobsOf[t], BeginCommand(t, j) PROVE TypeOK'
    <2>1. j \in Job
      BY SessionAssumption
    <2>2. seen' \in [Tasks -> SUBSET Record] /\ gone' \in [Tasks -> SUBSET Ids]
      BY <1>3, NoneAssumption DEF BeginCommand, Begin
    <2>3. job' \in [Tasks -> Job \cup {None}]
      BY <1>3, <2>1 DEF BeginCommand, Begin
    <2>4. QED
      BY <1>3, <2>2, <2>3 DEF BeginCommand, Begin, GoTo, agent, service, Waiting
  <1>4. ASSUME NEW t \in Tasks, NEW j \in JobsOf[t], AskHeaders(t, j) \/ Forget(t, j) PROVE TypeOK'
    <2>1. j \in Job
      BY SessionAssumption
    <2>2. seen' \in [Tasks -> SUBSET Record] /\ gone' \in [Tasks -> SUBSET Ids]
      BY <1>4, NoneAssumption DEF AskHeaders, Forget, Begin
    <2>3. job' \in [Tasks -> Job \cup {None}]
      BY <1>4, <2>1 DEF AskHeaders, Forget, Begin
    <2>4. store' \in [Ids -> Record \cup {None}]
      BY <1>4, <2>1, UnexpiredType DEF AskHeaders, Forget
    <2>5. pc' = [pc EXCEPT ![t] = "session"] \/ pc' = [pc EXCEPT ![t] = "done"]
      BY <1>4 DEF AskHeaders, Forget, GoTo, Raise, Return
    <2>6. \E v \in Reply : reply' = [reply EXCEPT ![t] = v] \/ reply' = reply
      BY <1>4, Codes DEF AskHeaders, Forget, GoTo, Raise, Return
    <2>7. reply' \in [Tasks -> Reply \cup {None}]
      BY <2>6
    <2>8. QED
      BY <1>4, <2>2, <2>3, <2>4, <2>5, <2>7 DEF AskHeaders, Forget, Begin, agent, service, Waiting
  <1>5. ASSUME NEW t \in Tasks, Proceed(t) \/ GiveUp(t) PROVE TypeOK'
    <2>1. /\ UNCHANGED <<now, job, standing, changes, issued, memo, seen, told, gone>>
          /\ pc[t] # "idle" /\ job[t] \in Job
      BY <1>5, JobsStay, JobType DEF service, history
    <2>2. identity' \in [Sessions -> Dids \cup {None}] /\ stored' \in Dids \cup {None}
            /\ did' \in [Tasks -> Dids \cup {None}]
      BY <1>5, SessionAssumption DEF Proceed, GiveUp, EnterSession, EnterAgent, ProvideNone, Provide,
         Send, SignerFails, SignHeaders, Timeout, ReceiveProbe, ReceiveStatus, Unacknowledged,
         ReceiveCredential, ReceiveRevoked, ReceiveProblem, DeleteOne, PollAgain, Adopt, agent
    <2>3. lock' \in [Sessions -> Tasks \cup {None}] /\ agentLock' \in Tasks \cup {None}
      <3>1. SessionOf[t] \in Sessions
        BY SessionAssumption
      <3>2. CASE Leave(t)
        BY <3>1, <3>2 DEF Leave
      <3>3. CASE EnterSession(t) \/ EnterAgent(t)
        BY <3>1, <3>2, <3>3 DEF EnterSession, EnterAgent, Adopt
      <3>4. CASE ~Leave(t) /\ ~EnterSession(t) /\ ~EnterAgent(t)
        BY <1>5, <3>4 DEF Proceed, GiveUp, ProvideNone, Provide,
           Send, SignerFails, SignHeaders, Timeout, ReceiveProbe, ReceiveStatus, Unacknowledged,
           ReceiveCredential, ReceiveRevoked, ReceiveProblem, DeleteOne, PollAgain, Adopt, agent
      <3>5. QED
        BY <3>2, <3>3, <3>4
    <2>4. active' \in [Sessions -> BOOLEAN]
      BY <1>5, SessionAssumption DEF Proceed, GiveUp, EnterSession, EnterAgent, ProvideNone, Provide,
         Send, SignerFails, SignHeaders, Timeout, ReceiveProbe, ReceiveStatus, Unacknowledged,
         ReceiveCredential, ReceiveRevoked, ReceiveProblem, DeleteOne, PollAgain, LearnStatus, agent
    <2>5. todo' \in [Tasks -> SUBSET Ids]
      BY <1>5 DEF Proceed, GiveUp, EnterSession, EnterAgent, ProvideNone, Provide,
         Send, SignerFails, SignHeaders, Timeout, ReceiveProbe, ReceiveStatus, Unacknowledged,
         ReceiveCredential, ReceiveRevoked, ReceiveProblem, DeleteOne, PollAgain
    <2>6. pc' \in [Tasks -> Waiting \cup {"idle", "ready", "probing", "sent", "saving", "deleting",
                                         "sleeping", "done"}]
      BY <1>5 DEF Proceed, GiveUp, EnterSession, EnterAgent, ProvideNone, Provide,
         Send, SignerFails, SignHeaders, Timeout, ReceiveProbe, ReceiveStatus, Unacknowledged,
         ReceiveCredential, ReceiveRevoked, ReceiveProblem, DeleteOne, PollAgain, GoTo, Return, Raise,
         Adopt, Waiting
    <2>7. reply' \in [Tasks -> Reply \cup {None}]
      <3>1. CASE SignHeaders(t)
        <4>1. did[t] \in Dids
          BY <3>1 DEF SignHeaders, Begun
        <4>2. QED
          BY <3>1, <4>1, Codes DEF SignHeaders, Return
      <3>2. CASE ~SignHeaders(t)
        BY <1>5, <3>2, Codes DEF Proceed, GiveUp, EnterSession, EnterAgent, ProvideNone, Provide,
           Send, SignerFails, Timeout, ReceiveProbe, ReceiveStatus, Unacknowledged,
           ReceiveCredential, ReceiveRevoked, ReceiveProblem, DeleteOne, PollAgain, GoTo, Return,
           Raise, Adopt, Arrived
      <3>3. QED
        BY <3>1, <3>2
    <2>8. mail' \in [Tasks -> Request \cup Answer \cup {None}]
      <3>1. CASE Send(t)
        <4>1. job[t].op \in {"status", "wait"} \/ KeyOf(t) \in AnyKey
          BY <2>1, <3>1, KeyType DEF Send, Job, KeyOf, AnyKey
        <4>2. KeyOf(t) \in AnyKey \cup {None}
          BY <4>1 DEF KeyOf
        <4>3. PICK op \in {"enroll", "status", "grant", "revoke"}, key \in AnyKey \cup {None} :
                Transmit(t, op, key)
          <5>1. job[t].op \in {"enroll", "status", "wait", "grant", "revoke"}
            BY <2>1, <3>1 DEF Send, Begun, Job
          <5>2. QED
            BY <3>1, <4>2, <5>1 DEF Send
        <4>4. QED
          BY <2>1, <4>3, SentType DEF Transmit
      <3>2. CASE ReceiveProbe(t)
        <4>1. KeyOf(t) \in AnyKey \cup {None}
          BY <2>1 DEF KeyOf, AnyKey, Job
        <4>2. Transmit(t, "grant", KeyOf(t)) \/ Consume(t)
          BY <3>2 DEF ReceiveProbe
        <4>3. QED
          BY <2>1, <4>1, <4>2, SentType DEF Transmit, Consume
      <3>3. CASE ~Send(t) /\ ~ReceiveProbe(t)
        BY <1>5, <3>3 DEF Proceed, GiveUp, EnterSession, EnterAgent, ProvideNone, Provide,
           SignerFails, SignHeaders, Timeout, ReceiveStatus, Unacknowledged,
           ReceiveCredential, ReceiveRevoked, ReceiveProblem, DeleteOne, PollAgain, Consume
      <3>4. QED
        BY <3>1, <3>2, <3>3
    <2>9. store' \in [Ids -> Record \cup {None}]
      <3>1. CASE ReceiveCredential(t)
        <4>4. [type |-> job[t].type, expires |-> issued[mail[t].id].expires, at |-> now, by |-> t]
                \in Record
          BY <3>1, SavedType DEF ReceiveCredential, Arrived
        <4>5. QED
          BY <3>1, <4>4 DEF ReceiveCredential
      <3>2. CASE ReceiveRevoked(t)
        BY <3>2, UnexpiredType DEF ReceiveRevoked
      <3>3. CASE ~ReceiveCredential(t) /\ ~ReceiveRevoked(t)
        BY <1>5, <3>3 DEF Proceed, GiveUp, EnterSession, EnterAgent, ProvideNone, Provide,
           Send, SignerFails, SignHeaders, Timeout, ReceiveProbe, ReceiveStatus, Unacknowledged,
           ReceiveProblem, DeleteOne, PollAgain, agent
      <3>4. QED
        BY <3>1, <3>2, <3>3
    <2>10. QED
      BY <2>1, <2>2, <2>3, <2>4, <2>5, <2>6, <2>7, <2>8, <2>9
  <1>t. ASSUME NEW t \in Tasks, NEW answer \in Answer, Tell(t, answer),
               standing' \in Standings /\ changes' \in 0..MaxChanges,
               issued' \in [Ids -> Granted \cup {None}],
               memo' \in [AnyKey -> [request : Request, answer : Answer] \cup {None}]
        PROVE  TypeOK'
    <2>1. told' \in [Tasks -> SUBSET Standings]
      BY <1>t, AnswerFields DEF Tell
    <2>2. QED
      BY <1>t, <2>1 DEF Tell, agent
  <1>6. ASSUME NEW t \in Tasks, NEW answer \in Answer, ServeCommand(t, answer) PROVE TypeOK'
    <2>1. mail[t] \in Request /\ mail[t].op # "status" /\ Tell(t, answer)
      BY <1>6 DEF ServeCommand
    <2>2. CASE UNCHANGED service
      BY <1>t, <2>1, <2>2 DEF service
    <2>3. CASE /\ Execute(mail[t], answer)
               /\ memo' = [memo EXCEPT ![mail[t].key] = [request |-> mail[t], answer |-> answer]]
      <3>1. memo' \in [AnyKey -> [request : Request, answer : Answer] \cup {None}]
        BY <2>1, <2>3
      <3>2. CASE mail[t].op = "enroll" /\ Decide(mail[t], answer)
        BY <1>t, <2>1, <3>1, <3>2 DEF Decide
      <3>3. CASE mail[t].op = "grant" /\ Issue(mail[t], answer)
        <4>1. mail[t].type \in Types
          BY <1>n, <2>1, <3>3, JobType DEF Begun, Mailed, MailOf
        <4>2. \A i \in Ids :
                [type |-> mail[t].type, expires |-> now + Lifetime, revoked |-> FALSE] \in Granted
          BY <4>1, SessionAssumption DEF Granted
        <4>3. issued' \in [Ids -> Granted \cup {None}]
          BY <3>3, <4>2 DEF Issue
        <4>4. QED
          BY <1>t, <2>1, <3>1, <3>3, <4>3 DEF Issue
      <3>4. CASE mail[t].op = "revoke" /\ Withdraw(mail[t], answer)
        <4>1. \A i \in Ids : issued[i] # None => [issued[i] EXCEPT !.revoked = TRUE] \in Granted
          BY DEF Granted
        <4>2. issued' \in [Ids -> Granted \cup {None}]
          BY <3>4, <4>1 DEF Withdraw
        <4>3. QED
          BY <1>t, <2>1, <3>1, <3>4, <4>2 DEF Withdraw
      <3>5. QED
        BY <2>3, <3>2, <3>3, <3>4 DEF Execute
    <2>4. QED
      BY <1>6, <2>2, <2>3 DEF ServeCommand
  <1>7. ASSUME NEW t \in Tasks, ServeStatus(t) PROVE TypeOK'
    <2>1. PICK answer \in Answer : Tell(t, answer)
      BY <1>7, Codes DEF ServeStatus
    <2>2. QED
      BY <1>t, <1>7, <2>1 DEF ServeStatus, service
  <1>8. ASSUME NEW s \in Standings, ChangeStanding(s) PROVE TypeOK'
    BY <1>8, SessionAssumption DEF ChangeStanding, agent, calls, history
  <1>9. QED
    BY <1>1, <1>2, <1>3, <1>4, <1>5, <1>6, <1>7, <1>8 DEF Next, Call, Serve

\* What the Service remembers and issued, it keeps; and what it told a call stays told.
Grows ==
  /\ \A k \in AnyKey : memo[k] # None => memo'[k] = memo[k]
  /\ \A i \in Ids : issued[i] # None => issued'[i] # None /\ issued'[i].type = issued[i].type
  /\ \A t \in Tasks : told[t] \subseteq told'[t]
  /\ \A t \in Tasks : pc[t] # "idle" => job'[t] = job[t] /\ gone'[t] = gone[t] /\ seen'[t] = seen[t]

LEMMA ServiceGrows == ASSUME Agreed, [Next]_vars PROVE Grows
  <1> USE DEF Agreed, TypeOK, Grows
  <1>1. CASE UNCHANGED vars \/ Tick
    BY <1>1 DEF vars, Tick, service, calls, history
  <1>2. ASSUME NEW t \in Tasks, Call(t) PROVE Grows
    BY <1>2 DEF Call, BeginCommand, AskHeaders, Forget, Begin, service
  <1>3. ASSUME NEW t \in Tasks, Proceed(t) \/ GiveUp(t) PROVE Grows
    BY <1>3, JobsStay DEF service, history
  <1>4. ASSUME NEW t \in Tasks, NEW answer \in Answer, ServeCommand(t, answer) PROVE Grows
    <2>1. \A i \in Ids : issued[i] # None => issued'[i] # None /\ issued'[i].type = issued[i].type
      <3>1. CASE UNCHANGED issued
        BY <3>1
      <3>2. CASE Issue(mail[t], answer)
        BY <3>2 DEF Issue
      <3>3. CASE Withdraw(mail[t], answer)
        <4>1. \A g \in Granted : /\ [g EXCEPT !.revoked = TRUE] \in Granted
                                 /\ [g EXCEPT !.revoked = TRUE].type = g.type
          BY DEF Granted
        <4>2. None \notin Granted
          BY NoneAssumption
        <4>3. ASSUME NEW i \in Ids, issued[i] # None
              PROVE  issued'[i] # None /\ issued'[i].type = issued[i].type
          <5>1. issued[i] \in Granted
            BY <4>3
          <5>2. issued'[i] \in {issued[i], [issued[i] EXCEPT !.revoked = TRUE]}
            BY <3>3 DEF Withdraw
          <5>3. QED
            BY <4>1, <4>2, <4>3, <5>1, <5>2
        <4>4. QED
          BY <4>3
      <3>4. QED
        BY <1>4, <3>1, <3>2, <3>3 DEF ServeCommand, Execute, Decide, service
    <2>2. \A k \in AnyKey : memo[k] # None => memo'[k] = memo[k]
      BY <1>4 DEF ServeCommand, service
    <2>3. QED
      BY <1>4, <2>1, <2>2 DEF ServeCommand, Tell
  <1>5. ASSUME NEW t \in Tasks, ServeStatus(t) PROVE Grows
    BY <1>5 DEF ServeStatus, Tell, service
  <1>6. ASSUME NEW s \in Standings, ChangeStanding(s) PROVE Grows
    BY <1>6 DEF ChangeStanding, calls, history
  <1>7. QED
    BY <1>1, <1>2, <1>3, <1>4, <1>5, <1>6 DEF Next, Serve

\* What one call's own step does to the calls.
LEMMA OthersStay ==
  ASSUME TypeOK, NEW t \in Tasks, Call(t) \/ Proceed(t) \/ GiveUp(t), NEW u \in Tasks, u # t
  PROVE  /\ pc'[u] = pc[u] /\ mail'[u] = mail[u] /\ reply'[u] = reply[u] /\ did'[u] = did[u]
         /\ job'[u] = job[u] /\ todo'[u] = todo[u]
  <1>1. CASE Call(t)
    BY <1>1 DEF TypeOK, Call, BeginCommand, AskHeaders, Forget, Begin, GoTo, Raise, Return
  <1>2. CASE Proceed(t) \/ GiveUp(t)
    BY <1>2 DEF TypeOK, Proceed, GiveUp, EnterSession, EnterAgent, ProvideNone, Provide, Send,
       SignerFails, SignHeaders, Timeout, ReceiveProbe, ReceiveStatus, Unacknowledged,
       ReceiveCredential, ReceiveRevoked, ReceiveProblem, DeleteOne, PollAgain, GoTo, Return, Raise,
       Adopt, Transmit, Consume
  <1>3. QED
    BY <1>1, <1>2

\* A call sends what its job says, or waits on, or has its answer.
LEMMA MailStep ==
  ASSUME Agreed, NEW t \in Tasks, Proceed(t) \/ GiveUp(t)
  PROVE  \/ mail'[t] \in {mail[t], None}
         \/ /\ mail'[t] \in Request
            /\ mail'[t].op = "status" \/ /\ mail'[t].op = job[t].op /\ mail'[t].type = job[t].type
                                         /\ mail'[t].key = KeyOf(t)
  <1> USE DEF Agreed, TypeOK
  <1>1. CASE Send(t)
    <2>1. \/ Transmit(t, "status", None)
          \/ Transmit(t, IF job[t].op = "wait" THEN "status" ELSE job[t].op, KeyOf(t))
      BY <1>1 DEF Send
    <2>2. pc[t] # "idle" /\ job[t].op \in {"enroll", "status", "wait", "grant", "revoke"}
            /\ job[t] \in Job
      BY <1>1, JobType DEF Send, Begun, Job
    <2>3. KeyOf(t) \in AnyKey \cup {None}
      BY <2>2 DEF KeyOf, AnyKey, Job
    <2>4. QED
      BY <2>1, <2>2, <2>3, SentType DEF Transmit
  <1>2. CASE ReceiveProbe(t)
    <2>1. pc[t] # "idle" /\ job[t] \in Job
      BY <1>2, JobType DEF ReceiveProbe, Arrived
    <2>2. KeyOf(t) \in AnyKey \cup {None}
      BY <2>1 DEF KeyOf, AnyKey, Job
    <2>3. Transmit(t, "grant", KeyOf(t)) \/ Consume(t)
      BY <1>2 DEF ReceiveProbe
    <2>4. job[t].op = "grant"
      BY <1>2 DEF ReceiveProbe, Arrived, Begun
    <2>5. QED
      BY <2>1, <2>2, <2>3, <2>4, SentType DEF Transmit, Consume
  <1>3. CASE ~Send(t) /\ ~ReceiveProbe(t)
    BY <1>3 DEF Proceed, GiveUp, EnterSession, EnterAgent, ProvideNone, Provide,
       SignerFails, SignHeaders, Timeout, ReceiveStatus, Unacknowledged,
       ReceiveCredential, ReceiveRevoked, ReceiveProblem, DeleteOne, PollAgain, Consume
  <1>4. QED
    BY <1>1, <1>2, <1>3

LEMMA BegunStep == ASSUME Agreed, [Next]_vars PROVE Begun'
  <1> USE DEF Agreed, TypeOK
  <1>n. None \notin Job
    BY NoneAssumption
  <1>1. CASE UNCHANGED vars \/ Tick \/ \E s \in Standings : ChangeStanding(s)
    BY <1>1 DEF vars, Tick, ChangeStanding, calls, Begun
  <1>2. ASSUME NEW t \in Tasks, NEW j \in JobsOf[t],
               BeginCommand(t, j) \/ AskHeaders(t, j) \/ Forget(t, j)
        PROVE  Begun'
    <2>1. job'[t] = j /\ pc'[t] \notin {"idle", "ready", "probing"}
            /\ (pc'[t] # "done" => j.op # "forget")
            /\ (pc'[t] \in {"session", "sleeping"} => j.op # "grant")
      BY <1>2 DEF BeginCommand, AskHeaders, Forget, Begin, GoTo, Raise, Return
    <2>2. \A u \in Tasks \ {t} : /\ pc'[u] = pc[u] /\ mail'[u] = mail[u] /\ reply'[u] = reply[u]
                                 /\ did'[u] = did[u] /\ job'[u] = job[u]
      BY <1>2, OthersStay DEF Call
    <2>3. QED
      BY <2>1, <2>2 DEF Begun
  <1>3. ASSUME NEW t \in Tasks, Proceed(t) \/ GiveUp(t) PROVE Begun'
    <2>1. pc[t] # "idle" /\ pc'[t] # "idle" /\ job'[t] = job[t]
      BY <1>3, JobsStay DEF Proceed, GiveUp, EnterSession, EnterAgent, ProvideNone, Provide, Send,
         SignerFails, SignHeaders, Timeout, ReceiveProbe, ReceiveStatus, Unacknowledged,
         ReceiveCredential, ReceiveRevoked, ReceiveProblem, DeleteOne, PollAgain, GoTo, Return,
         Raise, Adopt
    <2>2. pc'[t] = "ready" => did'[t] # None
      BY <1>3, DistinctAssumption DEF Proceed, GiveUp, EnterSession, EnterAgent, ProvideNone,
         Provide, Send, SignerFails, SignHeaders, Timeout, ReceiveProbe, ReceiveStatus,
         Unacknowledged, ReceiveCredential, ReceiveRevoked, ReceiveProblem, DeleteOne, PollAgain,
         GoTo, Return, Raise, Adopt
    <2>3. /\ pc'[t] = "probing" => job[t].op = "grant"
          /\ pc'[t] \in {"session", "sleeping"} => job[t].op # "grant"
      BY <1>3 DEF Proceed, GiveUp, EnterSession, EnterAgent, ProvideNone,
         Provide, Send, SignerFails, SignHeaders, Timeout, ReceiveProbe, ReceiveStatus,
         Unacknowledged, ReceiveCredential, ReceiveRevoked, ReceiveProblem, DeleteOne, PollAgain,
         GoTo, Return, Raise, Adopt, Begun
    <2>4. pc[t] # "done"
      BY <1>3 DEF Proceed, GiveUp, EnterSession, EnterAgent, ProvideNone, Provide, Send,
         SignerFails, SignHeaders, Timeout, ReceiveProbe, ReceiveStatus, Unacknowledged,
         ReceiveCredential, ReceiveRevoked, ReceiveProblem, DeleteOne, PollAgain, Arrived
    <2>5. \A u \in Tasks \ {t} : /\ pc'[u] = pc[u] /\ mail'[u] = mail[u] /\ reply'[u] = reply[u]
                                 /\ did'[u] = did[u] /\ job'[u] = job[u]
      BY <1>3, OthersStay
    <2>6. QED
      BY <2>1, <2>2, <2>3, <2>4, <2>5 DEF Begun
  <1>4. ASSUME NEW t \in Tasks, Serve(t) PROVE Begun'
    <2>1. mail[t] \in Request /\ UNCHANGED <<pc, job, did, reply>>
            /\ \A u \in Tasks \ {t} : mail'[u] = mail[u]
      BY <1>4 DEF Serve, ServeStatus, ServeCommand, Tell
    <2>2. pc[t] # "idle"
      BY <2>1, NoneAssumption DEF Begun
    <2>3. QED
      BY <2>1, <2>2 DEF Begun
  <1>5. QED
    BY <1>1, <1>2, <1>3, <1>4 DEF Next, Call

\* A new memory is that of the request just served, which was answered as its command is.
LEMMA RememberedStep == ASSUME Agreed, [Next]_vars PROVE Remembered'
  <1> USE DEF Agreed, TypeOK
  <1>g. Grows
    BY ServiceGrows
  <1>0. ASSUME NEW k \in AnyKey, memo[k] # None, memo'[k] # None
        PROVE  Memory(k)'
    <2>1. memo'[k] = memo[k] /\ memo[k].answer \in Answer
      BY <1>g, <1>0 DEF Grows
    <2>2. memo[k].answer.code = "credential" => memo[k].answer.id \in Ids
      BY <2>1, AnswerFields
    <2>3. /\ memo[k].answer.code = "credential" => memo[k].request.op = "grant"
          /\ IssuedFor(memo[k].answer, memo[k].request.type)
      BY <1>0 DEF Remembered, Memory
    <2>4. QED
      BY <1>g, <2>1, <2>2, <2>3 DEF Memory, IssuedFor, Grows
  <1>1. ASSUME NEW t \in Tasks, NEW answer \in Answer, ServeCommand(t, answer) PROVE Remembered'
    <2>1. CASE UNCHANGED memo
      BY <1>0, <2>1 DEF Remembered, Memory
    <2>2. CASE /\ Execute(mail[t], answer)
               /\ memo' = [memo EXCEPT ![mail[t].key] = [request |-> mail[t], answer |-> answer]]
      <3>1. /\ answer.code = "credential" => mail[t].op = "grant"
            /\ answer.code = "credential" =>
                 issued'[answer.id] # None /\ issued'[answer.id].type = mail[t].type
        <4>1. CASE Decide(mail[t], answer)
          BY <4>1 DEF Decide
        <4>2. CASE mail[t].op = "grant" /\ Issue(mail[t], answer)
          <5>1. CASE answer = [code |-> "problem"]
            BY <4>2, <5>1
          <5>2. CASE \E i \in Ids : /\ issued' = [issued EXCEPT ![i] =
                                         [type |-> mail[t].type, expires |-> now + Lifetime,
                                          revoked |-> FALSE]]
                                    /\ answer = [code |-> "credential", id |-> i]
            <6>1. PICK i \in Ids : /\ issued' = [issued EXCEPT ![i] =
                                         [type |-> mail[t].type, expires |-> now + Lifetime,
                                          revoked |-> FALSE]]
                                   /\ answer = [code |-> "credential", id |-> i]
              BY <5>2
            <6>2. issued'[i] = [type |-> mail[t].type, expires |-> now + Lifetime, revoked |-> FALSE]
              BY <6>1
            <6>3. mail[t].type \in Types
              <7>1. mail[t] \in Request
                BY <1>1 DEF ServeCommand
              <7>2. QED
                BY <4>2, <7>1, NoneAssumption, JobType DEF Begun, Mailed, MailOf
            <6>4. issued'[i] \in Granted
              BY <6>2, <6>3, SessionAssumption DEF Granted
            <6>5. QED
              BY <4>2, <6>1, <6>2, <6>4, NoneAssumption
          <5>3. QED
            BY <4>2, <5>1, <5>2 DEF Issue
        <4>3. CASE Withdraw(mail[t], answer)
          BY <4>3 DEF Withdraw
        <4>4. QED
          BY <2>2, <4>1, <4>2, <4>3 DEF Execute
      <3>2. ASSUME NEW k \in AnyKey, memo'[k] # None, memo[k] = None
            PROVE  memo'[k] = [request |-> mail[t], answer |-> answer]
        BY <2>2, <3>2
      <3>3. QED
        <4>1. ASSUME NEW k \in AnyKey, memo'[k] # None, memo[k] = None PROVE Memory(k)'
          BY <3>1, <3>2, <4>1 DEF Memory, IssuedFor
        <4>2. QED
          BY <1>0, <4>1 DEF Remembered, Memory
    <2>3. QED
      BY <1>1, <2>1, <2>2 DEF ServeCommand, service
  <1>2. CASE UNCHANGED memo
    BY <1>0, <1>2 DEF Remembered, Memory
  <1>3. QED
    <2>1. ASSUME NEW t \in Tasks, Call(t) PROVE UNCHANGED memo
      BY <2>1 DEF Call, BeginCommand, AskHeaders, Forget, Begin, service
    <2>2. ASSUME NEW t \in Tasks, Proceed(t) \/ GiveUp(t) PROVE UNCHANGED memo
      BY <2>2, JobsStay DEF service
    <2>3. CASE UNCHANGED vars \/ Tick
               \/ (\E t \in Tasks : ServeStatus(t)) \/ \E s \in Standings : ChangeStanding(s)
      BY <1>2, <2>3 DEF vars, Tick, ServeStatus, ChangeStanding, service
    <2>4. QED
      BY <1>1, <1>2, <2>1, <2>2, <2>3 DEF Next, Serve

LEMMA MemoStays ==
  ASSUME Agreed, [Next]_vars, NEW t \in Tasks, pc[t] # "idle", NEW answer, FromMemo(t, answer)
  PROVE  FromMemo(t, answer)'
  <1>1. Grows
    BY ServiceGrows
  <1>2. job[t] \in Job /\ job'[t] = job[t]
    BY <1>1, JobType DEF Agreed, Grows
  <1>3. job[t].op = "grant" => KeyOf(t) \in AnyKey /\ KeyOf(t)' = KeyOf(t)
    BY <1>2, KeyType DEF Agreed, KeyOf
  <1>4. QED
    BY <1>1, <1>2, <1>3 DEF FromMemo, Grows

LEMMA MailedStep == ASSUME Agreed, [Next]_vars PROVE Mailed'
  <1> USE DEF Agreed, TypeOK
  <1>g. Grows
    BY ServiceGrows
  <1>n. None \notin Request /\ None \notin Answer /\ Request \cap Answer = {}
    BY NoneAssumption, AnswerFields DEF Reply
  <1>0. ASSUME NEW u \in Tasks, mail'[u] = mail[u], mail[u] # None
        PROVE  MailOf(u)'
    <2>1. pc[u] # "idle" /\ job'[u] = job[u] /\ KeyOf(u)' = KeyOf(u)
      BY <1>g, <1>0 DEF Begun, Grows, KeyOf
    <2>2. ASSUME mail[u] \in Answer PROVE \A answer : answer = mail[u] => FromMemo(u, answer)'
      <3> SUFFICES ASSUME NEW answer, answer = mail[u] PROVE FromMemo(u, answer)'
        OBVIOUS
      <3>1. FromMemo(u, answer)
        BY <2>2 DEF Mailed, MailOf
      <3>2. QED
        BY <2>1, <3>1, MemoStays
    <2>3. mail'[u] \in Answer => FromMemo(u, mail[u])'
      BY <1>0, <2>2 DEF FromMemo
    <2>4. MailOf(u)
      BY DEF Mailed
    <2>5. QED
      BY <1>g, <1>0, <2>1, <2>3, <2>4 DEF MailOf, Grows
  <1>1. CASE UNCHANGED mail
    BY <1>0, <1>1, <1>n DEF Mailed, MailOf
  <1>2. ASSUME NEW t \in Tasks, Proceed(t) \/ GiveUp(t) PROVE Mailed'
    <2>1. \A u \in Tasks \ {t} : mail'[u] = mail[u]
      BY <1>2, OthersStay
    <2>2. \/ mail'[t] \in {mail[t], None}
          \/ /\ mail'[t] \in Request
             /\ mail'[t].op = "status" \/ /\ mail'[t].op = job[t].op /\ mail'[t].type = job[t].type
                                          /\ mail'[t].key = KeyOf(t)
      BY <1>2, MailStep
    <2>3. job'[t] = job[t] /\ KeyOf(t)' = KeyOf(t)
      BY <1>2, JobsStay DEF KeyOf
    <2>4. QED
      BY <1>0, <1>n, <2>1, <2>2, <2>3 DEF Mailed, MailOf
  <1>3. ASSUME NEW t \in Tasks, NEW answer \in Answer, Tell(t, answer), FromMemo(t, answer)'
        PROVE  Mailed'
    <2>1. \A u \in Tasks \ {t} : mail'[u] = mail[u]
      BY <1>3 DEF Tell
    <2>2. mail'[t] \in {None, answer} /\ (answer.code = "status" => answer.status \in told'[t])
      BY <1>3 DEF Tell
    <2>3. FromMemo(t, mail[t])' \/ mail'[t] = None
      BY <1>3, <2>2 DEF FromMemo
    <2>4. MailOf(t)'
      BY <1>n, <1>3, <2>2, <2>3 DEF MailOf
    <2>5. QED
      BY <1>0, <1>n, <2>1, <2>4 DEF Mailed, MailOf
  <1>4. ASSUME NEW t \in Tasks, NEW answer \in Answer, ServeCommand(t, answer) PROVE Mailed'
    <2>1. /\ mail[t] \in Request /\ mail[t].op # "status" /\ Tell(t, answer)
          /\ mail[t].op = job[t].op /\ mail[t].type = job[t].type /\ mail[t].key = KeyOf(t)
          /\ job'[t] = job[t]
      BY <1>4 DEF ServeCommand, Mailed, MailOf, Tell
    <2>2. pc[t] # "idle" /\ job[t] \in Job
      BY <1>n, <2>1, JobType DEF Begun
    <2>3. KeyOf(t) \in AnyKey /\ KeyOf(t)' = KeyOf(t)
      BY <2>1, <2>2, KeyType DEF KeyOf, Request
    <2>4. answer.code = "credential" =>
            /\ memo'[KeyOf(t)] # None /\ memo'[KeyOf(t)].answer = answer
            /\ memo'[KeyOf(t)].request = mail[t]
      <3>1. CASE memo[KeyOf(t)] = None
        <4>1. memo'[KeyOf(t)] = [request |-> mail[t], answer |-> answer]
          BY <1>4, <2>1, <2>3, <3>1 DEF ServeCommand
        <4>2. [request |-> mail[t], answer |-> answer] # None
          BY <2>1, NoneAssumption
        <4>3. QED
          BY <4>1, <4>2
      <3>2. CASE memo[KeyOf(t)] # None
        BY <1>4, <2>1, <2>3, <3>2 DEF ServeCommand, service
      <3>3. QED
        BY <3>1, <3>2
    <2>5. answer.code = "credential" => mail[t].op = "grant"
      <3>1. Remembered'
        BY RememberedStep
      <3>2. QED
        BY <2>3, <2>4, <3>1 DEF Remembered, Memory
    <2>6. FromMemo(t, answer)'
      BY <2>1, <2>3, <2>4, <2>5 DEF FromMemo
    <2>7. QED
      BY <1>3, <2>1, <2>6
  <1>5. ASSUME NEW t \in Tasks, ServeStatus(t) PROVE Mailed'
    <2>1. PICK answer \in Answer : Tell(t, answer) /\ answer.code # "credential"
      BY <1>5, Codes DEF ServeStatus
    <2>2. QED
      BY <1>3, <2>1 DEF FromMemo
  <1>6. QED
    <2>1. ASSUME NEW t \in Tasks, Call(t) PROVE UNCHANGED mail
      BY <2>1 DEF Call, BeginCommand, AskHeaders, Forget, Begin
    <2>2. CASE UNCHANGED vars \/ Tick \/ \E s \in Standings : ChangeStanding(s)
      BY <1>1, <2>2 DEF vars, Tick, ChangeStanding, calls
    <2>3. QED
      BY <1>1, <1>2, <1>4, <1>5, <2>1, <2>2 DEF Next, Serve

LEMMA AgreedStep == Agreed /\ [Next]_vars => Agreed'
  BY TypeStep, BegunStep, RememberedStep, MailedStep DEF Agreed

\* Every variable keeps its type; above all, only what the Service issued is stored, with
\* the time at which it expires.
THEOREM TypeCorrect == Spec => []TypeOK
  <1>1. Agreed => TypeOK
    BY DEF Agreed
  <1>2. QED
    BY <1>1, AgreedInit, AgreedStep, PTL DEF Spec
-----------------------------------------------------------------------------
(* What calls return *)

\* A call that is over returned what was remembered for it, or a status it was told.
Answered(t) ==
  reply[t] # None =>
    /\ pc[t] = "done"
    /\ FromMemo(t, reply[t])
    /\ reply[t].code = "status" => reply[t].status \in told[t]
    /\ reply[t].code = "status" /\ job[t].op = "wait" => "active" \in told[t]
    /\ reply[t].code = "inactive" => told[t] \ {"active"} # {}

\* A Grant that made its own key was answered by a credential issued since it began.
New(t) ==
  /\ memo[t] # None => pc[t] # "idle"
  /\ pc[t] # "idle" => \A i \in gone[t] : issued[i] # None
  /\ memo[t] # None /\ job[t].op = "grant" /\ memo[t].answer.code = "credential" =>
       memo[t].answer.id \notin gone[t]

Replies == \A t \in Tasks : Answered(t) /\ New(t)

LEMMA ReplyFields ==
  /\ \A c \in {"failed", "unavailable", "inactive", "forgotten", "revoked"} : [code |-> c] # None
  /\ \A i \in Ids : [code |-> "headers", id |-> i] # None
  /\ \A d \in Dids : [code |-> "assertion", did |-> d] # None
  BY Codes, NoneAssumption

LEMMA RepliesInit == Init => Replies
  BY DEF Init, Replies, Answered, New, AnyKey

LEMMA AnsweredStep == ASSUME Agreed, Replies, [Next]_vars, NEW u \in Tasks PROVE Answered(u)'
  <1> USE DEF Agreed, TypeOK
  <1>g. Grows
    BY ServiceGrows
  <1>0. ASSUME reply'[u] = reply[u], pc'[u] = pc[u] \/ reply[u] = None PROVE Answered(u)'
    <2>1. CASE reply[u] = None
      BY <1>0, <2>1 DEF Answered
    <2>2. CASE reply[u] # None
      <3>1. pc[u] # "idle" /\ job'[u] = job[u] /\ pc'[u] = pc[u]
        BY <1>0, <1>g, <2>2 DEF Begun, Grows
      <3>2. \A answer : answer = reply[u] => FromMemo(u, answer)'
        <4> SUFFICES ASSUME NEW answer, answer = reply[u] PROVE FromMemo(u, answer)'
          OBVIOUS
        <4>1. FromMemo(u, answer)
          BY <2>2 DEF Replies, Answered
        <4>2. QED
          BY <3>1, <4>1, MemoStays
      <3>3. FromMemo(u, reply[u])'
        BY <1>0, <3>2 DEF FromMemo
      <3>4. QED
        BY <1>g, <1>0, <2>2, <3>1, <3>3 DEF Replies, Answered, Grows
    <2>3. QED
      BY <2>1, <2>2
  <1>1. ASSUME pc'[u] = "done",
               reply'[u].code \in {"failed", "unavailable", "forgotten", "revoked", "headers", "assertion"}
        PROVE  Answered(u)'
    BY <1>1 DEF Answered, FromMemo
  <1>2. ASSUME Call(u) PROVE Answered(u)'
    <2>1. CASE reply' = reply
      BY <1>0, <1>2, <2>1 DEF Call, BeginCommand, AskHeaders, Forget, Begin, Begun
    <2>2. CASE reply' # reply
      <3>1. pc'[u] = "done" /\ \E v : /\ v.code \in {"failed", "unavailable", "forgotten", "headers"}
                                      /\ reply' = [reply EXCEPT ![u] = v]
        BY <1>2, <2>2 DEF Call, BeginCommand, AskHeaders, Forget, GoTo, Raise, Return
      <3>2. QED
        BY <1>1, <3>1
    <2>3. QED
      BY <2>1, <2>2
  <1>3. ASSUME Proceed(u) \/ GiveUp(u) PROVE Answered(u)'
    <2>0. UNCHANGED <<job, told, gone, memo>> /\ pc[u] # "idle" /\ pc[u] # "done"
      BY <1>3, JobsStay DEF service, history, Proceed, GiveUp, EnterSession, EnterAgent, ProvideNone,
         Provide, Send, SignerFails, SignHeaders, Timeout, ReceiveProbe, ReceiveStatus,
         Unacknowledged, ReceiveCredential, ReceiveRevoked, ReceiveProblem, DeleteOne, PollAgain,
         Arrived
    <2>1. reply[u] = None
      BY <2>0 DEF Replies, Answered
    <2>2. CASE reply' = reply
      BY <1>0, <2>1, <2>2
    <2>3. CASE Raise(u, "failed") \/ Raise(u, "unavailable") \/ Raise(u, "revoked")
               \/ SignHeaders(u)
      BY <1>1, <2>3 DEF Raise, Return, SignHeaders
    <2>4. CASE mail[u] \in Answer /\ Return(u, mail[u]) /\ mail[u].code \in {"status", "credential"}
               /\ (mail[u].code = "status" /\ job[u].op = "wait" => mail[u].status = "active")
      <3>1. MailOf(u) /\ pc'[u] = "done" /\ reply'[u] = mail[u]
        BY <2>4 DEF Mailed, Return
      <3>2. FromMemo(u, mail[u]) /\ (mail[u].code = "status" => mail[u].status \in told[u])
        BY <2>4, <3>1 DEF MailOf
      <3>3. FromMemo(u, reply[u])'
        BY <2>0, <3>1, <3>2 DEF FromMemo, KeyOf
      <3>4. QED
        BY <2>0, <2>4, <3>1, <3>2, <3>3 DEF Answered
    <2>5. CASE Raise(u, "inactive") /\ mail[u] \in Answer /\ mail[u].code = "status"
               /\ mail[u].status # "active"
      <3>1. MailOf(u) /\ pc'[u] = "done" /\ reply'[u] = [code |-> "inactive"]
        BY <2>5 DEF Mailed, Return, Raise
      <3>2. QED
        BY <2>0, <2>5, <3>1 DEF MailOf, Answered, FromMemo
    <2>6. QED
      BY <1>3, <2>2, <2>3, <2>4, <2>5 DEF Proceed, GiveUp, EnterSession, EnterAgent, ProvideNone,
         Provide, Send, SignerFails, Timeout, ReceiveProbe, ReceiveStatus, Unacknowledged,
         ReceiveCredential, ReceiveRevoked, ReceiveProblem, DeleteOne, PollAgain, Arrived, GoTo,
         Raise, Adopt
  <1>4. QED
    <2>1. ASSUME NEW t \in Tasks, t # u, Call(t) \/ Proceed(t) \/ GiveUp(t) PROVE Answered(u)'
      BY <1>0, <2>1, OthersStay
    <2>2. ASSUME NEW t \in Tasks, Serve(t) PROVE Answered(u)'
      BY <1>0, <2>2 DEF Serve, ServeStatus, ServeCommand, Tell
    <2>3. CASE UNCHANGED vars \/ Tick \/ \E s \in Standings : ChangeStanding(s)
      BY <1>0, <2>3 DEF vars, Tick, ChangeStanding, calls
    <2>4. QED
      BY <1>2, <1>3, <2>1, <2>2, <2>3 DEF Next

LEMMA NewStep == ASSUME Agreed, Replies, [Next]_vars, NEW u \in Tasks PROVE New(u)'
  <1> USE DEF Agreed, TypeOK
  <1>g. Grows
    BY ServiceGrows
  <1>k. u \in AnyKey /\ New(u)
    BY DEF AnyKey, Replies
  <1>0. ASSUME UNCHANGED <<memo, issued>>, job'[u] = job[u], gone'[u] = gone[u],
               pc[u] # "idle" => pc'[u] # "idle", pc[u] = "idle" => pc'[u] = "idle"
        PROVE  New(u)'
    BY <1>0, <1>k DEF New
  <1>1. ASSUME NEW j \in JobsOf[u], Begin(u, j), pc'[u] # "idle" PROVE New(u)'
    BY <1>1, <1>k DEF Begin, New, service
  <1>2. ASSUME NEW t \in Tasks, NEW answer \in Answer, ServeCommand(t, answer) PROVE New(u)'
    <2>1. mail[t] \in Request /\ pc[t] # "idle" /\ pc' = pc /\ job' = job /\ gone' = gone
            /\ mail[t].key = KeyOf(t) /\ mail[t].op = job[t].op /\ job[t] \in Job
      BY <1>2, NoneAssumption, JobType DEF ServeCommand, Tell, Begun, Mailed, MailOf
    <2>2. CASE memo'[u] = memo[u]
      <3>1. memo[u] # None /\ memo[u].answer.code = "credential" => memo[u].answer.id \in Ids
        BY <1>k, AnswerFields
      <3>2. QED
        BY <1>g, <1>k, <2>1, <2>2 DEF New, Grows
    <2>3. CASE memo'[u] # memo[u]
      <3>1. /\ memo[u] = None /\ mail[t].key = u
            /\ memo' = [memo EXCEPT ![u] = [request |-> mail[t], answer |-> answer]]
            /\ Execute(mail[t], answer)
        <4>1. PICK k : k = mail[t].key
          OBVIOUS
        <4>2. /\ memo[k] = None /\ Execute(mail[t], answer)
              /\ memo' = [memo EXCEPT ![k] = [request |-> mail[t], answer |-> answer]]
          BY <1>2, <2>3, <4>1 DEF ServeCommand, service
        <4>3. k = u
          BY <1>k, <2>3, <4>2
        <4>4. QED
          BY <4>1, <4>2, <4>3
      <3>2. t = u
        BY <2>1, <3>1, DistinctAssumption DEF KeyOf, Job
      <3>3. \A i \in gone[u] : issued[i] # None /\ i \in Ids
        BY <1>k, <2>1, <3>2 DEF New
      <3>4. \A i \in gone[u] : issued'[i] # None
        BY <1>g, <3>3 DEF Grows
      <3>5. job[u].op = "grant" /\ answer.code = "credential" => answer.id \notin gone[u]
        BY <2>1, <3>1, <3>2, <3>3 DEF Execute, Issue
      <3>6. QED
        BY <2>1, <3>1, <3>2, <3>4, <3>5 DEF New
    <2>4. QED
      BY <2>2, <2>3
  <1>3. QED
    <2>1. ASSUME NEW t \in Tasks, Call(t) PROVE New(u)'
      <3>1. CASE t = u
        BY <1>1, <2>1, <3>1 DEF Call, BeginCommand, AskHeaders, Forget, GoTo, Raise, Return, Begin
      <3>2. CASE t # u
        <4>1. PICK j \in JobsOf[t] : Begin(t, j)
          BY <2>1 DEF Call, BeginCommand, AskHeaders, Forget
        <4>2. UNCHANGED <<memo, issued>> /\ gone'[u] = gone[u]
          BY <3>2, <4>1 DEF Begin, service
        <4>3. QED
          BY <1>0, <2>1, <3>2, <4>2, OthersStay
      <3>3. QED
        BY <3>1, <3>2
    <2>2. ASSUME NEW t \in Tasks, Proceed(t) \/ GiveUp(t) PROVE New(u)'
      <3>1. UNCHANGED <<memo, issued, job, gone>> /\ pc[t] # "idle" /\ (t # u => pc'[u] = pc[u])
        BY <2>2, JobsStay, OthersStay DEF service, history
      <3>2. pc'[t] # "idle"
        BY <2>2 DEF Proceed, GiveUp, EnterSession, EnterAgent, ProvideNone,
         Provide, Send, SignerFails, SignHeaders, Timeout, ReceiveProbe, ReceiveStatus, Unacknowledged,
         ReceiveCredential, ReceiveRevoked, ReceiveProblem, DeleteOne, PollAgain, GoTo, Return,
         Raise, Adopt
      <3>3. QED
        BY <1>0, <3>1, <3>2
    <2>3. CASE UNCHANGED vars \/ Tick \/ (\E s \in Standings : ChangeStanding(s))
               \/ \E t \in Tasks : ServeStatus(t)
      BY <1>0, <2>3 DEF vars, Tick, ChangeStanding, ServeStatus, Tell, calls, service, history
    <2>4. QED
      BY <1>2, <2>1, <2>2, <2>3 DEF Next, Serve

LEMMA RepliesJustified == Agreed /\ Replies => AnswersJustified
  <1> SUFFICES ASSUME Agreed, Replies PROVE AnswersJustified
    OBVIOUS
  <1>1. StatusesTold
    BY DEF Replies, Answered, StatusesTold
  <1>2. ASSUME NEW t \in Tasks, reply[t] # None, reply[t].code = "credential"
        PROVE  /\ job[t] \in Job /\ job[t].op = "grant" /\ KeyOf(t) \in AnyKey
               /\ memo[KeyOf(t)] # None /\ memo[KeyOf(t)].answer = reply[t]
               /\ memo[KeyOf(t)].request.type = job[t].type
    <2>1. FromMemo(t, reply[t]) /\ pc[t] # "idle"
      BY <1>2 DEF Replies, Answered
    <2>2. job[t] \in Job
      BY <2>1, JobType DEF Agreed
    <2>3. QED
      BY <1>2, <2>1, <2>2, KeyType DEF FromMemo, Agreed
  <1>3. ASSUME NEW t \in Tasks, reply[t] # None, reply[t].code = "credential"
        PROVE  /\ issued[reply[t].id] # None /\ issued[reply[t].id].type = job[t].type
               /\ reply[t].id \in gone[t] => job[t].key # None
               /\ \A u \in Tasks :
                    reply[u] # None /\ reply[u].code = "credential" /\ job[u].key = job[t].key
                      /\ job[t].key # None => reply[u] = reply[t]
    <2>1. PICK k \in AnyKey : k = KeyOf(t)
      BY <1>2, <1>3
    <2>2. issued[reply[t].id] # None /\ issued[reply[t].id].type = job[t].type
      BY <1>2, <1>3, <2>1 DEF Agreed, Remembered, Memory, IssuedFor
    <2>3. job[t].key = None => k = t
      BY <1>2, <1>3, <2>1 DEF KeyOf
    <2>4. reply[t].id \in gone[t] => job[t].key # None
      BY <1>2, <1>3, <2>1, <2>3 DEF Replies, New
    <2>5. ASSUME NEW u \in Tasks, reply[u] # None, reply[u].code = "credential",
                 job[u].key = job[t].key, job[t].key # None
          PROVE  reply[u] = reply[t]
      <3>1. KeyOf(u) = KeyOf(t)
        BY <1>2, <1>3, <2>5 DEF KeyOf
      <3>2. QED
        BY <1>2, <1>3, <2>5, <3>1
    <2>6. QED
      BY <2>2, <2>4, <2>5
  <1>4. QED
    BY <1>1, <1>3 DEF AnswersJustified, CredentialsGranted

\* A call returns only a status it was told or a credential granted for the type it asked
\* for, and calls that repeat a key get the same credential (_command, request_grant and
\* wait_for_active of agent/client.py).
THEOREM RepliesAreJustified == Spec => []AnswersJustified
  <1> DEFINE Inv == Agreed /\ Replies
  <1>1. Init => Inv
    BY AgreedInit, RepliesInit
  <1>2. Inv /\ [Next]_vars => Inv'
    BY AgreedStep, AnsweredStep, NewStep DEF Replies
  <1>3. Inv => AnswersJustified
    BY RepliesJustified
  <1>4. QED
    BY <1>1, <1>2, <1>3, PTL DEF Spec
-----------------------------------------------------------------------------
(* Identities and locks *)

\* Who holds a lock, and what is known while it is held.
Held ==
  /\ agentLock # None => pc[agentLock] \in {"creating", "finding"}
  /\ \A t \in Tasks : pc[t] \in {"creating", "finding"} => agentLock = t /\ stored = None
  /\ \A s \in Sessions : lock[s] # None =>
       SessionOf[lock[s]] = s /\ pc[lock[s]] \in {"agent", "creating"} /\ job[lock[s]].op # "grant"

LEMMA HeldInit == Init => Held /\ OneIdentity
  BY DEF Init, Held, OneIdentity

LEMMA HeldStep ==
  ASSUME Agreed, Held, OneIdentity, [Next]_vars
  PROVE  Held' /\ OneIdentity'
  <1> USE DEF Agreed, TypeOK
  <1>d. None \notin Tasks \cup Sessions \cup Dids /\ \A t \in Tasks : SessionOf[t] \in Sessions
    BY DistinctAssumption, SessionAssumption
  <1>1. ASSUME UNCHANGED <<identity, lock, agentLock, stored, pc, did, job>>
        PROVE  Held' /\ OneIdentity'
    BY <1>1 DEF Held, OneIdentity
  \* The call holds no lock, and takes none.
  <1>2. ASSUME NEW t \in Tasks, UNCHANGED <<identity, lock, agentLock, stored, did>>,
               pc[t] \notin {"creating", "finding"}, \A s \in Sessions : lock[s] # t,
               pc'[t] \notin {"creating", "finding"},
               \A u \in Tasks \ {t} : pc'[u] = pc[u] /\ job'[u] = job[u]
        PROVE  Held' /\ OneIdentity'
    BY <1>2, <1>d DEF Held, OneIdentity
  \* It adopts the identity in the store, and leaves.
  <1>3. ASSUME NEW t \in Tasks, NEW d \in Dids, Adopt(t, d), stored' = d, stored \in {None, d},
               UNCHANGED job, pc[t] \in {"agent", "creating", "finding"},
               \A u \in Tasks \ {t} : agentLock # u
        PROVE  Held' /\ OneIdentity'
    <2>1. /\ agentLock' = None /\ pc'[t] = "ready" /\ did'[t] = d
          /\ \A u \in Tasks \ {t} : pc'[u] = pc[u] /\ did'[u] = did[u]
          /\ \A s \in Sessions : identity'[s] \in {identity[s], d}
      BY <1>3, <1>d DEF Adopt, Leave, GoTo, Held
    <2>2. \A s \in Sessions : lock'[s] # t /\ lock'[s] \in {lock[s], None}
      BY <1>3, <1>d DEF Adopt, Leave, Held
    <2>3. OneIdentity'
      BY <1>3, <1>d, <2>1 DEF OneIdentity
    <2>4. QED
      BY <1>3, <1>d, <2>1, <2>2, <2>3 DEF Held
  <1>4. ASSUME NEW t \in Tasks, EnterSession(t) PROVE Held' /\ OneIdentity'
    <2>1. SessionOf[t] \in Sessions /\ pc[t] = "session" /\ pc[t] # "idle"
            /\ UNCHANGED <<identity, agentLock, stored, job>>
            /\ \A s \in Sessions : lock[s] # t
      BY <1>4, <1>d DEF EnterSession, Held
    <2>2. CASE identity[SessionOf[t]] # None
      BY <1>4, <1>d, <2>1, <2>2 DEF EnterSession, GoTo, Held, OneIdentity
    <2>3. CASE identity[SessionOf[t]] = None
      <3>1. /\ lock' = [lock EXCEPT ![SessionOf[t]] = t] /\ pc' = [pc EXCEPT ![t] = "agent"]
            /\ UNCHANGED did /\ job[t].op # "grant"
        BY <1>4, <2>1, <2>3 DEF EnterSession, GoTo, Begun
      <3>2. QED
        BY <1>d, <2>1, <3>1 DEF Held, OneIdentity
    <2>4. QED
      BY <2>2, <2>3
  <1>5. ASSUME NEW t \in Tasks, EnterAgent(t) PROVE Held' /\ OneIdentity'
    <2>1. pc[t] = "agent" /\ agentLock = None /\ UNCHANGED <<stored, job>>
      BY <1>5 DEF EnterAgent
    <2>2. CASE stored # None /\ Adopt(t, stored)
      BY <1>3, <1>d, <2>1, <2>2
    <2>3. CASE /\ stored = None /\ agentLock' = t
               /\ GoTo(t, IF job[t].op = "grant" THEN "finding" ELSE "creating")
               /\ UNCHANGED <<identity, lock, did>>
      <3>1. pc'[t] = (IF job[t].op = "grant" THEN "finding" ELSE "creating")
              /\ \A u \in Tasks \ {t} : pc'[u] = pc[u]
        BY <2>3 DEF GoTo
      <3>2. \A u \in Tasks : pc[u] \notin {"creating", "finding"}
        BY <1>d, <2>1 DEF Held
      <3>3. Held'
        BY <1>d, <2>1, <2>3, <3>1, <3>2 DEF Held
      <3>4. QED
        BY <2>1, <2>3, <3>3 DEF OneIdentity
    <2>4. CASE job[t].op = "grant" /\ Raise(t, "failed")
               /\ UNCHANGED <<identity, lock, agentLock, did>>
      <3>1. \A s \in Sessions : lock[s] # t
        BY <1>d, <2>4 DEF Held
      <3>2. pc'[t] = "done" /\ \A u \in Tasks \ {t} : pc'[u] = pc[u]
        BY <2>4 DEF Raise, Return
      <3>3. QED
        BY <1>2, <2>1, <2>4, <3>1, <3>2
    <2>5. QED
      BY <1>5, <2>2, <2>3, <2>4 DEF EnterAgent
  <1>6. ASSUME NEW t \in Tasks, NEW d \in Dids, Provide(t, d) PROVE Held' /\ OneIdentity'
    <2>1. agentLock = t /\ stored = None
      BY <1>6 DEF Provide, Held
    <2>2. QED
      BY <1>3, <1>6, <2>1 DEF Provide
  <1>7. ASSUME NEW t \in Tasks, ProvideNone(t) \/ GiveUp(t) PROVE Held' /\ OneIdentity'
    <2>1. /\ UNCHANGED <<identity, stored, did, job>> /\ Leave(t)
          /\ pc'[t] = "done" /\ \A u \in Tasks \ {t} : pc'[u] = pc[u]
      BY <1>7 DEF ProvideNone, GiveUp, Raise, Return
    <2>2. \A s \in Sessions : lock'[s] # t /\ lock'[s] \in {lock[s], None}
      BY <1>d, <2>1 DEF Leave, Held
    <2>3. agentLock' # t /\ agentLock' \in {agentLock, None}
            /\ \A u \in Tasks \ {t} : agentLock = u => agentLock' = u
      BY <1>d, <2>1 DEF Leave
    <2>4. Held'
      BY <1>d, <2>1, <2>2, <2>3 DEF Held
    <2>5. QED
      BY <2>1, <2>4 DEF OneIdentity
  <1>8. ASSUME NEW t \in Tasks,
               \/ Send(t) \/ SignerFails(t) \/ SignHeaders(t) \/ Timeout(t) \/ ReceiveProbe(t)
               \/ ReceiveStatus(t) \/ Unacknowledged(t) \/ ReceiveCredential(t)
               \/ ReceiveRevoked(t) \/ ReceiveProblem(t) \/ DeleteOne(t) \/ PollAgain(t)
        PROVE  Held' /\ OneIdentity'
    <2>1. /\ UNCHANGED <<identity, lock, agentLock, stored, did, job>>
          /\ pc[t] \notin {"agent", "creating", "finding"}
          /\ pc'[t] \notin {"creating", "finding"}
      BY <1>8 DEF Send, SignerFails, SignHeaders, Timeout, ReceiveProbe, ReceiveStatus,
         Unacknowledged, ReceiveCredential, ReceiveRevoked, ReceiveProblem, DeleteOne, PollAgain,
         Arrived, GoTo, Return, Raise, agent
    <2>2. \A u \in Tasks \ {t} : pc'[u] = pc[u] /\ job'[u] = job[u]
      BY <1>8, OthersStay DEF Proceed
    <2>3. \A s \in Sessions : lock[s] # t
      BY <1>d, <2>1 DEF Held
    <2>4. QED
      BY <1>2, <2>1, <2>2, <2>3
  <1>9. ASSUME NEW t \in Tasks, Call(t) PROVE Held' /\ OneIdentity'
    <2>1. /\ UNCHANGED <<identity, lock, agentLock, stored, did>> /\ pc[t] = "idle"
          /\ pc'[t] \notin {"creating", "finding"}
      BY <1>9 DEF Call, BeginCommand, AskHeaders, Forget, Begin, GoTo, Raise, Return, agent
    <2>2. \A u \in Tasks \ {t} : pc'[u] = pc[u] /\ job'[u] = job[u]
      BY <1>9, OthersStay
    <2>3. \A s \in Sessions : lock[s] # t
      BY <1>d, <2>1 DEF Held
    <2>4. QED
      BY <1>2, <2>1, <2>2, <2>3
  <1>10. CASE UNCHANGED vars \/ Tick \/ (\E s \in Standings : ChangeStanding(s))
              \/ \E t \in Tasks : Serve(t)
    <2>1. UNCHANGED <<identity, lock, agentLock, stored, pc, did, job>>
      BY <1>10 DEF vars, Tick, ChangeStanding, Serve, ServeStatus, ServeCommand, Tell, agent, calls
    <2>2. QED
      BY <1>1, <2>1
  <1>11. QED
    BY <1>4, <1>5, <1>6, <1>7, <1>8, <1>9, <1>10 DEF Next, Proceed

\* All sessions of an Agent sign as the one identity in its store (_resolve_identity and
\* _get_or_create_identity, under their two locks).
THEOREM OneIdentityKept == Spec => []OneIdentity
  <1> DEFINE Inv == Agreed /\ Held /\ OneIdentity
  <1>1. Init => Inv
    BY AgreedInit, HeldInit
  <1>2. Inv /\ [Next]_vars => Inv'
    BY AgreedStep, HeldStep
  <1>3. QED
    BY <1>1, <1>2, PTL DEF Spec

\* Whoever holds a lock can go on: it waits for no lock that another holds while waiting for
\* its own, and a call that is over holds none.
THEOREM NoCircularWait == Spec => []HoldersProceed
  <1> DEFINE Inv == Agreed /\ Held /\ OneIdentity
  <1>1. Init => Inv
    BY AgreedInit, HeldInit
  <1>2. Inv /\ [Next]_vars => Inv'
    BY AgreedStep, HeldStep
  <1>3. Inv => HoldersProceed
    BY DEF Held, HoldersProceed
  <1>4. QED
    BY <1>1, <1>2, <1>3, PTL DEF Spec
-----------------------------------------------------------------------------
(* What a Revoke forgets *)

\* A record was saved by a Grant that is over, under the one identifier it was granted.
SavedOnce ==
  \A i \in Ids : store[i] # None =>
    /\ pc[store[i].by] = "done"
    /\ \A h \in Ids : store[h] = store[i] => h = i

\* What the Revoke t still has to delete of what it found when it began.
Forgets(t) ==
  /\ \A r \in seen[t] : pc[r.by] = "done"
  /\ \A i \in Ids : store[i] \in seen[t] =>
       /\ job[t].op = "revoke" /\ Selected(job[t], i, store[i].type)
       /\ pc[t] = "deleting" => i \in todo[t]
       /\ reply[t] # None => reply[t].code # "revoked"
  /\ pc[t] = "idle" => seen[t] = {}

Forgetting == SavedOnce /\ \A t \in Tasks : Forgets(t)

LEMMA ForgettingInit == Init => Forgetting
  BY DEF Init, Forgetting, SavedOnce, Forgets

LEMMA DoneStays == ASSUME TypeOK, [Next]_vars, NEW u \in Tasks, pc[u] = "done" PROVE pc'[u] = "done"
  <1>1. ASSUME NEW t \in Tasks, Call(t) \/ Proceed(t) \/ GiveUp(t) PROVE pc'[u] = "done"
    <2>1. pc[t] # "done"
      BY <1>1 DEF Call, BeginCommand, AskHeaders, Forget, Begin, Proceed, GiveUp, EnterSession,
         EnterAgent, ProvideNone, Provide, Send, SignerFails, SignHeaders, Timeout, ReceiveProbe,
         ReceiveStatus, Unacknowledged, ReceiveCredential, ReceiveRevoked, ReceiveProblem, DeleteOne,
         PollAgain, Arrived
    <2>2. QED
      BY <1>1, <2>1, OthersStay
  <1>2. CASE UNCHANGED vars \/ Tick \/ (\E s \in Standings : ChangeStanding(s))
             \/ \E t \in Tasks : Serve(t)
    BY <1>2 DEF vars, Tick, ChangeStanding, Serve, ServeStatus, ServeCommand, Tell, calls
  <1>3. QED
    BY <1>1, <1>2 DEF Next

\* What a step does to the stored records.
LEMMA StoreStep ==
  ASSUME Agreed, [Next]_vars
  PROVE  \/ \A i \in Ids : store'[i] \in {store[i], None}
         \/ \E t \in Tasks, id \in Ids, r \in Record :
              ReceiveCredential(t) /\ r.by = t /\ store' = [store EXCEPT ![id] = r]
  <1> USE DEF Agreed, TypeOK
  <1>1. ASSUME NEW t \in Tasks, ReceiveCredential(t), UNCHANGED store
        PROVE  \A i \in Ids : store'[i] \in {store[i], None}
    BY <1>1
  <1>2. ASSUME NEW t \in Tasks, ReceiveCredential(t), store' # store
        PROVE  \E id \in Ids, r \in Record : r.by = t /\ store' = [store EXCEPT ![id] = r]
    <2>1. PICK id \in Ids : id = mail[t].id
      BY <1>2, AnswerFields DEF ReceiveCredential, Arrived
    <2>2. PICK r : /\ r = [type |-> job[t].type, expires |-> issued[id].expires, at |-> now, by |-> t]
                   /\ store' = [store EXCEPT ![id] = r]
      BY <1>2, <2>1 DEF ReceiveCredential
    <2>4. r \in Record
      BY <1>2, <2>1, <2>2, SavedType DEF ReceiveCredential, Arrived
    <2>5. QED
      BY <2>2, <2>4
  <1>3. ASSUME NEW t \in Tasks, Proceed(t) \/ GiveUp(t), ~ReceiveCredential(t)
        PROVE  \A i \in Ids : store'[i] \in {store[i], None}
    BY <1>3, UnexpiredType DEF Proceed, GiveUp, EnterSession, EnterAgent, ProvideNone, Provide, Send,
       SignerFails, SignHeaders, Timeout, ReceiveProbe, ReceiveStatus, Unacknowledged,
       ReceiveRevoked, ReceiveProblem, DeleteOne, PollAgain, agent
  <1>4. ASSUME NEW t \in Tasks, Call(t) PROVE \A i \in Ids : store'[i] \in {store[i], None}
    BY <1>4, UnexpiredType DEF Call, BeginCommand, AskHeaders, Forget, Begin, agent
  <1>5. CASE UNCHANGED vars \/ Tick \/ (\E s \in Standings : ChangeStanding(s))
             \/ \E t \in Tasks : Serve(t)
    BY <1>5 DEF vars, Tick, ChangeStanding, Serve, ServeStatus, ServeCommand, Tell, agent
  <1>6. QED
    BY <1>1, <1>2, <1>3, <1>4, <1>5 DEF Next, Proceed

LEMMA ForgettingStep == ASSUME Agreed, Forgetting, [Next]_vars PROVE Forgetting'
  <1> USE DEF Agreed, TypeOK
  <1>g. Grows
    BY ServiceGrows
  <1>n. None \notin Record /\ \A t \in Tasks : seen[t] \subseteq Record
    BY NoneAssumption
  <1>d. \A u \in Tasks : pc[u] = "done" => pc'[u] = "done"
    BY DoneStays
  <1>r. \A r \in Record : r.by \in Tasks
    BY DEF Record
  <1>s. \/ \A i \in Ids : store'[i] \in {store[i], None}
        \/ \E t \in Tasks, id \in Ids, r \in Record :
             ReceiveCredential(t) /\ r.by = t /\ store' = [store EXCEPT ![id] = r]
    BY StoreStep
  <1>1. SavedOnce' /\ \A u \in Tasks, i \in Ids : store'[i] \in seen[u] => store'[i] = store[i]
    <2>1. CASE \A i \in Ids : store'[i] \in {store[i], None}
      BY <1>d, <1>n, <1>r, <2>1 DEF Forgetting, SavedOnce
    <2>2. CASE \E t \in Tasks, id \in Ids, r \in Record :
                 ReceiveCredential(t) /\ r.by = t /\ store' = [store EXCEPT ![id] = r]
      <3>1. PICK t \in Tasks, id \in Ids, r \in Record :
              ReceiveCredential(t) /\ r.by = t /\ store' = [store EXCEPT ![id] = r]
        BY <2>2
      <3>2. pc[t] = "sent" /\ pc'[t] = "done"
        BY <3>1 DEF ReceiveCredential, Arrived, Return, Raise
      <3>3. store'[id] = r /\ \A i \in Ids \ {id} : store'[i] = store[i]
        BY <3>1
      <3>4. \A i \in Ids : store[i] # None => store[i] # r
        BY <3>1, <3>2 DEF Forgetting, SavedOnce
      <3>5. SavedOnce'
        BY <1>d, <1>n, <1>r, <3>1, <3>2, <3>3, <3>4 DEF Forgetting, SavedOnce
      <3>6. \A u \in Tasks : r \notin seen[u]
        BY <3>1, <3>2 DEF Forgetting, Forgets
      <3>7. QED
        BY <3>3, <3>5, <3>6
    <2>3. QED
      BY <1>s, <2>1, <2>2
  <1>2. ASSUME NEW u \in Tasks, seen'[u] = seen[u], job'[u] = job[u],
               pc'[u] = "idle" => pc[u] = "idle",
               reply'[u] = reply[u] \/ reply'[u].code # "revoked",
               pc'[u] = "deleting" => \A i \in Ids : store'[i] \in seen[u] => i \in todo'[u]
        PROVE  Forgets(u)'
    <2>1. Forgets(u)
      BY DEF Forgetting
    <2>2. QED
      BY <1>1, <1>2, <1>d, <1>n, <1>r, <2>1 DEF Forgets, Selected
  <1>3. ASSUME NEW u \in Tasks, seen'[u] = seen[u], job'[u] = job[u], pc'[u] = pc[u],
               reply'[u] = reply[u], todo'[u] = todo[u]
        PROVE  Forgets(u)'
    BY <1>1, <1>2, <1>3 DEF Forgetting, Forgets
  <1>4. ASSUME NEW t \in Tasks, Call(t) PROVE Forgets(t)'
    <2>1. PICK j \in JobsOf[t] : Begin(t, j)
      BY <1>4 DEF Call, BeginCommand, AskHeaders, Forget
    <2>2. /\ pc'[t] \notin {"idle", "deleting"} /\ job'[t] = j
          /\ seen'[t] = IF j.op = "revoke"
                        THEN {store[i] : i \in {h \in Ids :
                                store[h] # None /\ Selected(j, h, store[h].type)}}
                        ELSE {}
          /\ reply'[t] # None => reply'[t].code # "revoked"
      BY <1>4, <2>1 DEF Call, BeginCommand, AskHeaders, Forget, Begin, GoTo, Raise, Return, Begun
    <2>3. \A r \in seen'[t] : pc[r.by] = "done" /\ r.by \in Tasks
      BY <2>2, <1>r DEF Forgetting, SavedOnce
    <2>4. \A i \in Ids : store[i] \in seen'[t] => j.op = "revoke" /\ Selected(j, i, store[i].type)
      BY <2>2 DEF Forgetting, SavedOnce
    <2>5. \A i \in Ids : store'[i] \in {store[i], None}
      BY <1>4, UnexpiredType DEF Call, BeginCommand, AskHeaders, Forget, Begin, agent
    <2>6. \A i \in Ids : store'[i] \in seen'[t] =>
            job'[t].op = "revoke" /\ Selected(job'[t], i, store'[i].type)
      <3>1. None \notin seen'[t]
        BY <2>2
      <3>2. QED
        BY <2>2, <2>4, <2>5, <3>1
    <2>7. QED
      BY <1>d, <2>2, <2>3, <2>6 DEF Forgets, Selected
  <1>5. ASSUME NEW t \in Tasks, Proceed(t) \/ GiveUp(t) PROVE Forgets(t)'
    <2>1. seen'[t] = seen[t] /\ job'[t] = job[t] /\ pc[t] # "idle"
      BY <1>5, JobsStay DEF history
    <2>2. CASE ReceiveRevoked(t)
      <3>1. /\ store' = Unexpired /\ pc'[t] = "deleting" /\ reply' = reply
            /\ todo'[t] = {i \in Ids : Unexpired[i] # None /\ Selected(job[t], i, Unexpired[i].type)}
        BY <2>2 DEF ReceiveRevoked, GoTo
      <3>2. \A i \in Ids : store'[i] \in seen[t] => i \in todo'[t]
        <4> SUFFICES ASSUME NEW i \in Ids, store'[i] \in seen[t] PROVE i \in todo'[t]
          OBVIOUS
        <4>1. store'[i] = store[i] /\ store[i] \in seen[t] /\ Unexpired[i] = store[i]
          BY <1>1, <3>1
        <4>2. Selected(job[t], i, store[i].type)
          BY <4>1 DEF Forgetting, Forgets
        <4>3. QED
          BY <1>n, <3>1, <4>1, <4>2
      <3>3. QED
        BY <1>2, <2>1, <3>1, <3>2
    <2>3. CASE DeleteOne(t) /\ todo[t] = {}
      <3>1. \A i \in Ids : store[i] \notin seen[t]
        BY <2>3 DEF DeleteOne, Forgetting, Forgets
      <3>2. \A i \in Ids : store'[i] \notin seen[t]
        BY <1>1, <3>1
      <3>3. pc'[t] = "done"
        BY <2>3 DEF DeleteOne, Return
      <3>4. QED
        BY <1>d, <1>n, <1>r, <2>1, <3>2, <3>3 DEF Forgetting, Forgets
    <2>4. CASE DeleteOne(t) /\ todo[t] # {}
      <3>1. PICK i \in todo[t] : /\ store' = [store EXCEPT ![i] = None]
                                 /\ todo' = [todo EXCEPT ![t] = @ \ {i}] /\ UNCHANGED <<pc, reply>>
        BY <2>4 DEF DeleteOne
      <3>2. \A h \in Ids : store'[h] \in seen[t] => h \in todo'[t]
        <4> SUFFICES ASSUME NEW h \in Ids, store'[h] \in seen[t] PROVE h \in todo'[t]
          OBVIOUS
        <4>1. store'[h] = store[h] /\ h \in todo[t]
          BY <1>1, <2>4 DEF Forgetting, Forgets, DeleteOne
        <4>2. h # i
          BY <1>n, <3>1
        <4>3. QED
          BY <3>1, <4>1, <4>2
      <3>3. QED
        BY <1>2, <2>1, <3>1, <3>2
    <2>5. CASE ~ReceiveRevoked(t) /\ ~DeleteOne(t)
      <3>1. pc'[t] \notin {"idle", "deleting"} /\ (reply'[t] = reply[t] \/ reply'[t].code # "revoked")
        BY <1>5, <2>5 DEF Proceed, GiveUp, EnterSession, EnterAgent, ProvideNone, Provide, Send,
           SignerFails, SignHeaders, Timeout, ReceiveProbe, ReceiveStatus, Unacknowledged,
           ReceiveCredential, ReceiveProblem, PollAgain, GoTo, Return, Raise, Adopt, Arrived
      <3>2. QED
        BY <1>2, <2>1, <3>1
    <2>6. QED
      BY <2>2, <2>3, <2>4, <2>5
  <1>6. ASSUME NEW t \in Tasks, NEW u \in Tasks, u # t, Call(t) \/ Proceed(t) \/ GiveUp(t)
        PROVE  Forgets(u)'
    <2>1. seen'[u] = seen[u]
      <3>1. CASE Call(t)
        BY <1>6, <3>1 DEF Call, BeginCommand, AskHeaders, Forget, Begin
      <3>2. CASE Proceed(t) \/ GiveUp(t)
        BY <3>2, JobsStay DEF history
      <3>3. QED
        BY <1>6, <3>1, <3>2
    <2>2. QED
      BY <1>3, <1>6, <2>1, OthersStay
  <1>7. CASE UNCHANGED vars \/ Tick \/ (\E s \in Standings : ChangeStanding(s))
             \/ \E t \in Tasks : Serve(t)
    <2>1. UNCHANGED <<seen, job, pc, reply, todo>>
      BY <1>7 DEF vars, Tick, ChangeStanding, Serve, ServeStatus, ServeCommand, Tell, calls, history
    <2>2. QED
      BY <1>1, <1>3, <2>1 DEF Forgetting
  <1>8. QED
    BY <1>1, <1>4, <1>5, <1>6, <1>7 DEF Next, Forgetting

\* A Revoke that returns has deleted every credential that it selected from those the Agent
\* held when it began, although it deletes them one by one between awaits (revoke of
\* agent/client.py, list_credentials and delete_credential of agent/stores.py).
THEOREM RevokesForget == Spec => []RevokeForgets
  <1> DEFINE Inv == Agreed /\ Forgetting
  <1>1. Init => Inv
    BY AgreedInit, ForgettingInit
  <1>2. Inv /\ [Next]_vars => Inv'
    BY AgreedStep, ForgettingStep
  <1>3. Inv => RevokeForgets
    BY DEF Forgetting, Forgets, RevokeForgets
  <1>4. QED
    BY <1>1, <1>2, <1>3, PTL DEF Spec
-----------------------------------------------------------------------------
(* OpenAPI documents *)

\* A set of naturals that has a member has a smallest one.
LEMMA LeastNumber ==
  ASSUME NEW S \in SUBSET Nat, S # {}
  PROVE  \E n \in S : \A m \in S : n <= m
  <1>1. \E n \in S : \A m \in S : ~ (<<m, n>> \in OpToRel(<, Nat))
    BY NatLessThanWellFounded, WFMin
  <1>2. \A m, n \in Nat : m < n => <<m, n>> \in OpToRel(<, Nat)
    BY DEF OpToRel
  <1>3. \E n \in S : \A m \in S : ~ (m < n)
    BY <1>1, <1>2, Zenon
  <1> QED
    BY <1>3

\* A finite set of naturals has a k-th smallest: how many are smaller is different for each.
LEMMA NthExists ==
  ASSUME NEW S \in SUBSET Nat, IsFiniteSet(S), NEW k \in 1..Cardinality(S)
  PROVE  Nth(S, k) \in S
  <1> DEFINE Below(n) == {m \in S : m < n}
             rank == [n \in S |-> Cardinality(Below(n)) + 1]
             size == Cardinality(S)
  <1>1. size \in Nat
    BY FS_CardinalityType
  <1>2. ASSUME NEW n \in S
        PROVE  IsFiniteSet(Below(n)) /\ rank[n] \in 1..size
    <2>1. Below(n) \in SUBSET S /\ n \notin Below(n)
      OBVIOUS
    <2>2. IsFiniteSet(Below(n)) /\ Cardinality(Below(n)) <= size
          /\ Cardinality(Below(n)) # size /\ Cardinality(Below(n)) \in Nat
      BY <2>1, FS_Subset, FS_CardinalityType
    <2> QED
      BY <1>1, <2>2
  <1>3. ASSUME NEW m \in S, NEW n \in S, m < n
        PROVE  rank[m] # rank[n]
    <2>1. Below(m) \in SUBSET Below(n) /\ m \in Below(n) /\ m \notin Below(m)
      <3>1. ASSUME NEW x \in Below(m)
            PROVE  x \in Below(n)
        <4>1. x \in Nat /\ m \in Nat /\ n \in Nat /\ x < m
          OBVIOUS
        <4> QED
          BY <4>1, <1>3
      <3>2. m \in Nat /\ m \in Below(n)
        BY <1>3
      <3>3. m \notin Below(m)
        BY <3>2
      <3> QED
        BY <3>1, <3>2, <3>3
    <2>2. Cardinality(Below(m)) # Cardinality(Below(n))
      BY <2>1, <1>2, FS_Subset
    <2>3. Cardinality(Below(m)) \in Nat /\ Cardinality(Below(n)) \in Nat
      BY <1>2, FS_CardinalityType
    <2> QED
      BY <2>2, <2>3
  <1>4. rank \in Injection(S, 1..size)
    <2>1. rank \in [S -> 1..size]
      BY <1>2
    <2>2. ASSUME NEW m \in S, NEW n \in S, rank[m] = rank[n]
          PROVE  m = n
      <3>1. ~ (m < n) /\ ~ (n < m)
        BY <1>3, <2>2
      <3> QED
        BY <3>1
    <2> QED
      BY <2>1, <2>2 DEF Injection, IsInjective
  <1>5. IsFiniteSet(1..size) /\ Cardinality(1..size) = size
    BY <1>1, FS_Interval
  <1>6. rank \in Surjection(S, 1..size)
    BY <1>4, <1>5, FS_Injection
  <1>7. PICK n \in S : rank[n] = k
    BY <1>6 DEF Surjection
  <1>8. Cardinality(Below(n)) = k - 1
    <2>1. Cardinality(Below(n)) \in Nat
      BY <1>2, FS_CardinalityType
    <2> QED
      BY <1>7, <2>1
  <1> QED
    BY <1>8 DEF Nth

\* Of two scores of the same length that differ, one is higher: at the first difference.
LEMMA LexicographicTotal ==
  ASSUME NEW L \in Nat, NEW s \in [1..L -> {0, 1}], NEW r \in [1..L -> {0, 1}], s # r
  PROVE  Higher(s, r) \/ Higher(r, s)
  <1> DEFINE D == {n \in 1..L : s[n] # r[n]}
  <1>1. D \in SUBSET Nat /\ D # {}
    OBVIOUS
  <1>2. PICK n \in D : \A m \in D : n <= m
    BY <1>1, LeastNumber
  <1>3. \A m \in 1..(n - 1) : s[m] = r[m]
    BY <1>1, <1>2
  <1>4. s[n] > r[n] \/ r[n] > s[n]
    OBVIOUS
  <1> QED
    BY <1>3, <1>4 DEF Higher

LEMMA SegmentsType ==
  ASSUME NEW X, NEW path \in Seq(X), NEW slash
  PROVE  Segments(path, slash) \in Seq(X)
  <1>1. CASE Len(path) > 1
    <2>1. Front(path) \in Seq(X)
      BY <1>1 DEF Front
    <2> QED
      BY <2>1 DEF Segments
  <1>2. CASE ~ (Len(path) > 1)
    BY <1>2 DEF Segments
  <1> QED
    BY <1>1, <1>2

LEMMA ScoreType ==
  ASSUME NEW template \in Templates, NEW slash
  PROVE  /\ Len(Segments(template, slash)) \in Nat
         /\ Score(template, slash) \in [1..Len(Segments(template, slash)) -> {0, 1}]
  BY SegmentsType DEF Score, Templates

\* A template that is found matches, and is more specific than any other that does.
LEMMA MatchMostSpecific ==
  ASSUME NEW templates \in SUBSET Templates, NEW path, NEW slash, NEW t,
         t = MatchPath(templates, path, slash), t # None
  PROVE  /\ t \in templates /\ Matches(t, path, slash)
         /\ \A other \in templates \ {t} :
              Matches(other, path, slash) => Higher(Score(t, slash), Score(other, slash))
  <1> DEFINE matches == {u \in templates : Matches(u, path, slash)}
             best == {u \in matches : \A v \in matches : ~Higher(Score(v, slash), Score(u, slash))}
  <1>1. best = {t}
    BY DEF MatchPath
  <1>2. ASSUME NEW other \in templates \ {t}, Matches(other, path, slash)
        PROVE  Higher(Score(t, slash), Score(other, slash))
    <2>1. PICK u \in matches : Higher(Score(u, slash), Score(other, slash))
      BY <1>1, <1>2
    <2>2. ~ Higher(Score(u, slash), Score(t, slash)) /\ ~ Higher(Score(other, slash), Score(t, slash))
      BY <1>1, <1>2
    <2>3. Score(other, slash) # Score(t, slash)
      BY <2>1, <2>2
    <2>4. Len(Segments(other, slash)) = Len(Segments(t, slash))
      BY <1>1, <1>2 DEF Matches
    <2>5. t \in Templates /\ other \in Templates
      BY <1>1
    <2> QED
      BY <2>2, <2>3, <2>4, <2>5, ScoreType, LexicographicTotal
  <1> QED
    BY <1>1, <1>2

\* Each alternative is a whole requirement.
LEMMA AlternativesSound ==
  ASSUME NEW requirements \in Seq(SUBSET Schemes), NEW supported
  PROVE  /\ Alternatives(requirements, supported) \in Seq(Schemes)
         /\ \A n \in 1..Len(Alternatives(requirements, supported)) :
              {Alternatives(requirements, supported)[n]} \in ToSet(requirements)
  <1> DEFINE single == {n \in Satisfiable(requirements, supported) :
                          \E scheme \in Schemes : requirements[n] = {scheme}}
             found == Alternatives(requirements, supported)
  <1>1. IsFiniteSet(single) /\ single \in SUBSET Nat /\ single \in SUBSET (1..Len(requirements))
    <2>1. IsFiniteSet(1..Len(requirements)) /\ single \in SUBSET (1..Len(requirements))
      BY FS_Interval DEF Satisfiable
    <2> QED
      BY <2>1, FS_Subset
  <1>2. Cardinality(single) \in Nat
    BY <1>1, FS_CardinalityType
  <1>3. found = [k \in 1..Cardinality(single) |->
                   CHOOSE scheme \in Schemes : requirements[Nth(single, k)] = {scheme}]
    BY DEF Alternatives
  <1>4. \A n \in single : \E scheme \in Schemes : requirements[n] = {scheme}
    OBVIOUS
  <1> HIDE DEF single, found
  <1>5. ASSUME NEW k \in 1..Cardinality(single)
        PROVE  found[k] \in Schemes /\ requirements[Nth(single, k)] = {found[k]}
               /\ Nth(single, k) \in 1..Len(requirements)
    <2>1. Nth(single, k) \in single
      BY <1>1, NthExists
    <2>2. found[k] = CHOOSE scheme \in Schemes : requirements[Nth(single, k)] = {scheme}
      BY <1>3
    <2> QED
      BY <1>1, <1>4, <2>1, <2>2
  <1>6. found \in Seq(Schemes) /\ Len(found) = Cardinality(single)
    BY <1>2, <1>3, <1>5
  <1>7. \A n \in 1..Len(found) : {found[n]} \in ToSet(requirements)
    BY <1>5, <1>6 DEF ToSet
  <1> QED
    BY <1>6, <1>7 DEF found

\* The methods that an OpenAPI document tells are those that it permits.
LEMMA PolicyMethodsPermitted ==
  ASSUME NEW document, IsDocument(document), NEW advertised, NEW found,
         found = PolicyMethods(document, Path, Slash, advertised), found \notin {None, <<>>}
  PROVE  /\ found \in Seq(AllMethods)
         /\ \A m \in ToSet(found) : Permits(document, m)
  <1> DEFINE template == MatchPath(DOMAIN document.security, Path, Slash)
             requirements == Effective(document.root, document.security[template])
             supported == {s \in Schemes : document.method[s] \in advertised}
             alternatives == Alternatives(requirements, supported)
  <1>1. /\ template # None
        /\ found = [n \in 1..Len(alternatives) |-> document.method[alternatives[n]]]
    BY DEF PolicyMethods
  <1>2. /\ template \in DOMAIN document.security /\ Matches(template, Path, Slash)
        /\ \A other \in DOMAIN document.security \ {template} :
             Matches(other, Path, Slash) => Higher(Score(template, Slash), Score(other, Slash))
    <2> HIDE DEF template
    <2>1. DOMAIN document.security \in SUBSET Templates
      BY DEF IsDocument
    <2>2. template = MatchPath(DOMAIN document.security, Path, Slash)
      BY DEF template
    <2> QED
      BY <1>1, <2>1, <2>2, MatchMostSpecific
  <1>3. requirements \in Seq(SUBSET Schemes)
    BY <1>2 DEF IsDocument, Requirements, Effective
  <1> HIDE DEF template, requirements, supported
  <1>4. /\ alternatives \in Seq(Schemes)
        /\ \A n \in 1..Len(alternatives) : {alternatives[n]} \in ToSet(requirements)
    BY <1>3, AlternativesSound
  <1> HIDE DEF alternatives
  <1>5. \A n \in 1..Len(alternatives) : alternatives[n] \in Schemes
    BY <1>4
  <1>6. found \in Seq(AllMethods)
    BY <1>1, <1>4, <1>5 DEF IsDocument
  <1>7. ASSUME NEW m \in ToSet(found)
        PROVE  Permits(document, m)
    <2>1. PICK n \in 1..Len(alternatives) : m = document.method[alternatives[n]]
      BY <1>1, <1>7 DEF ToSet
    <2>2. {alternatives[n]} \in ToSet(Effective(document.root, document.security[template]))
      BY <1>4 DEF requirements
    <2> QED
      BY <1>2, <1>5, <2>1, <2>2 DEF Permits
  <1> QED
    BY <1>6, <1>7
-----------------------------------------------------------------------------
(* ProtectedFetch *)

\* What a fetch knows: the methods it may use, and what stands behind those it has of an
\* OpenAPI document; and that it has left an origin.
Informed ==
  /\ stage \notin {"returned", "raised"} => redirects <= MaxRedirects
  /\ stage \in {"headers", "grant", "again", "sent"} => methods \in Seq(AllMethods)
  /\ policyUsed => /\ policy \in Documents /\ methods \in Seq(AllMethods)
                   /\ \A m \in ToSet(methods) : Permits(policy, m)
  /\ stage = "sent" => last.method \in ToSet(methods)
  /\ left => requireChallenge
  /\ stage \in {"headers", "grant", "again", "sent"} /\ left => asked
  /\ last # None => /\ last.caller \/ last.additional => last.to = Home
                    /\ last.service \in {None, last.to}

LEMMA AdvertisedType == ASSUME FetchTypeOK PROVE Advertised[target] \in Seq(AllMethods)
  BY FetchAssumption DEF FetchTypeOK

\* The credential whose headers are presented is of a method that may be used.
LEMMA AuthenticatesPermitted ==
  ASSUME FetchTypeOK, Informed, NEW m \in AllMethods, Authenticate(m)
  PROVE  m \in ToSet(methods)
  <1>1. \A n \in Eligible : Method(n) \in ToSet(methods)
    BY DEF Eligible, Method
  <1>2. CASE Finds(m)
    BY <1>1, <1>2 DEF Finds, Candidates
  <1>3. CASE Candidates = {} /\ ~Unavailable /\ m = Jwt
    BY <1>1, <1>3 DEF Unavailable
  <1> QED
    BY <1>2, <1>3 DEF Authenticate

LEMMA FetchTypeInit == FetchInit => FetchTypeOK /\ Informed
  <1> SUFFICES ASSUME FetchInit PROVE FetchTypeOK /\ Informed
    OBVIOUS
  <1>1. FetchTypeOK
    <2>1. 0 \in 0..(MaxRedirects + 1)
      BY FetchAssumption
    <2> QED
      BY <2>1, FetchAssumption DEF FetchInit, FetchTypeOK
  <1>2. Informed
    BY FetchAssumption DEF FetchInit, Informed
  <1> QED
    BY <1>1, <1>2

LEMMA FollowType ==
  ASSUME FetchTypeOK, NEW response \in Response, response.kind = "redirect", Follow(response),
         redirects <= MaxRedirects
  PROVE  /\ target' \in Origins /\ redirects' \in 0..(MaxRedirects + 1)
         /\ requireChallenge' \in BOOLEAN /\ left' \in BOOLEAN /\ useOpenapi' \in BOOLEAN
         /\ asked' \in BOOLEAN /\ stage' \in {"inspect", "raised"}
         /\ stage' = "inspect" => redirects' <= MaxRedirects
  <1>1. response.to \in Origins
    BY DEF Response
  <1>2. target' \in Origins /\ redirects' \in 0..(MaxRedirects + 1)
    BY <1>1, FetchAssumption DEF Follow, FetchTypeOK
  <1> QED
    BY <1>2 DEF Follow, FetchTypeOK

LEMMA FetchTypeStep == ASSUME FetchTypeOK, Informed, [FetchNext]_fetchVars PROVE FetchTypeOK'
  <1> USE DEF FetchTypeOK
  <1>1. ASSUME NEW document \in Documents \cup {None}, Discover(document) PROVE FetchTypeOK'
    <2>1. methods' \in Seq(AllMethods) \cup {None}
      <3>1. CASE document = None
        BY <1>1, <3>1 DEF Discover
      <3>2. CASE document # None /\ methods' \notin {None, <<>>}
        BY <1>1, <3>2, FetchAssumption, PolicyMethodsPermitted DEF Discover
      <3>3. <<>> \in Seq(AllMethods)
        OBVIOUS
      <3> QED
        BY <3>1, <3>2, <3>3
    <2>2. stage' \in {"anonymous", "headers"} /\ policyUsed' \in BOOLEAN
      BY <1>1 DEF Discover
    <2> QED
      BY <1>1, <2>1, <2>2 DEF Discover
  <1>2. ASSUME SendAnonymous PROVE FetchTypeOK'
    <2>1. last' \in Sent
      BY <1>2, FetchAssumption DEF SendAnonymous, Sent
    <2> QED
      BY <1>2, <2>1 DEF SendAnonymous
  <1>3. ASSUME NEW response \in Response, ReceiveAnonymous(response) PROVE FetchTypeOK'
    <2>1. CASE response.kind = "redirect" /\ Follow(response) /\ UNCHANGED methods
      BY <1>3, <2>1, FollowType DEF ReceiveAnonymous, Informed
    <2>2. CASE response.kind = "answer" /\ Stay("returned") /\ UNCHANGED <<methods, useOpenapi, asked>>
      BY <1>3, <2>2 DEF ReceiveAnonymous, Stay
    <2>3. CASE /\ response.kind = "challenge"
               /\ methods' = IF policyUsed THEN methods ELSE Advertised[target]
               /\ asked' = TRUE
               /\ Stay(IF methods' = <<>> THEN "returned" ELSE "headers")
               /\ UNCHANGED useOpenapi
      <3>1. methods' \in Seq(AllMethods) \cup {None}
        BY <2>3, AdvertisedType
      <3> QED
        BY <1>3, <2>3, <3>1 DEF ReceiveAnonymous, Stay
    <2> QED
      BY <1>3, <2>1, <2>2, <2>3 DEF ReceiveAnonymous
  <1>4. ASSUME NEW response \in Response, Receive(response) PROVE FetchTypeOK'
    <2>1. CASE response.kind = "redirect" /\ Follow(response)
      BY <1>4, <2>1, FollowType DEF Receive, Informed
    <2>2. CASE ~(response.kind = "redirect" /\ Follow(response))
      BY <1>4, <2>2 DEF Receive, Stay
    <2> QED
      BY <2>1, <2>2
  <1>5. ASSUME NEW m \in AllMethods, Authenticate(m) PROVE FetchTypeOK'
    <2>1. last' \in Sent
      BY <1>5, FetchAssumption DEF Authenticate, Present, Sent
    <2> QED
      BY <1>5, <2>1 DEF Authenticate, Present
  <1>6. ASSUME NEW types \in SUBSET Types, Grant(types) PROVE FetchTypeOK'
    <2>1. held' \in [Origins -> SUBSET Types]
      BY <1>6 DEF Grant
    <2> QED
      BY <1>6, <2>1 DEF Grant
  <1>7. ASSUME NoCredential \/ Abort PROVE FetchTypeOK'
    BY <1>7 DEF NoCredential, Abort
  <1>8. ASSUME NEW o \in Origins, NEW types \in SUBSET Types, Store(o, types) PROVE FetchTypeOK'
    <2>1. held' \in [Origins -> SUBSET Types]
      BY <1>8 DEF Store
    <2> QED
      BY <1>8, <2>1 DEF Store
  <1>9. CASE UNCHANGED fetchVars
    BY <1>9 DEF fetchVars
  <1> QED
    BY <1>1, <1>2, <1>3, <1>4, <1>5, <1>6, <1>7, <1>8, <1>9 DEF FetchNext, Fetch

LEMMA InformedStep == ASSUME FetchTypeOK, Informed, [FetchNext]_fetchVars PROVE Informed'
  <1>1. ASSUME NEW document \in Documents \cup {None}, Discover(document) PROVE Informed'
    <2>1. policyUsed' => /\ document \in Documents /\ methods' \in Seq(AllMethods)
                         /\ \A m \in ToSet(methods') : Permits(document, m)
      <3> SUFFICES ASSUME policyUsed'
                   PROVE  /\ document \in Documents /\ methods' \in Seq(AllMethods)
                          /\ \A m \in ToSet(methods') : Permits(document, m)
        OBVIOUS
      <3>1. methods' \notin {None, <<>>} /\ document # None
        BY <1>1 DEF Discover
      <3>2. /\ document \in Documents
            /\ methods' = PolicyMethods(document, Path, Slash, ToSet(Advertised[target]))
        BY <1>1, <3>1 DEF Discover
      <3> QED
        BY <3>1, <3>2, FetchAssumption, PolicyMethodsPermitted
    <2>2. /\ policy' = document /\ stage' \in {"anonymous", "headers"}
          /\ stage' = "headers" => policyUsed' /\ ~requireChallenge
          /\ UNCHANGED <<redirects, left, requireChallenge, last>>
      BY <1>1 DEF Discover
    <2>3. redirects <= MaxRedirects /\ (left => requireChallenge)
      BY <1>1 DEF Informed, Discover
    <2>4. stage' # "sent" /\ stage' \notin {"grant", "again"}
      BY <2>2
    <2>5. last # None => /\ last.caller \/ last.additional => last.to = Home
                         /\ last.service \in {None, last.to}
      BY DEF Informed
    <2>6. policyUsed' => /\ policy' \in Documents /\ methods' \in Seq(AllMethods)
                         /\ \A m \in ToSet(methods') : Permits(policy', m)
      BY <2>1, <2>2
    <2>7. (\A m \in ToSet(methods') : Permits(policy', m)) => (\A m \in ToSet(methods) : Permits(policy, m))'
      BY DEF Permits
    <2> QED
      BY <2>2, <2>3, <2>4, <2>5, <2>6, <2>7 DEF Informed
  <1>2. ASSUME SendAnonymous PROVE Informed'
    BY <1>2 DEF SendAnonymous, Informed, Permits
  <1>3. ASSUME NEW response \in Response, ReceiveAnonymous(response) PROVE Informed'
    <2>1. CASE response.kind = "redirect" /\ Follow(response) /\ UNCHANGED methods
      BY <1>3, <2>1, FollowType DEF ReceiveAnonymous, Informed, Follow, Permits
    <2>2. CASE response.kind = "answer" /\ Stay("returned") /\ UNCHANGED <<methods, useOpenapi, asked>>
      BY <1>3, <2>2 DEF ReceiveAnonymous, Stay, Informed, Permits
    <2>3. CASE /\ response.kind = "challenge"
               /\ methods' = IF policyUsed THEN methods ELSE Advertised[target]
               /\ asked' = TRUE
               /\ Stay(IF methods' = <<>> THEN "returned" ELSE "headers")
               /\ UNCHANGED useOpenapi
      <3>1. methods' \in Seq(AllMethods)
        BY <2>3, AdvertisedType DEF Informed
      <3> QED
        BY <1>3, <2>3, <3>1 DEF ReceiveAnonymous, Stay, Informed, Permits
    <2> QED
      BY <1>3, <2>1, <2>2, <2>3 DEF ReceiveAnonymous
  <1>4. ASSUME NEW response \in Response, Receive(response) PROVE Informed'
    <2>1. CASE response.kind = "redirect" /\ Follow(response)
      BY <1>4, <2>1, FollowType DEF Receive, Informed, Follow, Permits
    <2>2. CASE ~(response.kind = "redirect" /\ Follow(response))
      <3>1. /\ stage' \in {"inspect", "returned"}
            /\ UNCHANGED <<methods, policyUsed, policy, last, left, requireChallenge, redirects>>
            /\ redirects <= MaxRedirects
        BY <1>4, <2>2 DEF Receive, Stay, Informed
      <3> QED
        BY <3>1 DEF Informed, Permits
    <2> QED
      BY <2>1, <2>2
  <1>5. ASSUME NEW m \in AllMethods, Authenticate(m) PROVE Informed'
    <2>1. m \in ToSet(methods)
      BY <1>5, AuthenticatesPermitted
    <2>2. last' = [to |-> target, caller |-> target = Home, additional |-> target = Home,
                   service |-> target, method |-> m]
      BY <1>5 DEF Authenticate, Present
    <2>3. /\ last'.method = m /\ last'.service = last'.to
          /\ last'.caller \/ last'.additional => last'.to = Home
      BY <2>2
    <2> QED
      BY <1>5, <2>1, <2>3 DEF Authenticate, Present, Informed, Permits
  <1>6. ASSUME NEW types \in SUBSET Types, Grant(types) PROVE Informed'
    BY <1>6 DEF Grant, Informed, Permits
  <1>7. ASSUME NoCredential \/ Abort PROVE Informed'
    <2>1. /\ stage' \in {"grant", "raised"} /\ (stage' = "grant" => stage = "headers")
          /\ UNCHANGED <<methods, policyUsed, policy, last, left, asked, requireChallenge, redirects>>
      BY <1>7 DEF NoCredential, Abort
    <2> QED
      BY <2>1 DEF Informed, Permits
  <1>8. ASSUME NEW o \in Origins, NEW types \in SUBSET Types, Store(o, types) PROVE Informed'
    BY <1>8 DEF Store, Informed, Permits
  <1>9. CASE UNCHANGED fetchVars
    BY <1>9 DEF fetchVars, Informed, Permits
  <1> QED
    BY <1>1, <1>2, <1>3, <1>4, <1>5, <1>6, <1>7, <1>8, <1>9 DEF FetchNext, Fetch

LEMMA FetchInvariant == FetchSpec => [](FetchTypeOK /\ Informed)
  <1> DEFINE Inv == FetchTypeOK /\ Informed
  <1>1. FetchInit => Inv
    BY FetchTypeInit
  <1>2. Inv /\ [FetchNext]_fetchVars => Inv'
    BY FetchTypeStep, InformedStep
  <1> QED
    BY <1>1, <1>2, PTL DEF FetchSpec

\* Every step of a fetch keeps its state to the types of its fields, and the number of
\* redirects to the limit and one more (fetch_protected_resource of
\* agent/protected_resource.py).
THEOREM FetchTypeCorrect == FetchSpec => []FetchTypeOK
  BY FetchInvariant, PTL

\* Over any number of origins and redirects, what the caller gave for one origin reaches no
\* other, a credential reaches the Service it is for, and once a redirect has left an origin
\* only a target that has challenged is authenticated to (_redirect and
\* fetch_protected_resource of agent/protected_resource.py).
THEOREM SecretsKept == FetchSpec => []SecretsStayHome
  <1>1. FetchTypeOK /\ Informed => SecretsStayHome
    BY DEF Informed, SecretsStayHome
  <1> QED
    BY <1>1, FetchInvariant, PTL

\* Whatever OpenAPI documents the origins have, and for any path, a request that is
\* authenticated for its document alone bears a method that satisfies the operation of the
\* most specific template by itself (_openapi_methods of agent/protected_resource.py,
\* match_openapi_path and resolve_openapi_security of core/openapi.py).
THEOREM PoliciesRespected == FetchSpec => []PolicyRespected
  <1>1. FetchTypeOK /\ Informed => PolicyRespected
    BY DEF Informed, PolicyRespected
  <1> QED
    BY <1>1, FetchInvariant, PTL
-----------------------------------------------------------------------------
(* What an Agent checks before it asks, stores and presents (AgentChecks) *)

\* What a Revoke may be asked for is all credentials, those of an advertised Grant Type, or
\* one of a type whose credentials the Service revokes one by one; an identifier without its
\* type is no request for all of them (revoke() of agent/client.py).
THEOREM RevokesAreSound ==
  ASSUME NEW options, options.all \in BOOLEAN, NEW commands,
         None \notin Malformed, Formed({options.type, options.id})
  PROVE  RevokesSound(options, commands)
  <1>1. CASE options.all
    <2>1. RevokeAsked(options) = [all |-> TRUE, type |-> None, id |-> None]
      BY <1>1 DEF RevokeAsked
    <2> QED
      BY <1>1, <2>1 DEF RevokesSound, RevokeAllowed, ValidRevokeRequest, Formed
  <1>2. CASE ~options.all
    <2>1. RevokeAsked(options) = [all |-> FALSE, type |-> options.type, id |-> options.id]
      BY <1>2 DEF RevokeAsked
    <2>2. /\ RevokeAsked(options).all = FALSE /\ RevokeAsked(options).type = options.type
          /\ RevokeAsked(options).id = options.id
      BY <2>1
    <2> QED
      BY <1>2, <2>2 DEF RevokesSound, RevokeAllowed, ValidRevokeRequest
  <1> QED
    BY <1>1, <1>2

\* What a credential is known by: its identifier is not empty.
Named(id) == id # ""

LEMMA CredentialNamed ==
  ASSUME NEW type, NEW response, ValidCredential(type, response) PROVE Named(response.id)
  BY Zenon DEF ValidCredential, Named

LEMMA RecordNamed ==
  ASSUME NEW record, NEW origin, NEW at
  PROVE  ValidRecord(record, origin, at) <=>
           /\ Named(record.id) /\ record.service = origin /\ record.expires > at
           /\ Parsed(record.type, record.payload) \notin {None, Error}
           /\ Parsed(record.type, record.payload).id = record.id
           /\ Parsed(record.type, record.payload).expires = record.expires
  BY Zenon DEF ValidRecord, Named

LEMMA ParsedTypes ==
  ASSUME NEW type, NEW response, Parsed(type, response) \notin {None, Error}
  PROVE  type \in BuiltInTypes /\ ValidCredential(type, response) /\ Parsed(type, response) = response
  BY Zenon DEF Parsed

\* What is saved is the response itself, of a built-in Grant Type.
LEMMA RecordSaved ==
  ASSUME NEW type, NEW response, NEW configured, NEW origin, NEW at,
         RecordOf(type, response, configured, origin, at) \notin {None, Error}
  PROVE  /\ Parsed(type, response) \notin {None, Error}
         /\ type = "api-key" /\ configured # None => response.header \in configured
         /\ ~(response.expires <= at)
         /\ RecordOf(type, response, configured, origin, at)
              = [id |-> response.id, type |-> type, expires |-> response.expires,
                 issued |-> at, payload |-> response, service |-> origin]
  <1>1. Parsed(type, response) \notin {None, Error}
    BY Zenon DEF RecordOf
  <1>2. Parsed(type, response) = response
    BY Zenon, <1>1, ParsedTypes
  <1>3. type = "api-key" /\ configured # None => response.header \in configured
    BY Zenon, <1>1, <1>2 DEF RecordOf
  <1>4. ~(response.expires <= at)
    BY Zenon, <1>1, <1>2, <1>3 DEF RecordOf
  <1>5. RecordOf(type, response, configured, origin, at)
          = [id |-> response.id, type |-> type, expires |-> response.expires,
             issued |-> at, payload |-> response, service |-> origin]
    BY Zenon, <1>1, <1>2, <1>3, <1>4 DEF RecordOf
  <1> QED
    BY <1>1, <1>3, <1>4, <1>5

\* Which header bears a record whose credential is a response of its Grant Type.
LEMMA PresentedIn ==
  ASSUME NEW record, NEW response, NEW carrier,
         record.type \in BuiltInTypes, record.id = response.id, response \notin {None, Error},
         Parsed(record.type, record.payload) = response
  PROVE  /\ record.type = "api-key" =>
              Presented(record, carrier) = [name |-> response.header, scheme |-> None]
         /\ record.type = "oauth-bearer" =>
              Presented(record, carrier) =
                IF response.secret \in Field THEN [name |-> carrier, scheme |-> "Bearer"]
                ELSE Error
         /\ record.type = "basic" =>
              Presented(record, carrier) = [name |-> carrier, scheme |-> "Basic"]
  <1>1. "visible" \in Visible \cup {"separated"} /\ Field = Visible \cup {"separated"}
    BY DEF Visible, Field
  <1>2. /\ Rendered(carrier, "Basic", "visible") = [name |-> carrier, scheme |-> "Basic"]
        /\ Rendered(carrier, "Bearer", response.secret) =
             IF response.secret \in Field THEN [name |-> carrier, scheme |-> "Bearer"]
             ELSE Error
    BY Zenon, <1>1 DEF Rendered
  <1>3. CASE record.type = "api-key"
    <2>1. Presented(record, carrier) = [name |-> response.header, scheme |-> None]
      BY Zenon, <1>3 DEF Presented
    <2> QED
      BY <2>1, <1>3
  <1>4. CASE record.type = "oauth-bearer"
    <2>1. Presented(record, carrier) = Rendered(carrier, "Bearer", response.secret)
      BY Zenon, <1>4 DEF Presented
    <2> QED
      BY <2>1, <1>2, <1>4
  <1>5. CASE record.type = "basic"
    <2>1. Presented(record, carrier) = Rendered(carrier, "Basic", "visible")
      BY Zenon, <1>5 DEF Presented
    <2> QED
      BY <2>1, <1>2, <1>5
  <1> QED
    BY <1>3, <1>4, <1>5 DEF BuiltInTypes

\* Whatever credential a Service grants, if it is saved it passes the checks it meets when it
\* is taken from the store, exactly until it expires and for that Service only, and it can be
\* presented in the carrier that is asked for, or in a header that the Service advertises -
\* but for a bearer token that is not one visible word (grant, _parse_credential,
\* _validate_credential_record and _credential_headers of agent/client.py).
THEOREM CredentialsServe ==
  ASSUME NEW type, NEW response, NEW configured, NEW carrier,
         NEW at \in Nat, NEW later \in Nat, response.expires \in Nat, response # None,
         response # Error, \A name, scheme : [name |-> name, scheme |-> scheme] # Error
  PROVE  SavedServes(type, response, configured, at, later, carrier)
  <1> DEFINE record == RecordOf(type, response, configured, "s", at)
  <1> SUFFICES ASSUME record \notin {None, Error}
               PROVE  /\ ValidRecord(record, "s", later) <=> later < response.expires
                      /\ ~ValidRecord(record, "another", later)
                      /\ Presented(record, carrier) = Error <=>
                           type = "oauth-bearer" /\ response.secret \notin Field
                      /\ Presented(record, carrier) # Error =>
                           IF type = "api-key"
                           THEN configured # None => Presented(record, carrier).name \in configured
                           ELSE Presented(record, carrier).name = carrier
    BY DEF SavedServes
  <1>1. /\ Parsed(type, response) \notin {None, Error}
        /\ type = "api-key" /\ configured # None => response.header \in configured
        /\ record = [id |-> response.id, type |-> type, expires |-> response.expires,
                     issued |-> at, payload |-> response, service |-> "s"]
    BY RecordSaved
  <1>2. /\ record.id = response.id /\ record.type = type /\ record.service = "s"
        /\ record.expires = response.expires /\ record.payload = response
    BY <1>1
  <1> HIDE DEF record
  <1>3. type \in BuiltInTypes /\ Parsed(type, response) = response /\ Named(response.id)
    BY Zenon, <1>1, ParsedTypes, CredentialNamed
  <1>4. Parsed(record.type, record.payload) = response
    BY <1>2, <1>3
  <1>5. ValidRecord(record, "s", later) <=> later < response.expires
    <2>1. ValidRecord(record, "s", later) <=> record.expires > later
      BY Zenon, RecordNamed, <1>1, <1>2, <1>3, <1>4
    <2> QED
      BY <2>1, <1>2
  <1>6. ~ValidRecord(record, "another", later)
    <2>1. record.service # "another"
      BY <1>2
    <2> QED
      BY Zenon, RecordNamed, <2>1
  <1>7. /\ type = "api-key" =>
             Presented(record, carrier) = [name |-> response.header, scheme |-> None]
        /\ type = "oauth-bearer" =>
             Presented(record, carrier) =
               IF response.secret \in Field THEN [name |-> carrier, scheme |-> "Bearer"] ELSE Error
        /\ type = "basic" => Presented(record, carrier) = [name |-> carrier, scheme |-> "Basic"]
    <2>1. record.type \in BuiltInTypes /\ record.id = response.id /\ response \notin {None, Error}
      BY <1>2, <1>3
    <2>2. /\ record.type = "api-key" =>
               Presented(record, carrier) = [name |-> response.header, scheme |-> None]
          /\ record.type = "oauth-bearer" =>
               Presented(record, carrier) =
                 IF response.secret \in Field THEN [name |-> carrier, scheme |-> "Bearer"]
                 ELSE Error
          /\ record.type = "basic" =>
               Presented(record, carrier) = [name |-> carrier, scheme |-> "Basic"]
      BY Zenon, PresentedIn, <2>1, <1>4
    <2> QED
      BY <2>2, <1>2
  <1>8. CASE type = "api-key"
    BY <1>1, <1>5, <1>6, <1>7, <1>8
  <1>9. CASE type = "oauth-bearer"
    BY <1>5, <1>6, <1>7, <1>9
  <1>10. CASE type = "basic"
    BY <1>5, <1>6, <1>7, <1>10
  <1> QED
    BY <1>3, <1>8, <1>9, <1>10 DEF BuiltInTypes
=============================================================================
