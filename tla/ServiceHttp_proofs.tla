------------------------------ MODULE ServiceHttp_proofs ------------------------------
(***************************************************************************)
(* Proofs about ServiceHttp, for any tasks, Agents, keys, assertions,      *)
(* requests and options: its own properties, that its commands implement   *)
(* IdempotentExecution (by way of ServiceIdempotency), and what the        *)
(* documents of ServiceConfiguration promise.                              *)
(***************************************************************************)
EXTENDS ServiceIdempotency, SequenceTheorems, TLAPS

\* A call that got past its assertion, and one that is carried out or was answered, has an
\* Agent, a key and a content.
Entered(t) ==
  /\ accepted[t] # None /\ principal[t] = ClaimsOf[accepted[t]].sub
  /\ request[t].path \in Commands /\ request[t].path = ClaimsOf[accepted[t]].op
  /\ Single(request[t].keys) \in Keys /\ request[t].body.content \in Contents

ServedFor(t) ==
  /\ pc[t] # "idle" => request[t] # None
  /\ pc[t] \in {"finding", "checking", "entering", "executing", "issuing"} => principal[t] # None
  /\ pc[t] \in {"entering", "executing", "issuing"} => Entered(t)
  /\ pc[t] = "finding" => request[t].path = "status"
  /\ pc[t] = "reading" => request[t].path \in Commands
  /\ pc[t] = "authenticating" => request[t].path \in Commands \cup {"status", "resource"}
  /\ reply[t] # None => pc[t] = "done"
  /\ accepted[t] # None => pc[t] \notin {"idle", "reading", "authenticating"}

Served == \A t \in Tasks : ServedFor(t)

\* A step of one task leaves what is known of the others as it was.
Only(t) ==
  \A u \in Tasks \ {t} :
    /\ pc'[u] = pc[u] /\ request'[u] = request[u] /\ reply'[u] = reply[u]
    /\ accepted'[u] = accepted[u] /\ principal'[u] = principal[u]
-----------------------------------------------------------------------------
(* Types *)

LEMMA RequestType ==
  ASSUME TypeOK, NEW t \in Tasks, request[t] # None
  PROVE  request[t] \in Request
  BY DEF TypeOK

LEMMA KeyType ==
  ASSUME NEW r \in Request, Single(r.keys) # None
  PROVE  Single(r.keys) \in Keys
  BY DEF Request, Single

LEMMA SlotType ==
  ASSUME TypeOK, Served, NEW t \in Tasks, pc[t] \in {"entering", "executing", "issuing"}
  PROVE  SlotOf(t) \in Slots /\ principal[t] \in Agents /\ request[t] \in Request
  <1>1. principal[t] \in Agents /\ request[t] \in Request
    BY RequestType DEF TypeOK, Served, ServedFor
  <1>2. QED
    BY <1>1 DEF SlotOf, Slots, Served, ServedFor, Entered

LEMMA StatusTypes ==
  /\ \A c \in {200, 304, 400, 401, 405, 409, 413, 500}, b \in BOOLEAN :
       /\ [code |-> c, content |-> b] \in Reply /\ [code |-> c, content |-> b] # None
       /\ [code |-> c, content |-> b] \notin Answer
  /\ Answer \subseteq Reply
  <1>1. \A c, b : "content" \in DOMAIN [code |-> c, content |-> b]
    OBVIOUS
  <1>2. \A a \in Answer : "content" \notin DOMAIN a
    BY DEF Answer
  <1>3. QED
    BY <1>1, <1>2, NoneAssumption DEF Reply

LEMMA OutcomeType ==
  ASSUME NEW c \in {200, 400, 401, 403, 422}, NEW s \in Standings, NEW i \in Tasks \cup {None}
  PROVE  Outcome(c, s, i) \in Answer
  BY DEF Outcome, Answer

LEMMA DeclaredType == ASSUME NEW content PROVE Declared(content).ids \subseteq DocumentIds
  BY DEF Declared

\* Every reply but those of Complete, FindStatus and a replay is a Status.
Statements == [code : {200, 304, 400, 401, 405, 409, 413, 500}, content : BOOLEAN]
Stated(t) == \E v \in Statements : Respond(t, v)

LEMMA StatementTypes ==
  /\ \A v \in Statements : v \in Reply /\ v # None /\ v \notin Answer
  /\ \A c \in {400, 401, 405, 409, 413, 500} : Status(c) \in Statements
  BY StatusTypes DEF Statements, Status

LEMMA SupportedCommands == Supported \subseteq Commands \cup {"status", "inspect"}
  <1>1. Document.commands.supported = CommandsOf(Options)
    BY DEF Document, DocumentOf
  <1>2. /\ ToSet(<<"enroll", "inspect", "status">>) \subseteq Commands \cup {"status", "inspect"}
        /\ ToSet(<<"enroll", "grant", "inspect", "revoke", "status">>)
             \subseteq Commands \cup {"status", "inspect"}
    BY DEF Commands, ToSet
  <1>3. QED
    BY <1>1, <1>2 DEF Supported, CommandsOf

LEMMA ReceiveStep ==
  ASSUME NEW t \in Tasks, NEW r \in Asks[t], Receive(t, r)
  PROVE  /\ pc[t] = "idle" /\ request' = [request EXCEPT ![t] = r] /\ r \in Request
         /\ UNCHANGED <<accepted, principal, store, changes, effects>>
         /\ \/ Stated(t)
            \/ GoTo(t, "authenticating") /\ r.path \in {"status", "resource"}
            \/ GoTo(t, "reading") /\ r.path \in Commands
            \/ GoTo(t, "sessions") /\ r.path = "resource"
            \/ GoTo(t, "passed")
  <1>1. r \in Request
    BY HttpAssumption
  <1>2. CASE ServeInspect(t, r)
    <2>1. [code |-> 304, content |-> FALSE] \in Statements
            /\ [code |-> 200, content |-> r.method # "HEAD"] \in Statements
      BY DEF Statements
    <2>2. PICK v : /\ v = IF ~Safe(r) THEN Status(405)
                          ELSE IF EtagMatches(r) THEN [code |-> 304, content |-> FALSE]
                          ELSE [code |-> 200, content |-> r.method # "HEAD"]
                   /\ Respond(t, v)
      BY <1>2 DEF ServeInspect
    <2>s. v \in Statements
      BY <2>1, <2>2, StatementTypes
    <2>4. Stated(t)
      BY <2>2, <2>s DEF Stated
    <2>3. QED
      BY <1>1, <2>4 DEF Receive
  <1>3. CASE r.path = "resource" /\ ServeResource(t, r)
    <2>1. Stated(t) \/ GoTo(t, "sessions") \/ GoTo(t, "authenticating")
      BY <1>3, StatementTypes DEF ServeResource, Stated, Respond, GoTo
    <2>2. QED
      BY <1>1, <1>3, <2>1 DEF Receive
  <1>4. CASE r.path \in Supported \ {"inspect"} /\ ServeCommand(t, r)
    <2>1. \/ Respond(t, Status(405)) \/ Respond(t, Status(400))
          \/ GoTo(t, "authenticating") /\ r.path = "status"
          \/ GoTo(t, "reading") /\ r.path # "status"
      BY <1>4 DEF ServeCommand, Respond, GoTo
    <2>2. QED
      BY <1>1, <1>4, <2>1, SupportedCommands, StatementTypes DEF Receive, Stated
  <1>5. CASE GoTo(t, "passed")
    BY <1>1, <1>5 DEF Receive
  <1>6. QED
    BY <1>2, <1>3, <1>4, <1>5 DEF Receive

\* A command is completed with an answer; only one that is told it was has an effect.
CompletedWith(t, answer) ==
  LET slot == SlotOf(t)  content == request[t].body.content IN
  /\ running' = [running EXCEPT ![slot] = None]
  /\ memo' = [memo EXCEPT ![slot] = [content |-> content, answer |-> answer]]
  /\ Respond(t, answer)
  /\ \/ effects' = effects
     \/ /\ answer.code = 200
        /\ effects' = effects \cup {[slot |-> slot, content |-> content, by |-> t]}
Completed(t) == \E answer \in Answer : CompletedWith(t, answer)

LEMMA OperationStep ==
  ASSUME TypeOK, Served, NEW t \in Tasks, Operate(t)
  PROVE  /\ pc[t] \in {"executing", "issuing"}
         /\ UNCHANGED <<request, accepted, principal, used, changes>>
         /\ \/ Completed(t)
            \/ GoTo(t, "issuing") /\ UNCHANGED <<running, memo, effects>>
         /\ standing' \in [Agents -> Standings] /\ acked' \in [Agents -> SUBSET DocumentIds]
         /\ granted' \in [Tasks -> Agents \cup {None}] /\ revoked' \subseteq Tasks
  <1> USE DEF TypeOK
  <1>s. pc[t] \in {"executing", "issuing"} => principal[t] \in Agents /\ standing[principal[t]] \in Standings
    BY SlotType
  <1>c. ASSUME NEW c \in {200, 400, 401, 403, 422}, NEW s \in Standings, NEW i \in Tasks \cup {None},
               CompletedWith(t, Outcome(c, s, i))
        PROVE  Completed(t)
    BY <1>c, OutcomeType DEF Completed
  <1>1. CASE ExecuteGrant(t)
    <2>1. PICK code \in {200, 400, 401, 403, 422} :
            code = LET s == standing[principal[t]] IN
                   IF s = "none" THEN 401
                   ELSE IF request[t].body.content.type \notin DefinedTypes THEN 400
                   ELSE IF s # "active" THEN LifecycleCode(s)
                   ELSE IF MissingDocuments(principal[t]) # {} THEN 422 ELSE 200
      BY DEF LifecycleCode
    <2>2. \/ GoTo(t, "issuing") /\ UNCHANGED <<running, memo, effects>>
          \/ CompletedWith(t, Outcome(code, standing[principal[t]], None))
      BY <1>1, <2>1 DEF ExecuteGrant, GoTo, Complete, CompletedWith, Respond
    <2>3. pc[t] = "executing"
            /\ UNCHANGED <<request, accepted, principal, used, standing, acked, granted, revoked, changes>>
      BY <1>1 DEF ExecuteGrant
    <2>4. CompletedWith(t, Outcome(code, standing[principal[t]], None)) => Completed(t)
      BY <1>s, <1>c, <2>3
    <2>5. QED
      BY <2>2, <2>3, <2>4
  <1>2. CASE Issue(t)
    <2>1. /\ pc[t] = "issuing" /\ Complete(t, Outcome(200, "active", t), TRUE)
          /\ granted' = [granted EXCEPT ![t] = principal[t]]
          /\ UNCHANGED <<request, accepted, principal, used, standing, acked, revoked, changes>>
      BY <1>2 DEF Issue
    <2>2. CompletedWith(t, Outcome(200, "active", t))
      BY <2>1 DEF Complete, CompletedWith, Outcome
    <2>3. Completed(t)
      BY <1>c, <2>2 DEF Standings
    <2>4. QED
      BY <1>s, <2>1, <2>3
  <1>3. CASE ExecuteRevoke(t)
    <2>1. PICK code \in {200, 400, 401} :
            /\ Complete(t, Outcome(code, standing[principal[t]], None), code = 200)
            /\ revoked' = IF code = 200 THEN revoked \cup Selected(t) ELSE revoked
      BY <1>3 DEF ExecuteRevoke
    <2>2. pc[t] = "executing"
            /\ UNCHANGED <<request, accepted, principal, used, standing, acked, granted, changes>>
      BY <1>3 DEF ExecuteRevoke
    <2>3. Selected(t) \subseteq Tasks
      BY DEF Selected
    <2>4. CompletedWith(t, Outcome(code, standing[principal[t]], None))
      BY <2>1 DEF Complete, CompletedWith, Outcome
    <2>5. Completed(t)
      BY <1>s, <1>c, <2>2, <2>4
    <2>6. QED
      BY <2>1, <2>2, <2>3, <2>5
  <1>4. ASSUME NEW s \in Standings, EnrollNew(t, s)
        PROVE  /\ pc[t] = "executing" /\ Completed(t)
               /\ standing' \in [Agents -> Standings] /\ acked' \in [Agents -> SUBSET DocumentIds]
               /\ UNCHANGED <<request, accepted, principal, used, granted, revoked, changes>>
    <2>1. PICK unmet \in BOOLEAN : Complete(t, Outcome(IF unmet THEN 422 ELSE 200, s, None), ~unmet)
      BY <1>4 DEF EnrollNew
    <2>2. /\ pc[t] = "executing" /\ standing' = [standing EXCEPT ![principal[t]] = s]
          /\ acked' = [acked EXCEPT ![principal[t]] =
                         IF s \in {"none", "rejected"} THEN {}
                         ELSE Declared(request[t].body.content).ids]
          /\ UNCHANGED <<request, accepted, principal, used, granted, revoked, changes>>
      BY <1>4 DEF EnrollNew
    <2>3. CompletedWith(t, Outcome(422, s, None)) \/ CompletedWith(t, Outcome(200, s, None))
      <3>1. CASE unmet
        BY <2>1, <3>1 DEF Complete, CompletedWith
      <3>2. CASE ~unmet
        BY <2>1, <3>2 DEF Complete, CompletedWith, Outcome
      <3>3. QED
        BY <3>1, <3>2
    <2>4. Completed(t)
      BY <1>c, <2>3
    <2>5. standing' \in [Agents -> Standings] /\ acked' \in [Agents -> SUBSET DocumentIds]
      BY <2>2, DeclaredType
    <2>6. QED
      BY <2>2, <2>4, <2>5
  <1>5. ASSUME NEW decision \in {"reject", "keep", "update"}, EnrollKnown(t, decision)
        PROVE  /\ pc[t] = "executing" /\ Completed(t)
               /\ acked' \in [Agents -> SUBSET DocumentIds]
               /\ UNCHANGED <<request, accepted, principal, used, standing, granted, revoked, changes>>
    <2>1. pc[t] = "executing"
            /\ UNCHANGED <<request, accepted, principal, used, standing, granted, revoked, changes>>
      BY <1>5 DEF EnrollKnown
    <2> DEFINE unmet == ~Declared(request[t].body.content).given /\ MissingDocuments(principal[t]) # {}
    <2>2. /\ acked' = IF decision = "update" /\ ~unmet
                      THEN [acked EXCEPT ![principal[t]] =
                              @ \cup Declared(request[t].body.content).ids]
                      ELSE acked
          /\ Complete(t, Outcome(IF decision = "reject" THEN 403
                                 ELSE IF decision = "update" /\ unmet THEN 422 ELSE 200,
                                 standing[principal[t]], None), decision = "update" /\ ~unmet)
      BY <1>5 DEF EnrollKnown
    <2> HIDE DEF unmet
    <2>3. acked' \in [Agents -> SUBSET DocumentIds]
      BY <2>2, DeclaredType
    <2>4. CASE decision = "update" /\ ~unmet
      <3>1. Complete(t, Outcome(200, standing[principal[t]], None), TRUE)
        BY <2>2, <2>4 DEF Complete
      <3>2. CompletedWith(t, Outcome(200, standing[principal[t]], None))
        BY <3>1 DEF Complete, CompletedWith, Outcome
      <3>3. QED
        BY <1>s, <1>c, <2>1, <2>3, <3>2
    <2>5. CASE ~(decision = "update" /\ ~unmet)
      <3>1. PICK code \in {200, 403, 422} :
              code = IF decision = "reject" THEN 403
                     ELSE IF decision = "update" /\ unmet THEN 422 ELSE 200
        OBVIOUS
      <3>2. Complete(t, Outcome(code, standing[principal[t]], None), FALSE)
        BY <2>2, <2>5, <3>1 DEF Complete
      <3>3. CompletedWith(t, Outcome(code, standing[principal[t]], None))
        BY <3>2 DEF Complete, CompletedWith
      <3>4. QED
        BY <1>s, <1>c, <2>1, <2>3, <3>3
    <2>6. QED
      BY <2>4, <2>5
  <1>6. QED
    BY <1>1, <1>2, <1>3, <1>4, <1>5 DEF Operate

LEMMA TypeInit == Init => TypeOK
  BY HttpAssumption DEF Init, TypeOK, Standings

LEMMA TypeStep == ASSUME TypeOK, Served, [Next]_vars PROVE TypeOK'
  <1> USE DEF TypeOK
  <1>1. CASE UNCHANGED vars
    BY <1>1 DEF vars, store
  <1>p. ASSUME NEW t \in Tasks, UNCHANGED <<request, accepted, principal, store, changes, effects>>,
               Stated(t) \/ \E where \in {"idle", "reading", "authenticating", "finding", "sessions",
                 "checking", "entering", "executing", "issuing", "passed", "gone"} : GoTo(t, where)
        PROVE  TypeOK'
    <2>1. pc' \in [Tasks -> {"idle", "reading", "authenticating", "finding", "sessions", "checking",
                       "entering", "executing", "issuing", "passed", "done", "gone"}]
            /\ reply' \in [Tasks -> Reply \cup {None}]
      BY <1>p, StatementTypes DEF Stated, GoTo, Respond
    <2>2. QED
      BY <1>p, <2>1 DEF store
  <1>2. ASSUME NEW t \in Tasks, NEW r \in Asks[t], Receive(t, r) PROVE TypeOK'
    <2>0. request' = [request EXCEPT ![t] = r]
      BY <1>2 DEF Receive
    <2>1. request' \in [Tasks -> Request \cup {None}]
      BY <1>2, <2>0, HttpAssumption
    <2>2. pc' \in [Tasks -> {"idle", "reading", "authenticating", "finding", "sessions", "checking",
                       "entering", "executing", "issuing", "passed", "done", "gone"}]
            /\ reply' \in [Tasks -> Reply \cup {None}]
      BY <1>2, ReceiveStep, StatementTypes DEF Stated, GoTo, Respond
    <2>3. UNCHANGED <<accepted, principal, store, changes, effects>>
      BY <1>2, ReceiveStep
    <2>4. QED
      BY <2>1, <2>2, <2>3 DEF store
  <1>3. ASSUME NEW t \in Tasks, ReadBody(t) \/ Disconnect(t) \/ Refuse(t) \/ FindNoSession(t) \/ CheckActive(t)
        PROVE  TypeOK'
    <2>1. Stated(t) \/ \E where \in {"authenticating", "passed", "gone"} : GoTo(t, where)
      BY <1>3, StatementTypes DEF ReadBody, Disconnect, Refuse, FindNoSession, CheckActive, Stated,
         GoTo, Respond
    <2>2. UNCHANGED <<request, accepted, principal, store, changes, effects>>
      BY <1>3 DEF ReadBody, Disconnect, Refuse, FindNoSession, CheckActive
    <2>3. QED
      BY <1>p, <2>1, <2>2
  <1>4. ASSUME NEW t \in Tasks, Consume(t) PROVE TypeOK'
    <2>1. PICK a \in Assertions : /\ a = Shown(request[t])
                                  /\ used' = used \cup {a}
                                  /\ accepted' = [accepted EXCEPT ![t] = a]
                                  /\ principal' = [principal EXCEPT ![t] = ClaimsOf[a].sub]
      BY <1>4, HttpAssumption DEF Consume, Acceptable
    <2>2. Stated(t) \/ \E where \in {"finding", "checking", "entering"} : GoTo(t, where)
      BY <1>4, StatementTypes DEF Consume, Stated, GoTo, Respond
    <2>3. /\ pc' \in [Tasks -> {"idle", "reading", "authenticating", "finding", "sessions", "checking",
                       "entering", "executing", "issuing", "passed", "done", "gone"}]
          /\ reply' \in [Tasks -> Reply \cup {None}]
      BY <2>2, StatementTypes DEF Stated, GoTo, Respond
    <2>4. principal' \in [Tasks -> Agents \cup {None}]
      BY <2>1, HttpAssumption
    <2>5. UNCHANGED <<request, running, memo, standing, acked, granted, revoked, changes, effects>>
      BY <1>4 DEF Consume
    <2>6. QED
      BY <2>1, <2>3, <2>4, <2>5
  <1>5. ASSUME NEW t \in Tasks, FindStatus(t) PROVE TypeOK'
    <2>1. principal[t] \in Agents
      BY <1>5 DEF FindStatus, Served, ServedFor
    <2>2. PICK v \in Answer : Respond(t, v)
      BY <1>5, <2>1, OutcomeType DEF FindStatus, Outcome
    <2>3. pc' \in [Tasks -> {"idle", "reading", "authenticating", "finding", "sessions", "checking",
                       "entering", "executing", "issuing", "passed", "done", "gone"}]
            /\ reply' \in [Tasks -> Reply \cup {None}]
      BY <2>2, StatusTypes DEF Respond
    <2>4. QED
      BY <1>5, <2>3 DEF FindStatus, store
  <1>6. ASSUME NEW t \in Tasks, NEW c \in Tasks, FindSession(t, c) PROVE TypeOK'
    BY <1>6 DEF FindSession, GoTo, store
  <1>7. ASSUME NEW t \in Tasks, Enter(t) PROVE TypeOK'
    <2>1. PICK slot \in Slots : slot = SlotOf(t)
      BY <1>7, SlotType DEF Enter
    <2>2. /\ pc' \in [Tasks -> {"idle", "reading", "authenticating", "finding", "sessions", "checking",
                       "entering", "executing", "issuing", "passed", "done", "gone"}]
          /\ reply' \in [Tasks -> Reply \cup {None}] /\ running' \in [Slots -> Tasks \cup {None}]
      <3>1. CASE memo[slot] = None
        BY <1>7, <2>1, <3>1 DEF Enter, GoTo
      <3>2. CASE memo[slot] # None
        <4>1. memo[slot].answer \in Reply /\ Status(409) \in Reply
          BY <3>2, StatusTypes, StatementTypes
        <4>2. PICK v \in Reply : Respond(t, v) /\ UNCHANGED running
          BY <1>7, <2>1, <3>2, <4>1 DEF Enter
        <4>3. QED
          BY <4>2 DEF Respond
      <3>3. QED
        BY <3>1, <3>2
    <2>3. QED
      BY <1>7, <2>2 DEF Enter
  <1>8. ASSUME NEW t \in Tasks, Operate(t) PROVE TypeOK'
    <2>1. /\ pc[t] \in {"executing", "issuing"}
          /\ UNCHANGED <<request, accepted, principal, used, changes>>
          /\ \/ Completed(t)
             \/ GoTo(t, "issuing") /\ UNCHANGED <<running, memo, effects>>
          /\ standing' \in [Agents -> Standings] /\ acked' \in [Agents -> SUBSET DocumentIds]
          /\ granted' \in [Tasks -> Agents \cup {None}] /\ revoked' \subseteq Tasks
      BY <1>8, OperationStep
    <2>2. CASE GoTo(t, "issuing") /\ UNCHANGED <<running, memo, effects>>
      BY <2>1, <2>2 DEF GoTo
    <2>3. CASE Completed(t)
      <3>1. PICK answer \in Answer : CompletedWith(t, answer)
        BY <2>3 DEF Completed
      <3>2. PICK slot \in Slots : slot = SlotOf(t)
        BY <2>1, SlotType
      <3>3. PICK content \in Contents : content = request[t].body.content
        BY <2>1 DEF Served, ServedFor, Entered
      <3>4. running' \in [Slots -> Tasks \cup {None}]
              /\ memo' \in [Slots -> [content : Contents, answer : Answer] \cup {None}]
              /\ effects' \subseteq Effect
        BY <3>1, <3>2, <3>3 DEF CompletedWith, Effect
      <3>5. pc' \in [Tasks -> {"idle", "reading", "authenticating", "finding", "sessions", "checking",
                       "entering", "executing", "issuing", "passed", "done", "gone"}]
              /\ reply' \in [Tasks -> Reply \cup {None}]
        BY <3>1, StatusTypes DEF CompletedWith, Respond
      <3>6. QED
        BY <2>1, <3>4, <3>5
    <2>4. QED
      BY <2>1, <2>2, <2>3
  <1>9. ASSUME NEW t \in Tasks, NEW part \in SUBSET Tasks, Fail(t, part) PROVE TypeOK'
    <2>1. running' \in [Slots -> Tasks \cup {None}] /\ revoked' \subseteq Tasks
      BY <1>9 DEF Fail
    <2>2. pc' \in [Tasks -> {"idle", "reading", "authenticating", "finding", "sessions", "checking",
                       "entering", "executing", "issuing", "passed", "done", "gone"}]
            /\ reply' \in [Tasks -> Reply \cup {None}]
      BY <1>9, StatementTypes DEF Fail, Respond
    <2>3. QED
      BY <1>9, <2>1, <2>2 DEF Fail
  <1>10. ASSUME NEW g \in Agents, NEW s \in Standings, ChangeStanding(g, s) PROVE TypeOK'
    BY <1>10, HttpAssumption DEF ChangeStanding
  <1>11. QED
    BY <1>1, <1>2, <1>3, <1>4, <1>5, <1>6, <1>7, <1>8, <1>9, <1>10 DEF Next, Proceed, Operate
-----------------------------------------------------------------------------
(* What is known of a request on its way *)

LEMMA ServedStep == ASSUME TypeOK, Served, [Next]_vars PROVE Served'
  <1> USE DEF TypeOK
  <1>o. ASSUME NEW t \in Tasks, Only(t), ServedFor(t)' PROVE Served'
    <2>1. \A u \in Tasks \ {t} : ServedFor(u)'
      BY <1>o DEF Only, Served, ServedFor, Entered
    <2>2. QED
      BY <1>o, <2>1 DEF Served
  <1>1. CASE UNCHANGED vars
    BY <1>1 DEF vars, store, Served, ServedFor, Entered
  <1>2. ASSUME NEW t \in Tasks, NEW r \in Asks[t], Receive(t, r) PROVE Served'
    <2>1. /\ pc[t] = "idle" /\ request' = [request EXCEPT ![t] = r] /\ r \in Request
          /\ UNCHANGED <<accepted, principal>>
      BY <1>2, ReceiveStep DEF store
    <2>s. ServedFor(t)
      BY DEF Served
    <2>2. reply[t] = None /\ accepted[t] = None /\ request'[t] = r /\ r # None
      BY <2>1, <2>s, NoneAssumption DEF ServedFor
    <2>3. Only(t) /\ ServedFor(t)'
      <3>1. \/ Stated(t)
            \/ GoTo(t, "authenticating") /\ r.path \in {"status", "resource"}
            \/ GoTo(t, "reading") /\ r.path \in Commands
            \/ GoTo(t, "sessions")
            \/ GoTo(t, "passed")
        BY <1>2, ReceiveStep
      <3>2. QED
        BY <2>1, <2>2, <3>1 DEF Only, ServedFor, Stated, GoTo, Respond
    <2>4. QED
      BY <1>o, <2>3
  <1>3. ASSUME NEW t \in Tasks, ReadBody(t) \/ Disconnect(t) \/ Refuse(t) \/ FindNoSession(t) \/ CheckActive(t)
        PROVE  Served'
    <2>1. /\ UNCHANGED <<request, accepted, principal>> /\ pc[t] # "idle"
          /\ \/ \E v \in Statements : Respond(t, v)
             \/ GoTo(t, "gone") \/ GoTo(t, "passed")
             \/ pc[t] = "reading" /\ GoTo(t, "authenticating")
      BY <1>3, StatementTypes DEF ReadBody, Disconnect, Refuse, FindNoSession, CheckActive
    <2>2. pc[t] \notin {"done", "idle"} \/ GoTo(t, "gone") \/ GoTo(t, "passed")
      BY <1>3 DEF ReadBody, Disconnect, Refuse, FindNoSession, CheckActive
    <2>3. Only(t) /\ pc[t] \in {"reading", "authenticating", "sessions", "checking"}
      BY <1>3, <2>1 DEF Only, GoTo, Respond, ReadBody, Disconnect, Refuse, FindNoSession, CheckActive
    <2>4. ServedFor(t)
      BY DEF Served
    <2>5. ServedFor(t)'
      BY <2>1, <2>3, <2>4 DEF ServedFor, GoTo, Respond, Commands
    <2>6. QED
      BY <1>o, <2>3, <2>5
  <1>4. ASSUME NEW t \in Tasks, Consume(t) PROVE Served'
    <2>1. PICK a \in Assertions : /\ a = Shown(request[t])
                                  /\ ClaimsOf[a].op = Operation(request[t])
                                  /\ accepted' = [accepted EXCEPT ![t] = a]
                                  /\ principal' = [principal EXCEPT ![t] = ClaimsOf[a].sub]
      BY <1>4, HttpAssumption DEF Consume, Acceptable
    <2>2. pc[t] = "authenticating" /\ request' = request
      BY <1>4 DEF Consume
    <2>3. /\ request[t] # None /\ request[t] \in Request /\ reply[t] = None
          /\ request[t].path \in Commands \cup {"status", "resource"}
      BY <2>2, RequestType DEF Served, ServedFor
    <2>4. a # None /\ ClaimsOf[a].sub # None
      BY HttpAssumption
    <2>5. \/ Respond(t, Status(400))
          \/ GoTo(t, "finding") /\ request[t].path = "status"
          \/ GoTo(t, "checking")
          \/ GoTo(t, "entering") /\ request[t].path \in Commands /\ Wellformed(request[t], ClaimsOf[a].sub)
      BY <1>4, <2>1, <2>3 DEF Consume
    <2>6. Only(t)
      BY <2>1, <2>2, <2>5 DEF Only, GoTo, Respond
    <2>7. Wellformed(request[t], ClaimsOf[a].sub)
            => request[t].body.content \in Contents /\ Single(request[t].keys) \in Keys
      <3>1. request[t].body.content \in Contents \cup {None}
        BY <2>3 DEF Request, Bodies
      <3>2. QED
        BY <2>3, <3>1, KeyType DEF Wellformed
    <2>8. request[t].path \in Commands => request[t].path = ClaimsOf[a].op
      BY <2>1 DEF Operation, Commands
    <2>9. ServedFor(t)'
      BY <2>1, <2>2, <2>3, <2>4, <2>5, <2>7, <2>8 DEF ServedFor, Entered, GoTo, Respond
    <2>10. QED
      BY <1>o, <2>6, <2>9
  <1>5. ASSUME NEW t \in Tasks, FindStatus(t) PROVE Served'
    <2>1. /\ pc[t] = "finding" /\ UNCHANGED <<request, accepted, principal>>
          /\ \E v : Respond(t, v)
      BY <1>5 DEF FindStatus
    <2>2. Only(t) /\ ServedFor(t)'
      BY <2>1 DEF Only, Respond, Served, ServedFor
    <2>3. QED
      BY <1>o, <2>2
  <1>6. ASSUME NEW t \in Tasks, NEW c \in Tasks, FindSession(t, c) PROVE Served'
    <2>1. /\ pc[t] = "sessions" /\ UNCHANGED <<request, accepted, reply>> /\ GoTo(t, "checking")
          /\ principal' = [principal EXCEPT ![t] = granted[c]] /\ granted[c] # None
      BY <1>6 DEF FindSession, GoTo
    <2>2. Only(t) /\ ServedFor(t)'
      BY <2>1 DEF Only, GoTo, Served, ServedFor
    <2>3. QED
      BY <1>o, <2>2
  <1>7. ASSUME NEW t \in Tasks, Enter(t) PROVE Served'
    <2>1. /\ pc[t] = "entering" /\ UNCHANGED <<request, accepted, principal>>
          /\ GoTo(t, "executing") \/ \E v : Respond(t, v)
      <3>1. pc[t] = "entering" /\ UNCHANGED <<request, accepted, principal>>
        BY <1>7 DEF Enter
      <3>2. CASE memo[SlotOf(t)] = None
        BY <1>7, <3>1, <3>2 DEF Enter
      <3>3. CASE memo[SlotOf(t)] # None
        BY <1>7, <3>1, <3>3 DEF Enter
      <3>4. QED
        BY <3>2, <3>3
    <2>2. Only(t) /\ ServedFor(t)'
      BY <2>1 DEF Only, GoTo, Respond, Served, ServedFor, Entered
    <2>3. QED
      BY <1>o, <2>2
  <1>8. ASSUME NEW t \in Tasks, Operate(t) PROVE Served'
    <2>1. /\ pc[t] \in {"executing", "issuing"}
          /\ UNCHANGED <<request, accepted, principal, used, changes>>
          /\ \/ Completed(t)
             \/ GoTo(t, "issuing") /\ UNCHANGED <<running, memo, effects>>
      BY <1>8, OperationStep
    <2>2. GoTo(t, "issuing") \/ \E v : Respond(t, v)
      BY <2>1 DEF Completed, CompletedWith
    <2>3. Only(t) /\ ServedFor(t)'
      BY <2>1, <2>2 DEF Only, GoTo, Respond, Served, ServedFor, Entered
    <2>4. QED
      BY <1>o, <2>3
  <1>9. ASSUME NEW t \in Tasks, NEW part \in SUBSET Tasks, Fail(t, part) PROVE Served'
    <2>1. /\ pc[t] \in {"executing", "issuing"} /\ UNCHANGED <<request, accepted, principal>>
          /\ \E v : Respond(t, v)
      BY <1>9 DEF Fail
    <2>2. Only(t) /\ ServedFor(t)'
      BY <2>1 DEF Only, Respond, Served, ServedFor
    <2>3. QED
      BY <1>o, <2>2
  <1>10. ASSUME NEW g \in Agents, NEW s \in Standings, ChangeStanding(g, s) PROVE Served'
    BY <1>10 DEF ChangeStanding, Served, ServedFor, Entered
  <1>11. QED
    BY <1>1, <1>2, <1>3, <1>4, <1>5, <1>6, <1>7, <1>8, <1>9, <1>10 DEF Next, Proceed, Operate
-----------------------------------------------------------------------------
(* An assertion is consumed for one request *)

Alone ==
  /\ \A t \in Tasks : accepted[t] # None => accepted[t] \in used
  /\ \A t, u \in Tasks : accepted[t] # None /\ accepted[t] = accepted[u] => t = u

LEMMA AloneStep == ASSUME TypeOK, Served, Alone, [Next]_vars PROVE Alone'
  <1>1. CASE UNCHANGED <<accepted, used>>
    BY <1>1 DEF Alone
  <1>2. ASSUME NEW t \in Tasks, Consume(t) PROVE Alone'
    <2>1. PICK a \in Assertions : /\ a \notin used /\ used' = used \cup {a}
                                  /\ accepted' = [accepted EXCEPT ![t] = a]
      BY <1>2, HttpAssumption DEF Consume, Acceptable
    <2>2. QED
      BY <2>1 DEF Alone, TypeOK
  <1>3. ASSUME NEW t \in Tasks, Operate(t) PROVE UNCHANGED <<accepted, used>>
    BY <1>3, OperationStep
  <1>4. QED
    BY <1>1, <1>2, <1>3
    DEF Next, Proceed, Operate, Receive, ReadBody, Disconnect, Refuse, FindStatus, FindNoSession,
        CheckActive, Enter, Fail, FindSession, ChangeStanding, vars, store
-----------------------------------------------------------------------------
(* A key has one execution, whose answer is kept for those that repeat it *)

Kept ==
  /\ \A t \in Tasks : pc[t] \in {"executing", "issuing"} =>
       running[SlotOf(t)] = t /\ memo[SlotOf(t)] = None
  /\ \A t \in Tasks : Told(t) =>
       SlotOf(t) \in Slots /\ memo[SlotOf(t)] # None /\ memo[SlotOf(t)].answer = reply[t]
  /\ \A e \in effects : /\ memo[e.slot] # None
                        /\ accepted[e.by] # None
                        /\ e.slot[1] = ClaimsOf[accepted[e.by]].sub
                        /\ e.slot[2] = ClaimsOf[accepted[e.by]].op
                        /\ pc[e.by] = "done" /\ reply[e.by].code = 200
  /\ \A e, f \in effects : e.slot = f.slot => e = f

LEMMA OthersKept ==
  ASSUME NEW t \in Tasks, Only(t)
  PROVE  \A u \in Tasks \ {t} : /\ SlotOf(u)' = SlotOf(u) /\ Told(u)' = Told(u)
                                /\ reply'[u] = reply[u] /\ pc'[u] = pc[u]
                                /\ accepted'[u] = accepted[u]
  BY DEF Only, SlotOf, Told

\* A step that neither starts a command nor tells its outcome.
LEMMA QuietStep ==
  ASSUME TypeOK, Kept, NEW t \in Tasks, Only(t), UNCHANGED <<running, memo, effects>>,
         pc[t] # "done", pc'[t] \notin {"executing", "issuing"}, ~Told(t)'
  PROVE  Kept'
  <1>1. \A e \in effects : e.by \in Tasks \ {t}
    BY DEF Kept, TypeOK, Effect
  <1>2. \A u \in Tasks : pc'[u] \in {"executing", "issuing"} =>
          running'[SlotOf(u)'] = u /\ memo'[SlotOf(u)'] = None
    BY OthersKept DEF Kept
  <1>3. \A u \in Tasks : Told(u)' =>
          SlotOf(u)' \in Slots /\ memo'[SlotOf(u)'] # None /\ memo'[SlotOf(u)'].answer = reply'[u]
    BY OthersKept DEF Kept
  <1>4. \A e \in effects' : /\ memo'[e.slot] # None
                            /\ accepted'[e.by] # None
                            /\ e.slot[1] = ClaimsOf[accepted'[e.by]].sub
                            /\ e.slot[2] = ClaimsOf[accepted'[e.by]].op
                            /\ pc'[e.by] = "done" /\ reply'[e.by].code = 200
    BY <1>1, OthersKept DEF Kept
  <1>5. \A e, f \in effects' : e.slot = f.slot => e = f
    BY DEF Kept
  <1>6. QED
    BY <1>2, <1>3, <1>4, <1>5 DEF Kept

\* A command that is completed: its key had no answer, and no other execution.
LEMMA CompleteStep ==
  ASSUME TypeOK, Served, Kept, NEW t \in Tasks, NEW answer \in Answer, CompletedWith(t, answer),
         pc[t] \in {"executing", "issuing"}, UNCHANGED <<request, accepted, principal>>
  PROVE  Kept'
  <1> DEFINE slot == SlotOf(t)
             effect == [slot |-> slot, content |-> request[t].body.content, by |-> t]
  <1>1. slot \in Slots /\ running[slot] = t /\ memo[slot] = None
    BY SlotType DEF Kept
  <1>2. /\ memo' = [memo EXCEPT ![slot] = [content |-> request[t].body.content, answer |-> answer]]
        /\ running' = [running EXCEPT ![slot] = None]
        /\ pc' = [pc EXCEPT ![t] = "done"] /\ reply' = [reply EXCEPT ![t] = answer]
        /\ effects' = effects \/ (answer.code = 200 /\ effects' = effects \cup {effect})
    BY DEF CompletedWith, Respond
  <1>t. /\ memo \in [Slots -> [content : Contents, answer : Answer] \cup {None}]
        /\ running \in [Slots -> Tasks \cup {None}]
        /\ pc'[t] = "done" /\ reply'[t] = answer /\ effects \subseteq Effect
    BY <1>2 DEF TypeOK
  <1>3. Only(t)
    BY <1>2 DEF Only, TypeOK
  <1>4. SlotOf(t)' = slot /\ slot' = slot
    BY DEF SlotOf
  <1>m. memo'[slot] # None /\ memo'[slot].answer = answer
    <2>1. memo'[slot] = [content |-> request[t].body.content, answer |-> answer]
      BY <1>1, <1>2, <1>t
    <2>2. request[t].body.content \in Contents
      BY DEF Served, ServedFor, Entered
    <2>3. QED
      BY <2>1, <2>2, NoneAssumption
  <1> HIDE DEF slot, effect
  <1>5. \A u \in Tasks \ {t} : pc[u] \in {"executing", "issuing"} => SlotOf(u) \in Slots \ {slot}
    BY <1>1, SlotType DEF Kept
  <1>6. \A u \in Tasks \ {t} : Told(u) => SlotOf(u) \in Slots \ {slot}
    BY <1>1 DEF Kept
  <1>7. \A e \in effects : e.slot \in Slots \ {slot} /\ e.by \in Tasks \ {t}
    BY <1>1, <1>t DEF Kept, Effect
  <1>8. \A z \in Slots \ {slot} : memo'[z] = memo[z] /\ running'[z] = running[z]
    BY <1>2, <1>t
  <1>9. \A u \in Tasks : pc'[u] \in {"executing", "issuing"} =>
          running'[SlotOf(u)'] = u /\ memo'[SlotOf(u)'] = None
    BY <1>3, <1>t, <1>5, <1>8, OthersKept DEF Kept
  <1>10. \A u \in Tasks : Told(u)' =>
          SlotOf(u)' \in Slots /\ memo'[SlotOf(u)'] # None /\ memo'[SlotOf(u)'].answer = reply'[u]
    <2>1. \A u \in Tasks \ {t} : Told(u)' =>
            SlotOf(u)' \in Slots /\ memo'[SlotOf(u)'] # None /\ memo'[SlotOf(u)'].answer = reply'[u]
      BY <1>3, <1>6, <1>8, OthersKept DEF Kept
    <2>2. QED
      BY <2>1, <1>1, <1>4, <1>m, <1>t
  <1>11. \A e \in effects : /\ memo'[e.slot] # None
                            /\ accepted'[e.by] # None
                            /\ e.slot[1] = ClaimsOf[accepted'[e.by]].sub
                            /\ e.slot[2] = ClaimsOf[accepted'[e.by]].op
                            /\ pc'[e.by] = "done" /\ reply'[e.by].code = 200
    BY <1>3, <1>7, <1>8, OthersKept DEF Kept
  <1>12. answer.code = 200 =>
           /\ memo'[effect.slot] # None
           /\ accepted'[effect.by] # None
           /\ effect.slot[1] = ClaimsOf[accepted'[effect.by]].sub
           /\ effect.slot[2] = ClaimsOf[accepted'[effect.by]].op
           /\ pc'[effect.by] = "done" /\ reply'[effect.by].code = 200
    <2>1. effect.slot = slot /\ effect.by = t
      BY DEF effect
    <2>2. /\ accepted[t] # None /\ slot[1] = ClaimsOf[accepted[t]].sub
          /\ slot[2] = ClaimsOf[accepted[t]].op
      BY DEF Served, ServedFor, Entered, slot, SlotOf
    <2>3. QED
      BY <2>1, <2>2, <1>m, <1>t
  <1>13. \A e \in effects' : e \in effects \/ (answer.code = 200 /\ e = effect)
    BY <1>2
  <1>14. \A e, f \in effects' : e.slot = f.slot => e = f
    <2>1. effect.slot = slot
      BY DEF effect
    <2>2. QED
      BY <2>1, <1>7, <1>13 DEF Kept
  <1>15. QED
    BY <1>9, <1>10, <1>11, <1>12, <1>13, <1>14 DEF Kept

LEMMA KeptStep == ASSUME TypeOK, Served, Kept, [Next]_vars PROVE Kept'
  <1>1. CASE UNCHANGED vars
    BY <1>1 DEF vars, store, Kept, Told, SlotOf
  <1>2. ASSUME NEW t \in Tasks, NEW r \in Asks[t], Receive(t, r) PROVE Kept'
    <2>1. /\ pc[t] = "idle" /\ request' = [request EXCEPT ![t] = r]
          /\ UNCHANGED <<accepted, principal, running, memo, effects>>
      BY <1>2, ReceiveStep DEF store
    <2>2. reply[t] = None
      BY <2>1 DEF Served, ServedFor
    <2>3. \/ Stated(t)
          \/ \E where \in {"authenticating", "reading", "sessions", "passed"} : GoTo(t, where)
      BY <1>2, ReceiveStep
    <2>4. Only(t) /\ pc'[t] \notin {"executing", "issuing"} /\ reply'[t] \notin Answer
      BY <2>1, <2>2, <2>3, StatementTypes, StatusTypes, NoneAssumption DEF Only, Stated, GoTo, Respond, TypeOK
    <2>5. QED
      BY <2>1, <2>4, QuietStep DEF Told
  <1>3. ASSUME NEW t \in Tasks,
               \/ ReadBody(t) \/ Disconnect(t) \/ Refuse(t) \/ FindNoSession(t) \/ CheckActive(t)
               \/ Consume(t) \/ \E c \in Tasks : FindSession(t, c)
        PROVE  Kept'
    <2>1. /\ pc[t] \in {"reading", "authenticating", "sessions", "checking"}
          /\ UNCHANGED <<request, running, memo, effects>>
          /\ \A u \in Tasks \ {t} : accepted'[u] = accepted[u] /\ principal'[u] = principal[u]
      BY <1>3 DEF ReadBody, Disconnect, Refuse, FindNoSession, CheckActive, Consume, FindSession, store,
         TypeOK
    <2>2. reply[t] = None
      BY <2>1 DEF Served, ServedFor
    <2>3. \/ Stated(t)
          \/ \E where \in {"authenticating", "gone", "passed", "finding", "checking", "entering"} :
               GoTo(t, where)
      BY <1>3, StatementTypes DEF ReadBody, Disconnect, Refuse, FindNoSession, CheckActive, Consume,
         FindSession, Stated
    <2>4. Only(t) /\ pc'[t] \notin {"executing", "issuing"} /\ reply'[t] \notin Answer
      BY <2>1, <2>2, <2>3, StatementTypes, StatusTypes, NoneAssumption DEF Only, Stated, GoTo, Respond, TypeOK
    <2>5. QED
      BY <2>1, <2>4, QuietStep DEF Told
  <1>4. ASSUME NEW t \in Tasks, FindStatus(t) PROVE Kept'
    <2>1. /\ pc[t] = "finding" /\ request[t].path = "status" /\ Only(t) /\ pc'[t] = "done"
          /\ UNCHANGED <<request, running, memo, effects>>
      BY <1>4 DEF FindStatus, Respond, Only, store, Served, ServedFor, TypeOK
    <2>2. QED
      BY <2>1, QuietStep DEF Told, Commands
  <1>5. ASSUME NEW t \in Tasks, Enter(t) PROVE Kept'
    <2>1. /\ pc[t] = "entering" /\ running[SlotOf(t)] = None /\ SlotOf(t) \in Slots /\ reply[t] = None
          /\ UNCHANGED <<request, accepted, principal, memo, effects>>
      BY <1>5, SlotType DEF Enter, Served, ServedFor
    <2>2. CASE memo[SlotOf(t)] = None
      <3>1. /\ running' = [running EXCEPT ![SlotOf(t)] = t] /\ GoTo(t, "executing")
        BY <1>5, <2>2 DEF Enter
      <3>2. Only(t) /\ SlotOf(t)' = SlotOf(t) /\ pc'[t] = "executing" /\ reply'[t] = None
        BY <2>1, <3>1 DEF Only, GoTo, SlotOf, TypeOK
      <3>3. running'[SlotOf(t)] = t
              /\ \A z \in Slots : running[z] # None => running'[z] = running[z]
        BY <2>1, <3>1 DEF TypeOK
      <3>4. \A u \in Tasks : pc'[u] \in {"executing", "issuing"} =>
              running'[SlotOf(u)'] = u /\ memo'[SlotOf(u)'] = None
        <4>1. \A u \in Tasks \ {t} : pc[u] \in {"executing", "issuing"} =>
                SlotOf(u) \in Slots /\ running[SlotOf(u)] = u /\ u # None /\ memo[SlotOf(u)] = None
          BY SlotType, HttpAssumption DEF Kept
        <4>2. QED
          BY <2>1, <2>2, <3>2, <3>3, <4>1, OthersKept
      <3>5. \A u \in Tasks : Told(u)' => u # t
        BY <3>2, NoneAssumption DEF Told, Reply
      <3>6. \A u \in Tasks : Told(u)' =>
              SlotOf(u)' \in Slots /\ memo'[SlotOf(u)'] # None /\ memo'[SlotOf(u)'].answer = reply'[u]
        BY <2>1, <3>2, <3>5, OthersKept DEF Kept
      <3>7. \A e \in effects : e.by \in Tasks \ {t}
        BY <2>1 DEF Kept, TypeOK, Effect
      <3>8. QED
        BY <2>1, <3>2, <3>4, <3>6, <3>7, OthersKept DEF Kept
    <2>3. CASE memo[SlotOf(t)] # None
      <3>1. /\ UNCHANGED running
            /\ Respond(t, IF memo[SlotOf(t)].content = request[t].body.content
                          THEN memo[SlotOf(t)].answer ELSE Status(409))
        BY <1>5, <2>3 DEF Enter
      <3>2. CASE memo[SlotOf(t)].content # request[t].body.content
        <4>1. Respond(t, Status(409))
          BY <3>1, <3>2
        <4>2. Only(t) /\ pc'[t] = "done" /\ reply'[t] \notin Answer
          BY <2>1, <4>1, StatementTypes DEF Only, Respond, TypeOK
        <4>3. QED
          BY <2>1, <3>1, <4>2, QuietStep DEF Told
      <3>3. CASE memo[SlotOf(t)].content = request[t].body.content
        <4>1. Respond(t, memo[SlotOf(t)].answer)
          BY <3>1, <3>3
        <4>2. Only(t) /\ SlotOf(t)' = SlotOf(t) /\ pc'[t] = "done" /\ reply'[t] = memo[SlotOf(t)].answer
          BY <2>1, <4>1 DEF Only, Respond, SlotOf, TypeOK
        <4>3. \A e \in effects : e.by \in Tasks \ {t}
          BY <2>1 DEF Kept, TypeOK, Effect
        <4>4. \A u \in Tasks : Told(u)' =>
                SlotOf(u)' \in Slots /\ memo'[SlotOf(u)'] # None /\ memo'[SlotOf(u)'].answer = reply'[u]
          <5>1. \A u \in Tasks \ {t} : Told(u)' =>
                  SlotOf(u)' \in Slots /\ memo'[SlotOf(u)'] # None /\ memo'[SlotOf(u)'].answer = reply'[u]
            BY <2>1, <4>2, OthersKept DEF Kept
          <5>2. QED
            BY <2>1, <2>3, <4>2, <5>1
        <4>5. \A u \in Tasks : pc'[u] \in {"executing", "issuing"} =>
                running'[SlotOf(u)'] = u /\ memo'[SlotOf(u)'] = None
          BY <2>1, <3>1, <4>2, OthersKept DEF Kept
        <4>6. QED
          BY <2>1, <4>2, <4>3, <4>4, <4>5, OthersKept DEF Kept
      <3>4. QED
        BY <3>2, <3>3
    <2>4. QED
      BY <2>2, <2>3
  <1>6. ASSUME NEW t \in Tasks, Operate(t) PROVE Kept'
    <2>1. /\ pc[t] \in {"executing", "issuing"} /\ UNCHANGED <<request, accepted, principal>>
          /\ \/ Completed(t)
             \/ GoTo(t, "issuing") /\ UNCHANGED <<running, memo, effects>>
      BY <1>6, OperationStep
    <2>2. CASE Completed(t)
      <3>1. PICK answer \in Answer : CompletedWith(t, answer)
        BY <2>2 DEF Completed
      <3>2. QED
        BY <2>1, <3>1, CompleteStep
    <2>3. CASE GoTo(t, "issuing") /\ UNCHANGED <<running, memo, effects>>
      <3>1. UNCHANGED <<request, accepted, principal, running, memo, effects, reply>>
              /\ pc' = [pc EXCEPT ![t] = "issuing"]
        BY <2>1, <2>3 DEF GoTo
      <3>2. \A u \in Tasks : /\ SlotOf(u)' = SlotOf(u) /\ Told(u)' = Told(u)
                             /\ pc'[u] = IF u = t THEN "issuing" ELSE pc[u]
        BY <3>1 DEF SlotOf, Told, TypeOK
      <3>3. \A e \in effects : e.by \in Tasks \ {t}
        BY <2>1 DEF Kept, TypeOK, Effect
      <3>4. QED
        BY <2>1, <3>1, <3>2, <3>3 DEF Kept
    <2>4. QED
      BY <2>1, <2>2, <2>3
  <1>7. ASSUME NEW t \in Tasks, NEW part \in SUBSET Tasks, Fail(t, part) PROVE Kept'
    <2>1. /\ pc[t] \in {"executing", "issuing"} /\ Respond(t, Status(500))
          /\ running' = [running EXCEPT ![SlotOf(t)] = None]
          /\ UNCHANGED <<request, accepted, principal, memo, effects>>
      BY <1>7 DEF Fail
    <2>2. Only(t) /\ pc'[t] = "done" /\ reply'[t] = Status(500) /\ Status(500) \notin Answer
      BY <2>1, StatementTypes DEF Only, Respond, TypeOK
    <2>3. \A u \in Tasks : pc'[u] \in {"executing", "issuing"} =>
            running'[SlotOf(u)'] = u /\ memo'[SlotOf(u)'] = None
      <3>1. SlotOf(t) \in Slots /\ running[SlotOf(t)] = t
        BY <2>1, SlotType DEF Kept
      <3>2. \A u \in Tasks \ {t} : pc[u] \in {"executing", "issuing"} =>
              SlotOf(u) \in Slots \ {SlotOf(t)} /\ running[SlotOf(u)] = u /\ memo[SlotOf(u)] = None
        BY <3>1, SlotType DEF Kept
      <3>3. \A z \in Slots \ {SlotOf(t)} : running'[z] = running[z]
        BY <2>1 DEF TypeOK
      <3>4. QED
        BY <2>1, <2>2, <3>2, <3>3, OthersKept
    <2>4. \A u \in Tasks : Told(u)' =>
            SlotOf(u)' \in Slots /\ memo'[SlotOf(u)'] # None /\ memo'[SlotOf(u)'].answer = reply'[u]
      <3>1. ~Told(t)'
        BY <2>2 DEF Told
      <3>2. QED
        BY <2>1, <2>2, <3>1, OthersKept DEF Kept
    <2>5. \A e \in effects : e.by \in Tasks \ {t}
      BY <2>1 DEF Kept, TypeOK, Effect
    <2>6. QED
      BY <2>1, <2>2, <2>3, <2>4, <2>5, OthersKept DEF Kept
  <1>8. ASSUME NEW g \in Agents, NEW s \in Standings, ChangeStanding(g, s) PROVE Kept'
    BY <1>8 DEF ChangeStanding, Kept, Told, SlotOf
  <1>9. QED
    BY <1>1, <1>2, <1>3, <1>4, <1>5, <1>6, <1>7, <1>8 DEF Next, Proceed, Operate
-----------------------------------------------------------------------------
(* What a request for a protected resource presents and shows *)

\* What a request for a protected resource has shown when it is passed on: the assertion
\* that was consumed for it, or the credential of a Grant, which stays the Agent's.
Vouched(t) ==
  LET r == request[t] IN
  \/ /\ accepted[t] # None /\ Presentation(r) # None
     /\ accepted[t] = Presentation(r).credentials
     /\ ClaimsOf[accepted[t]] = [sub |-> principal[t], op |-> "authenticate"]
  \/ \E c \in Credentials(r) \cap Tasks : granted[c] # None /\ granted[c] = principal[t]

ShownFor(t) ==
  request[t] # None /\ request[t].path = "resource" =>
    /\ pc[t] \notin {"done", "gone"} => Presentation(request[t]) # Ambiguous
    /\ pc[t] = "authenticating" => Presentation(request[t]) # None
    /\ pc[t] \in {"checking", "passed"} => Vouched(t)

Proper ==
  /\ \A t \in Tasks : pc[t] # "done" => granted[t] = None
  /\ \A t \in Tasks : ShownFor(t)

LEMMA OneMore ==
  ASSUME NEW S, NEW seq \in Seq(S), NEW more \in Seq(S), Len(more) = 1
  PROVE  /\ Len(seq) \in Nat /\ DOMAIN seq = 1..Len(seq)
         /\ DOMAIN (seq \o more) = 1..(Len(seq) + 1) /\ (seq \o more)[Len(seq) + 1] = more[1]
         /\ \A n \in 1..Len(seq) : (seq \o more)[n] = seq[n]
  <1>1. Len(seq) \in Nat /\ DOMAIN seq = 1..Len(seq)
    BY LenProperties
  <1>2. /\ seq \o more \in Seq(S) /\ Len(seq \o more) = Len(seq) + 1
        /\ \A i \in 1..(Len(seq) + 1) :
             (seq \o more)[i] = IF i <= Len(seq) THEN seq[i] ELSE more[i - Len(seq)]
    BY ConcatProperties
  <1>3. DOMAIN (seq \o more) = 1..(Len(seq) + 1)
    BY <1>2, LenProperties
  <1>4. (seq \o more)[Len(seq) + 1] = more[1]
    BY <1>1, <1>2
  <1> QED
    BY <1>1, <1>2, <1>3, <1>4

\* Of what a request presents, a value is the only one that is recognized.
LEMMA PresentedAlone ==
  ASSUME NEW r \in Request, Presentation(r) # Ambiguous
  PROVE  LET values == r.standard \o r.dedicated IN
         /\ \A n, m \in RecognizedIn(values) : n = m
         /\ Presentation(r) # None =>
              \E n \in RecognizedIn(values) : values[n] = Presentation(r)
  <1> DEFINE values == r.standard \o r.dedicated
             last == Len(r.standard) + 1
  <1>1. r.standard \in Seq(Value) /\ r.dedicated \in Seq(Value)
    BY DEF Request
  <1>2. CASE r.dedicated # <<>>
    <2>1. /\ Len(r.dedicated) = 1 /\ Recognized(r.dedicated[1])
          /\ RecognizedIn(r.standard) = {} /\ Presentation(r) = r.dedicated[1]
      BY <1>2 DEF Presentation
    <2>2. /\ Len(r.standard) \in Nat /\ DOMAIN r.standard = 1..Len(r.standard)
          /\ DOMAIN values = 1..last /\ values[last] = r.dedicated[1]
          /\ \A n \in 1..Len(r.standard) : values[n] = r.standard[n]
      BY <1>1, <2>1, OneMore
    <2>n. \A n \in 1..Len(r.standard) : ~Recognized(r.standard[n])
      BY <2>1, <2>2 DEF RecognizedIn
    <2>3. RecognizedIn(values) = {last}
      <3> HIDE DEF values
      <3>1. \A n \in 1..last : Recognized(values[n]) <=> n = last
        BY <2>1, <2>2, <2>n
      <3> QED
        BY <2>2, <3>1 DEF RecognizedIn
    <2> QED
      BY <2>1, <2>2, <2>3
  <1>3. CASE r.dedicated = <<>>
    <2>1. values = r.standard
      BY <1>1, <1>3
    <2>2. CASE RecognizedIn(r.standard) = {}
      BY <1>3, <2>1, <2>2 DEF Presentation
    <2>3. CASE RecognizedIn(r.standard) # {}
      <3>1. Len(r.standard) <= 1 /\ Presentation(r) = r.standard[1]
        BY <1>1, <1>3, <2>3 DEF Presentation
      <3>2. RecognizedIn(r.standard) = {1}
        BY <1>1, <2>3, <3>1 DEF RecognizedIn
      <3> QED
        BY <2>1, <3>1, <3>2
    <2> QED
      BY <2>2, <2>3
  <1> QED
    BY <1>2, <1>3

\* A credential is the Agent's for whom it was made, and is made once.
LEMMA GrantedStep ==
  ASSUME TypeOK, Served, Proper, [Next]_vars
  PROVE  /\ \A c \in Tasks : granted[c] # None => granted'[c] = granted[c]
         /\ \A c \in Tasks : pc'[c] # "done" => granted'[c] = None
  <1> USE DEF TypeOK
  <1>1. ASSUME NEW t \in Tasks, Issue(t)
        PROVE  /\ \A c \in Tasks : granted[c] # None => granted'[c] = granted[c]
               /\ \A c \in Tasks : pc'[c] # "done" => granted'[c] = None
    <2>1. /\ pc[t] = "issuing" /\ granted' = [granted EXCEPT ![t] = principal[t]]
          /\ pc' = [pc EXCEPT ![t] = "done"]
      BY <1>1 DEF Issue, Complete, Respond
    <2> QED
      BY <2>1 DEF Proper
  <1>2. ASSUME UNCHANGED granted,
               NEW t \in Tasks, \A u \in Tasks \ {t} : pc'[u] = pc[u], pc[t] # "done"
        PROVE  /\ \A c \in Tasks : granted[c] # None => granted'[c] = granted[c]
               /\ \A c \in Tasks : pc'[c] # "done" => granted'[c] = None
    BY <1>2 DEF Proper
  <1>3. CASE UNCHANGED <<granted, pc>>
    BY <1>3 DEF Proper
  <1>4. ASSUME NEW t \in Tasks,
               (Proceed(t) /\ ~Issue(t)) \/ \E r \in Asks[t] : Receive(t, r)
        PROVE  UNCHANGED granted /\ pc[t] # "done" /\ \A u \in Tasks \ {t} : pc'[u] = pc[u]
    <2>1. ASSUME NEW r \in Asks[t], Receive(t, r)
          PROVE  UNCHANGED granted /\ pc[t] # "done" /\ \A u \in Tasks \ {t} : pc'[u] = pc[u]
      BY <2>1, ReceiveStep DEF store, Stated, Respond, GoTo
    <2>2. CASE Operate(t) /\ ~Issue(t)
      <3>1. UNCHANGED granted
        BY <2>2 DEF Operate, ExecuteGrant, ExecuteRevoke, EnrollNew, EnrollKnown
      <3>2. pc[t] \in {"executing", "issuing"} /\ (Completed(t) \/ GoTo(t, "issuing"))
        BY <2>2, OperationStep
      <3> QED
        BY <3>1, <3>2 DEF Completed, CompletedWith, Respond, GoTo
    <2>3. CASE ReadBody(t) \/ Disconnect(t) \/ Refuse(t) \/ FindStatus(t) \/ FindNoSession(t)
               \/ CheckActive(t)
      <3>1. UNCHANGED granted /\ pc[t] \in {"reading", "authenticating", "finding", "sessions", "checking"}
        BY <2>3 DEF ReadBody, Disconnect, Refuse, FindStatus, FindNoSession, CheckActive, store
      <3>2. (\E where : GoTo(t, where)) \/ \E v : Respond(t, v)
        BY <2>3 DEF ReadBody, Disconnect, Refuse, FindStatus, FindNoSession, CheckActive
      <3> QED
        BY <3>1, <3>2 DEF Respond, GoTo
    <2>4. CASE Consume(t)
      BY <2>4 DEF Consume, Respond, GoTo
    <2>5. CASE Enter(t)
      <3>1. UNCHANGED granted /\ pc[t] = "entering"
        BY <2>5 DEF Enter
      <3>2. GoTo(t, "executing") \/ \E v : Respond(t, v)
        <4>1. CASE memo[SlotOf(t)] = None
          BY <2>5, <4>1 DEF Enter
        <4>2. CASE memo[SlotOf(t)] # None
          BY <2>5, <4>2 DEF Enter
        <4> QED
          BY <4>1, <4>2
      <3> QED
        BY <3>1, <3>2 DEF Respond, GoTo
    <2>6. ASSUME NEW c \in Tasks, FindSession(t, c)
          PROVE  UNCHANGED granted /\ pc[t] # "done" /\ \A u \in Tasks \ {t} : pc'[u] = pc[u]
      BY <2>6 DEF FindSession, GoTo, store
    <2>7. ASSUME NEW part \in SUBSET Tasks, Fail(t, part)
          PROVE  UNCHANGED granted /\ pc[t] # "done" /\ \A u \in Tasks \ {t} : pc'[u] = pc[u]
      BY <2>7 DEF Fail, Respond
    <2> QED
      BY <1>4, <2>1, <2>2, <2>3, <2>4, <2>5, <2>6, <2>7 DEF Proceed, Operate
  <1>5. ASSUME NEW g \in Agents, NEW s \in Standings, ChangeStanding(g, s)
        PROVE  UNCHANGED <<granted, pc>>
    BY <1>5 DEF ChangeStanding
  <1>6. CASE UNCHANGED vars
    BY <1>3, <1>6 DEF vars, store
  <1> QED
    BY <1>1, <1>2, <1>3, <1>4, <1>5, <1>6 DEF Next

\* What was shown for a request stays shown while the request is as it was.
LEMMA ShownStays ==
  ASSUME TypeOK, Served, Proper, [Next]_vars, NEW u \in Tasks,
         request'[u] = request[u], accepted'[u] = accepted[u], principal'[u] = principal[u]
  PROVE  /\ Vouched(u) => Vouched(u)'
         /\ pc'[u] = pc[u] => ShownFor(u)'
         /\ pc'[u] \in {"done", "gone"} => ShownFor(u)'
  <1>1. Vouched(u) => Vouched(u)'
    BY GrantedStep DEF Vouched, Credentials, Presentation
  <1> QED
    BY <1>1 DEF ShownFor, Proper

LEMMA ProperStep == ASSUME TypeOK, Served, Proper, [Next]_vars PROVE Proper'
  <1> USE DEF TypeOK
  <1>o. ASSUME NEW t \in Tasks, Only(t), ShownFor(t)' PROVE \A u \in Tasks : ShownFor(u)'
    BY <1>o, ShownStays DEF Only
  <1>1. CASE UNCHANGED <<pc, request, accepted, principal>>
    <2>1. \A u \in Tasks : ShownFor(u)'
      BY <1>1, ShownStays
    <2> QED
      BY <2>1, GrantedStep DEF Proper
  <1>2. ASSUME NEW t \in Tasks, NEW r \in Asks[t], Receive(t, r) PROVE \A u \in Tasks : ShownFor(u)'
    <2>1. /\ pc[t] = "idle" /\ request' = [request EXCEPT ![t] = r] /\ r \in Request
          /\ UNCHANGED <<accepted, principal>>
          /\ \/ Stated(t)
             \/ \E where \in {"authenticating", "reading", "sessions", "passed"} : GoTo(t, where)
      BY <1>2, ReceiveStep DEF store
    <2>2. Only(t)
      BY <2>1 DEF Only, Stated, GoTo, Respond
    <2>3. r.path = "resource" => ServeResource(t, r)
      BY <1>2, SupportedCommands DEF Receive, Commands
    <2>4. CASE r.path # "resource"
      BY <1>o, <2>1, <2>2, <2>4 DEF ShownFor
    <2>5. CASE r.path = "resource" /\ Stated(t)
      BY <1>o, <2>1, <2>2, <2>5 DEF ShownFor, Stated, Respond
    <2>6. CASE /\ r.path = "resource" /\ Presentation(r) # Ambiguous
               /\ \/ GoTo(t, "sessions")
                  \/ GoTo(t, "authenticating") /\ Presentation(r) # None
      <3>1. request'[t] = r /\ pc'[t] \in {"sessions", "authenticating"}
            /\ (pc'[t] = "authenticating" => Presentation(r) # None)
        BY <2>1, <2>6 DEF GoTo
      <3>2. ShownFor(t)'
        BY <2>6, <3>1 DEF ShownFor, Presentation
      <3> QED
        BY <1>o, <2>2, <3>2
    <2> QED
      BY <2>3, <2>4, <2>5, <2>6, StatementTypes DEF ServeResource, Stated
  <1>3. ASSUME NEW t \in Tasks, UNCHANGED <<request, accepted, principal>>,
               (\E where : GoTo(t, where)) \/ (\E v : Respond(t, v)),
               pc[t] \notin {"done", "gone"},
               \/ pc'[t] \in {"done", "gone", "executing", "issuing"}
               \/ pc[t] = "checking" /\ pc'[t] = "passed"
               \/ request[t].path # "resource"
        PROVE  \A u \in Tasks : ShownFor(u)'
    <2>1. Only(t)
      BY <1>3 DEF Only, GoTo, Respond
    <2>2. Vouched(t) => Vouched(t)'
      BY <1>3, ShownStays
    <2>3. ShownFor(t)
      BY DEF Proper
    <2>4. Presentation(request[t])' = Presentation(request[t])
      BY <1>3 DEF Presentation
    <2>5. ShownFor(t)'
      BY <1>3, <2>2, <2>3, <2>4 DEF ShownFor
    <2> QED
      BY <1>o, <2>1, <2>5
  <1>4. ASSUME NEW t \in Tasks, ReadBody(t) \/ Disconnect(t) \/ Refuse(t) \/ FindNoSession(t)
                                \/ CheckActive(t)
        PROVE  \A u \in Tasks : ShownFor(u)'
    <2>1. pc[t] = "reading" => request[t].path # "resource"
      BY DEF Served, ServedFor, Commands
    <2>2. /\ UNCHANGED <<request, accepted, principal>>
          /\ pc[t] \in {"reading", "authenticating", "sessions", "checking"}
          /\ (\E where : GoTo(t, where)) \/ (\E v : Respond(t, v))
      BY <1>4 DEF ReadBody, Disconnect, Refuse, FindNoSession, CheckActive
    <2>3. \/ pc'[t] \in {"done", "gone"}
          \/ pc[t] = "checking" /\ pc'[t] = "passed"
          \/ pc[t] = "reading"
      BY <1>4 DEF ReadBody, Disconnect, Refuse, FindNoSession, CheckActive, GoTo, Respond
    <2> QED
      BY <1>3, <2>1, <2>2, <2>3
  <1>5. ASSUME NEW t \in Tasks, Consume(t) PROVE \A u \in Tasks : ShownFor(u)'
    <2>1. PICK a \in Assertions : /\ a = Shown(request[t])
                                  /\ ClaimsOf[a].op = Operation(request[t])
                                  /\ accepted' = [accepted EXCEPT ![t] = a]
                                  /\ principal' = [principal EXCEPT ![t] = ClaimsOf[a].sub]
      BY <1>5, HttpAssumption DEF Consume, Acceptable
    <2>2. pc[t] = "authenticating" /\ request' = request
      BY <1>5 DEF Consume
    <2>3. \/ Respond(t, Status(400))
          \/ \E where \in {"finding", "checking", "entering"} : GoTo(t, where)
      BY <1>5 DEF Consume
    <2>4. Only(t) /\ pc'[t] \in {"done", "finding", "checking", "entering"}
      BY <2>1, <2>2, <2>3 DEF Only, GoTo, Respond
    <2>5. CASE request[t].path # "resource"
      BY <1>o, <2>2, <2>4, <2>5 DEF ShownFor
    <2>6. CASE request[t].path = "resource"
      <3>1. request[t] # None /\ Presentation(request[t]) \notin {None, Ambiguous}
        BY <2>2, <2>6 DEF Proper, ShownFor, Served, ServedFor
      <3>2. /\ a # None /\ a = Presentation(request[t]).credentials
            /\ ClaimsOf[a] = [sub |-> ClaimsOf[a].sub, op |-> "authenticate"]
        BY <2>1, <2>6, HttpAssumption DEF Shown, Operation
      <3>3. accepted'[t] = a /\ principal'[t] = ClaimsOf[a].sub /\ request'[t] = request[t]
        BY <2>1, <2>2
      <3>4. Presentation(request[t])' = Presentation(request[t])
        BY <2>2 DEF Presentation
      <3>5. Vouched(t)'
        BY <3>1, <3>2, <3>3, <3>4 DEF Vouched
      <3>6. ShownFor(t)'
        BY <3>1, <3>4, <3>5, <2>4 DEF ShownFor
      <3> QED
        BY <1>o, <2>4, <3>6
    <2> QED
      BY <2>5, <2>6
  <1>6. ASSUME NEW t \in Tasks, NEW c \in Tasks, FindSession(t, c) PROVE \A u \in Tasks : ShownFor(u)'
    <2>1. /\ pc[t] = "sessions" /\ UNCHANGED <<request, accepted, reply, granted>>
          /\ pc' = [pc EXCEPT ![t] = "checking"]
          /\ principal' = [principal EXCEPT ![t] = granted[c]]
          /\ granted[c] # None /\ c \in Credentials(request[t])
      BY <1>6 DEF FindSession, GoTo, store
    <2>2. Only(t)
      BY <2>1 DEF Only
    <2>3. Credentials(request[t])' = Credentials(request[t])
          /\ Presentation(request[t])' = Presentation(request[t])
      BY <2>1 DEF Credentials, Presentation
    <2>4. Vouched(t)'
      BY <2>1, <2>3 DEF Vouched
    <2>5. ShownFor(t)'
      BY <2>1, <2>3, <2>4 DEF ShownFor, Proper
    <2> QED
      BY <1>o, <2>2, <2>5
  <1>7. ASSUME NEW t \in Tasks, FindStatus(t) \/ Enter(t) PROVE \A u \in Tasks : ShownFor(u)'
    <2>1. UNCHANGED <<request, accepted, principal>> /\ pc[t] \in {"finding", "entering"}
      BY <1>7 DEF FindStatus, Enter
    <2>2. GoTo(t, "executing") \/ \E v : Respond(t, v)
      <3>1. CASE FindStatus(t)
        BY <3>1 DEF FindStatus
      <3>2. CASE Enter(t) /\ memo[SlotOf(t)] = None
        BY <3>2 DEF Enter
      <3>3. CASE Enter(t) /\ memo[SlotOf(t)] # None
        BY <3>3 DEF Enter
      <3> QED
        BY <1>7, <3>1, <3>2, <3>3
    <2>3. pc'[t] \in {"done", "executing", "issuing"}
      BY <2>1, <2>2 DEF GoTo, Respond
    <2> QED
      BY <1>3, <2>1, <2>2, <2>3
  <1>8. ASSUME NEW t \in Tasks, Operate(t) PROVE \A u \in Tasks : ShownFor(u)'
    <2>1. /\ pc[t] \in {"executing", "issuing"}
          /\ UNCHANGED <<request, accepted, principal>>
          /\ Completed(t) \/ GoTo(t, "issuing")
      BY <1>8, OperationStep
    <2>2. GoTo(t, "issuing") \/ \E v : Respond(t, v)
      BY <2>1 DEF Completed, CompletedWith
    <2>3. pc'[t] \in {"done", "executing", "issuing"}
      BY <2>1, <2>2 DEF GoTo, Respond
    <2> QED
      BY <1>3, <2>1, <2>2, <2>3
  <1>9. ASSUME NEW t \in Tasks, NEW part \in SUBSET Tasks, Fail(t, part)
        PROVE \A u \in Tasks : ShownFor(u)'
    <2>1. /\ pc[t] \in {"executing", "issuing"} /\ UNCHANGED <<request, accepted, principal>>
          /\ \E v : Respond(t, v)
      BY <1>9 DEF Fail
    <2>2. pc'[t] = "done"
      BY <2>1 DEF Respond
    <2> QED
      BY <1>3, <2>1, <2>2
  <1>10. ASSUME NEW g \in Agents, NEW s \in Standings, ChangeStanding(g, s)
         PROVE  UNCHANGED <<pc, request, accepted, principal>>
    BY <1>10 DEF ChangeStanding
  <1>11. CASE UNCHANGED vars
    BY <1>1, <1>11 DEF vars, store
  <1>12. (\A u \in Tasks : ShownFor(u)') => Proper'
    BY GrantedStep DEF Proper
  <1> QED
    BY <1>1, <1>2, <1>4, <1>5, <1>6, <1>7, <1>8, <1>9, <1>10, <1>11, <1>12 DEF Next, Proceed, Operate
-----------------------------------------------------------------------------
(* Theorems *)

IInv == TypeOK /\ Served /\ Alone /\ Kept /\ Proper

LEMMA Initially == Init => IInv
  <1> SUFFICES ASSUME Init PROVE IInv
    OBVIOUS
  <1>1. \A t \in Tasks : pc[t] = "idle" /\ request[t] = None /\ reply[t] = None /\ accepted[t] = None
    BY DEF Init
  <1>2. Served /\ Alone
    BY <1>1 DEF Served, ServedFor, Alone
  <1>3. Kept
    BY <1>1 DEF Init, Kept, Told
  <1>4. Proper
    BY <1>1 DEF Init, Proper, ShownFor
  <1>5. QED
    BY <1>2, <1>3, <1>4, TypeInit DEF IInv

LEMMA Inductive == IInv /\ [Next]_vars => IInv'
  BY TypeStep, ServedStep, AloneStep, KeptStep, ProperStep DEF IInv

LEMMA Invariant == Spec => []IInv
  BY Initially, Inductive, PTL DEF Spec

\* Every variable has its type, whatever the requests say and in whatever order the tasks of
\* the application (adapters/asgi.py) and of the Service take their steps.
THEOREM TypeCorrect == Spec => []TypeOK
  BY Invariant, PTL DEF IInv

\* A command takes effect for the Agent and the operation of an assertion that no other
\* request was accepted with, at most once for a key, for a request that is told it did; and
\* all requests that repeat a command are told the same.
THEOREM EffectsAreJustified == Spec => []EffectsJustified
  <1>1. IInv => EffectsJustified
    BY DEF IInv, Alone, Kept, EffectsJustified
  <1>2. QED
    BY <1>1, Invariant, PTL

\* The application sees a request for a protected resource on behalf of the Agent whose
\* assertion or credential the request showed, and of a request that presents one thing only
\* (AepAuthenticationMiddleware of adapters/asgi.py, authenticate and _select_presentation of
\* service/service.py).
THEOREM PrincipalsAreJustified == Spec => []PrincipalJustified
  <1>1. IInv => PrincipalJustified
    <2> SUFFICES ASSUME IInv, NEW t \in Tasks, pc[t] = "passed", request[t].path = "resource"
                 PROVE  LET r == request[t]  values == r.standard \o r.dedicated IN
                        /\ \A n, m \in RecognizedIn(values) : n = m
                        /\ \/ /\ accepted[t] # None
                              /\ \E n \in RecognizedIn(values) :
                                   accepted[t] = values[n].credentials
                              /\ ClaimsOf[accepted[t]] = [sub |-> principal[t], op |-> "authenticate"]
                           \/ \E c \in Credentials(r) \cap Tasks : granted[c] = principal[t]
      BY DEF PrincipalJustified
    <2>1. request[t] # None /\ request[t] \in Request
      BY RequestType DEF IInv, Served, ServedFor
    <2>2. Presentation(request[t]) # Ambiguous /\ Vouched(t)
      BY <2>1 DEF IInv, Proper, ShownFor
    <2> QED
      BY <2>1, <2>2, PresentedAlone DEF Vouched
  <1>2. QED
    BY <1>1, Invariant, PTL
-----------------------------------------------------------------------------
(* The promise of the idempotency store (ServiceIdempotency) *)

\* A key that is held is held by a task that executes its command.
Held == \A s \in Slots : running[s] # None =>
          pc[running[s]] \in {"executing", "issuing"} /\ SlotOf(running[s]) = s

\* What is remembered for a key is the answer to a command of that key that has ended.
KeptFor(s) ==
  /\ memo[s] # None => kept[s] # None
  /\ kept[s] # None =>
       LET author == kept[s].by IN
       /\ memo[s] # None /\ kept[s].request = memo[s].content
       /\ pc[author] = "done" /\ SlotOf(author) = s
       /\ request[author].body.content = memo[s].content /\ reply[author] = memo[s].answer

KeptFits == \A s \in Slots : KeptFor(s)

\* The store has told a request nothing before its end.
ToldFor(t) ==
  /\ pc[t] # "done" => told[t] = None
  /\ told[t] # None =>
       /\ told[t].state \in {"created", "replayed"} =>
            LET author == told[t].response.by IN
            /\ author \in Tasks /\ pc[author] = "done"
            /\ SlotOf(author) = SlotOf(t) /\ reply[author] = reply[t]
            /\ request[author].body.content = request[t].body.content
       /\ told[t].state = "conflict" => reply[t] = Status(409)
       /\ told[t].state = "failed" => reply[t] = Status(500)

ToldFits == \A t \in Tasks : ToldFor(t)

HistoryType ==
  /\ kept \in [Slots -> Abstract!Response \cup {None}]
  /\ told = [t \in Tasks |-> told[t]]

HistoryFits == HistoryType /\ Held /\ KeptFits /\ ToldFits

LEMMA HistoryInit == ObservedInit => HistoryFits
  <1> SUFFICES ASSUME ObservedInit PROVE HistoryFits
    OBVIOUS
  <1> USE DEF ObservedInit, Init
  <1>1. HistoryType
    BY DEF HistoryType
  <1>2. Held /\ KeptFits /\ ToldFits
    BY DEF Held, KeptFits, KeptFor, ToldFits, ToldFor
  <1> QED
    BY <1>1, <1>2 DEF HistoryFits

\* A request that has ended stays as it is, whatever another does.
LEMMA EndedStays ==
  ASSUME NEW t \in Tasks, Only(t), pc[t] # "done", NEW u \in Tasks, pc[u] = "done"
  PROVE  /\ pc'[u] = "done" /\ SlotOf(u)' = SlotOf(u) /\ reply'[u] = reply[u]
         /\ request'[u] = request[u]
  BY DEF Only, SlotOf

\* What the store told the others stays right.
LEMMA OthersTold ==
  ASSUME HistoryFits, NEW t \in Tasks, Only(t), pc[t] # "done",
         NEW u \in Tasks, u # t \/ pc'[t] # "done", told'[u] = told[u]
  PROVE  ToldFor(u)'
  <1>1. ToldFor(u)
    BY DEF HistoryFits, ToldFits
  <1>2. CASE u = t
    BY <1>1, <1>2 DEF ToldFor
  <1>3. CASE u # t
    <2>1. /\ pc'[u] = pc[u] /\ SlotOf(u)' = SlotOf(u) /\ reply'[u] = reply[u]
          /\ request'[u] = request[u]
      BY <1>3 DEF Only, SlotOf
    <2>2. ASSUME told[u] # None, told[u].state \in {"created", "replayed"}, NEW v \in Tasks,
                 v = told[u].response.by
          PROVE  /\ pc'[v] = "done" /\ SlotOf(v)' = SlotOf(u)' /\ reply'[v] = reply'[u]
                 /\ request'[v].body.content = request'[u].body.content
      BY <1>1, <2>1, <2>2, EndedStays DEF ToldFor
    <2> QED
      BY <1>1, <2>1, <2>2 DEF ToldFor
  <1> QED
    BY <1>2, <1>3

LEMMA KeptStands ==
  ASSUME HistoryFits, NEW t \in Tasks, Only(t), pc[t] # "done", UNCHANGED <<memo, kept>>
  PROVE  KeptFits'
  <1>1. \A s \in Slots : kept[s] # None => kept[s].by \in Tasks
    BY DEF HistoryFits, HistoryType, Abstract!Response
  <1> QED
    BY <1>1, EndedStays DEF HistoryFits, KeptFits, KeptFor

\* A step that the store takes no part in.
LEMMA ElseStep ==
  ASSUME TypeOK, Served, NEW t \in Tasks, ObserveElse(t)
  PROVE  /\ Only(t) /\ UNCHANGED <<running, memo, history>>
         /\ pc[t] \notin {"executing", "issuing", "done"}
  <1>1. UNCHANGED history
    BY DEF ObserveElse, Otherwise
  <1>2. CASE ReadBody(t) \/ Disconnect(t) \/ Refuse(t) \/ FindNoSession(t) \/ CheckActive(t)
             \/ FindStatus(t) \/ Consume(t) \/ \E c \in Tasks : FindSession(t, c)
    <2>1. /\ pc[t] \in {"reading", "authenticating", "finding", "sessions", "checking"}
          /\ UNCHANGED <<request, running, memo>>
          /\ \A u \in Tasks \ {t} : accepted'[u] = accepted[u] /\ principal'[u] = principal[u]
      BY <1>2 DEF ReadBody, Disconnect, Refuse, FindNoSession, CheckActive, FindStatus, Consume,
         FindSession, store, TypeOK
    <2>2. (\E v : Respond(t, v)) \/ (\E where : GoTo(t, where))
      BY <1>2 DEF ReadBody, Disconnect, Refuse, FindNoSession, CheckActive, FindStatus, Consume,
         FindSession
    <2> QED
      BY <1>1, <2>1, <2>2 DEF Only, Respond, GoTo, TypeOK
  <1>3. ASSUME NEW r \in Asks[t], Receive(t, r)
        PROVE  Only(t) /\ pc[t] = "idle" /\ UNCHANGED <<running, memo>>
    <2>1. /\ pc[t] = "idle" /\ request' = [request EXCEPT ![t] = r]
          /\ UNCHANGED <<accepted, principal, running, memo>>
      BY <1>3, ReceiveStep DEF store
    <2>2. Stated(t) \/ \E where : GoTo(t, where)
      BY <1>3, ReceiveStep
    <2> QED
      BY <2>1, <2>2 DEF Only, Stated, Respond, GoTo, TypeOK
  <1> QED
    BY <1>1, <1>2, <1>3 DEF ObserveElse, Otherwise

LEMMA ElseObserved ==
  ASSUME TypeOK, Served, HistoryFits, NEW t \in Tasks, ObserveElse(t)
  PROVE  HistoryFits' /\ UNCHANGED <<running, kept, told>>
  <1>1. /\ Only(t) /\ UNCHANGED <<running, memo, kept, told>>
        /\ pc[t] \notin {"executing", "issuing", "done"}
    BY ElseStep DEF history
  <1>2. HistoryType'
    BY <1>1 DEF HistoryFits, HistoryType
  <1>3. Held'
    <2>1. \A s \in Slots : running[s] # None => running[s] \in Tasks \ {t}
      BY <1>1 DEF HistoryFits, Held, TypeOK
    <2> QED
      BY <1>1, <2>1 DEF HistoryFits, Held, Only, SlotOf
  <1>4. KeptFits'
    BY <1>1, KeptStands
  <1>5. ToldFits'
    <2>1. \A u \in Tasks \ {t} : ToldFor(u)'
      BY <1>1, OthersTold
    <2>2. told'[t] = None
      BY <1>1 DEF HistoryFits, ToldFits, ToldFor
    <2> QED
      BY <2>1, <2>2 DEF ToldFits, ToldFor
  <1> QED
    BY <1>1, <1>2, <1>3, <1>4, <1>5 DEF HistoryFits

LEMMA ChangeObserved ==
  ASSUME HistoryFits, UNCHANGED <<pc, request, principal, reply, running, memo, history>>
  PROVE  HistoryFits' /\ UNCHANGED <<running, kept, told>>
  <1>1. UNCHANGED <<pc, request, principal, reply, running, memo, kept, told>>
    BY DEF history
  <1>2. HistoryType' /\ Held' /\ KeptFits'
    BY <1>1 DEF HistoryFits, HistoryType, Held, KeptFits, KeptFor, SlotOf
  <1>3. ToldFits'
    BY <1>1 DEF HistoryFits, ToldFits, ToldFor, SlotOf
  <1> QED
    BY <1>1, <1>2, <1>3 DEF HistoryFits

LEMMA EnterObserved ==
  ASSUME TypeOK, Served, Kept, HistoryFits, NEW t \in Tasks, ObserveEnter(t)
  PROVE  /\ HistoryFits' /\ SlotOf(t) \in Slots /\ request[t].body.content \in Contents
         /\ \/ Abstract!AbsBegin(t, SlotOf(t))
            \/ Abstract!AbsLookup(t, SlotOf(t), request[t].body.content)
  <1> DEFINE slot == SlotOf(t)
             content == request[t].body.content
  <1> USE DEF HistoryFits
  <1>1. /\ pc[t] = "entering" /\ running[slot] = None /\ kept' = kept
        /\ UNCHANGED <<request, accepted, principal, memo>>
    BY DEF ObserveEnter, Enter
  <1>2. slot \in Slots /\ content \in Contents
    BY <1>1, SlotType DEF Served, ServedFor, Entered
  <1>3. told[t] = None /\ \A s \in Slots : running[s] # t
    BY <1>1, HttpAssumption DEF ToldFits, ToldFor, Held
  <1>4. Abstract!Forgotten(kept')
    BY <1>1 DEF Abstract!Forgotten
  <1>5. CASE memo[slot] = None
    <2>1. told' = told /\ running' = [running EXCEPT ![slot] = t] /\ GoTo(t, "executing")
      BY <1>5 DEF ObserveEnter, Enter
    <2>2. /\ Only(t) /\ pc'[t] = "executing"
          /\ \A s \in Slots : running'[s] = IF s = slot THEN t ELSE running[s]
      BY <1>1, <1>2, <2>1 DEF Only, GoTo, TypeOK
    <2>3. kept[slot] = None
      BY <1>2, <1>5 DEF KeptFits, KeptFor
    <2>4. HistoryType' /\ KeptFits'
      BY <1>1, <2>1, <2>2, KeptStands DEF HistoryType
    <2>5. Held'
      <3>1. \A u \in Tasks : SlotOf(u)' = SlotOf(u)
        BY <1>1 DEF SlotOf
      <3>2. \A s \in Slots : running[s] # None => running[s] \in Tasks \ {t}
        BY <1>3 DEF TypeOK
      <3> QED
        BY <1>1, <2>2, <3>1, <3>2 DEF Held, Only
    <2>6. ToldFits'
      BY <1>1, <2>1, <2>2, OthersTold DEF ToldFits
    <2>7. Abstract!AbsBegin(t, slot)
      BY <1>1, <1>3, <1>4, <2>1, <2>3 DEF Abstract!AbsBegin
    <2> QED
      BY <1>2, <2>4, <2>5, <2>6, <2>7
  <1>6. CASE memo[slot] # None
    <2> DEFINE same == memo[slot].content = content
               outcome == IF same THEN [state |-> "replayed", key |-> slot, response |-> kept[slot]]
                          ELSE [state |-> "conflict", key |-> slot]
               answer == IF same THEN memo[slot].answer ELSE Status(409)
    <2>1. running' = running /\ Respond(t, answer) /\ told' = [told EXCEPT ![t] = outcome]
      BY <1>6 DEF ObserveEnter, Enter, Tell
    <2>2. Only(t) /\ pc'[t] = "done" /\ reply'[t] = answer /\ SlotOf(t)' = slot
      BY <1>1, <2>1 DEF Only, Respond, SlotOf, TypeOK
    <2>3. told'[t] = outcome /\ \A u \in Tasks \ {t} : told'[u] = told[u]
      BY <2>1 DEF HistoryType
    <2>4. /\ kept[slot] # None /\ kept[slot].request = memo[slot].content
          /\ kept[slot].by \in Tasks \ {t} /\ pc[kept[slot].by] = "done"
          /\ SlotOf(kept[slot].by) = slot /\ reply[kept[slot].by] = memo[slot].answer
          /\ request[kept[slot].by].body.content = memo[slot].content
      BY <1>1, <1>2, <1>6 DEF KeptFits, KeptFor, HistoryType, Abstract!Response
    <2>5. HistoryType'
      BY <1>1, <2>1 DEF HistoryType
    <2>6. KeptFits'
      BY <1>1, <2>2, KeptStands
    <2>7. Held'
      <3>1. \A s \in Slots : running[s] # None => running[s] \in Tasks \ {t}
        BY <1>3 DEF TypeOK
      <3> QED
        BY <2>1, <2>2, <3>1 DEF Held, Only, SlotOf
    <2>8. ToldFits'
      <3>1. \A u \in Tasks \ {t} : ToldFor(u)'
        BY <1>1, <2>2, <2>3, OthersTold
      <3>2. CASE same
        <4>1. told'[t] = [state |-> "replayed", key |-> slot, response |-> kept[slot]]
              /\ reply'[t] = memo[slot].answer
          BY <2>2, <2>3, <3>2
        <4>2. told'[t].state = "replayed" /\ told'[t].response.by = kept[slot].by
          BY <4>1
        <4> DEFINE v == kept[slot].by
        <4>3. /\ v \in Tasks /\ pc'[v] = "done" /\ SlotOf(v)' = slot
              /\ reply'[v] = memo[slot].answer /\ request'[v].body.content = content
          BY <1>1, <2>2, <2>4, <3>2, EndedStays
        <4>4. ASSUME NEW w \in Tasks, w = told'[t].response.by
              PROVE  /\ pc'[w] = "done" /\ SlotOf(w)' = SlotOf(t)' /\ reply'[w] = reply'[t]
                     /\ request'[w].body.content = request'[t].body.content
          BY <1>1, <2>2, <4>1, <4>2, <4>3, <4>4
        <4>6. told'[t].response.by \in Tasks
          BY <4>2, <4>3
        <4> HIDE DEF v, slot, content, outcome, answer, same
        <4>5. ToldFor(t)'
          BY <2>2, <4>2, <4>4, <4>6 DEF ToldFor
        <4> QED
          BY <3>1, <4>5 DEF ToldFits
      <3>3. CASE ~same
        <4>1. told'[t].state = "conflict" /\ reply'[t] = Status(409)
          BY <2>2, <2>3, <3>3
        <4> HIDE DEF slot, content, outcome, answer, same
        <4> QED
          BY <2>2, <3>1, <4>1 DEF ToldFits, ToldFor
      <3> QED
        BY <3>2, <3>3
    <2>9. Abstract!AbsLookup(t, slot, content)
      BY <1>1, <1>3, <1>4, <2>1, <2>4 DEF Abstract!AbsLookup
    <2> QED
      BY <1>2, <2>5, <2>6, <2>7, <2>8, <2>9
  <1> QED
    BY <1>5, <1>6

\* The execution of t ends, and the store tells t the outcome.
EndsWith(t, r, outcome) ==
  /\ pc[t] \in {"executing", "issuing"} /\ pc' = [pc EXCEPT ![t] = "done"]
  /\ UNCHANGED <<request, accepted, principal>>
  /\ reply' = [reply EXCEPT ![t] = r] /\ told' = [told EXCEPT ![t] = outcome]
  /\ running' = [running EXCEPT ![SlotOf(t)] = None]

\* Every other key and task is as it was.
LEMMA EndTold ==
  ASSUME TypeOK, Served, Kept, HistoryFits, NEW t \in Tasks, NEW r, NEW outcome,
         EndsWith(t, r, outcome)
  PROVE  /\ Only(t) /\ pc'[t] = "done" /\ reply'[t] = r /\ told'[t] = outcome
         /\ told[t] = None /\ told' = [u \in Tasks |-> told'[u]]
         /\ SlotOf(t) \in Slots /\ SlotOf(t)' = SlotOf(t) /\ running[SlotOf(t)] = t
         /\ \A s \in Slots : s # SlotOf(t) => running[s] # t
         /\ Held' /\ \A u \in Tasks \ {t} : ToldFor(u)'
  <1> USE DEF EndsWith
  <1>1. Only(t) /\ pc'[t] = "done" /\ reply'[t] = r /\ SlotOf(t)' = SlotOf(t)
    BY DEF Only, TypeOK, SlotOf
  <1>2. SlotOf(t) \in Slots /\ running[SlotOf(t)] = t
    BY SlotType DEF Kept
  <1>3. told'[t] = outcome /\ told' = [u \in Tasks |-> told'[u]] /\ told[t] = None
        /\ \A u \in Tasks \ {t} : told'[u] = told[u]
    BY DEF HistoryFits, HistoryType, ToldFits, ToldFor
  <1>4. \A s \in Slots : s # SlotOf(t) => running[s] # t /\ running'[s] = running[s]
    BY <1>2, HttpAssumption DEF HistoryFits, Held, TypeOK
  <1>5. Held'
    <2>1. running'[SlotOf(t)] = None
      BY <1>2 DEF TypeOK
    <2>2. \A s \in Slots : running[s] # None => running[s] \in Tasks
      BY DEF TypeOK
    <2> QED
      BY <1>1, <1>4, <2>1, <2>2 DEF HistoryFits, Held, Only, SlotOf
  <1>6. \A u \in Tasks \ {t} : ToldFor(u)'
    BY <1>1, <1>3, OthersTold
  <1> QED
    BY <1>1, <1>2, <1>3, <1>4, <1>5, <1>6

LEMMA FailureObserved ==
  ASSUME TypeOK, Served, Kept, HistoryFits, NEW t \in Tasks, ObserveFailure(t)
  PROVE  HistoryFits' /\ Abstract!AbsFail(t)
  <1>1. /\ pc[t] \in {"executing", "issuing"} /\ pc' = [pc EXCEPT ![t] = "done"]
        /\ UNCHANGED <<request, accepted, principal>>
        /\ reply' = [reply EXCEPT ![t] = Status(500)]
        /\ told' = [told EXCEPT ![t] = [state |-> "failed"]]
        /\ running' = [running EXCEPT ![SlotOf(t)] = None] /\ kept' = kept /\ memo' = memo
    BY DEF ObserveFailure, Fail, Respond, Tell
  <1>2. /\ Only(t) /\ pc'[t] = "done" /\ reply'[t] = Status(500)
        /\ told'[t] = [state |-> "failed"]
        /\ told[t] = None /\ told' = [u \in Tasks |-> told'[u]]
        /\ SlotOf(t) \in Slots /\ running[SlotOf(t)] = t
        /\ \A s \in Slots : s # SlotOf(t) => running[s] # t
        /\ Held' /\ \A u \in Tasks \ {t} : ToldFor(u)'
    <2>1. EndsWith(t, Status(500), [state |-> "failed"])
      BY <1>1 DEF EndsWith
    <2> QED
      BY <2>1, EndTold
  <1>3. ToldFits'
    <2>1. told'[t].state = "failed"
      BY <1>2
    <2>2. ToldFor(t)'
      BY <1>2, <2>1 DEF ToldFor
    <2> QED
      BY <1>2, <2>2 DEF ToldFits
  <1>4. HistoryType' /\ KeptFits'
    BY <1>1, <1>2, KeptStands DEF HistoryFits, HistoryType
  <1>5. running' = [s \in Slots |-> IF running[s] = t THEN None ELSE running[s]]
    <2>1. running' = [s \in Slots |-> IF s = SlotOf(t) THEN None ELSE running[s]]
      BY <1>1 DEF TypeOK
    <2> QED
      BY <1>2, <2>1
  <1>6. Abstract!AbsFail(t)
    BY <1>1, <1>2, <1>5 DEF Abstract!AbsFail
  <1> QED
    BY <1>2, <1>3, <1>4, <1>6 DEF HistoryFits

LEMMA CompletionObserved ==
  ASSUME TypeOK, Served, Kept, HistoryFits, NEW t \in Tasks, ObserveOperation(t),
         NEW answer \in Answer, CompletedWith(t, answer), pc[t] \in {"executing", "issuing"},
         UNCHANGED <<request, accepted, principal>>
  PROVE  HistoryFits' /\ Abstract!AbsSucceed(t, SlotOf(t), request[t].body.content)
  <1> DEFINE slot == SlotOf(t)
             content == request[t].body.content
             response == [request |-> content, by |-> t, at |-> 0]
             outcome == [state |-> "created", key |-> slot, response |-> response]
             remembered == [content |-> content, answer |-> answer]
  <1>1. /\ pc' = [pc EXCEPT ![t] = "done"] /\ pc'[t] = "done"
        /\ reply' = [reply EXCEPT ![t] = answer]
        /\ running' = [running EXCEPT ![slot] = None]
        /\ memo' = [memo EXCEPT ![slot] = remembered]
    BY DEF CompletedWith, Respond, TypeOK
  <1>2. kept' = [kept EXCEPT ![slot] = response] /\ told' = [told EXCEPT ![t] = outcome]
    BY <1>1 DEF ObserveOperation, Tell
  <1>3. content \in Contents
    BY DEF Served, ServedFor, Entered
  <1>4. /\ Only(t) /\ reply'[t] = answer /\ told'[t] = outcome
        /\ told[t] = None /\ told' = [u \in Tasks |-> told'[u]]
        /\ slot \in Slots /\ SlotOf(t)' = slot /\ running[slot] = t
        /\ \A s \in Slots : s # slot => running[s] # t
        /\ Held' /\ \A u \in Tasks \ {t} : ToldFor(u)'
    <2>1. EndsWith(t, answer, outcome)
      BY <1>1, <1>2 DEF EndsWith
    <2> HIDE DEF outcome
    <2> QED
      BY <2>1, EndTold
  <1>5. /\ response \in Abstract!Response /\ response # None /\ response.by = t
        /\ remembered # None /\ response.request = content
        /\ remembered.content = content /\ remembered.answer = answer
    BY <1>3, NoneAssumption DEF Abstract!Response
  <1>6. \A s \in Slots : /\ kept'[s] = IF s = slot THEN response ELSE kept[s]
                         /\ memo'[s] = IF s = slot THEN remembered ELSE memo[s]
    BY <1>1, <1>2, <1>4 DEF HistoryFits, HistoryType, TypeOK
  <1>7. HistoryType'
    BY <1>2, <1>4, <1>5 DEF HistoryFits, HistoryType
  <1>8. told'[t].state = "created" /\ told'[t].response.by = t
    BY <1>4
  <1>9. Abstract!AbsSucceed(t, slot, content)
    BY <1>1, <1>2, <1>4 DEF Abstract!AbsSucceed
  <1>10. request'[t].body.content = content
    OBVIOUS
  <1> HIDE DEF response, remembered, outcome, slot, content
  <1>11. ToldFits'
    <2>1. ToldFor(t)'
      BY <1>1, <1>8 DEF ToldFor
    <2> QED
      BY <1>4, <2>1 DEF ToldFits
  <1>12. KeptFits'
    <2>1. \A s \in Slots : kept[s] # None => kept[s].by \in Tasks
      BY DEF HistoryFits, HistoryType, Abstract!Response
    <2>2. ASSUME NEW s \in Slots, s # slot
          PROVE  /\ memo'[s] = memo[s] /\ kept'[s] = kept[s]
                 /\ kept[s] # None =>
                      /\ pc'[kept[s].by] = "done" /\ SlotOf(kept[s].by)' = s
                      /\ request'[kept[s].by].body.content = memo[s].content
                      /\ reply'[kept[s].by] = memo[s].answer
      BY <1>4, <1>6, <2>1, <2>2, EndedStays DEF HistoryFits, KeptFits, KeptFor
    <2>3. ASSUME NEW s \in Slots, s # slot PROVE KeptFor(s)'
      <3>1. KeptFor(s)
        BY DEF HistoryFits, KeptFits
      <3>2. \A v : v = kept'[s].by => v = kept[s].by
        BY <2>2, <2>3
      <3>3. /\ memo'[s] = memo[s] /\ kept'[s] = kept[s]
            /\ kept[s] # None => kept[s].by \in Tasks
        BY <2>1, <2>2, <2>3
      <3>4. ASSUME NEW v \in Tasks, v = kept'[s].by, kept[s] # None
            PROVE  /\ pc'[v] = "done" /\ SlotOf(v)' = s
                   /\ request'[v].body.content = memo[s].content
                   /\ reply'[v] = memo[s].answer
        BY <2>2, <2>3, <3>2, <3>4
      <3> QED
        BY <3>1, <3>3, <3>4 DEF KeptFor
    <2>4. ASSUME NEW s \in Slots, s = slot PROVE KeptFor(s)'
      <3>1. kept'[s] = response /\ memo'[s] = remembered
        BY <1>6, <2>4
      <3>2. ASSUME NEW v \in Tasks, v = kept'[s].by
            PROVE  /\ pc'[v] = "done" /\ SlotOf(v)' = s
                   /\ request'[v].body.content = content /\ reply'[v] = answer
        BY <1>1, <1>4, <1>5, <1>10, <2>4, <3>1, <3>2 DEF slot
      <3>3. kept'[s].by \in Tasks
        BY <1>5, <3>1
      <3> QED
        BY <1>5, <3>1, <3>2, <3>3 DEF KeptFor
    <2> QED
      BY <2>3, <2>4 DEF KeptFits
  <1> QED
    BY <1>4, <1>7, <1>9, <1>11, <1>12 DEF HistoryFits, slot, content

LEMMA OperationObserved ==
  ASSUME TypeOK, Served, Kept, HistoryFits, NEW t \in Tasks, ObserveOperation(t)
  PROVE  /\ HistoryFits' /\ SlotOf(t) \in Slots /\ request[t].body.content \in Contents
         /\ \/ UNCHANGED <<running, kept, told>>
            \/ Abstract!AbsSucceed(t, SlotOf(t), request[t].body.content)
  <1>1. /\ pc[t] \in {"executing", "issuing"}
        /\ UNCHANGED <<request, accepted, principal>>
        /\ \/ Completed(t)
           \/ GoTo(t, "issuing") /\ UNCHANGED <<running, memo>>
    BY OperationStep DEF ObserveOperation
  <1>2. SlotOf(t) \in Slots /\ request[t].body.content \in Contents
    BY <1>1, SlotType DEF Served, ServedFor, Entered
  <1>3. CASE Completed(t)
    BY <1>1, <1>2, <1>3, CompletionObserved DEF Completed
  <1>4. CASE GoTo(t, "issuing") /\ UNCHANGED <<running, memo>>
    <2>1. Only(t) /\ pc'[t] = "issuing"
      BY <1>1, <1>4 DEF Only, GoTo, TypeOK
    <2>2. kept' = kept /\ told' = told
      BY <2>1 DEF ObserveOperation, history
    <2>3. HistoryType' /\ KeptFits' /\ ToldFits'
      BY <1>1, <1>4, <2>1, <2>2, KeptStands, OthersTold DEF HistoryFits, HistoryType, ToldFits
    <2>4. Held'
      BY <1>1, <1>4, <2>1 DEF HistoryFits, Held, Only, SlotOf, TypeOK
    <2> QED
      BY <1>2, <1>4, <2>2, <2>3, <2>4 DEF HistoryFits
  <1> QED
    BY <1>1, <1>3, <1>4

\* Observation adds nothing to what the Service does.
LEMMA ObservedNextIsNext == [ObservedNext]_<<vars, history>> => [Next]_vars
  BY DEF ObservedNext, ObserveEnter, ObserveOperation, ObserveFailure, ObserveElse, Otherwise, Operate, Next,
         Proceed

LEMMA ObservedStep ==
  IInv /\ HistoryFits /\ [ObservedNext]_<<vars, history>> =>
    HistoryFits' /\ [Abstract!AbsNext]_(Abstract!absVars)
  <1> SUFFICES ASSUME IInv, HistoryFits, [ObservedNext]_<<vars, history>>
               PROVE  HistoryFits' /\ [Abstract!AbsNext]_(Abstract!absVars)
    OBVIOUS
  <1>i. TypeOK /\ Served /\ Kept
    BY DEF IInv
  <1>1. CASE UNCHANGED <<vars, history>>
    BY <1>1, ChangeObserved DEF Abstract!absVars, vars, store
  <1>2. ASSUME NEW g \in Agents, NEW s \in Standings, ChangeStanding(g, s), UNCHANGED history
        PROVE  HistoryFits' /\ [Abstract!AbsNext]_(Abstract!absVars)
    BY <1>2, ChangeObserved DEF Abstract!absVars, ChangeStanding
  <1>3. ASSUME NEW t \in Tasks, ObserveEnter(t)
        PROVE  HistoryFits' /\ [Abstract!AbsNext]_(Abstract!absVars)
    BY <1>i, <1>3, EnterObserved DEF Abstract!AbsNext
  <1>4. ASSUME NEW t \in Tasks, ObserveOperation(t)
        PROVE  HistoryFits' /\ [Abstract!AbsNext]_(Abstract!absVars)
    BY <1>i, <1>4, OperationObserved DEF Abstract!AbsNext, Abstract!absVars
  <1>5. ASSUME NEW t \in Tasks, ObserveFailure(t)
        PROVE  HistoryFits' /\ [Abstract!AbsNext]_(Abstract!absVars)
    BY <1>i, <1>5, FailureObserved DEF Abstract!AbsNext
  <1>6. ASSUME NEW t \in Tasks, ObserveElse(t)
        PROVE  HistoryFits' /\ [Abstract!AbsNext]_(Abstract!absVars)
    BY <1>i, <1>6, ElseObserved DEF Abstract!absVars
  <1> QED
    BY <1>1, <1>2, <1>3, <1>4, <1>5, <1>6 DEF ObservedNext

\* Every step of the Service is one of those that are observed; and since what an observation
\* adds is determined by the state before it, there is one for every behaviour of the Service.
THEOREM EveryStepIsObserved ==
  Next <=> \/ \E t \in Tasks : \/ Enter(t) \/ Operate(t) \/ Otherwise(t)
                             \/ \E part \in SUBSET Tasks : Fail(t, part)
           \/ \E g \in Agents, s \in Standings : ChangeStanding(g, s)
  BY DEF Next, Proceed, Operate, Otherwise

\* The history variables only observe: with them the Service does what it does without.
THEOREM ObservedIsService == ObservedSpec => Spec
  <1>1. ObservedInit => Init
    BY DEF ObservedInit
  <1> QED
    BY <1>1, ObservedNextIsNext, PTL DEF ObservedSpec, Spec

LEMMA HistoryHolds == ObservedSpec => [](IInv /\ HistoryFits)
  <1>1. IInv /\ HistoryFits /\ [ObservedNext]_<<vars, history>> => HistoryFits'
    BY ObservedStep
  <1> QED
    BY <1>1, HistoryInit, ObservedIsService, Invariant, PTL DEF ObservedSpec

\* The Service's commands meet the promise of an idempotency store, for any number of Agents,
\* requests and keys: a command runs only where nothing is remembered and nothing runs, its
\* answer is what every later command of the key is told, and one that fails leaves no trace.
THEOREM ServiceExecutesIdempotently == ObservedSpec => ExecutesIdempotently
  <1>1. ObservedInit => Abstract!AbsInit
    BY DEF ObservedInit, Init, Abstract!AbsInit
  <1>2. IInv /\ HistoryFits /\ [ObservedNext]_<<vars, history>> =>
          [Abstract!AbsNext]_(Abstract!absVars)
    BY ObservedStep
  <1> QED
    BY <1>1, <1>2, HistoryHolds, PTL DEF ObservedSpec, ExecutesIdempotently, Abstract!AbsSpec

\* What an Agent is told agrees with what the store told its command: a replay is the answer
\* to the command of that key and content that was carried out, another content gets a
\* conflict, and a failure an error.
THEOREM CommandAnswersFollow == ObservedSpec => []RepliesFollow
  <1>1. HistoryFits => RepliesFollow
    BY DEF HistoryFits, ToldFits, ToldFor, RepliesFollow
  <1> QED
    BY <1>1, HistoryHolds, PTL
-----------------------------------------------------------------------------
(* What a Service publishes of its options (ServiceConfiguration) *)

LEMMA ListedPublished ==
  ASSUME NEW Text, None \notin Seq(Text), NEW list \in Seq(Text)
  PROVE  Listed(Published(list)) = {list[n] : n \in 1..Len(list)}
  <1>1. list # None /\ DOMAIN list = 1..Len(list)
    BY LenProperties
  <1>2. CASE list = <<>>
    <2>1. Listed(Published(list)) = {}
      BY <1>2 DEF Published, Listed
    <2>2. {list[n] : n \in 1..Len(list)} = {}
      BY <1>2
    <2> QED
      BY <2>1, <2>2
  <1>3. CASE list # <<>>
    BY <1>1, <1>3 DEF Published, Listed, ToSet
  <1> QED
    BY <1>2, <1>3

\* Whatever the options of a Service that starts, its Inspect document promises no way to
\* authenticate that is not a Grant Type it can be asked for, and the commands for credentials
\* if and only if there is something to grant (Service.__init__ of service/service.py).
THEOREM PublishedIsServed ==
  ASSUME NEW options, options.grantTypes \in Seq(GrantType), options.authentication \in Seq(STRING),
         None \notin Seq(STRING)
  PROVE  PromisesKept(options)
  <1> DEFINE document == DocumentOf(options)
             defined == options.grantTypes
             methods == options.authentication
             supported == ToSet(document.commands.supported)
             types == Listed(document.commands.grantTypes)
  <1> SUFFICES ASSUME Configured(options)
               PROVE  /\ Listed(document.authentication) \ {Jwt} \subseteq types
                      /\ "grant" \in supported <=> types # {}
                      /\ "grant" \in supported <=> "revoke" \in supported
    BY DEF PromisesKept
  <1>1. \A method \in ToSet(methods) \ {Jwt} :
          \E n \in 1..Len(defined) : defined[n].type = method
    BY DEF Configured, ValidMethods
  <1>2. /\ document.commands.grantTypes = Published(TypesOf(options))
        /\ document.authentication = Published(methods)
        /\ document.commands.supported = CommandsOf(options)
    BY DEF DocumentOf
  <1> HIDE DEF document
  <1>3. TypesOf(options) \in Seq(STRING) /\ Len(TypesOf(options)) = Len(defined)
        /\ Len(defined) \in Nat
        /\ \A n \in 1..Len(defined) : TypesOf(options)[n] = defined[n].type
    <2>1. Len(defined) \in Nat /\ \A n \in 1..Len(defined) : defined[n] \in GrantType
      BY LenProperties
    <2>2. \A n \in 1..Len(defined) : defined[n].type \in STRING
      BY <2>1 DEF GrantType
    <2> HIDE DEF defined
    <2>3. TypesOf(options) = [n \in 1..Len(defined) |-> defined[n].type]
      BY DEF TypesOf, defined
    <2> QED
      BY <2>1, <2>2, <2>3
  <1>4. types = {defined[n].type : n \in 1..Len(defined)}
    <2>1. types = {TypesOf(options)[n] : n \in 1..Len(TypesOf(options))}
      BY <1>2, <1>3, ListedPublished
    <2> QED
      BY <1>3, <2>1
  <1>5. Listed(document.authentication) = ToSet(methods)
    <2>1. Listed(document.authentication) = {methods[n] : n \in 1..Len(methods)}
      BY <1>2, ListedPublished
    <2>2. DOMAIN methods = 1..Len(methods)
      BY LenProperties
    <2> QED
      BY <2>1, <2>2 DEF ToSet
  <1> HIDE DEF types, methods
  <1>6. Listed(document.authentication) \ {Jwt} \subseteq types
    BY <1>1, <1>4, <1>5
  <1>7. types # {} <=> defined # <<>>
    <2>1. defined = <<>> <=> Len(defined) = 0
      BY EmptySeq
    <2> QED
      <3>1. CASE Len(defined) = 0
        BY <1>4, <2>1, <3>1
      <3>2. CASE Len(defined) # 0
        <4>1. 1 \in 1..Len(defined)
          BY <1>3, <3>2
        <4>2. defined[1].type \in types
          BY <1>4, <4>1
        <4> QED
          BY <2>1, <3>2, <4>2
      <3> QED
        BY <3>1, <3>2
  <1>8. /\ defined # <<>> => "grant" \in supported /\ "revoke" \in supported
        /\ defined = <<>> => "grant" \notin supported /\ "revoke" \notin supported
    <2>1. /\ "grant" \in ToSet(<<"enroll", "grant", "inspect", "revoke", "status">>)
          /\ "revoke" \in ToSet(<<"enroll", "grant", "inspect", "revoke", "status">>)
          /\ "grant" \notin ToSet(<<"enroll", "inspect", "status">>)
          /\ "revoke" \notin ToSet(<<"enroll", "inspect", "status">>)
      BY DEF ToSet
    <2> QED
      BY <1>2, <2>1 DEF CommandsOf
  <1> QED
    BY <1>6, <1>7, <1>8
=============================================================================
