-------------------------------- MODULE ServiceHttp --------------------------------
(***************************************************************************)
(* A Service behind HTTP (adapters/asgi.py over service/service.py):       *)
(* AepAsgiApplication serves the Inspect document and the commands,        *)
(* AepAuthenticationMiddleware lets requests through to protected          *)
(* resources.  A task is one HTTP request; its steps are the stretches     *)
(* between two awaits.  The stores appear by what their own modules show:  *)
(* an assertion is consumed once (AssertionReplay), one execution runs per *)
(* key and its answer is kept (Idempotency), a Revoke revokes all it       *)
(* selects (ServiceCredentials), and an Enroll keeps the standing of a     *)
(* known Agent (Enrollment).                                               *)
(***************************************************************************)
EXTENDS Naturals, FiniteSets, Sequences, SequencesExt, ServiceConfiguration

CONSTANTS
  Tasks, Agents, Keys,
  Ambiguous,    \* what a request presents that presents more than one thing
  Assertions,   \* client assertions,
  ClaimsOf,     \* what they claim: ClaimsOf[a] is the Agent and the operation,
  Valid,        \* and those that _valid_assertion finds nothing wrong with
  Options,      \* the Service's options
  WithinLimits(_), \* ClaimsWithinLimits (ClaimLimits) for their limits
  Etag,         \* the ETag of the Inspect document
  Contents,     \* what a body says, if it is an object
  Asks,         \* Asks[t]: the requests that t may be
  MaxChanges    \* bound on the application's changes of an enrollment

Commands == {"enroll", "grant", "revoke"}

\* The Inspect document, its commands and its ways to authenticate.
Document == DocumentOf(Options)
Supported == ToSet(Document.commands.supported)
Methods == Listed(Document.authentication)
RequiredClaims == IF Document.claims = None THEN {} ELSE Listed(Document.claims.required)
DocumentIds == {d.id : d \in Listed(Document.documents)}
RequiredDocuments ==
  {d.id : d \in {e \in Listed(Document.documents) : e.enrollment = "required"}}

\* The value of an Authorization field.  A scheme of AEP's that the rest does not follow is
\* not proper, and a comma makes a value ambiguous in the dedicated field.
Value == [scheme : {"AEP", "Bearer", "Basic", "other"}, proper : BOOLEAN, comma : BOOLEAN,
          credentials : Assertions \cup Tasks]
\* A body is over the limit or not, and what it says is None if it is not an object.
Bodies == [large : BOOLEAN, content : Contents \cup {None}]
\* A field may be there several times: the standard and the dedicated authorization, others
\* that hold a credential, the key and the media type.
Request == [path : Commands \cup {"status", "inspect", "resource", "elsewhere"},
            method : {"GET", "HEAD", "POST"}, standard : Seq(Value), dedicated : Seq(Value),
            others : SUBSET Tasks, keys : Seq(Keys), types : Seq({"aep", "json"}), body : Bodies,
            etags : SUBSET {Etag, "*", "other"}]

ASSUME HttpAssumption ==
  /\ None \notin Tasks \cup Agents \cup Keys \cup Assertions \cup Malformed
  /\ Ambiguous # None /\ Ambiguous \notin Value /\ None \notin Value
  /\ Assertions \cap Tasks = {}
  /\ ClaimsOf \in [Assertions -> [sub : Agents, op : Commands \cup {"status", "authenticate"}]]
  /\ Valid \subseteq Assertions
  /\ Configured(Options)
  /\ \A t \in Tasks : \A r \in Asks[t] : r \in Request
  /\ MaxChanges \in Nat

VARIABLES
  pc, request, reply,
  accepted,       \* accepted[t]: the assertion that was consumed for t
  principal,      \* principal[t]: the Agent on whose behalf t is passed on
  used,           \* the replay store
  running, memo,  \* the idempotency store: the executions, and the answers
  standing, acked, \* the enrollment store: status and acknowledged documents
  granted,        \* the credentials: granted[t] is the Agent that t made one for
  revoked,
  changes,
  effects         \* history: the commands that were carried out

store == <<used, running, memo, standing, acked, granted, revoked>>
vars == <<pc, request, reply, accepted, principal, store, changes, effects>>

Standings == {"none", "pending", "active", "suspended", "rejected"}
Slots == Agents \X Commands \X Keys
Answer == [code : {200, 400, 401, 403, 422}, standing : Standings, credential : Tasks \cup {None}]
Reply == Answer \cup [code : {200, 304, 400, 401, 405, 409, 413, 500}, content : BOOLEAN]
Effect == [slot : Slots, content : Contents, by : Tasks]

\* None is no record of any kind.
ASSUME NoneAssumption ==
  None \notin Request \cup Reply \cup [content : Contents, answer : Answer]
                 \cup [request : Contents, by : Tasks, at : Nat]

TypeOK ==
  /\ pc \in [Tasks -> {"idle", "reading", "authenticating", "finding", "sessions", "checking",
                       "entering", "executing", "issuing", "passed", "done", "gone"}]
  /\ request \in [Tasks -> Request \cup {None}]
  /\ reply \in [Tasks -> Reply \cup {None}]
  /\ accepted \in [Tasks -> Assertions \cup {None}]
  /\ principal \in [Tasks -> Agents \cup {None}]
  /\ used \subseteq Assertions
  /\ running \in [Slots -> Tasks \cup {None}]
  /\ memo \in [Slots -> [content : Contents, answer : Answer] \cup {None}]
  /\ standing \in [Agents -> Standings] /\ acked \in [Agents -> SUBSET DocumentIds]
  /\ granted \in [Tasks -> Agents \cup {None}] /\ revoked \subseteq Tasks
  /\ changes \in 0..MaxChanges /\ effects \subseteq Effect

Init ==
  /\ pc = [t \in Tasks |-> "idle"] /\ request = [t \in Tasks |-> None]
  /\ reply = [t \in Tasks |-> None]
  /\ accepted = [t \in Tasks |-> None] /\ principal = [t \in Tasks |-> None]
  /\ used = {} /\ running = [s \in Slots |-> None] /\ memo = [s \in Slots |-> None]
  /\ standing \in [Agents -> {"none", "active"}]
  /\ acked = [g \in Agents |-> IF standing[g] = "none" THEN {} ELSE DocumentIds]
  /\ granted = [t \in Tasks |-> None] /\ revoked = {}
  /\ changes = 0 /\ effects = {}
-----------------------------------------------------------------------------
(* What a request presents *)

Recognized(value) == value.scheme # "other" /\ value.proper
RecognizedIn(values) == {n \in DOMAIN values : Recognized(values[n])}  \* positions

\* A field that is there once has a value.
Single(values) == IF Len(values) = 1 THEN values[1] ELSE None

\* The assertion of a command is the one standard value, if its scheme is AEP.
CommandAssertion(r) ==
  LET value == Single(r.standard) IN
  IF value # None /\ Recognized(value) /\ value.scheme = "AEP" THEN value.credentials ELSE None

EtagMatches(r) == r.etags \cap {"*", Etag} # {}
TypedAsCommand(r) == Single(r.types) = "aep"

\* Mutant: the dedicated field goes before the standard one.
FirstPresentation(r) ==
  IF r.dedicated # <<>> THEN
    IF Recognized(r.dedicated[1]) THEN r.dedicated[1] ELSE Ambiguous
  ELSE IF RecognizedIn(r.standard) = {} THEN None
  ELSE r.standard[CHOOSE n \in RecognizedIn(r.standard) : TRUE]

\* _select_presentation: the value that is presented, None, or Ambiguous.
Presentation(r) ==
  LET recognized == RecognizedIn(r.standard) IN
  IF r.dedicated # <<>> THEN
    IF /\ Len(r.dedicated) = 1 /\ Recognized(r.dedicated[1]) /\ ~r.dedicated[1].comma
       /\ recognized = {}
    THEN r.dedicated[1] ELSE Ambiguous
  ELSE IF \/ \E v \in ToSet(r.standard) : v.scheme # "other" /\ ~Recognized(v)
          \/ recognized # {} /\ Len(r.standard) > 1
       THEN Ambiguous
  ELSE IF recognized = {} THEN None ELSE r.standard[1]

MethodOf(value) ==
  CASE value.scheme = "AEP" -> "aep-jwt"
    [] value.scheme = "Basic" -> "basic"
    [] OTHER -> "oauth-bearer"
-----------------------------------------------------------------------------
(* Routing *)

Respond(t, response) ==
  /\ pc' = [pc EXCEPT ![t] = "done"]
  /\ reply' = [reply EXCEPT ![t] = response]
GoTo(t, where) == pc' = [pc EXCEPT ![t] = where] /\ UNCHANGED reply
Status(code) == [code |-> code, content |-> TRUE]

Safe(r) == r.method \in {"GET", "HEAD"}

ServeInspect(t, r) ==
  Respond(t, IF ~Safe(r) THEN Status(405)
             ELSE IF EtagMatches(r) THEN [code |-> 304, content |-> FALSE]
             ELSE [code |-> 200, content |-> r.method # "HEAD"])

ServeCommand(t, r) ==
  IF r.path = "status"
  THEN IF Safe(r) THEN GoTo(t, "authenticating") ELSE Respond(t, Status(405))
  ELSE IF r.method # "POST" THEN Respond(t, Status(405))
  ELSE IF ~TypedAsCommand(r) THEN Respond(t, Status(400))
  ELSE GoTo(t, "reading")

ServeResource(t, r) ==
  LET presented == Presentation(r) IN
  IF presented = Ambiguous THEN Respond(t, Status(401))
  ELSE IF presented = None THEN GoTo(t, "sessions")
  ELSE IF MethodOf(presented) \notin Methods THEN Respond(t, Status(401))
  ELSE GoTo(t, IF presented.scheme = "AEP" THEN "authenticating" ELSE "sessions")

Receive(t, r) ==
  /\ pc[t] = "idle"
  /\ request' = [request EXCEPT ![t] = r]
  /\ \/ r.path = "inspect" /\ ServeInspect(t, r)
     \/ r.path = "resource" /\ ServeResource(t, r)
     \/ r.path \in Supported \ {"inspect"} /\ ServeCommand(t, r)
     \/ r.path \notin Supported \cup {"inspect", "resource"} /\ GoTo(t, "passed")
  /\ UNCHANGED <<accepted, principal, store, changes, effects>>

\* The body arrives, within the limit or not, or the client is gone first.
ReadBody(t) ==
  /\ pc[t] = "reading"
  /\ IF request[t].body.large THEN Respond(t, Status(413)) ELSE GoTo(t, "authenticating")
  /\ UNCHANGED <<request, accepted, principal, store, changes, effects>>

Disconnect(t) ==
  /\ pc[t] = "reading"
  /\ GoTo(t, "gone")
  /\ UNCHANGED <<request, accepted, principal, store, changes, effects>>
-----------------------------------------------------------------------------
(* Authentication *)

Shown(r) == IF r.path = "resource" THEN Presentation(r).credentials ELSE CommandAssertion(r)
Operation(r) == IF r.path = "resource" THEN "authenticate" ELSE r.path
Acceptable(t) ==
  LET a == Shown(request[t]) IN
  /\ a \in Valid \ used
  /\ ClaimsOf[a].op = Operation(request[t])

\* What is wrong with a command is looked at once its assertion is consumed.
Wellformed(r, sub) ==
  LET content == r.body.content IN
  /\ content # None /\ Single(r.keys) # None
  /\ CASE r.path = "enroll" -> /\ ValidEnrollRequest(content) /\ content.agent = sub
                               /\ content.key \in {None, Single(r.keys)}
                               /\ content.claims = None \/ WithinLimits(content.sized)
       [] r.path = "grant" -> ValidGrantRequest(content)
       [] r.path = "revoke" -> ValidRevokeRequest(content)

Consume(t) ==
  LET r == request[t]  a == Shown(r) IN
  /\ pc[t] = "authenticating" /\ Acceptable(t)
  /\ used' = used \cup {a}
  /\ accepted' = [accepted EXCEPT ![t] = a]
  /\ principal' = [principal EXCEPT ![t] = ClaimsOf[a].sub]
  /\ IF r.path = "status" THEN GoTo(t, "finding")
     ELSE IF r.path = "resource" THEN GoTo(t, "checking")
     ELSE IF Wellformed(r, ClaimsOf[a].sub) THEN GoTo(t, "entering")
     ELSE Respond(t, Status(400))
  /\ UNCHANGED <<request, running, memo, standing, acked, granted, revoked, changes,
                 effects>>

\* There is no assertion, the verifier or _valid_assertion refuses it, or it was used.
Refuse(t) ==
  /\ pc[t] = "authenticating"
  /\ Respond(t, Status(401))
  /\ UNCHANGED <<request, accepted, principal, store, changes, effects>>

FindStatus(t) ==
  LET s == standing[principal[t]] IN
  /\ pc[t] = "finding"
  /\ Respond(t, [code |-> IF s = "none" THEN 401 ELSE 200, standing |-> s,
                 credential |-> None])
  /\ UNCHANGED <<request, accepted, principal, store, changes, effects>>

\* The authenticators are asked one after another, until one knows a credential.
Credentials(r) ==
  r.others \cup (IF Presentation(r) = None THEN {} ELSE {Presentation(r).credentials})

\* Mutant: the principal is the credential, and not the Agent it was granted to.
FindCredential(t, c) ==
  /\ pc[t] = "sessions"
  /\ c \in Credentials(request[t]) \ revoked /\ granted[c] # None
  /\ principal' = [principal EXCEPT ![t] = c]
  /\ GoTo(t, "checking")
  /\ UNCHANGED <<request, accepted, store, changes, effects>>

FindSession(t, c) ==
  /\ pc[t] = "sessions"
  /\ c \in Credentials(request[t]) \ revoked /\ granted[c] # None
  /\ principal' = [principal EXCEPT ![t] = granted[c]]
  /\ GoTo(t, "checking")
  /\ UNCHANGED <<request, accepted, store, changes, effects>>

\* None was shown, or those that were are unknown, revoked or expired by now.
FindNoSession(t) ==
  /\ pc[t] = "sessions"
  /\ Respond(t, Status(401))
  /\ UNCHANGED <<request, accepted, principal, store, changes, effects>>

\* A request goes on to the application if its Agent is active.
CheckActive(t) ==
  /\ pc[t] = "checking"
  /\ IF standing[principal[t]] = "active" THEN GoTo(t, "passed") ELSE Respond(t, Status(401))
  /\ UNCHANGED <<request, accepted, principal, store, changes, effects>>
-----------------------------------------------------------------------------
(* Idempotent execution *)

SlotOf(t) == <<principal[t], request[t].path, Single(request[t].keys)>>

\* Mutant: an execution that runs for the key is not waited for.
EnterUnguarded(t) ==
  LET slot == SlotOf(t) IN
  /\ pc[t] = "entering"
  /\ IF memo[slot] = None
     THEN /\ running' = [running EXCEPT ![slot] = t] /\ GoTo(t, "executing")
     ELSE /\ Respond(t, IF memo[slot].content = request[t].body.content THEN memo[slot].answer
                        ELSE Status(409))
          /\ UNCHANGED running
  /\ UNCHANGED <<request, accepted, principal, used, memo, standing, acked, granted, revoked, changes,
                 effects>>

Enter(t) ==
  LET slot == SlotOf(t) IN
  /\ pc[t] = "entering" /\ running[slot] = None
  /\ IF memo[slot] = None
     THEN /\ running' = [running EXCEPT ![slot] = t] /\ GoTo(t, "executing")
     ELSE /\ Respond(t, IF memo[slot].content = request[t].body.content THEN memo[slot].answer
                        ELSE Status(409))
          /\ UNCHANGED running
  /\ UNCHANGED <<request, accepted, principal, used, memo, standing, acked, granted, revoked, changes,
                 effects>>

Complete(t, answer, changed) ==
  LET slot == SlotOf(t)  content == request[t].body.content IN
  /\ running' = [running EXCEPT ![slot] = None]
  /\ memo' = [memo EXCEPT ![slot] = [content |-> content, answer |-> answer]]
  /\ Respond(t, answer)
  /\ effects' =
       effects \cup (IF changed THEN {[slot |-> slot, content |-> content, by |-> t]} ELSE {})

Outcome(code, s, credential) == [code |-> code, standing |-> s, credential |-> credential]

\* The documents that are acknowledged, if the Service advertises that they can be.
Declared(content) ==
  IF content.documents # None /\ DocumentsExtension \in Listed(Document.extensions)
  THEN [given |-> TRUE, ids |-> ToSet(content.documents) \cap DocumentIds]
  ELSE [given |-> FALSE, ids |-> {}]

MissingDocuments(agent) == RequiredDocuments \ acked[agent]

\* A new Agent must give the required claims and speak of the documents; it gets the
\* standing that the policy decides.
EnrollNew(t, s) ==
  LET sub == principal[t]  content == request[t].body.content  declared == Declared(content)
      claims == IF content.claims = None THEN {} ELSE DOMAIN content.claims
      unmet == RequiredClaims \ claims # {} \/ (~declared.given /\ RequiredDocuments # {})
  IN
  /\ pc[t] = "executing" /\ request[t].path = "enroll" /\ standing[sub] = "none"
  /\ s \in IF unmet THEN {"none"} ELSE {"pending", "active", "rejected"}
  /\ standing' = [standing EXCEPT ![sub] = s]
  /\ acked' = [acked EXCEPT ![sub] = IF s \in {"none", "rejected"} THEN {} ELSE declared.ids]
  /\ Complete(t, Outcome(IF unmet THEN 422 ELSE 200, s, None), ~unmet)
  /\ UNCHANGED <<request, accepted, principal, used, granted, revoked, changes>>

\* A known Agent keeps its standing; the policy refuses the update, leaves it, or makes it.
EnrollKnown(t, decision) ==
  LET sub == principal[t]  s == standing[sub]  declared == Declared(request[t].body.content)
      unmet == ~declared.given /\ MissingDocuments(sub) # {}
      updated == decision = "update" /\ ~unmet
  IN
  /\ pc[t] = "executing" /\ request[t].path = "enroll" /\ s # "none"
  /\ acked' = IF updated THEN [acked EXCEPT ![sub] = @ \cup declared.ids] ELSE acked
  /\ Complete(t, Outcome(IF decision = "reject" THEN 403
                         ELSE IF decision = "update" /\ unmet THEN 422 ELSE 200, s, None),
              updated)
  /\ UNCHANGED <<request, accepted, principal, used, standing, granted, revoked, changes>>

DefinedTypes == Listed(Document.commands.grantTypes)

\* The problem of an Agent that is not active.
LifecycleCode(s) == IF s = "rejected" THEN 400 ELSE 403

\* A Grant reads the enrollment, and then awaits the credential.
ExecuteGrant(t) ==
  LET sub == principal[t]  s == standing[sub]
      code == IF s = "none" THEN 401
              ELSE IF request[t].body.content.type \notin DefinedTypes THEN 400
              ELSE IF s # "active" THEN LifecycleCode(s)
              ELSE IF MissingDocuments(sub) # {} THEN 422 ELSE 200
  IN
  /\ pc[t] = "executing" /\ request[t].path = "grant"
  /\ IF code = 200
     THEN GoTo(t, "issuing") /\ UNCHANGED <<running, memo, effects>>
     ELSE Complete(t, Outcome(code, s, None), FALSE)
  /\ UNCHANGED <<request, accepted, principal, used, standing, acked, granted, revoked, changes>>

Issue(t) ==
  /\ pc[t] = "issuing"
  /\ granted' = [granted EXCEPT ![t] = principal[t]]
  /\ Complete(t, Outcome(200, "active", t), TRUE)
  /\ UNCHANGED <<request, accepted, principal, used, standing, acked, revoked, changes>>

PerCredential(type) ==
  \E n \in 1..Len(Options.grantTypes) :
    Options.grantTypes[n].type = type /\ Options.grantTypes[n].perCredential

\* What a Revoke selects: one credential, those of a Grant Type, or all of the Agent's.
Selected(t) ==
  LET content == request[t].body.content IN
  {c \in Tasks : /\ granted[c] # None /\ granted[c] = principal[t]
                 /\ content.type \in {None, request[c].body.content.type}
                 /\ content.id \in {None, c}}

ExecuteRevoke(t) ==
  LET sub == principal[t]  s == standing[sub]  content == request[t].body.content
      code == IF s = "none" THEN 401
              ELSE IF content.type # None
                      /\ \/ content.type \notin DefinedTypes
                         \/ content.id # None /\ ~PerCredential(content.type)
              THEN 400 ELSE 200
  IN
  /\ pc[t] = "executing" /\ request[t].path = "revoke"
  /\ revoked' = IF code = 200 THEN revoked \cup Selected(t) ELSE revoked
  /\ Complete(t, Outcome(code, s, None), code = 200)
  /\ UNCHANGED <<request, accepted, principal, used, standing, acked, granted, changes>>

\* The operation raises - code of the application, or a problem that ValidProblem refuses:
\* its key is released, and the server answers.  A Revoke may have revoked part of what it
\* selects before.
Fail(t, part) ==
  /\ pc[t] \in {"executing", "issuing"}
  /\ part # {} => request[t].path = "revoke" /\ part \subseteq Selected(t)
  /\ revoked' = revoked \cup part
  /\ running' = [running EXCEPT ![SlotOf(t)] = None]
  /\ Respond(t, Status(500))
  /\ UNCHANGED <<request, accepted, principal, used, memo, standing, acked, granted, changes,
                 effects>>

\* The application changes the status of an enrollment.
ChangeStanding(g, s) ==
  /\ changes < MaxChanges /\ changes' = changes + 1
  /\ standing[g] # "none" /\ s \notin {"none", standing[g]}
  /\ standing' = [standing EXCEPT ![g] = s]
  /\ UNCHANGED <<pc, request, reply, accepted, principal, used, running, memo, acked, granted,
                 revoked,
                 effects>>
-----------------------------------------------------------------------------
Proceed(t) ==
  \/ ReadBody(t) \/ Disconnect(t) \/ Consume(t) \/ Refuse(t)
  \/ FindStatus(t) \/ FindNoSession(t) \/ CheckActive(t)
  \/ Enter(t) \/ ExecuteGrant(t) \/ Issue(t) \/ ExecuteRevoke(t)
  \/ \E part \in SUBSET Tasks : Fail(t, part)
  \/ \E s \in Standings : EnrollNew(t, s)
  \/ \E decision \in {"reject", "keep", "update"} : EnrollKnown(t, decision)
  \/ \E c \in Tasks : FindSession(t, c)

Next ==
  \/ \E t \in Tasks : Proceed(t) \/ \E r \in Asks[t] : Receive(t, r)
  \/ \E g \in Agents, s \in Standings : ChangeStanding(g, s)

Spec == Init /\ [][Next]_vars
-----------------------------------------------------------------------------
(* Properties *)

\* A command takes effect for the Agent and the operation of the assertion that came with
\* it, which no other request was accepted with; it is carried out
\* once for a key, for a request that is told it was; and who was told the outcome of a command was
\* told the same as everyone who repeated it.
Told(t) == request[t] # None /\ request[t].path \in Commands /\ reply[t] \in Answer
EffectsJustified ==
  /\ \A t, u \in Tasks : accepted[t] # None /\ accepted[t] = accepted[u] => t = u
  /\ \A e \in effects :
       /\ accepted[e.by] # None
       /\ e.slot[1] = ClaimsOf[accepted[e.by]].sub
       /\ e.slot[2] = ClaimsOf[accepted[e.by]].op
       /\ pc[e.by] = "done" /\ reply[e.by].code = 200
       /\ \A f \in effects : e.slot = f.slot => e = f
  /\ \A t, u \in Tasks : Told(t) /\ Told(u) /\ SlotOf(t) = SlotOf(u) => reply[t] = reply[u]

\* The application sees a request for a protected resource on behalf of an Agent only if it
\* presented at most one thing in the two fields, and was authenticated by an assertion for
\* the resource that it alone was accepted with, or by a credential it showed.
PrincipalJustified ==
  \A t \in Tasks : pc[t] = "passed" /\ request[t].path = "resource" =>
    LET r == request[t]  values == r.standard \o r.dedicated IN
    /\ \A n, m \in RecognizedIn(values) : n = m
    /\ \/ /\ accepted[t] # None
          /\ \E n \in RecognizedIn(values) : accepted[t] = values[n].credentials
          /\ ClaimsOf[accepted[t]] = [sub |-> principal[t], op |-> "authenticate"]
       \/ \E c \in Credentials(r) \cap Tasks : granted[c] = principal[t]
=============================================================================
