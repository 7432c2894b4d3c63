----------------------- MODULE ServiceCredentials_proofs -----------------------
(***************************************************************************)
(* Proofs about ServiceCredentials, for any number of concurrent commands  *)
(* and requests, Agents, Grant Types and credentials, and any issuer.      *)
(***************************************************************************)
EXTENDS ServiceCredentials, SequenceTheorems, TLAPS

\* A Grant that stores has a credential to store.
GrantOffers(t) ==
  /\ pc[t] \in {"issuing", "saving"} => job[t] \in Job /\ job[t].op = "grant"
  /\ pc[t] = "saving" => local[t].offer \in Credential

\* What a Revoke selected is its Agent's, and revoked already or of a type still to come.
RevokeProgresses(t) ==
  pc[t] = "revoking" =>
    /\ job[t] \in Job /\ job[t].op = "revoke" /\ local[t].todo # <<>>
    /\ job[t].selector.type = None \/ local[t].todo = <<job[t].selector.type>>
    /\ \A i \in seen[t] :
         /\ store[i] # None
         /\ store[i].agent = job[t].agent
         /\ job[t].selector.id \in {i, None}
         /\ store[i].revoked \/ store[i].type \in ToSet(local[t].todo)

\* What was invalid when a request came is still invalid to the request.
InvalidStays(t) ==
  pc[t] \in {"probing", "matching"} =>
    /\ job[t] \in Job /\ job[t].op = "access" /\ local[t].todo # <<>>
    /\ \A i \in seen[t] :
         store[i] # None /\ (store[i].revoked \/ store[i].expires <= local[t].at)

\* The credential of a principal is one that the task may be authenticated by.
Genuine(t, principal) ==
  /\ principal.id \in Ids /\ store[principal.id] # None
  /\ store[principal.id].agent = principal.agent
  /\ [type |-> store[principal.id].type, header |-> store[principal.id].header,
      secret |-> store[principal.id].secret] \in job[t].shown
  /\ principal.id \notin seen[t]

PrincipalGenuine(t) ==
  /\ pc[t] = "checking" =>
       /\ local[t].principal \in Principal
       /\ job[t].op = "access" => Genuine(t, local[t].principal)
  /\ reply[t] # None /\ reply[t].code = "authenticated" /\ job[t].op = "access" =>
       Genuine(t, reply[t].principal)

\* Nothing is answered before the end, and a Revoke answers when all is revoked.
AnswersLast(t) ==
  /\ pc[t] # "done" => reply[t] = None
  /\ reply[t] # None /\ reply[t].code = "revoked" =>
       \A i \in seen[t] : store[i] # None /\ store[i].revoked

TaskInv(t) ==
  /\ GrantOffers(t)
  /\ RevokeProgresses(t)
  /\ InvalidStays(t)
  /\ PrincipalGenuine(t)
  /\ AnswersLast(t)

IInv == TypeOK /\ SecretsIdentify /\ \A t \in Tasks : TaskInv(t)
-----------------------------------------------------------------------------
(* What every step does to the store, and to the tasks that do not take it. *)

Evolves ==
  \A i \in Ids : store[i] # None =>
    /\ store'[i] # None
    /\ [store'[i] EXCEPT !.revoked = FALSE] = [store[i] EXCEPT !.revoked = FALSE]
    /\ store[i].revoked => store'[i].revoked

OthersWait(t) ==
  \A u \in Tasks \ {t} : /\ pc'[u] = pc[u] /\ job'[u] = job[u] /\ local'[u] = local[u]
                         /\ reply'[u] = reply[u] /\ seen'[u] = seen[u]

PCs == {"idle", "issuing", "saving", "revoking", "probing", "matching", "checking", "done"}

\* Field by field, a stored credential only gets revoked.
LEMMA EvolvesFields ==
  ASSUME TypeOK, TypeOK', Evolves, NEW i \in Ids, store[i] # None
  PROVE  /\ store'[i] # None
         /\ store'[i].agent = store[i].agent /\ store'[i].type = store[i].type
         /\ store'[i].header = store[i].header /\ store'[i].secret = store[i].secret
         /\ store'[i].expires = store[i].expires
         /\ store[i].revoked => store'[i].revoked
  <1>1. store[i] \in Stored /\ store'[i] \in Stored
    BY DEF TypeOK, Evolves
  <1>2. [store'[i] EXCEPT !.revoked = FALSE] = [store[i] EXCEPT !.revoked = FALSE]
    BY DEF Evolves
  <1>3. /\ [store'[i] EXCEPT !.revoked = FALSE].agent = [store[i] EXCEPT !.revoked = FALSE].agent
        /\ [store'[i] EXCEPT !.revoked = FALSE].type = [store[i] EXCEPT !.revoked = FALSE].type
        /\ [store'[i] EXCEPT !.revoked = FALSE].header = [store[i] EXCEPT !.revoked = FALSE].header
        /\ [store'[i] EXCEPT !.revoked = FALSE].secret = [store[i] EXCEPT !.revoked = FALSE].secret
        /\ [store'[i] EXCEPT !.revoked = FALSE].expires = [store[i] EXCEPT !.revoked = FALSE].expires
    BY <1>2
  <1>4. QED
    BY <1>1, <1>3 DEF Stored, Evolves

LEMMA OthersKeep ==
  ASSUME IInv, TypeOK', Evolves, NEW u \in Tasks,
         pc'[u] = pc[u], job'[u] = job[u], local'[u] = local[u],
         reply'[u] = reply[u], seen'[u] = seen[u]
  PROVE  TaskInv(u)'
  <1>1. \A i \in Ids : store[i] # None =>
          /\ store'[i] # None
          /\ store'[i].agent = store[i].agent /\ store'[i].type = store[i].type
          /\ store'[i].header = store[i].header /\ store'[i].secret = store[i].secret
          /\ store'[i].expires = store[i].expires
          /\ store[i].revoked => store'[i].revoked
    BY EvolvesFields DEF IInv
  <1>2. seen[u] \subseteq Ids /\ TaskInv(u)
    BY DEF IInv, TypeOK
  <1>3. GrantOffers(u)'
    BY <1>2 DEF TaskInv, GrantOffers
  <1>4. RevokeProgresses(u)'
    BY <1>1, <1>2 DEF TaskInv, RevokeProgresses
  <1>5. InvalidStays(u)'
    BY <1>1, <1>2 DEF TaskInv, InvalidStays
  <1>6. PrincipalGenuine(u)'
    BY <1>1, <1>2 DEF TaskInv, PrincipalGenuine, Genuine
  <1>7. AnswersLast(u)'
    BY <1>1, <1>2 DEF TaskInv, AnswersLast
  <1>8. QED
    BY <1>3, <1>4, <1>5, <1>6, <1>7 DEF TaskInv

LEMMA SameStore ==
  ASSUME IInv, UNCHANGED store
  PROVE  Evolves /\ SecretsIdentify'
  BY DEF IInv, Evolves, SecretsIdentify

\* A task takes a step: what is left to show is about the task and the store.
LEMMA TaskStep ==
  ASSUME IInv, TypeOK', Evolves, SecretsIdentify', NEW t \in Tasks, OthersWait(t), TaskInv(t)'
  PROVE  IInv'
  <1>1. \A u \in Tasks \ {t} : TaskInv(u)'
    BY OthersKeep DEF OthersWait
  <1>2. QED
    BY <1>1 DEF IInv
-----------------------------------------------------------------------------
(* Sequences of Grant Types *)

LEMMA ConfiguredSequences ==
  /\ Configured \subseteq Types
  /\ GrantTypes \in Seq(Types) /\ Methods \in Seq(Types)
  <1>1. GrantTypes \in Seq(Types)
    BY ConfigurationAssumption
  <1>2. Configured \subseteq Types
    BY <1>1 DEF Configured, ToSet
  <1>3. Methods \in Seq(Configured)
    BY ConfigurationAssumption
  <1>4. Methods \in Seq(Types)
    BY <1>2, <1>3
  <1>5. QED
    BY <1>1, <1>2, <1>4

LEMMA InToSet == ASSUME NEW s \in Seq(Types), NEW i \in 1..Len(s) PROVE s[i] \in ToSet(s)
  BY DEF ToSet

LEMMA HeadOrTail ==
  ASSUME NEW s \in Seq(Types), s # <<>>, NEW type \in ToSet(s)
  PROVE  type = Head(s) \/ type \in ToSet(Tail(s))
  <1>1. PICK i \in 1..Len(s) : type = s[i]
    BY DEF ToSet
  <1>2. CASE i = 1
    BY <1>1, <1>2
  <1>3. CASE i # 1
    <2>1. i - 1 \in 1..Len(Tail(s)) /\ Tail(s)[i - 1] = s[i]
      BY <1>1, <1>3, HeadTailProperties
    <2>2. Tail(s) \in Seq(Types)
      BY HeadTailProperties
    <2>3. Tail(s)[i - 1] \in ToSet(Tail(s))
      BY <2>1, <2>2, InToSet
    <2>4. QED
      BY <1>1, <2>1, <2>3
  <1>4. QED
    BY <1>2, <1>3

LEMMA BlankLocal == Blank \in Local
  <1>1. 0 \in 0..MaxTime
    BY BoundsAssumption
  <1>2. QED
    BY <1>1 DEF Blank, Local

Refusals == {"not_recognized", "unsupported_grant_type", "lifecycle", "requirements_unmet",
             "unsupported_authentication_method", "authentication_required",
             "invalid_request", "error"}

LEMMA RefusalType ==
  \A code \in Refusals \cup {"revoked"} : [code |-> code] \in Reply /\ [code |-> code] # None
  <1>1. \A code \in Refusals \cup {"revoked"} : [code |-> code] \in Reply
    BY DEF Refusals, Reply
  <1>2. QED
    BY <1>1, NoneAssumption
-----------------------------------------------------------------------------
LEMMA InitInv == Init => IInv
  <1> SUFFICES ASSUME Init PROVE IInv
    OBVIOUS
  <1>1. TypeOK
    BY BlankLocal, BoundsAssumption DEF Init, TypeOK
  <1>2. SecretsIdentify
    BY DEF Init, SecretsIdentify
  <1>3. ASSUME NEW t \in Tasks PROVE TaskInv(t)
    BY DEF Init, TaskInv, GrantOffers, RevokeProgresses, InvalidStays, PrincipalGenuine,
           AnswersLast
  <1>4. QED
    BY <1>1, <1>2, <1>3 DEF IInv

\* A task is refused at once, or in the middle of what it does.
LEMMA RefuseStep ==
  ASSUME IInv, NEW t \in Tasks, NEW code \in Refusals, Refuse(t, code),
         UNCHANGED <<world, store>>,
         job' \in [Tasks -> Job \cup {None}], seen' \in [Tasks -> SUBSET Ids],
         \A u \in Tasks \ {t} : job'[u] = job[u] /\ seen'[u] = seen[u]
  PROVE  IInv'
  <1>1. /\ pc' = [pc EXCEPT ![t] = "done"] /\ local' = [local EXCEPT ![t] = Blank]
        /\ reply' = [reply EXCEPT ![t] = [code |-> code]]
        /\ UNCHANGED <<now, standing, changes, store>>
    BY DEF Refuse, Answer, world
  <1>2. TypeOK'
    BY <1>1, BlankLocal, RefusalType DEF IInv, TypeOK
  <1>3. OthersWait(t)
    BY <1>1 DEF IInv, TypeOK, OthersWait
  <1>4. TaskInv(t)'
    <2>1. pc'[t] = "done" /\ reply'[t].code = code
      BY <1>1 DEF IInv, TypeOK
    <2>2. code # "authenticated" /\ code # "revoked"
      BY DEF Refusals
    <2>3. QED
      BY <2>1, <2>2 DEF TaskInv, GrantOffers, RevokeProgresses, InvalidStays,
                        PrincipalGenuine, AnswersLast
  <1>5. QED
    BY <1>1, <1>2, <1>3, <1>4, SameStore, TaskStep

\* A task goes on to another await, and leaves the store alone.
LEMMA GoToStep ==
  ASSUME IInv, NEW t \in Tasks, pc[t] # "done", NEW where \in PCs \ {"done"},
         NEW locals \in Local, GoTo(t, where, locals),
         UNCHANGED <<world, store>>,
         job' \in [Tasks -> Job \cup {None}], seen' \in [Tasks -> SUBSET Ids],
         \A u \in Tasks \ {t} : job'[u] = job[u] /\ seen'[u] = seen[u],
         pc'[t] = where /\ local'[t] = locals =>
           (GrantOffers(t) /\ RevokeProgresses(t) /\ InvalidStays(t))',
         where = "checking" =>
           /\ locals.principal \in Principal
           /\ job'[t].op = "access" =>
                /\ job'[t] = job[t] /\ seen'[t] = seen[t]
                /\ Genuine(t, locals.principal)
  PROVE  IInv'
  <1>1. /\ pc' = [pc EXCEPT ![t] = where] /\ local' = [local EXCEPT ![t] = locals]
        /\ UNCHANGED <<reply, now, standing, changes, store>>
    BY DEF GoTo, world
  <1>2. TypeOK'
    BY <1>1 DEF IInv, TypeOK, PCs
  <1>3. OthersWait(t)
    BY <1>1 DEF IInv, TypeOK, OthersWait
  <1>4. pc'[t] = where /\ local'[t] = locals
    BY <1>1 DEF IInv, TypeOK
  <1>5. reply'[t] = None
    BY <1>1 DEF IInv, TaskInv, AnswersLast
  <1>6. PrincipalGenuine(t)' /\ AnswersLast(t)'
    BY <1>1, <1>4, <1>5 DEF PrincipalGenuine, Genuine, AnswersLast
  <1>7. TaskInv(t)'
    BY <1>4, <1>6 DEF TaskInv
  <1>8. QED
    BY <1>1, <1>2, <1>3, <1>7, SameStore, TaskStep
-----------------------------------------------------------------------------
(* The steps that start a task *)

LEMMA BeginFacts ==
  ASSUME IInv, NEW t \in Tasks, NEW what \in Job, NEW history \in SUBSET Ids,
         Begin(t, what, history)
  PROVE  /\ pc[t] = "idle" /\ UNCHANGED <<world, store>>
         /\ job' \in [Tasks -> Job \cup {None}] /\ seen' \in [Tasks -> SUBSET Ids]
         /\ job'[t] = what /\ seen'[t] = history
         /\ \A u \in Tasks \ {t} : job'[u] = job[u] /\ seen'[u] = seen[u]
  BY DEF IInv, TypeOK, Begin

LEMMA AskGrantStep ==
  ASSUME IInv, NEW t \in Tasks, NEW a \in Agents, NEW type \in Types, AskGrant(t, a, type)
  PROVE  IInv'
  <1> DEFINE what == [op |-> "grant", agent |-> a, type |-> type]
             locals == [Blank EXCEPT !.at = now]
  <1>1. what \in Job /\ what.op = "grant"
    BY DEF Job
  <1>2. /\ pc[t] = "idle" /\ UNCHANGED <<world, store>>
        /\ job' \in [Tasks -> Job \cup {None}] /\ seen' \in [Tasks -> SUBSET Ids]
        /\ job'[t] = what /\ seen'[t] = {}
        /\ \A u \in Tasks \ {t} : job'[u] = job[u] /\ seen'[u] = seen[u]
    BY <1>1, BeginFacts DEF AskGrant
  <1>3. CASE \E code \in Refusals : Refuse(t, code)
    BY <1>2, <1>3, RefuseStep
  <1>4. CASE GoTo(t, "issuing", locals)
    <2>1. locals \in Local
      BY BlankLocal DEF IInv, TypeOK, Local
    <2>2. pc'[t] = "issuing" => (GrantOffers(t) /\ RevokeProgresses(t) /\ InvalidStays(t))'
      BY <1>1, <1>2 DEF GrantOffers, RevokeProgresses, InvalidStays
    <2>3. QED
      BY <1>2, <1>4, <2>1, <2>2, GoToStep DEF PCs
  <1>5. QED
    BY <1>3, <1>4 DEF AskGrant, Refusals

LEMMA AskRevokeStep ==
  ASSUME IInv, NEW t \in Tasks, NEW a \in Agents, NEW selector \in Selectors,
         AskRevoke(t, a, selector)
  PROVE  IInv'
  <1> DEFINE types == IF selector.type = None THEN GrantTypes ELSE <<selector.type>>
             what == [op |-> "revoke", agent |-> a, selector |-> selector]
             history == UNION {Selected(a, selector, type) : type \in ToSet(types)}
             locals == [Blank EXCEPT !.todo = types]
  <1>1. what \in Job /\ what.op = "revoke" /\ what.agent = a /\ what.selector = selector
    BY DEF Job
  <1>2. history \in SUBSET Ids
    BY DEF Selected
  <1>3. /\ pc[t] = "idle" /\ UNCHANGED <<world, store>>
        /\ job' \in [Tasks -> Job \cup {None}] /\ seen' \in [Tasks -> SUBSET Ids]
        /\ job'[t] = what /\ seen'[t] = history
        /\ \A u \in Tasks \ {t} : job'[u] = job[u] /\ seen'[u] = seen[u]
    BY <1>1, <1>2, BeginFacts DEF AskRevoke
  <1>4. CASE \E code \in Refusals : Refuse(t, code)
    BY <1>3, <1>4, RefuseStep
  <1>5. CASE GoTo(t, "revoking", locals)
    <2>1. types \in Seq(Types) /\ types # <<>>
      BY ConfiguredSequences, ConfigurationAssumption, SelectorsAssumption DEF Selector
    <2>2. locals \in Local /\ locals.todo = types
      BY <2>1, BlankLocal DEF Local, Blank
    <2>3. \A i \in history : /\ store[i] # None /\ store[i].agent = a
                             /\ selector.id \in {i, None} /\ store[i].type \in ToSet(types)
      BY DEF Selected
    <2>4. pc'[t] = "revoking" /\ local'[t] = locals =>
            (GrantOffers(t) /\ RevokeProgresses(t) /\ InvalidStays(t))'
      BY <1>1, <1>3, <2>1, <2>2, <2>3 DEF GrantOffers, RevokeProgresses, InvalidStays
    <2>5. QED
      BY <1>3, <1>5, <2>2, <2>4, GoToStep DEF PCs
  <1>6. QED
    BY <1>4, <1>5 DEF AskRevoke, Refusals

LEMMA AskAccessStep ==
  ASSUME IInv, NEW t \in Tasks, NEW shown \in Requests, AskAccess(t, shown)
  PROVE  IInv'
  <1> DEFINE what == [op |-> "access", shown |-> shown]
             history == {i \in Ids : /\ store[i] # None
                                     /\ store[i].revoked \/ store[i].expires <= now}
             locals == [Blank EXCEPT !.at = now, !.todo = Methods,
                                     !.presented = Schemes(shown) # {}]
  <1>1. what \in Job /\ what.op = "access"
    BY DEF Job
  <1>2. /\ pc[t] = "idle" /\ UNCHANGED <<world, store>>
        /\ job' \in [Tasks -> Job \cup {None}] /\ seen' \in [Tasks -> SUBSET Ids]
        /\ job'[t] = what /\ seen'[t] = history
        /\ \A u \in Tasks \ {t} : job'[u] = job[u] /\ seen'[u] = seen[u]
    BY <1>1, BeginFacts DEF AskAccess
  <1>3. CASE \E code \in Refusals : Refuse(t, code)
    BY <1>2, <1>3, RefuseStep
  <1>4. CASE GoTo(t, "probing", locals)
    <2>1. locals \in Local /\ locals.todo = Methods /\ locals.at = now
      BY BlankLocal, ConfiguredSequences DEF IInv, TypeOK, Local, Blank
    <2>2. pc'[t] = "probing" /\ local'[t] = locals =>
            (GrantOffers(t) /\ RevokeProgresses(t) /\ InvalidStays(t))'
      BY <1>1, <1>2, <2>1, ConfigurationAssumption
         DEF GrantOffers, RevokeProgresses, InvalidStays, world
    <2>3. QED
      BY <1>2, <1>4, <2>1, <2>2, GoToStep DEF PCs
  <1>5. QED
    BY <1>3, <1>4 DEF AskAccess, Refusals

LEMMA AskWithAssertionStep ==
  ASSUME IInv, NEW t \in Tasks, NEW a \in Agents, AskWithAssertion(t, a)
  PROVE  IInv'
  <1> DEFINE what == [op |-> "jwt", agent |-> a]
             locals == [Blank EXCEPT !.principal = [agent |-> a, id |-> None]]
  <1>1. what \in Job /\ what.op = "jwt"
    BY DEF Job
  <1>2. /\ pc[t] = "idle" /\ UNCHANGED <<world, store>>
        /\ job' \in [Tasks -> Job \cup {None}] /\ seen' \in [Tasks -> SUBSET Ids]
        /\ job'[t] = what /\ seen'[t] = {}
        /\ \A u \in Tasks \ {t} : job'[u] = job[u] /\ seen'[u] = seen[u]
    BY <1>1, BeginFacts DEF AskWithAssertion
  <1>3. [agent |-> a, id |-> None] \in Principal
    BY DEF Principal
  <1>4. locals \in Local /\ locals.principal \in Principal
    BY <1>3, BlankLocal DEF Local, Blank
  <1>5. pc'[t] = "checking" => (GrantOffers(t) /\ RevokeProgresses(t) /\ InvalidStays(t))'
    BY DEF GrantOffers, RevokeProgresses, InvalidStays
  <1>6. CASE GoTo(t, "checking", locals)
    BY <1>1, <1>2, <1>4, <1>5, <1>6, GoToStep DEF PCs
  <1>7. CASE Refuse(t, "unsupported_authentication_method")
    BY <1>2, <1>7, RefuseStep DEF Refusals
  <1>8. QED
    BY <1>6, <1>7 DEF AskWithAssertion
-----------------------------------------------------------------------------
(* The steps that carry a task on *)

LEMMA AbandonStep == ASSUME IInv, NEW t \in Tasks, Abandon(t) PROVE IInv'
  BY RefuseStep DEF Abandon, Refusals, IInv, TypeOK

LEMMA IssueStep == ASSUME IInv, NEW t \in Tasks, NEW c \in Credentials, Issue(t, c) PROVE IInv'
  <1> DEFINE locals == [local[t] EXCEPT !.offer = c]
  <1>1. /\ pc[t] = "issuing" /\ UNCHANGED <<world, store, job, seen>>
        /\ local[t] \in Local /\ job[t] \in Job /\ job[t].op = "grant"
    BY DEF Issue, IInv, TypeOK, TaskInv, GrantOffers
  <1>2. job' \in [Tasks -> Job \cup {None}] /\ seen' \in [Tasks -> SUBSET Ids]
    BY <1>1 DEF IInv, TypeOK
  <1>3. CASE Refuse(t, "error")
    BY <1>1, <1>2, <1>3, RefuseStep DEF Refusals
  <1>4. CASE GoTo(t, "saving", locals)
    <2>1. c \in Credential
      BY CredentialsAssumption
    <2>2. locals \in Local /\ locals.offer = c
      BY <1>1, <2>1 DEF Local
    <2>3. pc'[t] = "saving" /\ local'[t] = locals =>
            (GrantOffers(t) /\ RevokeProgresses(t) /\ InvalidStays(t))'
      BY <1>1, <2>1, <2>2 DEF GrantOffers, RevokeProgresses, InvalidStays
    <2>4. QED
      BY <1>1, <1>2, <1>4, <2>2, <2>3, GoToStep DEF PCs
  <1>5. QED
    BY <1>3, <1>4 DEF Issue

LEMMA SaveStep ==
  ASSUME IInv, NEW t \in Tasks, Save(t)
  PROVE  IInv' /\ Evolves /\ (\A i \in Ids : store[i] # None => store'[i] = store[i])
  <1> DEFINE c == local[t].offer
             a == job[t].agent
             record == [agent |-> a, type |-> c.type, header |-> c.header, secret |-> c.secret,
                        expires |-> c.expires, revoked |-> FALSE]
             answer == [code |-> "granted", id |-> c.id]
  <1>1. /\ pc[t] = "saving" /\ UNCHANGED <<now, standing, changes, job, seen>>
        /\ c \in Credential /\ a \in Agents
    BY DEF Save, world, IInv, TaskInv, GrantOffers, Job
  <1>2. CASE Refuse(t, "error") /\ UNCHANGED store
    <2>1. job' \in [Tasks -> Job \cup {None}] /\ seen' \in [Tasks -> SUBSET Ids]
      BY <1>1 DEF IInv, TypeOK
    <2>2. IInv'
      BY <1>1, <1>2, <2>1, RefuseStep DEF Refusals, world
    <2>3. QED
      BY <1>2, <2>2, SameStore
  <1>3. CASE ~ InUse(c) /\ Answer(t, answer) /\ store' = [store EXCEPT ![c.id] = record]
    <2>1. record \in Stored /\ record # None /\ c.id \in Ids
      <3>1. c.id \in Ids /\ record \in Stored
        BY <1>1 DEF Stored, Credential
      <3>2. QED
        BY <3>1, NoneAssumption
    <2>2. store[c.id] = None
      BY <1>3, <2>1 DEF InUse
    <2>3. /\ store'[c.id] = record
          /\ \A i \in Ids : i # c.id => store'[i] = store[i]
      BY <1>3, <2>1 DEF IInv, TypeOK
    <2>4. \A i \in Ids : store[i] # None => store'[i] = store[i]
      BY <2>2, <2>3
    <2>5. Evolves
      BY <2>4 DEF Evolves
    <2>6. answer \in Reply /\ answer # None /\ answer.code = "granted"
      <3>1. answer \in Reply
        BY <2>1 DEF Reply
      <3>2. QED
        BY <3>1, NoneAssumption
    <2>7. /\ pc' = [pc EXCEPT ![t] = "done"] /\ local' = [local EXCEPT ![t] = Blank]
          /\ reply' = [reply EXCEPT ![t] = answer]
      BY <1>3 DEF Answer
    <2>8. TypeOK'
      BY <1>1, <1>3, <2>1, <2>6, <2>7, BlankLocal DEF IInv, TypeOK
    <2>9. SecretsIdentify'
      <3>1. \A j \in Ids : store[j] # None /\ store[j].type = c.type /\ store[j].header = c.header
              => store[j].secret # c.secret
        BY <1>3 DEF InUse
      <3>2. record.type = c.type /\ record.header = c.header /\ record.secret = c.secret
        OBVIOUS
      <3> HIDE DEF record
      <3>3. QED
        BY <2>3, <3>1, <3>2 DEF IInv, SecretsIdentify
    <2>10. OthersWait(t)
      BY <1>1, <2>7 DEF IInv, TypeOK, OthersWait
    <2>11. TaskInv(t)'
      <3>1. pc'[t] = "done" /\ reply'[t] = answer
        BY <2>7 DEF IInv, TypeOK
      <3>2. QED
        BY <2>6, <3>1 DEF TaskInv, GrantOffers, RevokeProgresses, InvalidStays,
                          PrincipalGenuine, AnswersLast
    <2>12. QED
      BY <2>4, <2>5, <2>8, <2>9, <2>10, <2>11, TaskStep
  <1>4. QED
    BY <1>2, <1>3 DEF Save

LEMMA RevokeTypeStep == ASSUME IInv, NEW t \in Tasks, RevokeType(t) PROVE IInv' /\ Evolves
  <1> DEFINE todo == local[t].todo
             rest == Tail(todo)
             chosen == Selected(job[t].agent, job[t].selector, Head(todo))
             locals == [local[t] EXCEPT !.todo = rest]
  <1>1. /\ pc[t] = "revoking" /\ UNCHANGED <<now, standing, changes, job, seen>>
        /\ store' = [i \in Ids |-> IF i \in chosen THEN [store[i] EXCEPT !.revoked = TRUE]
                                   ELSE store[i]]
    BY DEF RevokeType, world
  <1>2. /\ job[t] \in Job /\ job[t].op = "revoke" /\ todo # <<>>
        /\ job[t].selector.type = None \/ todo = <<job[t].selector.type>>
        /\ \A i \in seen[t] :
             /\ i \in Ids /\ store[i] # None /\ store[i].agent = job[t].agent
             /\ job[t].selector.id \in {i, None}
             /\ store[i].revoked \/ store[i].type \in ToSet(todo)
    BY <1>1 DEF IInv, TypeOK, TaskInv, RevokeProgresses
  <1>3. local[t] \in Local /\ todo \in Seq(Types) /\ rest \in Seq(Types)
    <2>1. local[t] \in Local
      BY DEF IInv, TypeOK
    <2>2. todo \in Seq(Types)
      BY <2>1 DEF Local
    <2>3. QED
      BY <1>2, <2>1, <2>2, HeadTailProperties
  <1>4. \A i \in Ids : /\ store[i] # None <=> store'[i] # None
                       /\ store[i] # None => store[i] \in Stored
                       /\ i \in chosen => store'[i] = [store[i] EXCEPT !.revoked = TRUE]
                       /\ i \notin chosen => store'[i] = store[i]
                       /\ i \in chosen => store[i] # None
    <2> SUFFICES ASSUME NEW i \in Ids
                 PROVE  /\ store[i] # None <=> store'[i] # None
                        /\ store[i] # None => store[i] \in Stored
                        /\ i \in chosen => store'[i] = [store[i] EXCEPT !.revoked = TRUE]
                        /\ i \notin chosen => store'[i] = store[i]
                        /\ i \in chosen => store[i] # None
      OBVIOUS
    <2>1. i \in chosen => store[i] # None
      BY DEF Selected
    <2>2. store[i] # None => store[i] \in Stored
      BY DEF IInv, TypeOK
    <2>3. store[i] # None => [store[i] EXCEPT !.revoked = TRUE] \in Stored
      BY <2>2 DEF Stored
    <2>4. QED
      BY <1>1, <2>1, <2>2, <2>3, NoneAssumption
  <1> HIDE DEF chosen
  <1>5. \A i \in Ids : store[i] # None =>
          /\ store'[i] \in Stored
          /\ store'[i].agent = store[i].agent /\ store'[i].type = store[i].type
          /\ store'[i].header = store[i].header /\ store'[i].secret = store[i].secret
          /\ [store'[i] EXCEPT !.revoked = FALSE] = [store[i] EXCEPT !.revoked = FALSE]
          /\ store[i].revoked \/ i \in chosen => store'[i].revoked
    BY <1>4 DEF Stored
  <1>6. Evolves
    BY <1>4, <1>5 DEF Evolves
  <1>7. SecretsIdentify'
    <2> SUFFICES ASSUME NEW i \in Ids, NEW j \in Ids, i # j, store'[i] # None, store'[j] # None,
                        store'[i].type = store'[j].type, store'[i].header = store'[j].header
                 PROVE  store'[i].secret # store'[j].secret
      BY DEF SecretsIdentify
    <2>1. store[i] # None /\ store[j] # None
      BY <1>4
    <2>2. store[i].type = store[j].type /\ store[i].header = store[j].header
      BY <1>5, <2>1
    <2>3. store[i].secret # store[j].secret
      BY <2>1, <2>2 DEF IInv, SecretsIdentify
    <2>4. QED
      BY <1>5, <2>1, <2>3
  <1>8. store' \in [Ids -> Stored \cup {None}]
    BY <1>1, <1>4, <1>5
  <1>9. \A i \in seen[t] : /\ store'[i] # None /\ store'[i].agent = job[t].agent
                           /\ store'[i].revoked \/ store'[i].type \in ToSet(rest)
    <2> SUFFICES ASSUME NEW i \in seen[t]
                 PROVE  /\ store'[i] # None /\ store'[i].agent = job[t].agent
                        /\ store'[i].revoked \/ store'[i].type \in ToSet(rest)
      OBVIOUS
    <2>1. CASE store[i].revoked
      BY <2>1, <1>2, <1>4, <1>5
    <2>2. CASE store[i].type = Head(todo)
      <3>1. i \in chosen
        BY <2>2, <1>2 DEF chosen, Selected
      <3>2. QED
        BY <3>1, <1>2, <1>4, <1>5
    <2>3. CASE store[i].type \in ToSet(rest)
      BY <2>3, <1>2, <1>4, <1>5
    <2>4. QED
      BY <2>1, <2>2, <2>3, <1>2, <1>3, HeadOrTail
  <1>10. CASE rest = <<>> /\ Refuse(t, "revoked")
    <2>1. /\ pc' = [pc EXCEPT ![t] = "done"] /\ local' = [local EXCEPT ![t] = Blank]
          /\ reply' = [reply EXCEPT ![t] = [code |-> "revoked"]]
      BY <1>10 DEF Refuse, Answer
    <2>2. TypeOK'
      BY <1>1, <1>8, <2>1, BlankLocal, RefusalType DEF IInv, TypeOK
    <2>3. OthersWait(t)
      BY <1>1, <2>1 DEF IInv, TypeOK, OthersWait
    <2>4. \A i \in seen[t] : store'[i] # None /\ store'[i].revoked
      BY <1>9, <1>10 DEF ToSet
    <2>5. TaskInv(t)'
      <3>1. pc'[t] = "done" /\ reply'[t].code = "revoked"
        BY <2>1 DEF IInv, TypeOK
      <3>2. QED
        BY <1>1, <2>4, <3>1 DEF TaskInv, GrantOffers, RevokeProgresses, InvalidStays,
                                PrincipalGenuine, AnswersLast
    <2>6. QED
      BY <1>6, <1>7, <2>2, <2>3, <2>5, TaskStep
  <1>11. CASE rest # <<>> /\ GoTo(t, "revoking", locals)
    <2>1. locals \in Local /\ locals.todo = rest
      BY <1>3 DEF Local
    <2>2. /\ pc' = [pc EXCEPT ![t] = "revoking"] /\ local' = [local EXCEPT ![t] = locals]
          /\ UNCHANGED reply
      BY <1>11 DEF GoTo
    <2>3. TypeOK'
      BY <1>1, <1>8, <2>1, <2>2 DEF IInv, TypeOK
    <2>4. OthersWait(t)
      BY <1>1, <2>2 DEF IInv, TypeOK, OthersWait
    <2>5. TaskInv(t)'
      <3>1. pc'[t] = "revoking" /\ local'[t].todo = rest /\ reply'[t] = None
        BY <1>1, <2>1, <2>2 DEF IInv, TypeOK, TaskInv, AnswersLast
      <3>2. job[t].selector.type = None
        <4>1. \A type : Tail(<<type>>) = <<>>
          OBVIOUS
        <4>2. QED
          BY <1>2, <1>11, <4>1
      <3>3. QED
        BY <1>1, <1>2, <1>9, <1>11, <3>1, <3>2
           DEF TaskInv, GrantOffers, RevokeProgresses, InvalidStays, PrincipalGenuine,
               AnswersLast
    <2>6. QED
      BY <1>6, <1>7, <2>3, <2>4, <2>5, TaskStep
  <1>12. QED
    BY <1>10, <1>11 DEF RevokeType

LEMMA ProbeStep == ASSUME IInv, NEW t \in Tasks, Probe(t) PROVE IInv'
  <1> DEFINE tried == local[t].presented \/ Presentations(job[t].shown, Head(local[t].todo)) # {}
             locals == [local[t] EXCEPT !.presented = tried]
  <1>1. /\ pc[t] = "probing" /\ UNCHANGED <<world, store, job, seen>>
        /\ GoTo(t, "matching", locals)
        /\ local[t] \in Local /\ InvalidStays(t)
    BY DEF Probe, IInv, TypeOK, TaskInv
  <1>2. job' \in [Tasks -> Job \cup {None}] /\ seen' \in [Tasks -> SUBSET Ids]
    BY <1>1 DEF IInv, TypeOK
  <1>3. tried \in BOOLEAN
    OBVIOUS
  <1> HIDE DEF tried
  <1>4. locals \in Local /\ locals.todo = local[t].todo /\ locals.at = local[t].at
    BY <1>1, <1>3 DEF Local
  <1>5. pc'[t] = "matching" /\ local'[t] = locals =>
          (GrantOffers(t) /\ RevokeProgresses(t) /\ InvalidStays(t))'
    BY <1>1, <1>4 DEF GrantOffers, RevokeProgresses, InvalidStays
  <1>6. QED
    BY <1>1, <1>2, <1>4, <1>5, GoToStep DEF PCs

LEMMA MatchStep == ASSUME IInv, NEW t \in Tasks, Match(t) PROVE IInv'
  <1> DEFINE todo == local[t].todo
             rest == Tail(todo)
  <1>1. /\ pc[t] = "matching" /\ UNCHANGED <<world, store, job, seen>>
        /\ local[t] \in Local
        /\ job[t] \in Job /\ job[t].op = "access" /\ todo # <<>>
        /\ \A i \in seen[t] :
             store[i] # None /\ (store[i].revoked \/ store[i].expires <= local[t].at)
    BY DEF Match, IInv, TypeOK, TaskInv, InvalidStays
  <1>2. job' \in [Tasks -> Job \cup {None}] /\ seen' \in [Tasks -> SUBSET Ids]
    BY <1>1 DEF IInv, TypeOK
  <1>3. ASSUME NEW i \in Matches(t),
               GoTo(t, "checking",
                    [local[t] EXCEPT !.principal = [agent |-> store[i].agent, id |-> i]])
        PROVE  IInv'
    <2> DEFINE principal == [agent |-> store[i].agent, id |-> i]
               locals == [local[t] EXCEPT !.principal = principal]
    <2>1. /\ i \in Ids /\ store[i] # None /\ ~ store[i].revoked
          /\ store[i].expires > local[t].at
          /\ [type |-> store[i].type, header |-> store[i].header, secret |-> store[i].secret]
               \in job[t].shown
      BY DEF Matches, Presentations
    <2>2. store[i] \in Stored /\ local[t].at \in Nat
      BY <1>1, <2>1, BoundsAssumption DEF IInv, TypeOK, Local
    <2>3. i \notin seen[t]
      BY <1>1, <2>1, <2>2 DEF Stored
    <2>4. principal \in Principal
      BY <2>1, <2>2 DEF Principal, Stored
    <2>5. locals \in Local /\ locals.principal = principal
      BY <1>1, <2>4 DEF Local
    <2>6. Genuine(t, principal)
      BY <2>1, <2>3 DEF Genuine
    <2>7. pc'[t] = "checking" => (GrantOffers(t) /\ RevokeProgresses(t) /\ InvalidStays(t))'
      BY DEF GrantOffers, RevokeProgresses, InvalidStays
    <2>8. QED
      BY <1>1, <1>2, <1>3, <2>4, <2>5, <2>6, <2>7, GoToStep DEF PCs
  <1>4. CASE \E code \in Refusals : Refuse(t, code)
    BY <1>1, <1>2, <1>4, RefuseStep
  <1>5. CASE rest # <<>> /\ GoTo(t, "probing", [local[t] EXCEPT !.todo = rest])
    <2> DEFINE locals == [local[t] EXCEPT !.todo = rest]
    <2>1. todo \in Seq(Types)
      BY <1>1 DEF Local
    <2>2. rest \in Seq(Types)
      BY <1>1, <2>1, HeadTailProperties
    <2>3. locals \in Local /\ locals.todo = rest /\ locals.at = local[t].at
      BY <1>1, <2>2 DEF Local
    <2>4. pc'[t] = "probing" /\ local'[t] = locals =>
            (GrantOffers(t) /\ RevokeProgresses(t) /\ InvalidStays(t))'
      BY <1>1, <1>5, <2>3 DEF GrantOffers, RevokeProgresses, InvalidStays
    <2>5. QED
      BY <1>1, <1>2, <1>5, <2>3, <2>4, GoToStep DEF PCs
  <1>6. QED
    BY <1>3, <1>4, <1>5 DEF Match, Refusals

LEMMA CheckStep == ASSUME IInv, NEW t \in Tasks, Check(t) PROVE IInv'
  <1> DEFINE principal == local[t].principal
             answer == [code |-> "authenticated", principal |-> principal]
  <1>1. /\ pc[t] = "checking" /\ UNCHANGED <<world, store, job, seen>>
        /\ principal \in Principal
        /\ job[t].op = "access" => Genuine(t, principal)
    BY DEF Check, IInv, TaskInv, PrincipalGenuine
  <1>2. job' \in [Tasks -> Job \cup {None}] /\ seen' \in [Tasks -> SUBSET Ids]
    BY <1>1 DEF IInv, TypeOK
  <1>3. CASE Refuse(t, "not_recognized")
    BY <1>1, <1>2, <1>3, RefuseStep DEF Refusals
  <1>4. CASE Answer(t, answer)
    <2>1. answer \in Reply /\ answer.code = "authenticated" /\ answer.principal = principal
      BY <1>1 DEF Reply
    <2>2. /\ pc' = [pc EXCEPT ![t] = "done"] /\ local' = [local EXCEPT ![t] = Blank]
          /\ reply' = [reply EXCEPT ![t] = answer]
      BY <1>4 DEF Answer
    <2>3. TypeOK'
      BY <1>1, <2>1, <2>2, BlankLocal DEF IInv, TypeOK, world
    <2>4. OthersWait(t)
      BY <1>1, <2>2 DEF IInv, TypeOK, OthersWait
    <2>5. pc'[t] = "done" /\ reply'[t] = answer
      BY <2>2 DEF IInv, TypeOK
    <2>6. job[t].op = "access" => Genuine(t, reply[t].principal)'
      BY <1>1, <2>1, <2>5 DEF Genuine
    <2>7. TaskInv(t)'
      BY <1>1, <2>1, <2>5, <2>6 DEF TaskInv, GrantOffers, RevokeProgresses, InvalidStays,
                                    PrincipalGenuine, AnswersLast
    <2>8. QED
      BY <1>1, <2>3, <2>4, <2>7, SameStore, TaskStep
  <1>5. QED
    BY <1>3, <1>4 DEF Check
-----------------------------------------------------------------------------
(* The clock and the application *)

LEMMA WorldStep ==
  ASSUME IInv, Tick \/ \E a \in Agents, s \in Standings : ChangeStanding(a, s)
  PROVE  IInv'
  <1>1. UNCHANGED <<store, pc, job, local, reply, seen>>
    BY DEF Tick, ChangeStanding
  <1>2. now' \in 0..MaxTime /\ standing' \in [Agents -> Standings] /\ changes' \in 0..MaxChanges
    <2>1. CASE Tick
      BY <2>1, BoundsAssumption DEF Tick, IInv, TypeOK
    <2>2. CASE \E a \in Agents, s \in Standings : ChangeStanding(a, s)
      BY <2>2, BoundsAssumption DEF ChangeStanding, IInv, TypeOK
    <2>3. QED
      BY <2>1, <2>2
  <1>3. TypeOK'
    BY <1>1, <1>2 DEF IInv, TypeOK
  <1>4. Evolves /\ SecretsIdentify'
    BY <1>1, SameStore
  <1>5. \A t \in Tasks : TaskInv(t)'
    BY <1>1, <1>3, <1>4, OthersKeep
  <1>6. QED
    BY <1>3, <1>4, <1>5 DEF IInv

LEMMA StepInv == ASSUME IInv, [Next]_vars PROVE IInv'
  <1>1. CASE UNCHANGED vars
    <2>1. TypeOK'
      BY <1>1 DEF vars, world, IInv, TypeOK
    <2>2. Evolves /\ SecretsIdentify'
      BY <1>1, SameStore DEF vars
    <2>3. \A t \in Tasks : TaskInv(t)'
      BY <1>1, <2>1, <2>2, OthersKeep DEF vars
    <2>4. QED
      BY <2>1, <2>2, <2>3 DEF IInv
  <1>2. CASE Tick \/ \E a \in Agents, s \in Standings : ChangeStanding(a, s)
    BY <1>2, WorldStep
  <1>3. ASSUME NEW t \in Tasks, Ask(t) PROVE IInv'
    BY <1>3, AskGrantStep, AskRevokeStep, AskAccessStep, AskWithAssertionStep DEF Ask
  <1>4. ASSUME NEW t \in Tasks, Proceed(t) PROVE IInv'
    BY <1>4, IssueStep, SaveStep, RevokeTypeStep, ProbeStep, MatchStep, CheckStep, AbandonStep
       DEF Proceed
  <1>5. QED
    BY <1>1, <1>2, <1>3, <1>4 DEF Next

THEOREM InvariantHolds == Spec => []IInv
  <1>1. QED
    BY InitInv, StepInv, PTL DEF Spec

\* MemoryServiceCredentialStore and the commands around it keep their types.
THEOREM TypeCorrect == Spec => []TypeOK
  <1>1. IInv => TypeOK
    BY DEF IInv
  <1>2. QED
    BY <1>1, InvariantHolds, PTL

\* save_credential never stores a secret twice under one Grant Type and header, however
\* many Grants save at the same time.
THEOREM SecretsAreUnique == Spec => []SecretsIdentify
  <1>1. IInv => SecretsIdentify
    BY DEF IInv
  <1>2. QED
    BY <1>1, InvariantHolds, PTL

\* authenticate_protected_resource answers with the owner of the shown secret, whose
\* credential was valid when the request came.
THEOREM AuthenticationIsSound == Spec => []AuthenticationJustified
  <1>1. IInv => AuthenticationJustified
    BY DEF IInv, TaskInv, PrincipalGenuine, Genuine, AuthenticationJustified
  <1>2. QED
    BY <1>1, InvariantHolds, PTL

\* A Revoke that answered has revoked every credential it selected when it began.
THEOREM RevokeCompletes == Spec => []RevokeIsComplete
  <1>1. IInv => RevokeIsComplete
    BY DEF IInv, TaskInv, AnswersLast, RevokeIsComplete
  <1>2. QED
    BY <1>1, InvariantHolds, PTL
-----------------------------------------------------------------------------
LEMMA StoreSteps ==
  ASSUME [Next]_vars
  PROVE  UNCHANGED store \/ \E t \in Tasks : Save(t) \/ RevokeType(t)
  <1>1. CASE \E t \in Tasks : Ask(t)
    BY <1>1 DEF Ask, AskGrant, AskRevoke, AskAccess, AskWithAssertion, Begin
  <1>2. CASE \E t \in Tasks : Proceed(t)
    BY <1>2 DEF Proceed, Issue, Probe, Match, Check, Abandon
  <1>3. QED
    BY <1>1, <1>2 DEF Next, vars, Tick, ChangeStanding

\* Stored credentials keep owner, secret and expiry, and stay revoked once they are.
\* It is their owners' own Revokes that revoke them, of a type they selected.
THEOREM RevocationStands == Spec => RevocationIsFinal
  <1> DEFINE Touched ==
        \A i \in Ids :
          store[i] # None /\ ~ store[i].revoked /\ store'[i].revoked =>
            \E t \in Tasks : /\ pc[t] = "revoking"
                             /\ job[t].agent = store[i].agent
                             /\ job[t].selector.type \in {None, store[i].type}
                             /\ job[t].selector.id \in {None, i}
  <1>1. ASSUME IInv, [Next]_vars PROVE Touched
    <2>1. CASE UNCHANGED store \/ \E t \in Tasks : Save(t)
      BY <1>1, <2>1, SaveStep
    <2>2. ASSUME NEW t \in Tasks, RevokeType(t), NEW i \in Ids,
                 store[i] # None, ~ store[i].revoked, store'[i].revoked
          PROVE  /\ pc[t] = "revoking"
                 /\ job[t].agent = store[i].agent
                 /\ job[t].selector.type \in {None, store[i].type}
                 /\ job[t].selector.id \in {None, i}
      <3>1. pc[t] = "revoking" /\ i \in Selected(job[t].agent, job[t].selector, Head(local[t].todo))
        BY <2>2 DEF RevokeType
      <3>2. /\ store[i].agent = job[t].agent /\ store[i].type = Head(local[t].todo)
            /\ job[t].selector.id \in {i, None}
        BY <3>1 DEF Selected
      <3>3. job[t].selector.type = None \/ local[t].todo = <<job[t].selector.type>>
        BY <1>1, <3>1 DEF IInv, TaskInv, RevokeProgresses
      <3>4. \A type : Head(<<type>>) = type
        OBVIOUS
      <3>5. QED
        BY <3>1, <3>2, <3>3, <3>4
    <2>3. QED
      BY <1>1, <2>1, <2>2, StoreSteps
  <1>2. ASSUME IInv, [Next]_vars PROVE Evolves
    BY <1>2, StoreSteps, SameStore, SaveStep, RevokeTypeStep
  <1> DEFINE Step ==
        \A i \in Ids : store[i] # None =>
          /\ store'[i] # None
          /\ [store'[i] EXCEPT !.revoked = FALSE] = [store[i] EXCEPT !.revoked = FALSE]
          /\ store[i].revoked => store'[i].revoked
          /\ ~ store[i].revoked /\ store'[i].revoked =>
               \E t \in Tasks : /\ pc[t] = "revoking"
                                /\ job[t].agent = store[i].agent
                                /\ job[t].selector.type \in {None, store[i].type}
                                /\ job[t].selector.id \in {None, i}
  <1>3. IInv /\ [Next]_vars => [Step]_vars
    BY <1>1, <1>2, Zenon DEF Evolves
  <1>4. QED
    BY <1>3, InvariantHolds, PTL DEF Spec, RevocationIsFinal
=============================================================================
