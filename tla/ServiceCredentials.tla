-------------------------- MODULE ServiceCredentials --------------------------
(***************************************************************************)
(* Session credentials of a Service: the stored operations of Grant and    *)
(* Revoke and the authentication of protected-resource requests            *)
(* (service/service.py), through the stored-credential handler and         *)
(* MemoryServiceCredentialStore (service/credentials.py).  A task is one   *)
(* command or request.  Its steps are the stretches between two awaits:    *)
(* every access of the credential store is one lock section, while the     *)
(* enrollment is read earlier (Grant) or later (authentication) than that. *)
(* The issuer and the enrollment are the application's and change between. *)
(***************************************************************************)
EXTENDS Naturals, Sequences, FiniteSets, SequencesExt, NoValue

CONSTANTS
  Tasks,
  Agents,
  Ids,          \* credential identifiers
  Types,        \* Grant Types a request may name ...
  GrantTypes,   \* ... the configured ones, in sorted order
  Methods,      \* authentication_methods but for the JWT method, in their order
  AcceptsJwt,   \* whether the JWT method is among authentication_methods
  ApiKeyTypes,  \* Grant Types presented in headers of their own
  PerCredential, \* those with supports_per_credential_revoke = "true"
  Headers,
  Secrets,
  Credentials,  \* what the application's issuer may return
  Requests,     \* what protected-resource requests may present
  Selectors,    \* what Revoke requests may select
  MaxTime,      \* bound on the clock
  MaxChanges    \* bound on the changes of standing

Configured == ToSet(GrantTypes)

\* A selector names one credential of a Grant Type, a Grant Type, or (None) all of them.
Selector == [type : Types, id : Ids \cup {None}] \cup [type : {None}, id : {None}]

Credential == [id : Ids, type : Types, header : Headers, secret : Secrets, expires : Nat]
Presentation == [type : Types, header : Headers, secret : Secrets]
Schemes(request) == {p \in request : p.type \notin ApiKeyTypes}

ASSUME ConfigurationAssumption ==
  /\ GrantTypes \in Seq(Types) /\ GrantTypes # <<>>
  /\ Methods \in Seq(Configured) /\ Methods # <<>>
  /\ PerCredential \subseteq Configured
  /\ AcceptsJwt \in BOOLEAN
ASSUME CredentialsAssumption == Credentials \subseteq Credential
ASSUME SelectorsAssumption == Selectors \subseteq Selector
ASSUME RequestsAssumption == Requests \subseteq SUBSET Presentation
ASSUME BoundsAssumption == MaxTime \in Nat /\ MaxChanges \in Nat

VARIABLES
  now,        \* the Service's clock
  standing,   \* standing[a]: what a's enrollment record amounts to
  changes,    \* how often the application changed a standing
  store,      \* MemoryServiceCredentialStore._records
  pc, job,
  local,      \* local[t]: what t keeps from one step to the next
  reply,
  seen        \* history: the credentials that were revoked or over, or (for a Revoke)
              \* that were selected, when t began

world == <<now, standing, changes>>
vars == <<now, standing, changes, store, pc, job, local, reply, seen>>

\* An active enrollment is "unmet" when a required claim or document is missing.
Standings == {"none", "active", "unmet", "inactive"}

Stored == [agent : Agents, type : Types, header : Headers, secret : Secrets,
           expires : Nat, revoked : BOOLEAN]

Job == [op : {"grant"}, agent : Agents, type : Types]
         \cup [op : {"revoke"}, agent : Agents, selector : Selectors]
         \cup [op : {"access"}, shown : Requests]
         \cup [op : {"jwt"}, agent : Agents]
Principal == [agent : Agents, id : Ids \cup {None}]
Local ==
  [at : 0..MaxTime,                  \* the current_time of the command or request
   offer : Credential \cup {None},   \* the credential issued, not stored yet
   todo : Seq(Types),                \* the types still to revoke, the methods to try
   presented : BOOLEAN,              \* whether a credential was shown at all
   principal : Principal \cup {None}] \* who the matched credential stands for
Reply == [code : {"not_recognized", "unsupported_grant_type", "lifecycle", "requirements_unmet",
                  "unsupported_authentication_method", "authentication_required",
                  "invalid_request", "revoked", "error"}]
           \cup [code : {"granted"}, id : Ids]
           \cup [code : {"authenticated"}, principal : Principal]

ASSUME NoneAssumption ==
  None \notin Types /\ None \notin Ids /\ None \notin Stored /\ None \notin Reply

TypeOK ==
  /\ now \in 0..MaxTime
  /\ standing \in [Agents -> Standings]
  /\ changes \in 0..MaxChanges
  /\ store \in [Ids -> Stored \cup {None}]
  /\ pc \in [Tasks -> {"idle", "issuing", "saving", "revoking", "probing", "matching",
                       "checking", "done"}]
  /\ job \in [Tasks -> Job \cup {None}]
  /\ local \in [Tasks -> Local]
  /\ reply \in [Tasks -> Reply \cup {None}]
  /\ seen \in [Tasks -> SUBSET Ids]

\* The credential store is empty; Agents may have enrolled before.
Blank == [at |-> 0, offer |-> None, todo |-> <<>>, presented |-> FALSE, principal |-> None]

Init ==
  /\ now = 0
  /\ standing \in [Agents -> Standings]
  /\ changes = 0
  /\ store = [i \in Ids |-> None]
  /\ pc = [t \in Tasks |-> "idle"]
  /\ job = [t \in Tasks |-> None]
  /\ local = [t \in Tasks |-> Blank]
  /\ reply = [t \in Tasks |-> None]
  /\ seen = [t \in Tasks |-> {}]
-----------------------------------------------------------------------------
Tick ==
  /\ now < MaxTime
  /\ now' = now + 1
  /\ UNCHANGED <<standing, changes, store, pc, job, local, reply, seen>>

\* An Enroll, or the application, saves an enrollment record.
ChangeStanding(a, s) ==
  /\ changes < MaxChanges
  /\ s \in Standings \ {"none", standing[a]}
  /\ standing' = [standing EXCEPT ![a] = s]
  /\ changes' = changes + 1
  /\ UNCHANGED <<now, store, pc, job, local, reply, seen>>

Begin(t, what, history) ==
  /\ pc[t] = "idle"
  /\ job' = [job EXCEPT ![t] = what]
  /\ seen' = [seen EXCEPT ![t] = history]
  /\ UNCHANGED <<world, store>>

\* The task t is suspended at an await with these locals ...
GoTo(t, where, locals) ==
  /\ pc' = [pc EXCEPT ![t] = where]
  /\ local' = [local EXCEPT ![t] = locals]
  /\ UNCHANGED reply

\* ... or is over, and with it its locals.
Answer(t, answer) ==
  /\ pc' = [pc EXCEPT ![t] = "done"]
  /\ local' = [local EXCEPT ![t] = Blank]
  /\ reply' = [reply EXCEPT ![t] = answer]

Refuse(t, code) == Answer(t, [code |-> code])
-----------------------------------------------------------------------------
(* Grant *)

AskGrant(t, a, type) ==
  /\ Begin(t, [op |-> "grant", agent |-> a, type |-> type], {})
  /\ \/ standing[a] = "none" /\ Refuse(t, "not_recognized")
     \/ /\ standing[a] # "none"
        /\ type \notin Configured
        /\ Refuse(t, "unsupported_grant_type")
     \/ /\ type \in Configured
        /\ \/ standing[a] = "inactive" /\ Refuse(t, "lifecycle")
           \/ standing[a] = "unmet" /\ Refuse(t, "requirements_unmet")
           \/ standing[a] = "active" /\ GoTo(t, "issuing", [Blank EXCEPT !.at = now])

\* The issuer answered; a credential that is over already fails the command.
Issue(t, c) ==
  /\ pc[t] = "issuing"
  /\ c.type = job[t].type
  /\ IF c.expires <= local[t].at
     THEN Refuse(t, "error")
     ELSE GoTo(t, "saving", [local[t] EXCEPT !.offer = c])
  /\ UNCHANGED <<world, store, job, seen>>

\* Mutant: only the identifier is looked for.
InUseById(c) == store[c.id] # None

\* An identifier or a secret in use fails the command.
InUse(c) ==
  \/ store[c.id] # None
  \/ \E i \in Ids : /\ store[i] # None
                    /\ store[i].type = c.type
                    /\ store[i].header = c.header
                    /\ store[i].secret = c.secret

Save(t) ==
  LET c == local[t].offer IN
  /\ pc[t] = "saving"
  /\ IF InUse(c)
     THEN Refuse(t, "error") /\ UNCHANGED store
     ELSE /\ Answer(t, [code |-> "granted", id |-> c.id])
          /\ store' = [store EXCEPT ![c.id] =
               [agent |-> job[t].agent, type |-> c.type, header |-> c.header,
                secret |-> c.secret, expires |-> c.expires, revoked |-> FALSE]]
  /\ UNCHANGED <<world, job, seen>>
-----------------------------------------------------------------------------
(* Revoke, whatever the status of an enrolled Agent *)

\* Mutant: whose credential it is does not matter.
SelectedOfAnyone(a, selector, type) ==
  {i \in Ids : /\ store[i] # None
               /\ store[i].type = type
               /\ selector.id \in {i, None}}

\* The stored credentials of Agent a, of a Grant Type, that a selector means.
Selected(a, selector, type) ==
  {i \in Ids : /\ store[i] # None
               /\ store[i].agent = a
               /\ store[i].type = type
               /\ selector.id \in {i, None}}

AskRevoke(t, a, selector) ==
  LET types == IF selector.type = None THEN GrantTypes ELSE <<selector.type>> IN
  /\ Begin(t, [op |-> "revoke", agent |-> a, selector |-> selector],
           UNION {Selected(a, selector, type) : type \in ToSet(types)})
  /\ \/ standing[a] = "none" /\ Refuse(t, "not_recognized")
     \/ /\ standing[a] # "none"
        /\ selector.type \notin Configured \cup {None}
        /\ Refuse(t, "unsupported_grant_type")
     \/ /\ standing[a] # "none"
        /\ selector.type \in Configured \ PerCredential /\ selector.id # None
        /\ Refuse(t, "invalid_request")
     \/ /\ standing[a] # "none"
        /\ selector.type \in Configured \cup {None}
        /\ selector.id = None \/ selector.type \in PerCredential
        /\ GoTo(t, "revoking", [Blank EXCEPT !.todo = types])

\* Mutant: the loop over the Grant Types ends after the first one.
RevokeFirstType(t) ==
  /\ pc[t] = "revoking"
  /\ store' = [i \in Ids |->
                 IF i \in Selected(job[t].agent, job[t].selector, Head(local[t].todo))
                 THEN [store[i] EXCEPT !.revoked = TRUE] ELSE store[i]]
  /\ Refuse(t, "revoked")
  /\ UNCHANGED <<world, job, seen>>

\* revoke_credential or revoke_grant_type, for the next of the Grant Types
RevokeType(t) ==
  LET rest == Tail(local[t].todo) IN
  /\ pc[t] = "revoking"
  /\ store' = [i \in Ids |->
                 IF i \in Selected(job[t].agent, job[t].selector, Head(local[t].todo))
                 THEN [store[i] EXCEPT !.revoked = TRUE] ELSE store[i]]
  /\ IF rest = <<>> THEN Refuse(t, "revoked")
     ELSE GoTo(t, "revoking", [local[t] EXCEPT !.todo = rest])
  /\ UNCHANGED <<world, job, seen>>
-----------------------------------------------------------------------------
(* authenticate_protected_resource *)

\* More than one scheme is refused, and one that is not a method; what the headers of
\* API keys hold is tried anyway.
AskAccess(t, shown) ==
  /\ Begin(t, [op |-> "access", shown |-> shown],
           {i \in Ids : store[i] # None /\ (store[i].revoked \/ store[i].expires <= now)})
  /\ \/ Cardinality(Schemes(shown)) > 1 /\ Refuse(t, "not_recognized")
     \/ \E p \in Schemes(shown) : /\ Schemes(shown) = {p}
                                  /\ p.type \notin ToSet(Methods)
                                  /\ Refuse(t, "unsupported_authentication_method")
     \/ /\ Cardinality(Schemes(shown)) <= 1
        /\ \A p \in Schemes(shown) : p.type \in ToSet(Methods)
        /\ GoTo(t, "probing", [Blank EXCEPT !.at = now, !.todo = Methods,
                                             !.presented = Schemes(shown) # {}])

\* The request carries an assertion, which AssertionReplay has accepted.
AskWithAssertion(t, a) ==
  /\ Begin(t, [op |-> "jwt", agent |-> a], {})
  /\ IF AcceptsJwt
     THEN GoTo(t, "checking", [Blank EXCEPT !.principal = [agent |-> a, id |-> None]])
     ELSE Refuse(t, "unsupported_authentication_method")

\* _credential_presentations: only headers that some API key uses are looked at.
Presentations(shown, type) ==
  {p \in shown : /\ p.type = type
                 /\ type \in ApiKeyTypes =>
                      \E i \in Ids : /\ store[i] # None
                                     /\ store[i].type = type
                                     /\ store[i].header = p.header}

Probe(t) ==
  /\ pc[t] = "probing"
  /\ GoTo(t, "matching",
          [local[t] EXCEPT !.presented =
             @ \/ Presentations(job[t].shown, Head(local[t].todo)) # {}])
  /\ UNCHANGED <<world, store, job, seen>>

\* Mutant: revocation is not looked at.
MatchesRevoked(t) ==
  LET type == Head(local[t].todo) IN
  {i \in Ids : /\ store[i] # None
               /\ store[i].type = type
               /\ store[i].expires > local[t].at
               /\ Presentations(job[t].shown, type)
                    = {[type |-> type, header |-> store[i].header, secret |-> store[i].secret]}}

\* What a lone presentation of the next method matches in the store, as of the time
\* the request came.
Matches(t) ==
  LET type == Head(local[t].todo) IN
  {i \in Ids : /\ store[i] # None
               /\ store[i].type = type
               /\ ~ store[i].revoked
               /\ store[i].expires > local[t].at
               /\ Presentations(job[t].shown, type)
                    = {[type |-> type, header |-> store[i].header, secret |-> store[i].secret]}}

Match(t) ==
  LET rest == Tail(local[t].todo) IN
  /\ pc[t] = "matching"
  /\ \/ \E i \in Matches(t) :
          GoTo(t, "checking",
               [local[t] EXCEPT !.principal = [agent |-> store[i].agent, id |-> i]])
     \/ /\ Matches(t) = {}
        /\ IF rest # <<>>
           THEN GoTo(t, "probing", [local[t] EXCEPT !.todo = rest])
           ELSE Refuse(t, IF local[t].presented THEN "not_recognized"
                          ELSE "authentication_required")
  /\ UNCHANGED <<world, store, job, seen>>

\* Mutant: the principal is the credential alone.
CheckWithoutAgent(t) ==
  LET principal == local[t].principal IN
  /\ pc[t] = "checking"
  /\ IF standing[principal.agent] \in {"active", "unmet"}
     THEN Answer(t, [code |-> "authenticated", principal |-> principal.id])
     ELSE Refuse(t, "not_recognized")
  /\ UNCHANGED <<world, store, job, seen>>

\* _active: the enrollment is read last.
Check(t) ==
  LET principal == local[t].principal IN
  /\ pc[t] = "checking"
  /\ IF standing[principal.agent] \in {"active", "unmet"}
     THEN Answer(t, [code |-> "authenticated", principal |-> principal])
     ELSE Refuse(t, "not_recognized")
  /\ UNCHANGED <<world, store, job, seen>>
-----------------------------------------------------------------------------
\* The issuer raised, or the task was cancelled at an await.
Abandon(t) ==
  /\ pc[t] \notin {"idle", "done"}
  /\ Refuse(t, "error")
  /\ UNCHANGED <<world, store, job, seen>>

Ask(t) ==
  \/ \E a \in Agents, type \in Types : AskGrant(t, a, type)
  \/ \E a \in Agents, selector \in Selectors : AskRevoke(t, a, selector)
  \/ \E shown \in Requests : AskAccess(t, shown)
  \/ \E a \in Agents : AskWithAssertion(t, a)

Proceed(t) ==
  \/ \E c \in Credentials : Issue(t, c)
  \/ Save(t)
  \/ RevokeType(t)
  \/ Probe(t)
  \/ Match(t)
  \/ Check(t)
  \/ Abandon(t)

Next ==
  \/ Tick
  \/ \E a \in Agents, s \in Standings : ChangeStanding(a, s)
  \/ \E t \in Tasks : Ask(t) \/ Proceed(t)

Spec == Init /\ [][Next]_vars
-----------------------------------------------------------------------------
\* A secret stands for one credential: two Grants that save at the same time cannot
\* store the same one, nor can one whose twin was revoked or has expired.
SecretsIdentify ==
  \A i, j \in Ids :
    /\ i # j /\ store[i] # None /\ store[j] # None
    /\ store[i].type = store[j].type /\ store[i].header = store[j].header
    => store[i].secret # store[j].secret

\* A request is authenticated as the Agent that the shown secret was granted to, by a
\* credential that was neither over nor revoked when the request came, although the
\* match is used after further awaits.
AuthenticationJustified ==
  \A t \in Tasks :
    reply[t] # None /\ reply[t].code = "authenticated" /\ job[t].op = "access" =>
      LET i == reply[t].principal.id IN
      /\ store[i] # None
      /\ store[i].agent = reply[t].principal.agent
      /\ [type |-> store[i].type, header |-> store[i].header, secret |-> store[i].secret]
           \in job[t].shown
      /\ i \notin seen[t]

\* A Revoke that succeeded left none of the credentials it selected valid, whatever was
\* granted, and whoever else revoked, while it went from Grant Type to Grant Type.
RevokeIsComplete ==
  \A t \in Tasks :
    reply[t] # None /\ reply[t].code = "revoked" => \A i \in seen[t] : store[i].revoked

\* A credential keeps its owner, secret and expiry, and revocation is final: no Grant
\* takes a stored identifier over.  Only a Revoke of its owner revokes it, one of the
\* selected Grant Type: an Agent that names another's identifier, or its own under another
\* type, changes nothing.
RevocationIsFinal ==
  [][\A i \in Ids : store[i] # None =>
       /\ store'[i] # None
       /\ [store'[i] EXCEPT !.revoked = FALSE] = [store[i] EXCEPT !.revoked = FALSE]
       /\ store[i].revoked => store'[i].revoked
       /\ ~ store[i].revoked /\ store'[i].revoked =>
            \E t \in Tasks : /\ pc[t] = "revoking"
                             /\ job[t].agent = store[i].agent
                             /\ job[t].selector.type \in {None, store[i].type}
                             /\ job[t].selector.id \in {None, i}]_vars
=============================================================================
