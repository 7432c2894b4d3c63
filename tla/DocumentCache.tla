------------------------------ MODULE DocumentCache ------------------------------
(***************************************************************************)
(* The cached copy of a discovery document: ServiceSession._inspect with   *)
(* its InspectCache (agent/client.py, agent/stores.py) and the freshness   *)
(* rule of agent/transport.py; PlatformIdentityProvider._discover keeps    *)
(* the Platform's document in the same way.  A reader takes a lock, finds  *)
(* the cached entry, reads the clock, and uses the entry when it is fresh; *)
(* otherwise it asks the origin, on condition that the document changed.   *)
(* Readers with different locks share the cache.  The answer comes from    *)
(* the origin or from a cache on the way, and so with a document that was  *)
(* the origin's when the answer was "born", now or earlier.                *)
(***************************************************************************)
EXTENDS Naturals, Integers, NoValue

CONSTANTS
  Readers,
  LockOf,       \* LockOf[r]: the lock r takes
  Controls,     \* what Cache-Control may say: a directive and a max-age
  Expiries,     \* what Expires may say, None among them
  Default,   \* the lifetime of a document that states none (300 s)
  MaxTime, MaxVersion  \* bounds on the clock and on the versions of the document

ASSUME CacheAssumption ==
  /\ None \notin Readers /\ None \notin Nat
  /\ Controls \subseteq [directive : {"no-store", "no-cache", None}, maxAge : Nat \cup {None}]
  /\ [directive |-> None, maxAge |-> None] \in Controls
  /\ Expiries \subseteq Int \cup {None} /\ Default \in Nat
  /\ MaxTime \in Nat /\ MaxVersion \in Nat

VARIABLES
  now,
  version,   \* the document the origin publishes
  until,     \* until[v]: when it was replaced
  entry,     \* the cache's entry for the document
  held,      \* held[l]: the reader that has the lock l
  step,      \* step[r]: what r is waiting for
  read,      \* read[r]: the clock when r began
  base,      \* base[r]: the entry that r found
  sent,      \* sent[r]: the origin's answer on its way to r
  found      \* found[r]: the document r returned, and how old it was

cacheVars == <<now, version, until, entry, held, step, read, base, sent, found>>

Locks == {LockOf[r] : r \in Readers}
Time == 0..MaxTime
Version == 0..MaxVersion

\* The caching fields of a response: Cache-Control, Expires, Age and Date.
Fields == [control : Controls, expires : Expiries, age : Time \cup {None},
           date : Time \cup {None}]
Entry == [at : Time, version : Version, fields : Fields, valid : BOOLEAN]
Response == [status : {200, 304}, version : Version, fields : Fields]
\* stale: for how long the document had been replaced when it was returned.
Found == [version : Version, cached : BOOLEAN, stale : Nat, allowed : Int]

CacheTypeOK ==
  /\ now \in Time /\ version \in Version
  /\ until \in [Version -> Time \cup {None}]
  /\ entry \in Entry \cup {None}
  /\ held \in [Locks -> Readers \cup {None}]
  /\ step \in [Readers -> {"idle", "lock", "origin", "done", "failed"}]
  /\ read \in [Readers -> Time]
  /\ base \in [Readers -> Entry \cup {None}]
  /\ sent \in [Readers -> Response \cup {None}]
  /\ found \in [Readers -> Found \cup {None}]

CacheInit ==
  /\ now = 0 /\ version = 0 /\ until = [v \in Version |-> None] /\ entry = None
  /\ held = [l \in Locks |-> None] /\ step = [r \in Readers |-> "idle"]
  /\ read = [r \in Readers |-> 0] /\ base = [r \in Readers |-> None]
  /\ sent = [r \in Readers |-> None]
  /\ found = [r \in Readers |-> None]
-----------------------------------------------------------------------------
\* The lifetime a response allows its document, and the age the fields show it to have
\* had when the request for it began.
ResponseDate(e) == IF e.fields.date = None THEN e.at ELSE e.fields.date
Allowed(e) ==
  IF e.fields.control.maxAge # None THEN e.fields.control.maxAge
  ELSE IF e.fields.expires # None THEN e.fields.expires - ResponseDate(e)
  ELSE Default
InitialAge(e) ==
  LET apparent == e.at - ResponseDate(e)
      age == IF e.fields.age = None THEN 0 ELSE e.fields.age
  IN IF apparent > age THEN apparent ELSE age

\* Mutant: the age that the response arrived with is left out.
FreshSinceStored(e, time) ==
  /\ e.fields.control.directive \notin {"no-cache", "no-store"}
  /\ time >= e.at
  /\ time - e.at < Allowed(e)

Fresh(e, time) ==
  /\ e.fields.control.directive \notin {"no-cache", "no-store"}
  /\ time >= e.at
  /\ InitialAge(e) + (time - e.at) < Allowed(e)

Tick ==
  /\ now < MaxTime /\ now' = now + 1
  /\ UNCHANGED <<version, until, entry, held, step, read, base, sent, found>>

Publish ==
  /\ version < MaxVersion /\ version' = version + 1
  /\ until' = [until EXCEPT ![version] = now]
  /\ UNCHANGED <<now, entry, held, step, read, base, sent, found>>

\* The cache is the application's: what it returns may not pass the checks.
Spoil ==
  /\ entry # None /\ entry.valid
  /\ entry' = [entry EXCEPT !.valid = FALSE]
  /\ UNCHANGED <<now, version, until, held, step, read, base, sent, found>>

Start(r) ==
  /\ step[r] \in {"idle", "failed"}
  /\ step' = [step EXCEPT ![r] = "lock"]
  /\ UNCHANGED <<now, version, until, entry, held, read, base, sent, found>>

Finish(r, outcome, result) ==
  /\ held' = [held EXCEPT ![LockOf[r]] = None]
  /\ step' = [step EXCEPT ![r] = outcome]
  /\ found' = [found EXCEPT ![r] = result]
  /\ read' = [read EXCEPT ![r] = 0]
  /\ base' = [base EXCEPT ![r] = None]
  /\ sent' = [sent EXCEPT ![r] = None]

\* The document is put to use.
Use(r) ==
  /\ step[r] = "done"
  /\ step' = [step EXCEPT ![r] = "idle"]
  /\ found' = [found EXCEPT ![r] = None]
  /\ UNCHANGED <<now, version, until, entry, held, read, base, sent>>

Result(e, cached) ==
  [version |-> e.version, cached |-> cached, allowed |-> Allowed(e),
   stale |-> IF until[e.version] = None THEN 0 ELSE now - until[e.version]]

\* An entry that does not pass the checks is deleted, a fresh one is used, and a stale
\* one makes the request conditional.
Find(r) ==
  LET cached == IF entry # None /\ entry.valid THEN entry ELSE None
      usable == cached # None /\ Fresh(cached, now)
  IN
  /\ step[r] = "lock" /\ held[LockOf[r]] = None
  /\ entry' = cached
  /\ \/ /\ usable
        /\ Finish(r, "done", Result(cached, TRUE))
     \/ /\ ~usable
        /\ held' = [held EXCEPT ![LockOf[r]] = r]
        /\ step' = [step EXCEPT ![r] = "origin"]
        /\ read' = [read EXCEPT ![r] = now]
        /\ base' = [base EXCEPT ![r] = cached]
        /\ UNCHANGED <<sent, found>>
  /\ UNCHANGED <<now, version, until>>

\* The origin answers, after at most five redirects that stay within it.
\* Date or Age tell how long ago an answer was born, unless it was born just now.
Respond(r) ==
  /\ step[r] = "origin" /\ sent[r] = None
  /\ \E v \in 0..version, born \in 0..now, control \in Controls, expires \in Expiries,
        status \in {200, 304} :
       /\ until[v] # None => born <= until[v]
       /\ v > 0 => until[v - 1] <= born
       /\ status = 304 => base[r] # None /\ base[r].version = v
       /\ \E date \in {None, born}, age \in {None, now - born} :
            /\ born # now => date # None \/ age # None
            /\ sent' = [sent EXCEPT ![r] =
                 [status |-> status, version |-> v,
                  fields |-> [control |-> control, expires |-> expires,
                              age |-> age, date |-> date]]]
  /\ UNCHANGED <<now, version, until, entry, held, step, read, base, found>>

\* A 304 renews the entry that was found: Age and Date are the answer's own, and the other
\* fields are kept where it has none.
Renewed(old, new) ==
  [new EXCEPT
     !.control = IF new.control = [directive |-> None, maxAge |-> None] THEN old.control ELSE @,
     !.expires = IF @ = None THEN old.expires ELSE @]

\* The answer is stored as of the time the request began, or not at all.
ReceiveDocument(r) ==
  LET response == sent[r]
      new == [at |-> read[r], version |-> response.version, valid |-> TRUE,
              fields |-> IF response.status = 304 THEN Renewed(base[r].fields, response.fields)
                         ELSE response.fields]
  IN /\ step[r] = "origin" /\ response # None
     /\ entry' = IF new.fields.control.directive = "no-store" THEN None ELSE new
     /\ Finish(r, "done", Result(new, FALSE))
     /\ UNCHANGED <<now, version, until>>

\* A timeout, a status that is no answer, a redirect that leaves the origin or is one too
\* many, an answer that is no document, a 304 for a request that was not conditional.
Fail(r) ==
  /\ step[r] = "origin"
  /\ Finish(r, "failed", None)
  /\ UNCHANGED <<now, version, until, entry>>
-----------------------------------------------------------------------------
\* A document that is used without asking the origin was replaced there less than its
\* allowed lifetime ago, though requests overlap, answers are delayed, come from other
\* caches, and renew entries that another reader has replaced since.
ServedFresh ==
  \A r \in Readers : found[r] # None /\ found[r].cached =>
    found[r].stale = 0 \/ found[r].stale < found[r].allowed
=============================================================================
