------------------------- MODULE PlatformProvider_proofs -------------------------
(***************************************************************************)
(* Proofs about PlatformProvider and the DocumentCache in it, for any      *)
(* readers, providers, keys and headers, and unbounded time; and about     *)
(* what a Platform publishes and its client sends (PlatformDocuments,      *)
(* ProviderChecks), for any options, records and headers.                  *)
(***************************************************************************)
EXTENDS PlatformProvider, ProviderChecks, SequenceTheorems, FiniteSetTheorems,
        TLAPS

\* What a step of the provider is for the cache.
CacheNext ==
  \/ UNCHANGED cacheVars \/ Tick \/ Publish \/ Spoil
  \/ \E r \in Readers : Start(r) \/ Use(r) \/ Find(r) \/ Respond(r) \/ ReceiveDocument(r) \/ Fail(r)

LEMMA CacheSteps == [Next]_vars => CacheNext
  <1> SUFFICES ASSUME [Next]_vars PROVE CacheNext
    OBVIOUS
  <1>1. CASE UNCHANGED vars
    BY <1>1 DEF vars, CacheNext
  <1>2. CASE \/ job \in Timed /\ (Tick \/ Publish \/ Spoil)
             \/ \E s \in Statuses : ChangeStatus(s)
    BY <1>2 DEF CacheNext, ChangeStatus
  <1>3. ASSUME NEW t \in Tasks,
               \/ Caching(t)
               \/ AskFind(t) \/ AskResolve(t) \/ Enter(t)
               \/ \E c \in Contexts \cup {None} : AskSign(t, c) \/ Resolve(t, c)
               \/ \E k \in Keys : NewKey(t, k)
               \/ Discovered(t) \/ Undiscovered(t) \/ Timeout(t) \/ AnswerList(t)
               \/ \E answer \in Answer : AnswerCommand(t, answer)
               \/ ReceiveList(t) \/ ReceiveIdentity(t) \/ ReceiveSigned(t) \/ ResolverFails(t)
        PROVE  CacheNext
    <2>1. CASE Caching(t)
      BY <2>1 DEF CacheNext, Caching, Tasks
    <2>2. CASE AskFind(t) \/ AskResolve(t) \/ Enter(t) \/ Discovered(t) \/ ReceiveList(t)
               \/ \E k \in Keys : NewKey(t, k)
      BY <2>2 DEF CacheNext, AskFind, AskResolve, Enter, Discovered, ReceiveList, NewKey, Discover,
         Return, Tasks
    <2>3. CASE \/ \E c \in Contexts \cup {None} : AskSign(t, c) \/ Resolve(t, c)
               \/ Undiscovered(t) \/ Timeout(t) \/ AnswerList(t)
               \/ \E answer \in Answer : AnswerCommand(t, answer)
               \/ ReceiveIdentity(t) \/ ReceiveSigned(t) \/ ResolverFails(t)
      BY <2>3 DEF CacheNext, AskSign, Resolve, Undiscovered, Timeout, AnswerList, AnswerCommand,
         ReceiveIdentity, ReceiveSigned, ResolverFails, Return
    <2>4. QED
      BY <1>3, <2>1, <2>2, <2>3
  <1>4. QED
    BY <1>1, <1>2, <1>3 DEF Next
-----------------------------------------------------------------------------
(* The cache *)

LEMMA FieldTypes ==
  ASSUME NEW e \in Entry
  PROVE  /\ ResponseDate(e) \in Nat /\ Allowed(e) \in Int
         /\ InitialAge(e) \in Nat /\ InitialAge(e) >= e.at - ResponseDate(e)
         /\ e.fields.age # None => e.fields.age \in Nat /\ InitialAge(e) >= e.fields.age
         /\ e.at \in Nat /\ e.version \in Version
  <1>1. /\ e.at \in Nat /\ e.version \in Version
        /\ e.fields.date \in Nat \cup {None} /\ e.fields.age \in Nat \cup {None}
        /\ e.fields.expires \in Int \cup {None} /\ e.fields.control.maxAge \in Nat \cup {None}
        /\ Default \in Nat
    <2>1. e.fields \in Fields
      BY DEF Entry
    <2>2. e.fields.control \in [directive : {"no-store", "no-cache", None}, maxAge : Nat \cup {None}]
      BY <2>1, CacheAssumption DEF Fields
    <2>3. e.fields.expires \in Int \cup {None}
      BY <2>1, CacheAssumption DEF Fields
    <2>4. e.fields.date \in Nat \cup {None} /\ e.fields.age \in Nat \cup {None}
      BY <2>1, CacheAssumption DEF Fields, Time
    <2>5. e.at \in Nat /\ e.version \in Version /\ Default \in Nat
      BY CacheAssumption DEF Entry, Time
    <2>6. QED
      BY <2>2, <2>3, <2>4, <2>5
  <1>2. ResponseDate(e) \in Nat
    BY <1>1 DEF ResponseDate
  <1>3. QED
    BY <1>1, <1>2 DEF Allowed, InitialAge

\* What the cache holds, or the origin sent, was still the origin's document at the time
\* from which its age is counted.
Known(e) ==
  /\ e.at <= now
  /\ until[e.version] # None => e.at - InitialAge(e) <= until[e.version]

\* The entry that r makes of its answer, but for what a renewal adds to its fields.
Coming(r) == [at |-> read[r], version |-> sent[r].version, fields |-> sent[r].fields,
              valid |-> TRUE]

Replaced == \A v \in Version : until[v] # None => until[v] <= now /\ v < version

CacheInv ==
  /\ CacheTypeOK
  /\ Replaced
  /\ entry # None => Known(entry)
  /\ \A r \in Readers :
       /\ read[r] <= now
       /\ sent[r] # None =>
            /\ step[r] = "origin" /\ Known(Coming(r))
            /\ sent[r].status = 304 => base[r] # None
  /\ ServedFresh

LEMMA CacheInvInit == CacheInit => CacheInv
  BY CacheAssumption DEF CacheInit, CacheInv, CacheTypeOK, Time, Version, Locks, Replaced, ServedFresh

LEMMA ComingType ==
  ASSUME CacheInv, NEW r \in Readers, sent[r] # None
  PROVE  Coming(r) \in Entry
  BY DEF CacheInv, CacheTypeOK, Coming, Entry, Response

\* Neither time nor a new document makes unknown what was known.
LEMMA KnownStays ==
  ASSUME CacheInv, NEW e \in Entry, Known(e),
         \/ Tick \/ Publish \/ UNCHANGED <<now, version, until>>
  PROVE  Known(e)'
  <1>1. /\ e.at \in Nat /\ InitialAge(e) \in Nat /\ e.version \in Version
        /\ now \in Nat /\ version \in Nat /\ until \in [Version -> Time \cup {None}]
    BY FieldTypes, CacheAssumption DEF CacheInv, CacheTypeOK, Time, Version
  <1>2. CASE Tick
    <2>1. now' = now + 1 /\ until' = until
      BY <1>2 DEF Tick
    <2>2. QED
      BY <1>1, <2>1 DEF Known
  <1>3. CASE Publish
    <2>1. now' = now /\ until' = [until EXCEPT ![version] = now] /\ version \in Version
      BY <1>3 DEF Publish, CacheInv, CacheTypeOK
    <2>2. CASE e.version = version
      BY <1>1, <2>1, <2>2 DEF Known
    <2>3. CASE e.version # version
      BY <1>1, <2>1, <2>3 DEF Known
    <2>4. QED
      BY <2>2, <2>3
  <1>4. CASE UNCHANGED <<now, version, until>>
    BY <1>4 DEF Known
  <1>5. QED
    BY <1>2, <1>3, <1>4

LEMMA ResultType ==
  ASSUME CacheInv, NEW e \in Entry, NEW cached \in BOOLEAN
  PROVE  Result(e, cached) \in Found
  <1>1. Allowed(e) \in Int /\ e.version \in Version
    BY FieldTypes
  <1>2. until[e.version] # None => until[e.version] \in Nat /\ until[e.version] <= now
    BY <1>1 DEF CacheInv, CacheTypeOK, Replaced, Time
  <1>3. now \in Nat
    BY CacheAssumption DEF CacheInv, CacheTypeOK, Time
  <1>4. QED
    BY <1>1, <1>2, <1>3 DEF Result, Found

\* The entry that an answer makes.
Made(r) ==
  [at |-> read[r], version |-> sent[r].version, valid |-> TRUE,
   fields |-> IF sent[r].status = 304 THEN Renewed(base[r].fields, sent[r].fields)
              ELSE sent[r].fields]

LEMMA MadeKnown ==
  ASSUME CacheInv, NEW r \in Readers, sent[r] # None
  PROVE  Made(r) \in Entry /\ Known(Made(r))
  <1>1. sent[r] \in Response /\ read[r] \in Time
    BY DEF CacheInv, CacheTypeOK
  <1>2. sent[r].fields \in Fields /\ sent[r].version \in Version
    BY <1>1 DEF Response
  <1>3. ASSUME NEW old \in Fields
        PROVE  /\ Renewed(old, sent[r].fields) \in Fields
               /\ Renewed(old, sent[r].fields).date = sent[r].fields.date
               /\ Renewed(old, sent[r].fields).age = sent[r].fields.age
    BY <1>2 DEF Renewed, Fields
  <1>4. sent[r].status = 304 => base[r].fields \in Fields
    BY DEF CacheInv, CacheTypeOK, Entry
  <1>5. /\ Made(r).fields \in Fields /\ Made(r).fields.date = Coming(r).fields.date
        /\ Made(r).fields.age = Coming(r).fields.age
    BY <1>2, <1>3, <1>4 DEF Made, Coming
  <1>6. Made(r) \in Entry
    BY <1>1, <1>2, <1>5 DEF Made, Entry
  <1>7. InitialAge(Made(r)) = InitialAge(Coming(r))
    BY <1>5 DEF InitialAge, ResponseDate, Made, Coming
  <1>8. QED
    BY <1>6, <1>7 DEF Known, Made, Coming, CacheInv

\* Date or Age tell when an answer was born.
LEMMA BornKnown ==
  ASSUME NEW e \in Entry, NEW born \in Nat, now \in Nat, born <= now, e.at <= now,
         e.fields.date \in {None, born}, e.fields.age \in {None, now - born},
         born # now => e.fields.date # None \/ e.fields.age # None
  PROVE  e.at - InitialAge(e) <= born
  <1>1. CASE e.fields.date # None
    BY <1>1, FieldTypes DEF ResponseDate
  <1>2. CASE e.fields.age # None
    BY <1>2, FieldTypes
  <1>3. CASE born = now
    BY <1>3, FieldTypes
  <1>4. QED
    BY <1>1, <1>2, <1>3

LEMMA FinishStep ==
  ASSUME CacheInv, NEW r \in Readers, NEW outcome \in {"done", "failed"},
         NEW result \in Found \cup {None}, Finish(r, outcome, result),
         result # None => (result.cached => result.stale = 0 \/ result.stale < result.allowed),
         UNCHANGED <<now, version, until>>,
         entry' \in Entry \cup {None}, entry' # None => Known(entry')
  PROVE  CacheInv'
  <1>1. LockOf[r] \in Locks /\ 0 \in Time
    BY CacheAssumption DEF Locks, Time
  <1>2. CacheTypeOK'
    BY <1>1 DEF Finish, CacheInv, CacheTypeOK
  <1>3. ASSUME NEW u \in Readers
        PROVE  /\ read'[u] <= now'
               /\ sent'[u] # None =>
                    /\ step'[u] = "origin" /\ Known(Coming(u))'
                    /\ sent'[u].status = 304 => base'[u] # None
    <2>1. CASE u = r
      BY <2>1, CacheAssumption DEF Finish, CacheInv, CacheTypeOK, Time
    <2>2. CASE u # r
      BY <2>2 DEF Finish, CacheInv, CacheTypeOK, Known, Coming
    <2>3. QED
      BY <2>1, <2>2
  <1>4. ServedFresh'
    BY DEF Finish, CacheInv, CacheTypeOK, ServedFresh
  <1>5. entry' # None => Known(entry)'
    BY DEF Known
  <1>6. QED
    BY <1>2, <1>3, <1>4, <1>5 DEF CacheInv, Replaced

\* The cache keeps its types, and serves nothing that is not fresh.
LEMMA CacheStep == CacheInv /\ CacheNext => CacheInv'
  <1> SUFFICES ASSUME CacheInv, CacheNext PROVE CacheInv'
    OBVIOUS
  <1> USE CacheAssumption
  <1>t. /\ now \in Nat /\ version \in Nat /\ until \in [Version -> Time \cup {None}]
        /\ entry \in Entry \cup {None} /\ now \in Time
    BY DEF CacheInv, CacheTypeOK, Time, Version
  <1>1. CASE UNCHANGED cacheVars
    BY <1>1 DEF cacheVars, CacheInv, CacheTypeOK, Replaced, Known, Coming, ServedFresh
  <1>2. CASE Tick \/ Publish
    <2>1. UNCHANGED <<entry, held, step, read, base, sent, found>>
      BY <1>2 DEF Tick, Publish
    <2>2. CacheTypeOK'
      BY <1>2, <2>1 DEF Tick, Publish, CacheInv, CacheTypeOK, Time, Version
    <2>3. Replaced' /\ now <= now'
      BY <1>2, <1>t DEF Tick, Publish, CacheInv, Replaced, Version, Time
    <2>4. ASSUME NEW e \in Entry, Known(e) PROVE Known(e)'
      BY <1>2, <2>4, KnownStays
    <2>5. entry' # None => Known(entry)'
      BY <2>1, <2>4, <1>t DEF CacheInv, Known
    <2>6. ASSUME NEW r \in Readers, sent[r] # None PROVE Known(Coming(r))'
      <3>1. Known(Coming(r))
        BY <2>6 DEF CacheInv
      <3>2. Coming(r)' = Coming(r) /\ Coming(r) \in Entry
        BY <2>1, <2>6, ComingType DEF Coming
      <3>3. QED
        BY <2>4, <3>1, <3>2 DEF Known
    <2>7. ASSUME NEW r \in Readers PROVE read'[r] <= now'
      BY <2>1, <2>3, <1>t, <2>2 DEF CacheInv, CacheTypeOK, Time
    <2>8. QED
      BY <2>1, <2>2, <2>3, <2>5, <2>6, <2>7 DEF CacheInv, ServedFresh
  <1>3. CASE Spoil
    <2>1. entry' \in Entry /\ Known(entry)'
      <3>1. entry' \in Entry /\ InitialAge(entry') = InitialAge(entry)
              /\ entry'.at = entry.at /\ entry'.version = entry.version
        BY <1>3, <1>t DEF Spoil, Entry, InitialAge, ResponseDate
      <3>2. QED
        BY <1>3, <3>1 DEF Spoil, Known, CacheInv
    <2>2. QED
      BY <1>3, <2>1 DEF Spoil, CacheInv, CacheTypeOK, Replaced, Known, Coming, ServedFresh
  <1>4. ASSUME NEW r \in Readers, Start(r) \/ Use(r) PROVE CacheInv'
    <2>1. CacheTypeOK'
      BY <1>4 DEF Start, Use, CacheInv, CacheTypeOK
    <2>2. ServedFresh'
      BY <1>4 DEF Start, Use, CacheInv, CacheTypeOK, ServedFresh
    <2>3. \A u \in Readers : sent'[u] # None => step'[u] = "origin"
      BY <1>4 DEF Start, Use, CacheInv, CacheTypeOK
    <2>4. QED
      BY <1>4, <2>1, <2>2, <2>3 DEF Start, Use, CacheInv, Replaced, Known, Coming
  <1>5. ASSUME NEW r \in Readers, Find(r) PROVE CacheInv'
    <2>0. PICK cached \in Entry \cup {None} :
            cached = IF entry # None /\ entry.valid THEN entry ELSE None
      BY <1>t
    <2>1. /\ cached \in Entry \cup {None} /\ cached # None => Known(cached)
          /\ entry' = cached /\ UNCHANGED <<now, version, until>>
      BY <1>5, <2>0 DEF Find, CacheInv
    <2>2. CASE /\ cached # None /\ Fresh(cached, now)
               /\ Finish(r, "done", Result(cached, TRUE))
      <3>1. Result(cached, TRUE) \in Found
        BY <2>1, <2>2, ResultType
      <3>2. cached \in Entry /\ Known(cached)
        BY <2>1, <2>2
      <3>3. /\ Allowed(cached) \in Int /\ InitialAge(cached) \in Nat
            /\ cached.at \in Nat /\ cached.version \in Version
        BY <3>2, FieldTypes
      <3>4. \/ Result(cached, TRUE).stale = 0
            \/ Result(cached, TRUE).stale < Result(cached, TRUE).allowed
        <4>1. CASE until[cached.version] = None
          BY <4>1 DEF Result
        <4>2. CASE until[cached.version] # None
          <5>1. until[cached.version] \in Nat
            BY <3>3, <4>2, <1>t DEF Time
          <5>2. /\ cached.at - InitialAge(cached) <= until[cached.version]
                /\ InitialAge(cached) + (now - cached.at) < Allowed(cached)
            BY <2>2, <3>2, <4>2 DEF Known, Fresh
          <5>3. now - until[cached.version] < Allowed(cached)
            BY <5>1, <5>2, <3>3, <1>t
          <5>4. QED
            BY <4>2, <5>3 DEF Result
        <4>3. QED
          BY <4>1, <4>2
      <3>5. QED
        BY <2>1, <2>2, <3>1, <3>4, FinishStep
    <2>3. CASE /\ held' = [held EXCEPT ![LockOf[r]] = r]
               /\ step' = [step EXCEPT ![r] = "origin"]
               /\ read' = [read EXCEPT ![r] = now]
               /\ base' = [base EXCEPT ![r] = cached]
               /\ UNCHANGED <<sent, found>>
      <3>1. CacheTypeOK'
        BY <1>t, <2>1, <2>3 DEF CacheInv, CacheTypeOK, Locks
      <3>2. sent[r] = None
        BY <1>5 DEF Find, CacheInv
      <3>3. entry' # None => Known(entry)'
        BY <2>1 DEF Known
      <3>4. ASSUME NEW u \in Readers
            PROVE  /\ read'[u] <= now'
                   /\ sent'[u] # None =>
                        /\ step'[u] = "origin" /\ Known(Coming(u))'
                        /\ sent'[u].status = 304 => base'[u] # None
        BY <1>t, <2>1, <2>3, <3>2 DEF CacheInv, CacheTypeOK, Known, Coming
      <3>5. QED
        BY <2>1, <2>3, <3>1, <3>3, <3>4 DEF CacheInv, Replaced, ServedFresh
    <2>4. QED
      BY <1>5, <2>0, <2>2, <2>3 DEF Find
  <1>6. ASSUME NEW r \in Readers, Respond(r) PROVE CacheInv'
    <2>0. PICK v \in 0..version, born \in 0..now, control \in Controls, expires \in Expiries,
              status \in {200, 304} :
            /\ until[v] # None => born <= until[v]
            /\ v > 0 => until[v - 1] <= born
            /\ status = 304 => base[r] # None /\ base[r].version = v
            /\ \E date \in {None, born}, age \in {None, now - born} :
                 /\ born # now => date # None \/ age # None
                 /\ sent' = [sent EXCEPT ![r] =
                      [status |-> status, version |-> v,
                       fields |-> [control |-> control, expires |-> expires,
                                   age |-> age, date |-> date]]]
      BY <1>6 DEF Respond
    <2>1. PICK date \in {None, born}, age \in {None, now - born} :
            /\ until[v] # None => born <= until[v]
            /\ status = 304 => base[r] # None
            /\ born # now => date # None \/ age # None
            /\ sent' = [sent EXCEPT ![r] =
                 [status |-> status, version |-> v,
                  fields |-> [control |-> control, expires |-> expires,
                              age |-> age, date |-> date]]]
      BY <2>0
    <2>2. /\ UNCHANGED <<now, version, until, entry, held, step, read, base, found>>
          /\ step[r] = "origin"
      BY <1>6 DEF Respond
    <2>3. v \in Version /\ born \in Nat /\ born <= now /\ born \in Time /\ now - born \in Time
      BY <1>t DEF CacheInv, CacheTypeOK, Time, Version
    <2>4. sent'[r] \in Response
      BY <2>1, <2>3 DEF Response, Fields, CacheInv, CacheTypeOK
    <2>5. CacheTypeOK'
      BY <2>1, <2>2, <2>4 DEF CacheInv, CacheTypeOK
    <2>6. Known(Coming(r))'
      <3>1. Coming(r)' \in Entry
        BY <2>2, <2>4 DEF Coming, Entry, Response, CacheInv, CacheTypeOK
      <3>a. sent'[r] = [status |-> status, version |-> v,
                        fields |-> [control |-> control, expires |-> expires,
                                    age |-> age, date |-> date]]
        BY <2>1 DEF CacheInv, CacheTypeOK
      <3>b. read'[r] = read[r] /\ read[r] <= now
        BY <2>2 DEF CacheInv
      <3>2. /\ Coming(r)'.at = read[r] /\ read[r] <= now /\ Coming(r)'.version = v
            /\ Coming(r)'.fields.date = date /\ Coming(r)'.fields.age = age
        BY <3>a, <3>b DEF Coming
      <3>3. Coming(r)'.at - InitialAge(Coming(r)') <= born
        BY <1>t, <2>1, <2>3, <3>1, <3>2, BornKnown
      <3>4. InitialAge(Coming(r)') \in Nat /\ Coming(r)'.at \in Nat
        BY <3>1, FieldTypes
      <3>5. until[v] # None => until[v] \in Nat
        BY <1>t, <2>3 DEF Time
      <3>6. until[v] # None => Coming(r)'.at - InitialAge(Coming(r)') <= until[v]
        BY <2>1, <2>3, <3>3, <3>4, <3>5
      <3>7. QED
        BY <2>2, <3>2, <3>6 DEF Known
    <2>7. ASSUME NEW u \in Readers
          PROVE  /\ read'[u] <= now'
                 /\ sent'[u] # None =>
                      /\ step'[u] = "origin" /\ Known(Coming(u))'
                      /\ sent'[u].status = 304 => base'[u] # None
      <3>1. CASE u = r
        BY <2>1, <2>2, <2>6, <3>1 DEF CacheInv, CacheTypeOK
      <3>2. CASE u # r
        BY <2>1, <2>2, <3>2 DEF CacheInv, CacheTypeOK, Known, Coming
      <3>3. QED
        BY <3>1, <3>2
    <2>8. QED
      BY <2>2, <2>5, <2>7 DEF CacheInv, Replaced, Known, ServedFresh
  <1>7. ASSUME NEW r \in Readers, ReceiveDocument(r) PROVE CacheInv'
    <2>1. /\ sent[r] # None /\ Finish(r, "done", Result(Made(r), FALSE))
          /\ entry' = IF Made(r).fields.control.directive = "no-store" THEN None ELSE Made(r)
          /\ UNCHANGED <<now, version, until>>
      BY <1>7 DEF ReceiveDocument, Made
    <2>2. Made(r) \in Entry /\ Known(Made(r))
      BY <2>1, MadeKnown
    <2>3. Result(Made(r), FALSE) \in Found /\ ~Result(Made(r), FALSE).cached
      BY <2>2, ResultType DEF Result
    <2>4. QED
      BY <2>1, <2>2, <2>3, FinishStep
  <1>8. ASSUME NEW r \in Readers, Fail(r) PROVE CacheInv'
    BY <1>8, <1>t, FinishStep DEF Fail, CacheInv
  <1>9. QED
    BY <1>1, <1>2, <1>3, <1>4, <1>5, <1>6, <1>7, <1>8 DEF CacheNext
-----------------------------------------------------------------------------
(* Types *)

LEMMA TypeInit == Init => TypeOK
  <1>1. Init => CacheTypeOK
    BY CacheInvInit DEF Init, CacheInv
  <1>2. QED
    BY <1>1, ProviderAssumption DEF Init, TypeOK, Statuses, Phases

LEMMA ReturnType ==
  ASSUME TypeOK, NEW t \in Tasks, NEW code \in {"identity", "nothing", "signed", "pending", "error"},
         Return(t, code)
  PROVE  /\ pc' \in [Tasks -> {"idle", "waiting", "keying", "discovering", "sent", "resolving",
                               "done"}]
         /\ reply' \in [Tasks -> Reply \cup {None}]
         /\ identityLock' \in [Providers -> Tasks \cup {None}]
         /\ UNCHANGED phase
  <1>1. [code |-> code] \in Reply
    BY DEF Reply
  <1>2. reply' \in [Tasks -> Reply \cup {None}]
    BY <1>1 DEF Return, TypeOK
  <1>3. identityLock' \in [Providers -> Tasks \cup {None}]
    BY DEF Return, TypeOK
  <1>4. QED
    BY <1>2, <1>3 DEF Return, TypeOK

LEMMA TypeStep == ASSUME TypeOK, CacheTypeOK', [Next]_vars PROVE TypeOK'
  <1> USE DEF TypeOK, Phases, Statuses
  <1> USE ProviderAssumption
  <1>1. CASE UNCHANGED vars \/ (job \in Timed /\ (Tick \/ Publish \/ Spoil) /\ UNCHANGED <<providerVars, platform>>)
    BY <1>1 DEF vars, providerVars, platform
  <1>2. ASSUME NEW t \in Tasks, Caching(t) /\ UNCHANGED <<providerVars, platform>> PROVE TypeOK'
    BY <1>2 DEF providerVars, platform
  <1>3. ASSUME NEW t \in Tasks, AskFind(t) \/ AskResolve(t) PROVE TypeOK'
    BY <1>3 DEF AskFind, AskResolve, Discover, platform
  <1>4. ASSUME NEW t \in Tasks, Enter(t) PROVE TypeOK'
    BY <1>4 DEF Enter, Discover, platform, Providers
  <1>5. ASSUME NEW t \in Tasks, NEW c \in Contexts \cup {None}, AskSign(t, c) \/ Resolve(t, c)
        PROVE  TypeOK'
    <2>1. CASE AskSign(t, c)
      BY <2>1 DEF AskSign, platform
    <2>2. CASE Resolve(t, c)
      BY <2>2 DEF Resolve, platform
    <2>3. QED
      BY <1>5, <2>1, <2>2
  <1>6. ASSUME NEW t \in Tasks, NEW k \in Keys, NewKey(t, k) PROVE TypeOK'
    <2>1. UNCHANGED <<job, previous, context, mail, took, hosted, changes, memo>>
      BY <1>6 DEF NewKey, platform
    <2>2. CASE Return(t, "error") /\ UNCHANGED key
      BY <2>1, <2>2, ReturnType
    <2>3. CASE Discover(t, "sign") /\ key' = [key EXCEPT ![t] = k] /\ UNCHANGED identityLock
      BY <2>1, <2>3 DEF Discover
    <2>4. QED
      BY <1>6, <2>2, <2>3 DEF NewKey
  <1>7. ASSUME NEW t \in Tasks, Discovered(t) PROVE TypeOK'
    <2>1. PICK k \in Keys \cup {None} :
            mail' = [mail EXCEPT ![t] = [phase |-> phase[t], by |-> t, key |-> k,
                                         context |-> context[t]]]
      BY <1>7 DEF Discovered
    <2>2. mail' \in [Tasks -> Request \cup Answer \cup {None}]
      BY <2>1 DEF Request
    <2>3. QED
      BY <1>7, <2>2 DEF Discovered, platform
  <1>8. ASSUME NEW t \in Tasks, Undiscovered(t) \/ Timeout(t) \/ ResolverFails(t) PROVE TypeOK'
    <2>1. Return(t, "error") /\ UNCHANGED <<job, key, previous, context, mail, took, hosted, changes, memo>>
      BY <1>8 DEF Undiscovered, Timeout, ResolverFails, platform
    <2>2. QED
      BY <2>1, ReturnType
  <1>9. ASSUME NEW t \in Tasks, AnswerList(t) PROVE TypeOK'
    BY <1>9 DEF AnswerList, platform, Answer
  <1>10. ASSUME NEW t \in Tasks, NEW answer \in Answer, AnswerCommand(t, answer) PROVE TypeOK'
    <2>1. hosted' \in Statuses
      BY <1>10 DEF AnswerCommand, Compute
    <2>2. memo' \in [Keys -> [request : Request, answer : Answer] \cup {None}]
      <3>1. mail[t] \in Request
        BY <1>10 DEF AnswerCommand
      <3>2. [request |-> mail[t], answer |-> answer] \in [request : Request, answer : Answer]
        BY <3>1
      <3>3. \/ memo' = [memo EXCEPT ![mail[t].key] = [request |-> mail[t], answer |-> answer]]
            \/ memo' = memo
        BY <1>10 DEF AnswerCommand
      <3>4. QED
        BY <3>2, <3>3
    <2>3. QED
      BY <1>10, <2>1, <2>2 DEF AnswerCommand
  <1>11. ASSUME NEW t \in Tasks, ReceiveList(t) PROVE TypeOK'
    <2>1. /\ UNCHANGED <<job, key, previous, context, took, hosted, changes, memo>>
          /\ mail' = [mail EXCEPT ![t] = None]
      BY <1>11 DEF ReceiveList, Arrived, platform
    <2>2. CASE Return(t, "identity") \/ Return(t, "nothing")
      BY <2>1, <2>2, ReturnType
    <2>3. CASE Discover(t, "provision") /\ UNCHANGED identityLock
      BY <2>1, <2>3 DEF Discover
    <2>4. QED
      BY <1>11, <2>2, <2>3 DEF ReceiveList
  <1>12. ASSUME NEW t \in Tasks, ReceiveIdentity(t) PROVE TypeOK'
    <2>1. /\ UNCHANGED <<job, key, previous, context, took, hosted, changes, memo>>
          /\ mail' = [mail EXCEPT ![t] = None]
          /\ Return(t, "identity") \/ Return(t, "error")
      BY <1>12 DEF ReceiveIdentity, Arrived, platform
    <2>2. QED
      BY <2>1, ReturnType
  <1>13. ASSUME NEW t \in Tasks, ReceiveSigned(t) PROVE TypeOK'
    <2>1. took' \in [Tasks -> Seq(Answer)] /\ \A u \in Tasks : Len(took'[u]) <= MaxStages
      <3>1. CASE took' = [took EXCEPT ![t] = Append(@, mail[t])] /\ Len(took[t]) < MaxStages
        <4>1. mail[t] \in Answer
          BY <1>13 DEF ReceiveSigned, Arrived
        <4>2. Append(took[t], mail[t]) \in Seq(Answer)
                /\ Len(Append(took[t], mail[t])) = Len(took[t]) + 1
          BY <4>1
        <4>3. QED
          BY <3>1, <4>2
      <3>2. CASE UNCHANGED took
        BY <3>2
      <3>3. QED
        BY <1>13, <3>1, <3>2 DEF ReceiveSigned
    <2>2. mail' \in [Tasks -> Request \cup Answer \cup {None}]
            /\ UNCHANGED <<job, key, previous, context, hosted, changes, memo>>
      BY <1>13 DEF ReceiveSigned, Arrived, platform
    <2>3. /\ pc' \in [Tasks -> {"idle", "waiting", "keying", "discovering", "sent", "resolving",
                                "done"}]
          /\ reply' \in [Tasks -> Reply \cup {None}]
          /\ identityLock' \in [Providers -> Tasks \cup {None}] /\ UNCHANGED phase
      <3>1. CASE pc' = [pc EXCEPT ![t] = "resolving"] /\ UNCHANGED <<phase, identityLock, reply>>
        BY <3>1
      <3>2. CASE Return(t, "signed") \/ Return(t, "pending") \/ Return(t, "error")
        BY <3>2, ReturnType
      <3>3. QED
        BY <1>13, <3>1, <3>2 DEF ReceiveSigned
    <2>4. QED
      BY <2>1, <2>2, <2>3
  <1>14. ASSUME NEW s \in Statuses, ChangeStatus(s) PROVE TypeOK'
    BY <1>14 DEF ChangeStatus, providerVars
  <1>15. QED
    BY <1>1, <1>2, <1>3, <1>4, <1>5, <1>6, <1>7, <1>8, <1>9, <1>10, <1>11, <1>12, <1>13, <1>14
       DEF Next

\* Every variable keeps its type; above all no call asks for more stages than it is allowed
\* and every answer the Platform remembers is the answer to a request.
THEOREM TypeCorrect == Spec => []TypeOK
  <1> DEFINE Inv == TypeOK /\ CacheInv
  <1>1. Init => Inv
    BY TypeInit, CacheInvInit DEF Init
  <1>2. Inv /\ [Next]_vars => Inv'
    <2>1. CacheInv /\ [Next]_vars => CacheInv'
      BY CacheSteps, CacheStep
    <2>2. CacheInv' => CacheTypeOK'
      BY DEF CacheInv
    <2>3. QED
      BY <2>1, <2>2, TypeStep
  <1>3. QED
    BY <1>1, <1>2, PTL DEF Spec

\* No document is put to use past the time its origin allowed it, counted from when it was
\* replaced there (Fresh, over _fresh_cache of agent/transport.py).
THEOREM DocumentsServedFresh == Spec => []ServedFresh
  <1>1. Init => CacheInv
    BY CacheInvInit DEF Init
  <1>2. CacheInv /\ [Next]_vars => CacheInv'
    BY CacheSteps, CacheStep
  <1>3. CacheInv => ServedFresh
    BY DEF CacheInv
  <1>4. QED
    BY <1>1, <1>2, <1>3, PTL DEF Spec
-----------------------------------------------------------------------------
(* The stages of a signing *)

\* A key under which the Platform remembers that it signed, or deferred a signature, for t.
Deferred == {"signed", "pending"}
Signs(k, t) == memo[k] # None /\ memo[k].answer.code \in Deferred /\ memo[k].answer.by = t

\* It signs for who asks.
SignsForAsker ==
  \A k \in Keys : memo[k] # None /\ memo[k].answer.code \in Deferred =>
    memo[k].request.phase = "sign" /\ memo[k].answer.by = memo[k].request.by

\* It answered every stage once.
OncePerStage ==
  \A k, l \in Keys, t \in Tasks :
    Signs(k, t) /\ Signs(l, t) /\ memo[k].answer.stage = memo[l].answer.stage => k = l

\* The stages it answered are over, but for the one whose answer t waits for.
StagesOver(t) ==
  \A k \in Keys : Signs(k, t) =>
    /\ phase[t] = "sign" /\ memo[k].answer.stage <= Len(took[t])
    /\ memo[k].answer.stage = Len(took[t]) => pc[t] \in {"sent", "done"} /\ mail[t] \notin Request

\* What is in transit for t, and the keys of its stages.
MailFits(t) ==
  /\ pc[t] \notin {"sent", "done"} => mail[t] = None
  /\ phase[t] = "sign" => pc[t] \notin {"idle", "waiting"} /\ key[t] \in Keys
  /\ phase[t] = "sign" /\ pc[t] \in {"discovering", "sent"} => key[t] # previous[t]
  /\ mail[t] \in Request =>
       /\ mail[t].phase = phase[t] /\ mail[t].by = t
       /\ phase[t] # "list" => mail[t].key \in Keys
       /\ phase[t] = "sign" => mail[t].key = key[t]
  /\ phase[t] = "sign" /\ mail[t] \in Answer /\ mail[t].code \in Deferred =>
       Signs(key[t], t) /\ memo[key[t]].answer = mail[t]

\* The last answer that t took is the one remembered under the key of that stage.
TakenFits(t) ==
  took[t] # <<>> =>
    /\ phase[t] = "sign"
    /\ pc[t] = "resolving" =>
         Signs(key[t], t) /\ memo[key[t]].answer = took[t][Len(took[t])]
    /\ pc[t] \in {"keying", "discovering", "sent"} =>
         /\ previous[t] \in Keys /\ Signs(previous[t], t)
         /\ memo[previous[t]].answer = took[t][Len(took[t])]

TaskFits(t) == StagesOver(t) /\ MailFits(t) /\ TakenFits(t)

StageInv ==
  SignsForAsker /\ OncePerStage /\ (\A t \in Tasks : TaskFits(t)) /\ StagesAdvance

LEMMA StageInit == Init => StageInv
  <1> SUFFICES ASSUME Init PROVE StageInv
    OBVIOUS
  <1>1. SignsForAsker /\ OncePerStage /\ StagesAdvance
    BY NoneAssumption DEF Init, SignsForAsker, OncePerStage, StagesAdvance, Signs
  <1>2. ASSUME NEW t \in Tasks PROVE TaskFits(t)
    <2>1. StagesOver(t)
      BY DEF Init, StagesOver, Signs
    <2>2. MailFits(t)
      BY NoneAssumption DEF Init, MailFits
    <2>3. TakenFits(t)
      BY DEF Init, TakenFits
    <2> QED
      BY <2>1, <2>2, <2>3 DEF TaskFits
  <1> QED
    BY <1>1, <1>2 DEF StageInv

OthersStay(t) ==
  \A u \in Tasks \ {t} :
    /\ pc'[u] = pc[u] /\ phase'[u] = phase[u] /\ key'[u] = key[u]
    /\ previous'[u] = previous[u] /\ mail'[u] = mail[u] /\ took'[u] = took[u]

\* A step of t alone.
LEMMA QuietStep ==
  ASSUME StageInv, NEW t \in Tasks, UNCHANGED <<memo, took>>, OthersStay(t), TaskFits(t)'
  PROVE  StageInv'
  <1>1. \A u \in Tasks : TaskFits(u)'
    <2> SUFFICES ASSUME NEW u \in Tasks, u # t PROVE TaskFits(u)'
      OBVIOUS
    <2>1. TaskFits(u)
      BY DEF StageInv
    <2>2. QED
      BY <2>1 DEF OthersStay, TaskFits, StagesOver, MailFits, TakenFits, Signs
  <1>2. QED
    BY <1>1 DEF StageInv, SignsForAsker, OncePerStage, Signs, StagesAdvance

LEMMA AnswerNoRequest == ASSUME NEW answer \in Answer PROVE answer \notin Request
  <1>1. "code" \in DOMAIN answer
    <2>1. CASE answer \in [code : {"identity"}, status : Statuses]
      BY <2>1
    <2>2. CASE answer \in [code : {"signed", "pending"}, by : Tasks, stage : 0..MaxStages]
      BY <2>2
    <2>3. CASE answer \in [code : {"problem"}]
      BY <2>3
    <2>4. QED
      BY <2>1, <2>2, <2>3 DEF Answer
  <1>2. \A r \in Request : "code" \notin DOMAIN r
    BY DEF Request
  <1>3. QED
    BY <1>1, <1>2

LEMMA StageStep == ASSUME TypeOK, StageInv, [Next]_vars PROVE StageInv'
  <1>n. /\ None \notin Request /\ None \notin Answer
        /\ None \notin [request : Request, answer : Answer]
    BY NoneAssumption
  <1> USE DEF TypeOK
  <1>1. CASE UNCHANGED <<providerVars, memo>>
    BY <1>1 DEF providerVars, StageInv, SignsForAsker, OncePerStage, TaskFits, StagesOver, MailFits,
       TakenFits, StagesAdvance, Signs
  <1> SUFFICES ASSUME NEW t \in Tasks, TaskFits(t),
               \/ AskFind(t) \/ AskResolve(t) \/ Enter(t)
               \/ \E c \in Contexts \cup {None} : AskSign(t, c) \/ Resolve(t, c)
               \/ \E k \in Keys : NewKey(t, k)
               \/ Discovered(t) \/ Undiscovered(t) \/ Timeout(t) \/ AnswerList(t)
               \/ \E answer \in Answer : AnswerCommand(t, answer)
               \/ ReceiveList(t) \/ ReceiveIdentity(t) \/ ReceiveSigned(t) \/ ResolverFails(t)
        PROVE  StageInv'
    <2>1. CASE UNCHANGED vars
      BY <1>1, <2>1 DEF vars, platform
    <2>2. CASE job \in Timed /\ (Tick \/ Publish \/ Spoil) /\ UNCHANGED <<providerVars, platform>>
      BY <1>1, <2>2 DEF platform
    <2>3. ASSUME NEW u \in Tasks, Caching(u), UNCHANGED <<providerVars, platform>> PROVE StageInv'
      BY <1>1, <2>3 DEF platform
    <2>4. ASSUME NEW s \in Statuses, ChangeStatus(s) PROVE StageInv'
      BY <1>1, <2>4 DEF ChangeStatus
    <2>5. \A u \in Tasks : TaskFits(u)
      BY DEF StageInv
    <2>6. QED
      BY <2>1, <2>2, <2>3, <2>4, <2>5 DEF Next
  <1> USE DEF TaskFits
  <1>2. CASE AskFind(t) \/ AskResolve(t) \/ Enter(t)
    <2>1. UNCHANGED <<memo, took>> /\ OthersStay(t)
      BY <1>2 DEF AskFind, AskResolve, Enter, Discover, platform, OthersStay
    <2>2. /\ phase[t] # "sign" /\ phase'[t] # "sign" /\ mail'[t] = None
          /\ UNCHANGED <<key, previous, mail>>
      BY <1>2 DEF AskFind, AskResolve, Enter, Discover, platform, MailFits
    <2>3. TaskFits(t)'
      BY <1>n, <2>1, <2>2 DEF StagesOver, MailFits, TakenFits, Signs
    <2>4. QED
      BY <2>1, <2>3, QuietStep
  <1>3. ASSUME NEW c \in Contexts \cup {None}, AskSign(t, c) PROVE StageInv'
    <2>1. UNCHANGED <<memo, took>> /\ OthersStay(t)
      BY <1>3 DEF AskSign, platform, OthersStay
    <2>2. phase[t] # "sign" /\ mail[t] = None /\ UNCHANGED <<phase, key, previous, mail>>
      BY <1>3 DEF AskSign, MailFits
    <2>3. TaskFits(t)'
      BY <1>n, <2>1, <2>2 DEF StagesOver, MailFits, TakenFits, Signs
    <2>4. QED
      BY <2>1, <2>3, QuietStep
  <1>4. ASSUME NEW c \in Contexts \cup {None}, Resolve(t, c) PROVE StageInv'
    <2>1. UNCHANGED <<memo, took>> /\ OthersStay(t)
      BY <1>4 DEF Resolve, platform, OthersStay
    <2>2. /\ pc[t] = "resolving" /\ pc'[t] = "keying" /\ previous'[t] = key[t] /\ mail[t] = None
          /\ UNCHANGED <<phase, key, mail>>
      BY <1>4 DEF Resolve, MailFits
    <2>3. TaskFits(t)'
      BY <1>n, <2>1, <2>2 DEF StagesOver, MailFits, TakenFits, Signs
    <2>4. QED
      BY <2>1, <2>3, QuietStep
  <1>r. ASSUME UNCHANGED <<memo, took, key, previous>>, NEW code, Return(t, code), OthersStay(t),
               mail'[t] \in {mail[t], None}, pc[t] \notin {"idle", "waiting"},
               pc[t] \in {"sent", "done"} \/ mail[t] = None
        PROVE  StageInv'
    <2>1. pc'[t] = "done" /\ UNCHANGED phase
      BY <1>r DEF Return
    <2>2. TaskFits(t)'
      BY <1>n, <1>r, <2>1 DEF StagesOver, MailFits, TakenFits, Signs
    <2>3. QED
      BY <1>r, <2>2, QuietStep
  <1>5. ASSUME NEW k \in Keys, NewKey(t, k) PROVE StageInv'
    <2>1. UNCHANGED <<memo, took, previous, mail>> /\ OthersStay(t) /\ pc[t] = "keying" /\ mail[t] = None
      BY <1>5 DEF NewKey, Discover, Return, platform, OthersStay, MailFits
    <2>2. CASE Return(t, "error") /\ UNCHANGED key
      BY <2>1, <2>2, <1>r
    <2>3. CASE k # previous[t] /\ key' = [key EXCEPT ![t] = k] /\ Discover(t, "sign")
      <3>1. phase'[t] = "sign" /\ pc'[t] = "discovering" /\ key'[t] = k
        BY <2>3 DEF Discover
      <3>2. TaskFits(t)'
        BY <1>n, <2>1, <2>3, <3>1 DEF StagesOver, MailFits, TakenFits, Signs
      <3>3. QED
        BY <2>1, <3>2, QuietStep
    <2>4. QED
      BY <1>5, <2>2, <2>3 DEF NewKey
  <1>6. CASE Discovered(t)
    <2>1. UNCHANGED <<memo, took, key, previous, phase>> /\ OthersStay(t) /\ pc[t] = "discovering"
            /\ pc'[t] = "sent"
      BY <1>6 DEF Discovered, platform, OthersStay
    <2>2. PICK k \in IF phase[t] = "provision" THEN Keys ELSE {key[t]} :
            mail' = [mail EXCEPT ![t] = [phase |-> phase[t], by |-> t, key |-> k,
                                         context |-> context[t]]]
      BY <1>6 DEF Discovered
    <2>3. mail'[t] = [phase |-> phase[t], by |-> t, key |-> k, context |-> context[t]]
      BY <2>2
    <2>4. /\ mail'[t] \notin Answer /\ (phase[t] = "sign" => k = key[t])
          /\ phase[t] # "list" => k \in Keys
      BY <2>1, <2>2, <2>3 DEF Answer, MailFits, Phases
    <2>5. \A l \in Keys : Signs(l, t) => memo[l].answer.stage # Len(took[t])
      BY <2>1 DEF StagesOver
    <2>6. TaskFits(t)'
      BY <2>1, <2>3, <2>4, <2>5 DEF StagesOver, MailFits, TakenFits, Signs
    <2>7. QED
      BY <2>1, <2>6, QuietStep
  <1>7. CASE Undiscovered(t) \/ Timeout(t) \/ ResolverFails(t)
    <2>1. UNCHANGED <<memo, took, key, previous, mail>> /\ OthersStay(t)
      BY <1>7 DEF Undiscovered, Timeout, ResolverFails, Return, platform, OthersStay
    <2>2. Return(t, "error") /\ pc[t] \in {"discovering", "sent", "resolving"}
      BY <1>7 DEF Undiscovered, Timeout, ResolverFails
    <2>3. QED
      BY <1>r, <2>1, <2>2 DEF MailFits
  <1>8. CASE AnswerList(t)
    <2>1. UNCHANGED <<memo, took, key, previous, pc, phase>> /\ OthersStay(t)
      BY <1>8 DEF AnswerList, platform, OthersStay
    <2>2. /\ mail[t] \in Request /\ mail[t].phase = "list"
          /\ mail'[t] = [code |-> "identity", status |-> hosted]
      BY <1>8 DEF AnswerList
    <2>3. phase[t] # "sign" /\ pc[t] \in {"sent", "done"} /\ mail'[t] \notin Request
      BY <1>n, <2>2 DEF MailFits, Request
    <2>4. TaskFits(t)'
      BY <2>1, <2>2, <2>3 DEF StagesOver, MailFits, TakenFits, Signs
    <2>5. QED
      BY <2>1, <2>4, QuietStep
  <1>9. CASE ReceiveList(t) \/ ReceiveIdentity(t)
    <2>1. /\ UNCHANGED <<memo, took, key, previous>> /\ OthersStay(t)
          /\ mail'[t] = None /\ pc[t] = "sent" /\ phase[t] # "sign"
      BY <1>9 DEF ReceiveList, ReceiveIdentity, Arrived, Discover, Return, platform, OthersStay
    <2>2. CASE \E code \in {"identity", "nothing", "error"} : Return(t, code)
      BY <1>r, <2>1, <2>2
    <2>3. CASE Discover(t, "provision")
      <3>1. phase'[t] = "provision" /\ pc'[t] = "discovering"
        BY <2>3 DEF Discover
      <3>2. TaskFits(t)'
        BY <1>n, <2>1, <3>1 DEF StagesOver, MailFits, TakenFits, Signs
      <3>3. QED
        BY <2>1, <3>2, QuietStep
    <2>4. QED
      BY <1>9, <2>2, <2>3 DEF ReceiveList, ReceiveIdentity
  <1>10. ASSUME NEW answer \in Answer, AnswerCommand(t, answer) PROVE StageInv'
    <2>1. UNCHANGED <<pc, phase, key, previous, took>> /\ OthersStay(t)
      BY <1>10 DEF AnswerCommand, OthersStay
    <2>2. /\ mail'[t] = answer /\ mail[t] \in Request /\ mail[t].phase # "list"
          /\ mail[t].phase = phase[t] /\ mail[t].by = t /\ pc[t] \in {"sent", "done"}
      BY <1>n, <1>10 DEF AnswerCommand, MailFits
    <2>3. answer \notin Request
      BY AnswerNoRequest
    <2>4. PICK k \in Keys : k = mail[t].key /\ (phase[t] = "sign" => k = key[t])
      BY <2>2 DEF MailFits
    <2>5. answer.code \in Deferred => answer.by \in Tasks /\ answer.stage \in 0..MaxStages
      BY DEF Answer, Deferred
    <2>6. CASE memo[k] # None
      <3>1. UNCHANGED memo
        BY <1>10, <2>4, <2>6 DEF AnswerCommand
      <3>2. phase[t] = "sign" /\ answer.code \in Deferred =>
              Signs(k, t) /\ memo[k].answer = answer
        <4>1. answer = IF memo[k].request = mail[t] THEN memo[k].answer ELSE [code |-> "problem"]
          BY <1>10, <2>4, <2>6 DEF AnswerCommand
        <4>2. answer.code \in Deferred => memo[k].request = mail[t] /\ memo[k].answer = answer
          BY <4>1 DEF Deferred
        <4>3. answer.code \in Deferred => memo[k].answer.by = t
          BY <2>2, <2>6, <4>2 DEF StageInv, SignsForAsker
        <4>4. QED
          BY <2>6, <4>2, <4>3 DEF Signs
      <3>3. TaskFits(t)'
        BY <1>n, <2>1, <2>2, <2>3, <2>4, <3>1, <3>2 DEF StagesOver, MailFits, TakenFits, Signs
      <3>4. QED
        BY <2>1, <3>1, <3>3, QuietStep
    <2>7. CASE memo[k] = None
      <3>1. memo' = [memo EXCEPT ![k] = [request |-> mail[t], answer |-> answer]]
              /\ Compute(mail[t], answer)
        BY <1>10, <2>4, <2>7 DEF AnswerCommand
      <3>2. /\ memo'[k] = [request |-> mail[t], answer |-> answer] /\ memo'[k] # None
            /\ \A l \in Keys \ {k} : memo'[l] = memo[l]
        BY <1>n, <2>2, <3>1
      <3>3. answer.code \in Deferred =>
              phase[t] = "sign" /\ answer.by = t /\ answer.stage = Len(took[t])
        BY <2>2, <3>1 DEF Compute, Deferred, Request, Phases
      <3>4. \A u \in Tasks : ~Signs(k, u)
        BY <2>7 DEF Signs
      <3>5. \A l \in Keys, u \in Tasks :
              Signs(l, u)' <=> Signs(l, u) \/ (l = k /\ u = t /\ answer.code \in Deferred)
        BY <2>7, <3>2, <3>3 DEF Signs
      <3>6. \A l \in Keys : Signs(l, t) => memo[l].answer.stage # Len(took[t])
        BY <2>2 DEF StagesOver
      <3>7. SignsForAsker'
        BY <2>2, <3>2, <3>3 DEF StageInv, SignsForAsker
      <3>s. \A l \in Keys, u \in Tasks : Signs(l, u) => l # k /\ memo'[l] = memo[l]
        BY <3>2, <3>4
      <3>8. OncePerStage'
        <4> SUFFICES ASSUME NEW l \in Keys, NEW m \in Keys, NEW u \in Tasks, l # m,
                            Signs(l, u)', Signs(m, u)'
                     PROVE  memo'[l].answer.stage # memo'[m].answer.stage
          BY DEF OncePerStage
        <4>1. CASE Signs(l, u) /\ Signs(m, u)
          BY <3>s, <4>1 DEF StageInv, OncePerStage
        <4>2. CASE l = k /\ Signs(m, u)
          BY <3>2, <3>3, <3>4, <3>5, <3>6, <3>s, <4>2
        <4>3. CASE m = k /\ Signs(l, u)
          BY <3>2, <3>3, <3>4, <3>5, <3>6, <3>s, <4>3
        <4>4. QED
          BY <3>5, <4>1, <4>2, <4>3
      <3>9. \A u \in Tasks \ {t} : TaskFits(u)'
        <4> SUFFICES ASSUME NEW u \in Tasks, u # t PROVE TaskFits(u)'
          OBVIOUS
        <4>1. TaskFits(u) /\ \A l \in Keys : Signs(l, u)' <=> Signs(l, u)
          BY <3>5 DEF StageInv
        <4>2. \A l \in Keys : Signs(l, u) => memo'[l] = memo[l]
          BY <3>2, <3>4
        <4>3. /\ pc'[u] = pc[u] /\ phase'[u] = phase[u] /\ key'[u] = key[u]
              /\ previous'[u] = previous[u] /\ mail'[u] = mail[u] /\ took'[u] = took[u]
          BY <2>1 DEF OthersStay
        <4>4. StagesOver(u)'
          BY <4>1, <4>2, <4>3 DEF StagesOver
        <4>5. MailFits(u)'
          BY <4>1, <4>2, <4>3 DEF MailFits
        <4>6. TakenFits(u)'
          BY <4>1, <4>2, <4>3 DEF TakenFits, MailFits
        <4>7. QED
          BY <4>4, <4>5, <4>6
      <3>10. StagesOver(t)'
        <4> SUFFICES ASSUME NEW l \in Keys, Signs(l, t)'
                     PROVE  phase[t] = "sign" /\ memo'[l].answer.stage <= Len(took[t])
          BY <2>1, <2>2, <2>3 DEF StagesOver
        <4>1. CASE Signs(l, t)
          BY <3>s, <4>1 DEF StagesOver
        <4>2. CASE l = k /\ answer.code \in Deferred
          BY <3>2, <3>3, <4>2
        <4>3. QED
          BY <3>5, <4>1, <4>2
      <3>11. MailFits(t)'
        BY <1>n, <2>1, <2>2, <2>3, <2>4, <3>2, <3>3, <3>5 DEF MailFits
      <3>12. TakenFits(t)'
        BY <2>1, <2>2, <3>2, <3>4, <3>5 DEF TakenFits
      <3>13. StagesAdvance'
        BY <2>1 DEF StageInv, StagesAdvance
      <3>14. QED
        BY <3>7, <3>8, <3>9, <3>10, <3>11, <3>12, <3>13 DEF StageInv
    <2>8. QED
      BY <2>6, <2>7
  <1>11. CASE ReceiveSigned(t)
    <2>1. /\ UNCHANGED <<memo, key, previous>> /\ OthersStay(t)
          /\ mail'[t] = None /\ pc[t] = "sent" /\ phase[t] = "sign" /\ mail[t] \in Answer
      BY <1>11 DEF ReceiveSigned, Arrived, Return, platform, OthersStay
    <2>2. CASE \E code \in {"signed", "pending", "error"} : Return(t, code) /\ UNCHANGED took
      BY <1>r, <2>1, <2>2
    <2>3. CASE /\ mail[t].code = "pending" /\ took' = [took EXCEPT ![t] = Append(@, mail[t])]
               /\ pc' = [pc EXCEPT ![t] = "resolving"] /\ UNCHANGED phase
      <3>1. /\ took'[t] = Append(took[t], mail[t]) /\ took[t] \in Seq(Answer)
            /\ Len(took'[t]) = Len(took[t]) + 1 /\ took'[t][Len(took[t]) + 1] = mail[t]
            /\ \A n \in 1..Len(took[t]) : took'[t][n] = took[t][n]
            /\ pc'[t] = "resolving"
        BY <2>1, <2>3
      <3>2. Signs(key[t], t) /\ memo[key[t]].answer = mail[t] /\ key[t] \in Keys
              /\ key[t] # previous[t]
        BY <2>1, <2>3 DEF MailFits, Deferred
      <3>3. took[t] # <<>> => /\ previous[t] \in Keys /\ Signs(previous[t], t)
                              /\ memo[previous[t]].answer = took[t][Len(took[t])]
        BY <2>1 DEF TakenFits
      <3>4. took[t] # <<>> => took[t][Len(took[t])] # mail[t]
        <4> SUFFICES ASSUME took[t] # <<>>, took[t][Len(took[t])] = mail[t] PROVE FALSE
          OBVIOUS
        <4>1. memo[previous[t]].answer.stage = memo[key[t]].answer.stage
          BY <3>2, <3>3
        <4>2. QED
          BY <3>2, <3>3, <4>1 DEF StageInv, OncePerStage
      <3>5. StagesAdvance'
        <4> SUFFICES ASSUME NEW u \in Tasks, NEW n \in 1..(Len(took'[u]) - 1)
                     PROVE  took'[u][n] # took'[u][n + 1]
          BY DEF StagesAdvance
        <4>1. CASE u # t
          BY <2>1, <4>1 DEF OthersStay, StageInv, StagesAdvance
        <4>2. CASE u = t /\ n < Len(took[t])
          <5>1. n \in 1..(Len(took[t]) - 1) /\ n \in 1..Len(took[t]) /\ n + 1 \in 1..Len(took[t])
            BY <3>1, <4>2
          <5>2. took[t][n] # took[t][n + 1]
            BY <5>1 DEF StageInv, StagesAdvance
          <5>3. QED
            BY <3>1, <4>2, <5>1, <5>2
        <4>3. CASE u = t /\ n = Len(took[t])
          BY <3>1, <3>4, <4>3
        <4>4. QED
          BY <3>1, <4>1, <4>2, <4>3
      <3>6. TaskFits(t)'
        <4>1. StagesOver(t)'
          <5> SUFFICES ASSUME NEW l \in Keys, Signs(l, t)
                       PROVE  /\ memo[l].answer.stage <= Len(took'[t])
                              /\ memo[l].answer.stage # Len(took'[t])
            BY <2>1, <2>3 DEF StagesOver, Signs
          <5>1. memo[l].answer.stage <= Len(took[t]) /\ memo[l].answer \in Answer
            BY DEF StagesOver, Signs
          <5>2. memo[l].answer.stage \in Nat
            BY <5>1 DEF Signs, Deferred, Answer
          <5>3. QED
            BY <3>1, <5>1, <5>2
        <4>2. MailFits(t)'
          BY <1>n, <2>1, <2>3, <3>1, <3>2 DEF MailFits
        <4>3. TakenFits(t)'
          BY <2>1, <2>3, <3>1, <3>2 DEF TakenFits, Signs
        <4>4. QED
          BY <4>1, <4>2, <4>3
      <3>7. \A u \in Tasks \ {t} : TaskFits(u)'
        BY <2>1 DEF StageInv, OthersStay, StagesOver, MailFits, TakenFits, Signs
      <3>8. QED
        BY <2>1, <3>5, <3>6, <3>7 DEF StageInv, SignsForAsker, OncePerStage, Signs
    <2>4. QED
      BY <1>11, <2>2, <2>3 DEF ReceiveSigned
  <1>12. QED
    BY <1>2, <1>3, <1>4, <1>5, <1>6, <1>7, <1>8, <1>9, <1>10, <1>11

\* A stage of a signing is never answered by what answered the stage before it: the keys of
\* the two differ, and under another key the Platform executes the stage (the loop of
\* PlatformSigner.sign, which checks the key the application's factory returns).
THEOREM StagesNeverRepeat == Spec => []StagesAdvance
  <1> DEFINE Inv == TypeOK /\ CacheInv /\ StageInv
  <1>1. Init => Inv
    BY TypeInit, CacheInvInit, StageInit DEF Init
  <1>2. Inv /\ [Next]_vars => Inv'
    <2>1. CacheInv /\ [Next]_vars => CacheInv'
      BY CacheSteps, CacheStep
    <2>2. CacheInv' => CacheTypeOK'
      BY DEF CacheInv
    <2>3. QED
      BY <2>1, <2>2, TypeStep, StageStep
  <1>3. Inv => StagesAdvance
    BY DEF StageInv
  <1>4. QED
    BY <1>1, <1>2, <1>3, PTL DEF Spec
-----------------------------------------------------------------------------
(* What a Platform publishes (PlatformDocuments), and its client's headers (ProviderChecks) *)

LEMMA EndedPath ==
  ASSUME NEW Text, NEW prefix \in Seq(Text), NEW id, NEW end,
         NEW path, path = (prefix \o <<id>>) \o <<end>>
  PROVE  /\ DOMAIN path = 1..Len(prefix) + 2
         /\ path = [n \in 1..Len(prefix) + 2 |-> path[n]]
         /\ \A n \in 1..Len(prefix) : path[n] = prefix[n]
         /\ path[Len(prefix) + 1] = id /\ path[Len(prefix) + 2] = end
  OBVIOUS

\* The template of DID document URLs is tried with one identifier when a Platform is
\* configured, and is right for every identifier: the URL it gives is where did:web looks for
\* the document - unless the sample is a component of the prefix, or the document's name
\* (Platform.__init__ of platform/platform.py).
THEOREM TemplatesAgree ==
  ASSUME NEW Text, NEW options, NEW id, options.prefix \in Seq(Text),
         options.template.path \in Seq(Text), Sample # "did.json"
  PROVE  UrlsAgree(options, id)
  <1> DEFINE prefix == options.prefix
             path == options.template.path
             places == {n \in 1..Len(path) : path[n] = Placeholder}
             tried == (prefix \o <<Sample>>) \o <<"did.json">>
             goal == (prefix \o <<id>>) \o <<"did.json">>
             p == Len(prefix)
  <1> SUFFICES ASSUME ValidTemplate(options), Sample \notin ToSet(prefix)
               PROVE  Rendered(options.template, id) = DocumentUrl(DidOf(options.host, prefix, id))
    BY DEF UrlsAgree
  <1>1. /\ options.template.host = options.host
        /\ [n \in 1..Len(path) |-> IF path[n] = Placeholder THEN Sample ELSE path[n]] = tried
    BY DEF ValidTemplate, Rendered, DocumentUrl, DidOf
  <1>2. PICK place \in 1..Len(path) : places = {place}
    <2>1. Cardinality(places) = 1
      BY DEF ValidTemplate, PlacesIn
    <2>2. IsFiniteSet(places)
      <3>1. Len(path) \in Int /\ 1 \in Int
        BY LenProperties
      <3>2. IsFiniteSet(1..Len(path))
        BY <3>1, FS_Interval
      <3> QED
        BY <3>2, FS_Subset
    <2>3. PICK place : places = {place}
      BY <2>1, <2>2, FS_Singleton
    <2> QED
      BY <2>3
  <1> HIDE DEF places, tried, goal
  <1>s. \A n \in 1..p : prefix[n] # Sample
    BY LenProperties DEF p, ToSet
  <1>3. /\ DOMAIN tried = 1..p + 2
        /\ \A n \in 1..p : tried[n] = prefix[n]
        /\ tried[p + 1] = Sample /\ tried[p + 2] = "did.json"
    <2>1. prefix \in Seq(Text)
      OBVIOUS
    <2> HIDE DEF p, prefix, path
    <2>2. tried = (prefix \o <<Sample>>) \o <<"did.json">>
      BY DEF tried
    <2> QED
      BY <2>1, <2>2, EndedPath DEF p
  <1>n. p \in Nat
    BY LenProperties DEF p
  <1>4. /\ goal = [n \in 1..p + 2 |-> goal[n]]
        /\ \A n \in 1..p : goal[n] = prefix[n]
        /\ goal[p + 1] = id /\ goal[p + 2] = "did.json"
    <2>1. prefix \in Seq(Text)
      OBVIOUS
    <2> HIDE DEF p, prefix, path
    <2>2. goal = (prefix \o <<id>>) \o <<"did.json">>
      BY DEF goal
    <2> QED
      BY <2>1, <2>2, EndedPath DEF p
  <1> HIDE DEF p, path, prefix
  <1>5. Len(path) \in Nat
    BY LenProperties DEF path
  <1>6. Len(path) = p + 2
    <2>1. 1..Len(path) = 1..p + 2
      BY <1>1, <1>3, <1>n
    <2> QED
      BY <1>3, <1>n, <1>5, <2>1
  <1>7. \A n \in 1..p + 2 : tried[n] = IF path[n] = Placeholder THEN Sample ELSE path[n]
    BY <1>1, <1>6
  <1>8. \A n \in 1..p + 2 : path[n] = Placeholder <=> n = place
    BY <1>2, <1>6 DEF places
  <1>9. place = p + 1
    <2>1. place \in 1..p + 2 /\ tried[place] = Sample
      BY <1>2, <1>6, <1>7, <1>8
    <2> QED
      BY <1>3, <1>n, <1>s, <2>1
  <1>10. \A n \in 1..p + 2 : goal[n] = IF path[n] = Placeholder THEN id ELSE path[n]
    <2>1. ASSUME NEW n \in 1..p + 2, n # p + 1 PROVE goal[n] = tried[n] /\ tried[n] = path[n]
      <3>1. n \in 1..p \/ n = p + 2
        BY <1>3, <1>n, <2>1
      <3> QED
        BY <1>3, <1>n, <1>4, <1>7, <1>8, <1>9, <2>1, <3>1
    <2> QED
      BY <1>4, <1>8, <1>9, <2>1
  <1>11. [n \in 1..Len(path) |-> IF path[n] = Placeholder THEN id ELSE path[n]] = goal
    BY <1>4, <1>6, <1>10
  <1> QED
    BY <1>1, <1>11 DEF Rendered, DocumentUrl, DidOf, path, prefix, goal

\* The paths of endpoints: a text, and how many places it has for the identity and others.
Path(Text) == [text : Text, identity : Nat, others : Nat]
Endpoints(Text) ==
  [lifecycle : Path(Text), sign : Path(Text), list : Path(Text), provision : Path(Text),
   hosted : Path(Text) \cup {None}]

\* Every endpoint that a configured Platform advertises is one that its client can use
\* (_endpoint of agent/platform_provider.py), but for paths with another place in them.
THEOREM EndpointsServe ==
  ASSUME NEW Text, NEW options, options.endpoints \in Endpoints(Text), None \notin Path(Text)
  PROVE  EndpointsUsable(options)
  <1> DEFINE endpoints == options.endpoints
  <1> SUFFICES ASSUME Configured(options) PROVE EndpointsUsable(options)
    BY DEF EndpointsUsable
  <1>1. /\ endpoints.lifecycle.identity = 1 /\ endpoints.sign.identity = 1
        /\ endpoints.provision.identity + endpoints.provision.others = 0
        /\ endpoints.list.identity + endpoints.list.others = 0
        /\ endpoints.hosted # None => endpoints.hosted.identity + endpoints.hosted.others = 0
    BY DEF Configured, ValidDiscovery, DiscoveryOf, ValidEndpoints, Placeholders
  <1>2. \A name \in {"lifecycle", "sign", "list", "provision", "hosted"} :
          endpoints[name] # None => ValidPath(endpoints[name]) /\ endpoints[name] \in Path(Text)
    BY DEF Configured, ValidOptions, Endpoints
  <1>3. options.verifies <=> endpoints.hosted # None
    BY DEF Configured, ValidOptions
  <1>4. \A name \in {"lifecycle", "sign", "list", "provision"} : endpoints[name] # None
    BY DEF Endpoints
  <1> HIDE DEF endpoints
  <1>5. \A name \in {"lifecycle", "sign"} :
          Usable(endpoints[name], TRUE) <=> endpoints[name].others = 0
    BY <1>2, <1>4 DEF Usable
  <1>6. \A name \in {"list", "provision", "hosted"} :
          endpoints[name] # None => Usable(endpoints[name], FALSE)
    BY <1>1, <1>2 DEF Usable, Path
  <1> QED
    BY <1>3, <1>5, <1>6 DEF EndpointsUsable, endpoints

\* Whatever record and method a store of the application gives, a DID document that is
\* published has a public key only, and is the active identity's of that identifier
\* (Platform.did_document and platform/document.py).
THEOREM DocumentsArePublic ==
  ASSUME NEW record, NEW id, NEW method PROVE PublicOnly(record, id, method)
  <1> DEFINE answer == AnswerDid(record, id, method)
  <1> SUFFICES ASSUME answer.code = 200
               PROVE  /\ answer.document.id = record.did /\ record.didId = id
                      /\ record.status = "active"
                      /\ \A n \in 1..Len(answer.document.methods) :
                           LET published == answer.document.methods[n] IN
                           published.controller = answer.document.id
                             /\ published.jwk.members \cap PrivateMembers = {}
    BY DEF PublicOnly
  <1>1. record.status = "active" /\ record.didId = id /\ PublishableMethod(record, method)
        /\ answer = [code |-> 200, document |-> DidDocument(record, method)]
    BY DEF AnswerDid
  <1> HIDE DEF answer
  <1>2. answer.document = DidDocument(record, method)
    BY <1>1
  <1>3. /\ answer.document.id = record.did
        /\ answer.document.methods = <<[id |-> method.id, controller |-> method.controller,
                                        jwk |-> method.jwk]>>
    BY <1>2 DEF DidDocument
  <1>4. method.controller = record.did /\ method.jwk.members \cap PrivateMembers = {}
    BY <1>1 DEF PublishableMethod
  <1> QED
    BY <1>1, <1>3, <1>4

Extends(g, h, name, value) ==
  /\ DOMAIN g = DOMAIN h \cup {name} /\ g[name] = value
  /\ \A n \in DOMAIN h \ {name} : g[n] = h[n]

LEMMA WithField == \A h, name, value : Extends(With(h, name, value), h, name, value)
  BY DEF With, Extends

\* Whatever headers the application supplies, those that a command lives by are the client's
\* own, and the application's others are sent as they are (_command and _headers of
\* agent/platform_provider.py).
THEOREM HeadersStay ==
  ASSUME NEW authorization, NEW application, NEW body \in BOOLEAN, NEW own
  PROVE  CommandsKeepHeaders(authorization, application, body, own)
  <1> DEFINE kept == Restrict(application, DOMAIN application \ Reserved)
             supplied == Supplied(authorization, application)
             accepting == With(supplied, "accept", "aep")
             typed == IF body THEN With(accepting, "content-type", "aep") ELSE accepting
             headers == IF own = None THEN typed ELSE With(typed, "idempotency-key", own)
  <1>2. /\ DOMAIN kept = DOMAIN application \ Reserved
        /\ \A n \in DOMAIN application \ Reserved : kept[n] = application[n]
    BY DEF Restrict
  <1> HIDE DEF kept
  <1>3. /\ DOMAIN application \ Reserved \subseteq DOMAIN supplied
        /\ DOMAIN supplied \cap Reserved = {}
        /\ \A n \in DOMAIN application \ Reserved : supplied[n] = application[n]
        /\ authorization # None /\ "authorization" \notin DOMAIN application =>
             "authorization" \in DOMAIN supplied /\ supplied["authorization"] = authorization
    <2>1. supplied = IF authorization = None \/ "authorization" \in DOMAIN kept THEN kept
                     ELSE With(kept, "authorization", authorization)
      BY DEF Supplied, kept
    <2> HIDE DEF supplied
    <2>2. CASE authorization = None \/ "authorization" \in DOMAIN kept
      BY <1>2, <2>1, <2>2
    <2>3. CASE authorization # None /\ "authorization" \notin DOMAIN kept
      <3>1. supplied = With(kept, "authorization", authorization)
        BY <2>1, <2>3
      <3>2. Extends(supplied, kept, "authorization", authorization)
        BY <3>1, WithField, Zenon
      <3> QED
        BY <1>2, <2>3, <3>2 DEF Reserved, Extends
    <2> QED
      BY <2>2, <2>3
  <1> HIDE DEF supplied
  <1>4. Extends(accepting, supplied, "accept", "aep")
    BY WithField, Zenon DEF accepting
  <1> HIDE DEF accepting
  <1>5. /\ body => Extends(typed, accepting, "content-type", "aep")
        /\ ~body => typed = accepting
    <2>1. body => Extends(With(accepting, "content-type", "aep"), accepting, "content-type", "aep")
      BY WithField, Zenon
    <2> QED
      BY <2>1 DEF typed
  <1> HIDE DEF typed
  <1>6. /\ own # None => Extends(headers, typed, "idempotency-key", own)
        /\ own = None => headers = typed
    <2>1. Extends(With(typed, "idempotency-key", own), typed, "idempotency-key", own)
      BY WithField, Zenon
    <2> QED
      BY <2>1 DEF headers
  <1> HIDE DEF headers
  <1>7. headers["accept"] = "aep"
    BY <1>4, <1>5, <1>6 DEF Extends
  <1>8. /\ "idempotency-key" \in DOMAIN headers <=> own # None
        /\ own # None => headers["idempotency-key"] = own
        /\ "content-type" \in DOMAIN headers <=> body
    BY <1>3, <1>4, <1>5, <1>6 DEF Reserved, Extends
  <1>9. \A n \in DOMAIN supplied : headers[n] = supplied[n]
    BY <1>3, <1>4, <1>5, <1>6 DEF Reserved, Extends
  <1>10. headers = CommandHeaders(authorization, application, body, own)
    BY DEF CommandHeaders, headers, typed, accepting, supplied
  <1> QED
    BY <1>3, <1>7, <1>8, <1>9, <1>10 DEF CommandsKeepHeaders
=============================================================================
