--------------------------- MODULE Assertion_proofs ---------------------------
(***************************************************************************)
(* Proofs about the way of a client assertion: AssertionReplay, for any    *)
(* requests, assertions, tolerance and delays; and, for any values, the    *)
(* URLs and DIDs by which an assertion finds its Service and its keys      *)
(* (Urls), and the assertions that an Agent makes and a Service takes      *)
(* (ClientAssertions).                                                     *)
(***************************************************************************)
EXTENDS AssertionReplay, ClientAssertions, SequenceTheorems, TLAPS


\* The store remembers every accepted identifier until then: a request that read
\* the clock early and consumes late does not make it forget.
LiveUseRemembered ==
  \A t \in Tasks :
    pc[t] = "accepted" /\ now < Expiry(shown[t]) => records[shown[t].id] # None

\* A request under way presents an assertion and read a clock that has only
\* moved forward since.
Presented ==
  \A t \in Tasks : /\ pc[t] # "idle" => shown[t] \in Assertions
                   /\ arrived[t] <= now

\* While an accepted assertion is live, the store holds its own expiry: nobody
\* can purge it, because nobody has read a clock that late, and nobody can
\* replace it, because consume() never overwrites.
LiveRecord ==
  \A t \in Tasks :
    pc[t] = "accepted" /\ now < Expiry(shown[t])
      => records[shown[t].id] = Expiry(shown[t])

IInv == TypeOK /\ Presented /\ LiveRecord /\ SingleUseWhileLive

LEMMA Numbers ==
  ASSUME NEW a \in Assertions
  PROVE  a.id \in Ids /\ Expiry(a) \in Nat
  BY AssertionsAssumption, ToleranceAssumption DEF Assertion, Expiry

LEMMA InitInv == Init => IInv
  BY DEF Init, IInv, TypeOK, PC, Presented, LiveRecord, SingleUseWhileLive

LEMMA TickStep == IInv /\ Tick => IInv'
  <1> SUFFICES ASSUME IInv, Tick PROVE IInv'
    OBVIOUS
  <1> USE DEF IInv, Tick
  <1>1. TypeOK' /\ Presented'
    BY DEF TypeOK, Presented
  <1>2. LiveRecord'
    <2> SUFFICES ASSUME NEW t \in Tasks, pc[t] = "accepted", now + 1 < Expiry(shown[t])
                 PROVE  records[shown[t].id] = Expiry(shown[t])
      BY DEF LiveRecord, Expiry
    <2>1. now < Expiry(shown[t])
      BY Numbers DEF TypeOK, Presented
    <2>2. QED
      BY <2>1 DEF LiveRecord
  <1>3. QED
    BY <1>1, <1>2 DEF SingleUseWhileLive, Expiry

LEMMA ArriveStep ==
  ASSUME NEW t \in Tasks, NEW a \in Assertions, NEW op \in Operations, IInv, Arrive(t, a, op)
  PROVE  IInv'
  <1> USE DEF IInv, Arrive
  <1>1. TypeOK'
    BY DEF TypeOK, PC
  <1>2. Presented'
    BY DEF Presented, TypeOK
  <1>3. LiveRecord'
    BY DEF LiveRecord, TypeOK, Expiry
  <1>4. SingleUseWhileLive'
    BY DEF SingleUseWhileLive, TypeOK, Expiry
  <1>5. QED
    BY <1>1, <1>2, <1>3, <1>4

LEMMA KeptType == TypeOK => \A at \in Nat : Kept(at) \in [Ids -> Nat \cup {None}]
  BY DEF TypeOK, Kept

\* A purge by a request that arrived in the past leaves every live record alone.
LEMMA LiveSurvivesPurge ==
  ASSUME IInv, NEW u \in Tasks, NEW t \in Tasks,
         pc[t] = "accepted", now < Expiry(shown[t])
  PROVE  /\ Kept(arrived[u])[shown[t].id] = Expiry(shown[t])
         /\ Expiry(shown[t]) # None
  <1>1. shown[t].id \in Ids /\ Expiry(shown[t]) \in Nat
    BY Numbers DEF IInv, Presented
  <1>2. records[shown[t].id] = Expiry(shown[t])
    BY DEF IInv, LiveRecord
  <1>3. arrived[u] \in Nat /\ now \in Nat /\ arrived[u] <= now
    BY DEF IInv, TypeOK, Presented
  <1>4. QED
    BY <1>1, <1>2, <1>3, NoneAssumption DEF Kept

\* A request refused, by the verifier, the window or the store.
LEMMA RefusalStep ==
  ASSUME NEW t \in Tasks, IInv, VerifierRefuses(t) \/ Refuse(t) \/ RefuseReplay(t)
  PROVE  IInv'
  <1>1. /\ pc[t] = "verifying" /\ pc' \in [Tasks -> PC] /\ pc'[t] \in {"refused", "replayed"}
        /\ \A u \in Tasks : u # t => pc'[u] = pc[u] /\ decided'[u] = decided[u]
        /\ decided' \in [Tasks -> Nat]
        /\ UNCHANGED <<now, command, arrived, shown>>
        /\ records' = records \/ records' = Kept(arrived[t])
    BY DEF VerifierRefuses, Refuse, RefuseReplay, Verdict, IInv, TypeOK, PC
  <1>2. TypeOK'
    BY <1>1, KeptType DEF IInv, TypeOK
  <1>3. Presented'
    BY <1>1 DEF IInv, Presented
  <1>4. LiveRecord'
    <2> SUFFICES ASSUME NEW u \in Tasks, pc[u] = "accepted", now < Expiry(shown[u])
                 PROVE  records'[shown[u].id] = Expiry(shown[u])
      BY <1>1 DEF LiveRecord, Expiry
    <2>1. QED
      BY <1>1, LiveSurvivesPurge DEF IInv, LiveRecord
  <1>5. SingleUseWhileLive'
    BY <1>1 DEF IInv, SingleUseWhileLive, Expiry
  <1>6. QED
    BY <1>2, <1>3, <1>4, <1>5 DEF IInv

LEMMA AcceptStep == ASSUME NEW t \in Tasks, IInv, Accept(t) PROVE IInv'
  <1> DEFINE i == shown[t].id
             e == Expiry(shown[t])
  <1>1. /\ pc[t] = "verifying" /\ pc' = [pc EXCEPT ![t] = "accepted"]
        /\ decided' = [decided EXCEPT ![t] = now]
        /\ UNCHANGED <<now, command, arrived, shown>>
        /\ records' = [Kept(arrived[t]) EXCEPT ![i] = e]
        /\ Kept(arrived[t])[i] = None
    BY DEF Accept, Verdict
  <1>2. shown[t] \in Assertions /\ i \in Ids /\ e \in Nat /\ arrived[t] \in Nat
    BY <1>1, Numbers DEF IInv, Presented, TypeOK
  <1>3. TypeOK'
    BY <1>1, <1>2, KeptType DEF IInv, TypeOK, PC
  <1>4. Presented'
    BY <1>1 DEF IInv, Presented, TypeOK
  <1>5. \A u \in Tasks : pc[u] = "accepted" /\ shown[u].id = i => now >= Expiry(shown[u])
    <2> SUFFICES ASSUME NEW u \in Tasks, pc[u] = "accepted", shown[u].id = i
                 PROVE  now >= Expiry(shown[u])
      OBVIOUS
    <2>1. Expiry(shown[u]) \in Nat /\ now \in Nat
      BY Numbers DEF IInv, Presented, TypeOK
    <2>2. ~ (now < Expiry(shown[u]))
      BY <1>1, LiveSurvivesPurge
    <2>3. QED
      BY <2>1, <2>2
  <1>6. LiveRecord'
    <2> SUFFICES ASSUME NEW u \in Tasks, pc'[u] = "accepted", now < Expiry(shown[u])
                 PROVE  records'[shown[u].id] = Expiry(shown[u])
      BY <1>1 DEF LiveRecord, Expiry
    <2>1. CASE u = t
      BY <2>1, <1>1, <1>2, KeptType DEF IInv
    <2>2. CASE u # t
      <3>1. pc[u] = "accepted"
        BY <2>2, <1>1 DEF IInv, TypeOK
      <3>2. shown[u].id # i
        <4>1. Expiry(shown[u]) \in Nat /\ now \in Nat
          BY <3>1, Numbers DEF IInv, Presented, TypeOK
        <4>2. QED
          BY <3>1, <4>1, <1>5
      <3>3. shown[u].id \in Ids
        BY <3>1, Numbers DEF IInv, Presented
      <3>4. records'[shown[u].id] = Kept(arrived[t])[shown[u].id]
        BY <3>2, <3>3, <1>1, <1>2, KeptType DEF IInv
      <3>5. QED
        BY <3>1, <3>4, LiveSurvivesPurge
    <2>3. QED
      BY <2>1, <2>2
  <1>7. SingleUseWhileLive'
    <2> SUFFICES ASSUME NEW u \in Tasks, NEW v \in Tasks,
                        pc'[u] = "accepted", pc'[v] = "accepted", u # v,
                        shown[u].id = shown[v].id
                 PROVE  \/ decided'[u] >= Expiry(shown[v])
                        \/ decided'[v] >= Expiry(shown[u])
      BY <1>1 DEF SingleUseWhileLive, Expiry
    <2>1. CASE u = t
      BY <2>1, <1>1, <1>5 DEF IInv, TypeOK
    <2>2. CASE v = t
      BY <2>2, <1>1, <1>5 DEF IInv, TypeOK
    <2>3. CASE u # t /\ v # t
      BY <2>3, <1>1 DEF IInv, TypeOK, SingleUseWhileLive
    <2>4. QED
      BY <2>1, <2>2, <2>3
  <1>8. QED
    BY <1>3, <1>4, <1>6, <1>7 DEF IInv

LEMMA Inductive == IInv /\ [Next]_vars => IInv'
  <1> SUFFICES ASSUME IInv, [Next]_vars PROVE IInv'
    OBVIOUS
  <1>1. CASE UNCHANGED vars
    BY <1>1 DEF vars, IInv, TypeOK, Presented, LiveRecord, SingleUseWhileLive, Expiry
  <1>2. QED
    BY <1>1, TickStep, ArriveStep, RefusalStep, AcceptStep DEF Next
-----------------------------------------------------------------------------
\* Every variable of the acceptance path keeps its type.
THEOREM TypeCorrect == Spec => []TypeOK
  <1>1. IInv => TypeOK
    BY DEF IInv
  <1>2. QED
    BY <1>1, InitInv, Inductive, PTL DEF Spec

\* An identifier is not accepted a second time before the assertion accepted first
\* has expired, for any delays between reading the clock and consuming.
THEOREM SingleUse == Spec => []SingleUseWhileLive
  <1>1. IInv => SingleUseWhileLive
    BY DEF IInv
  <1>2. QED
    BY <1>1, InitInv, Inductive, PTL DEF Spec

\* A live accepted identifier is never purged, although requests purge with clocks
\* they read long before.
THEOREM LiveUseIsRemembered == Spec => []LiveUseRemembered
  <1>1. IInv => LiveUseRemembered
    <2> SUFFICES ASSUME IInv, NEW t \in Tasks, pc[t] = "accepted", now < Expiry(shown[t])
                 PROVE  records[shown[t].id] # None
      BY DEF LiveUseRemembered
    <2>1. Expiry(shown[t]) \in Nat
      BY Numbers DEF IInv, Presented
    <2>2. QED
      BY <2>1, NoneAssumption DEF IInv, LiveRecord
  <1>2. QED
    BY <1>1, InitInv, Inductive, PTL DEF Spec

\* consume() never takes its "invalid record" exit on this path: the window test
\* already excludes an assertion whose expiry has passed.
THEOREM ConsumeNeverRaises ==
  ASSUME NEW a \in Assertions, NEW op \in Operations, NEW at \in Nat, Valid(a, op, at)
  PROVE  Expiry(a) > at
  BY AssertionsAssumption, ToleranceAssumption DEF Valid, Expiry, Assertion
-----------------------------------------------------------------------------
(* URLs and DIDs *)

\* URLs and DIDs of any text.  A port is a number, or not there.
Url(Text) ==
  [scheme : Text, host : Text, port : Nat \cup {None}, user : Text \cup {None},
   path : Seq(Text), query : Text \cup {None}, fragment : Text \cup {None}]
Did(Text) == [method : Text, host : Text, port : Nat \cup {None}, path : Seq(Text)]

LEMMA SameUrl ==
  ASSUME NEW Text, NEW url \in Url(Text), NEW other \in Url(Text)
  PROVE  url = other <=>
           /\ url.scheme = other.scheme /\ url.host = other.host /\ url.port = other.port
           /\ url.user = other.user /\ url.path = other.path
           /\ url.query = other.query /\ url.fragment = other.fragment
  BY DEF Url

LEMMA Single == ASSUME NEW Text, NEW x \in Text PROVE <<x>> \in Seq(Text) /\ <<x>> # <<>>
  OBVIOUS

LEMMA Root == ASSUME NEW Text, "" \in Text PROVE <<"">> \in Seq(Text) /\ <<"">> # <<>>
  BY Single, Zenon

LEMMA Ports == \A scheme : DefaultPort(scheme) # None /\ DefaultPort(scheme) \in {80, 443}
  <1>1. None # 80 /\ None # 443
    BY NoneAssumption
  <1> QED
    BY <1>1 DEF DefaultPort

LEMMA PortsAgree ==
  ASSUME NEW p, NEW q, NEW default, default # None
  PROVE  (IF p # None THEN p ELSE default) = (IF q # None THEN q ELSE default) <=>
           (IF p = default THEN None ELSE p) = (IF q = default THEN None ELSE q)
  OBVIOUS

LEMMA NormalizedUrl ==
  ASSUME NEW Text, "" \in Text, NEW url \in Url(Text)
  PROVE  /\ Normalized(url) \in Url(Text)
         /\ Normalized(url).scheme = url.scheme /\ Normalized(url).host = url.host
         /\ Normalized(url).user = url.user /\ Normalized(url).query = url.query
         /\ Normalized(url).fragment = url.fragment
         /\ Normalized(url).port = IF url.port = DefaultPort(url.scheme) THEN None ELSE url.port
         /\ Normalized(url).path = IF url.path = <<>> THEN <<"">> ELSE url.path
  <1> DEFINE p == IF url.port = DefaultPort(url.scheme) THEN None ELSE url.port
             s == IF url.path = <<>> THEN <<"">> ELSE url.path
  <1>1. p \in Nat \cup {None} /\ s \in Seq(Text)
    BY Root DEF Url
  <1>2. Normalized(url) = [url EXCEPT !.port = p, !.path = s]
    BY DEF Normalized, Url
  <1> HIDE DEF p, s
  <1>3. /\ Normalized(url) \in Url(Text) /\ Normalized(url).port = p /\ Normalized(url).path = s
        /\ Normalized(url).scheme = url.scheme /\ Normalized(url).host = url.host
        /\ Normalized(url).user = url.user /\ Normalized(url).query = url.query
        /\ Normalized(url).fragment = url.fragment
    BY <1>1, <1>2 DEF Url
  <1> QED
    BY <1>3 DEF p, s

LEMMA NormalOnce ==
  ASSUME NEW Text, "" \in Text, NEW url \in Url(Text)
  PROVE  Normalized(Normalized(url)) = Normalized(url)
  <1> DEFINE n == Normalized(url)
             m == Normalized(n)
  <1>1. /\ n \in Url(Text) /\ m \in Url(Text)
        /\ m.scheme = n.scheme /\ m.host = n.host /\ m.user = n.user /\ m.query = n.query
        /\ m.fragment = n.fragment
    BY NormalizedUrl
  <1>2. /\ n.scheme = url.scheme
        /\ n.port = IF url.port = DefaultPort(url.scheme) THEN None ELSE url.port
        /\ n.path = IF url.path = <<>> THEN <<"">> ELSE url.path
        /\ m.port = IF n.port = DefaultPort(n.scheme) THEN None ELSE n.port
        /\ m.path = IF n.path = <<>> THEN <<"">> ELSE n.path
    BY <1>1, NormalizedUrl
  <1>3. m.port = n.port /\ m.path = n.path
    BY <1>2, Root, Ports
  <1> HIDE DEF m, n
  <1> QED
    BY <1>1, <1>3, SameUrl DEF m, n

\* URLs of resources have one normal form exactly if they name the same resource: the same
\* origin, path and query, whatever their text (_normalize_resource_uri of core/models.py).
THEOREM NormalFormsIdentify ==
  ASSUME NEW Text, "" \in Text, NEW url \in Url(Text), NEW other \in Url(Text),
         NEW loopback \in BOOLEAN
  PROVE  NormalForm(url, other, loopback)
  <1> SUFFICES ASSUME IsResource(url, loopback), IsResource(other, loopback)
               PROVE  /\ Normalized(Normalized(url)) = Normalized(url)
                      /\ IsResource(Normalized(url), loopback) /\ SameOrigin(url, Normalized(url))
                      /\ Normalized(url) = Normalized(other) <=>
                           /\ SameOrigin(url, other) /\ url.query = other.query
                           /\ \/ url.path = other.path
                              \/ {url.path, other.path} = {<<>>, <<"">>}
    BY DEF NormalForm
  <1>1. /\ url.scheme \in {"https", "http"} /\ url.user = None /\ url.fragment = None
        /\ other.scheme \in {"https", "http"} /\ other.user = None /\ other.fragment = None
    BY DEF IsResource, Allowed, IsLoopback
  <1> DEFINE n == Normalized(url)
             m == Normalized(other)
  <1>2. /\ n.scheme = url.scheme /\ n.host = url.host /\ n.user = None /\ n.fragment = None
        /\ n.query = url.query /\ m.query = other.query
        /\ m.scheme = other.scheme /\ m.host = other.host /\ m.user = None /\ m.fragment = None
        /\ n \in Url(Text) /\ m \in Url(Text)
    BY <1>1, NormalizedUrl
  <1>p. /\ n.port = IF url.port = DefaultPort(url.scheme) THEN None ELSE url.port
        /\ m.port = IF other.port = DefaultPort(other.scheme) THEN None ELSE other.port
        /\ n.path = IF url.path = <<>> THEN <<"">> ELSE url.path
        /\ m.path = IF other.path = <<>> THEN <<"">> ELSE other.path
    BY NormalizedUrl
  <1> HIDE DEF n, m
  <1>e. \A u : EffectivePort(u) = IF u.port # None THEN u.port ELSE DefaultPort(u.scheme)
    BY DEF EffectivePort, DefaultPort
  <1>d. DefaultPort(url.scheme) # None /\ DefaultPort(other.scheme) # None
    BY Ports
  <1>3. IsResource(Normalized(url), loopback) /\ SameOrigin(url, Normalized(url))
    <2>1. IsResource(n, loopback)
      BY <1>1, <1>2 DEF IsResource, Allowed, IsLoopback
    <2>2. EffectivePort(n) = EffectivePort(url)
      BY <1>2, <1>p, <1>d, <1>e
    <2> QED
      BY <1>2, <2>1, <2>2 DEF SameOrigin, OriginOf, n
  <1>4. SameOrigin(url, other) <=>
          url.scheme = other.scheme /\ url.host = other.host
            /\ n.port = m.port
    <2>1. /\ EffectivePort(url) = IF url.port # None THEN url.port ELSE DefaultPort(url.scheme)
          /\ EffectivePort(other) =
               IF other.port # None THEN other.port ELSE DefaultPort(other.scheme)
      BY <1>e
    <2>2. ASSUME url.scheme = other.scheme
          PROVE  EffectivePort(url) = EffectivePort(other) <=> n.port = m.port
      BY <1>p, <1>d, <2>1, <2>2, PortsAgree
    <2> QED
      BY <2>2 DEF SameOrigin, OriginOf
  <1>5. n.path = m.path <=> url.path = other.path \/ {url.path, other.path} = {<<>>, <<"">>}
    BY <1>p, Root
  <1>6. n = m <=>
          /\ url.scheme = other.scheme /\ url.host = other.host /\ n.port = m.port
          /\ n.path = m.path /\ url.query = other.query
    <2>1. n = m <=>
            /\ n.scheme = m.scheme /\ n.host = m.host /\ n.port = m.port
            /\ n.user = m.user /\ n.path = m.path
            /\ n.query = m.query /\ n.fragment = m.fragment
      BY <1>2, SameUrl
    <2> QED
      BY <1>2, <2>1
  <1> QED
    BY <1>3, <1>4, <1>5, <1>6, NormalOnce DEF n, m

\* A Service looked up by its DID is asked where its Inspect document is bound to, and
\* resources of it are looked for there alone (core/inspect.py, core/did_web.py).
THEOREM LookupsBound ==
  ASSUME NEW Text, NEW did \in Did(Text), NEW resource \in Url(Text), NEW loopback \in BOOLEAN
  PROVE  LookupBound(did, resource, loopback)
  <1> SUFFICES ASSUME IsDidWeb(did)
               PROVE  LET url == ServiceUrl([kind |-> "did", did |-> did], loopback) IN
                      /\ OriginBound(did, url, loopback)
                      /\ ResourceOf(resource, url, loopback) => OriginBound(did, resource, loopback)
    BY DEF LookupBound
  <1> DEFINE found == DidDocumentUrl(did, loopback)
             url == UrlOf(did, <<"">>, loopback)
  <1>1. IsHttpsUrl(found, loopback)
    BY DEF IsHttpsUrl, DidDocumentUrl, UrlOf, SchemeOf, Absent, IsDidWeb, Allowed, IsLoopback
  <1>2. ServiceUrl([kind |-> "did", did |-> did], loopback) =
          [found EXCEPT !.user = None, !.path = <<"">>, !.query = None, !.fragment = None]
    BY <1>1 DEF ServiceUrl
  <1>3. ServiceUrl([kind |-> "did", did |-> did], loopback) = url
    BY <1>2 DEF DidDocumentUrl, UrlOf
  <1>4. OriginBound(did, url, loopback)
    BY DEF OriginBound, IsInspectUrl, UrlOf, SchemeOf, Absent, IsDidWeb, Allowed, IsLoopback,
           DidOrigin, OriginOf, EffectivePort
  <1>5. ResourceOf(resource, url, loopback) => OriginBound(did, resource, loopback)
    BY <1>4 DEF ResourceOf, OriginBound, IsInspectUrl, IsHttpsUrl, SameOrigin
  <1> QED
    BY <1>3, <1>4, <1>5

LEMMA AppendedOnce ==
  ASSUME NEW Text, NEW s \in Seq(Text), NEW r \in Seq(Text), NEW x, s \o <<x>> = r \o <<x>>
  PROVE  s = r
  <1>1. Len(s) = Len(r)
    BY LenProperties, ConcatProperties
  <1>2. \A n \in 1..Len(s) : s[n] = (s \o <<x>>)[n] /\ r[n] = (r \o <<x>>)[n]
    BY <1>1, LenProperties, ConcatProperties
  <1> QED
    BY <1>1, <1>2, SeqEqual

\* Two DIDs have one document only at the well-known place, and no key of one document is
\* for both (core/did_web.py, did_web_document_url and select_did_web_public_jwk).
THEOREM DidDocumentsApart ==
  ASSUME NEW Text, ".well-known" \in Text, NEW did \in Did(Text), NEW other \in Did(Text),
         NEW document, NEW key
  PROVE  DocumentsApart(did, other, document, key)
  <1> DEFINE Place(d) == IF d.path = <<>> THEN <<".well-known">> ELSE d.path
  <1>1. ASSUME IsDidWeb(did), IsDidWeb(other), did # other,
               DidDocumentUrl(did, FALSE) = DidDocumentUrl(other, FALSE)
        PROVE  {did.path, other.path} = {<<>>, <<".well-known">>}
    <2>1. /\ Place(did) \o <<"did.json">> = Place(other) \o <<"did.json">>
          /\ did.host = other.host /\ did.port = other.port
      BY <1>1 DEF DidDocumentUrl, UrlOf
    <2>2. Place(did) \in Seq(Text) /\ Place(other) \in Seq(Text)
      BY DEF Did
    <2>3. Place(did) = Place(other)
      <3> HIDE DEF Place
      <3> QED
        BY <2>1, <2>2, AppendedOnce
    <2>4. did.path # other.path
      <3>1. did.method = other.method
        BY <1>1 DEF IsDidWeb
      <3>2. ASSUME did.path = other.path PROVE did = other
        BY <2>1, <3>1, <3>2 DEF Did
      <3> QED
        BY <1>1, <3>2
    <2> QED
      BY <2>3, <2>4
  <1>2. did # other =>
          SelectJwk(document, did, key) = None \/ SelectJwk(document, other, key) = None
    BY DEF SelectJwk
  <1> QED
    BY <1>1, <1>2 DEF DocumentsApart

LEMMA LastOff ==
  \A n \in Nat : n > 0 => (IF 1 <= n - 1 THEN (n - 1) - 1 + 1 ELSE 0) = n - 1
  OBVIOUS

LEMMA FrontOf ==
  ASSUME NEW Text, NEW s \in Seq(Text), Len(s) > 0
  PROVE  /\ Front(s) \in Seq(Text) /\ Len(Front(s)) = Len(s) - 1
         /\ \A n \in 1..Len(s) - 1 : Front(s)[n] = s[n]
  <1>1. Len(s) \in Nat /\ \A n \in 1..Len(s) - 1 : s[n] \in Text
    BY LenProperties
  <1>2. /\ SubSeq(s, 1, Len(s) - 1) \in Seq(Text)
        /\ Len(SubSeq(s, 1, Len(s) - 1)) =
             IF 1 <= Len(s) - 1 THEN (Len(s) - 1) - 1 + 1 ELSE 0
        /\ \A n \in 1..(Len(s) - 1) - 1 + 1 : SubSeq(s, 1, Len(s) - 1)[n] = s[1 + n - 1]
    BY <1>1, SubSeqProperties
  <1>3. (Len(s) - 1) - 1 + 1 = Len(s) - 1 /\ \A n \in 1..Len(s) - 1 : 1 + n - 1 = n
    BY <1>1
  <1>4. (IF 1 <= Len(s) - 1 THEN (Len(s) - 1) - 1 + 1 ELSE 0) = Len(s) - 1
    BY <1>1, LastOff, Zenon
  <1> QED
    BY <1>2, <1>3, <1>4, Zenon DEF Front

LEMMA AppendedTo ==
  ASSUME NEW Text, NEW s \in Seq(Text), NEW x \in Text
  PROVE  /\ s \o <<x>> \in Seq(Text) /\ Len(s \o <<x>>) = Len(s) + 1
         /\ (s \o <<x>>)[Len(s) + 1] = x
         /\ \A n \in 1..Len(s) : (s \o <<x>>)[n] = s[n]
  BY Single, LenProperties, ConcatProperties

\* The path of a command below a base, for any text that takes the place of the empty one.
StaysBelow(path, name, empty, url) ==
  /\ url # <<>> /\ Last(url) = name /\ ToSet(url) \cap Dots = {}
  /\ Len(url) > 1 => url[1] # empty
  /\ \A n \in 1..Len(path) : path[n] = empty \/ path[n] = url[n]

LEMMA Below ==
  ASSUME NEW Text, NEW empty, NEW name \in Text, name \notin Dots, name # empty,
         NEW path \in Seq(Text), path # <<>>, Len(path) > 1 => path[1] # empty,
         ToSet(path) \cap Dots = {}
  PROVE  StaysBelow(path, name, empty,
                    (IF Last(path) = empty THEN Front(path) ELSE path) \o <<name>>)
  <1> DEFINE base == IF Last(path) = empty THEN Front(path) ELSE path
             url == base \o <<name>>
  <1>1. Len(path) \in Nat /\ Len(path) > 0
    BY EmptySeq
  <1>2. DOMAIN path = 1..Len(path) /\ \A n \in 1..Len(path) : path[n] \notin Dots
    BY LenProperties DEF ToSet
  <1>3. /\ base \in Seq(Text) /\ \A n \in 1..Len(base) : base[n] = path[n]
        /\ Len(base) = IF path[Len(path)] = empty THEN Len(path) - 1 ELSE Len(path)
    BY <1>1, FrontOf DEF Last
  <1> HIDE DEF base
  <1>4. /\ url \in Seq(Text) /\ Len(url) = Len(base) + 1 /\ url[Len(base) + 1] = name
        /\ \A n \in 1..Len(base) : url[n] = base[n]
    BY <1>3, AppendedTo
  <1>5. DOMAIN url = 1..Len(url) /\ Len(base) \in Nat
    BY <1>3, <1>4, LenProperties
  <1> HIDE DEF url
  <1>6. \A n \in 1..Len(path) : path[n] = empty \/ path[n] = url[n]
    BY <1>1, <1>3, <1>4
  <1>7. ASSUME NEW n \in 1..Len(url) PROVE url[n] \notin Dots
    <2>1. CASE n = Len(base) + 1
      BY <1>4, <2>1
    <2>2. CASE n # Len(base) + 1
      <3>1. n \in 1..Len(base) /\ n \in 1..Len(path)
        BY <1>1, <1>3, <1>4, <1>5, <2>2
      <3> QED
        BY <1>2, <1>3, <1>4, <3>1
    <2> QED
      BY <2>1, <2>2
  <1>8. Len(url) > 1 => url[1] # empty
    BY <1>1, <1>3, <1>4, <1>5
  <1>9. ToSet(url) \cap Dots = {} /\ url # <<>> /\ Last(url) = name
    BY <1>4, <1>5, <1>7, EmptySeq DEF ToSet, Last
  <1> QED
    BY <1>6, <1>8, <1>9 DEF base, url, StaysBelow

LEMMA CommandBelow ==
  ASSUME NEW Text, NEW name \in Text, name \notin Dots, name # "",
         NEW path \in Seq(Text), IsEndpointPath(path, None, None)
  PROVE  LET url == CommandPath(path, name) IN
         /\ IsEndpointPath(url, None, None) /\ Last(url) = name
         /\ \A n \in 1..Len(path) : path[n] = "" \/ path[n] = url[n]
  <1>1. /\ path # <<>> /\ (Len(path) > 1 => path[1] # "") /\ ToSet(path) \cap Dots = {}
    BY DEF IsEndpointPath
  <1> DEFINE base == IF Last(path) = "" THEN Front(path) ELSE path
             url == base \o <<name>>
  <1>2. StaysBelow(path, name, "", url)
    BY <1>1, Below, Zenon
  <1>3. CommandPath(path, name) = url
    BY DEF CommandPath
  <1> HIDE DEF url
  <1> QED
    BY <1>2, <1>3 DEF IsEndpointPath, StaysBelow

LEMMA SameParts ==
  ASSUME NEW url, NEW other, url.scheme = other.scheme, url.host = other.host,
         url.port = other.port
  PROVE  SameOrigin(url, other)
  BY DEF SameOrigin, OriginOf, EffectivePort

\* The URL that the middleware makes of a request is a resource on its origin that the Service
\* accepts, and commands stay below their base (adapters/asgi.py, service/service.py).
THEOREM RequestsStayAtHome ==
  ASSUME NEW Text, "" \in Text, "grant" \in Text, NEW origin \in Url(Text),
         NEW path \in Seq(Text), NEW query \in Text \cup {None}, NEW loopback \in BOOLEAN
  PROVE  RequestsStay(origin, path, query, loopback)
  <1>1. ASSUME IsResourceOrigin(origin, loopback),
               origin.scheme = "https" \/ origin.host \in LoopbackHosts
        PROVE  LET url == ResourceUrl(origin, path, query) IN
               /\ IsAbsolute(url, loopback) /\ IsResource(Normalized(url), loopback)
               /\ SameOrigin(url, origin)
    <2> DEFINE url == ResourceUrl(origin, path, query)
    <2>1. /\ url \in Url(Text) /\ url.scheme = origin.scheme /\ url.host = origin.host
          /\ url.port = origin.port /\ url.user = None /\ url.fragment = None
      BY <1>1 DEF ResourceUrl, Url, IsResourceOrigin
    <2> HIDE DEF url
    <2>2. IsAbsolute(url, loopback)
      BY <1>1, <2>1 DEF IsAbsolute, IsResourceOrigin, Allowed, IsLoopback, Absent
    <2>3. IsResource(Normalized(url), loopback)
      <3>1. /\ Normalized(url).scheme = url.scheme /\ Normalized(url).host = url.host
            /\ Normalized(url).user = None /\ Normalized(url).fragment = None
        BY <2>1, NormalizedUrl
      <3> QED
        BY <2>1, <2>2, <3>1 DEF IsAbsolute, IsResource, Allowed, IsLoopback
    <2>4. SameOrigin(url, origin)
      BY <2>1, SameParts
    <2> QED
      BY <2>2, <2>3, <2>4 DEF url
  <1>2. "grant" \notin Dots /\ "grant" # ""
    BY DEF Dots
  <1> QED
    BY <1>1, <1>2, CommandBelow DEF RequestsStay

\* The checks of one URL by the Agent, the Service and the models agree, and a document is
\* never fetched over less than its Inspect document was (agent/client.py, core/models.py).
THEOREM UrlChecksAgree ==
  ASSUME NEW url, NEW inspect, NEW loopback \in BOOLEAN
  PROVE  ChecksAgree(url, inspect, loopback)
  BY DEF ChecksAgree, IsHttpsUrl, IsAbsolute, IsResource, IsInspectUrl, IsHttps, IsDocumentUrl,
         OpenApiAllowed, Allowed, IsLoopback, Absent
-----------------------------------------------------------------------------
(* Client assertions of any text and time. *)

AssertionClaims(Text) ==
  [aud : Did(Text), exp : Int, iat : Int, iss : Did(Text), jti : Text, op : Text,
   resource : Url(Text) \cup {None}, sub : Did(Text)]
KeyId(Text) == [did : Did(Text), fragment : Text \cup {None}]
SignedAssertion(Text) ==
  [typ : Text, alg : Text, kid : KeyId(Text), claims : AssertionClaims(Text),
   notBefore : Int \cup {None}, signer : Did(Text)]
VerifierOptions(Text) ==
  [algorithms : SUBSET Text, audience : Did(Text) \cup {None}, issuer : Did(Text) \cup {None},
   subject : Did(Text) \cup {None}, op : Text \cup {None}, resource : Url(Text) \cup {None},
   now : Int, tolerance : Nat, loopback : BOOLEAN]
ServiceOptions(Text) ==
  [did : Did(Text), algorithms : SUBSET Text, methods : SUBSET Text, longest : Int,
   tolerance : Nat, loopback : BOOLEAN]
Identity(Text) ==
  [did : Did(Text), service : Did(Text), algorithms : SUBSET Text, key : KeyId(Text)]
Completed(Text) ==
  [did : Did(Text), service : Did(Text), jti : Text, issued : Int, expires : Int,
   assertion : SignedAssertion(Text)]

\* What is signed verifies with the signer's key exactly in its window, and for no other
\* Service, Agent, operation or resource (core/assertions.py).
THEOREM SignedIsVerified ==
  ASSUME NEW Text, NEW claims \in AssertionClaims(Text), NEW signer \in Did(Text),
         NEW key \in KeyId(Text) \cup {None}, NEW options \in VerifierOptions(Text)
  PROVE  SignedVerifies(claims, signer, key, options)
  <1> DEFINE kid == IF key = None THEN [did |-> claims.iss, fragment |-> None] ELSE key
             made == [typ |-> "JWT", alg |-> "EdDSA", kid |-> kid, claims |-> claims,
                      notBefore |-> None, signer |-> signer]
             asked == [options EXCEPT !.algorithms = {"EdDSA"}]
  <1>1. ASSUME Signed(claims, signer, "EdDSA", key, options.loopback) # None
        PROVE  /\ Signed(claims, signer, "EdDSA", key, options.loopback) = made
               /\ ValidClaims(claims, options.loopback) /\ KeyBound(kid, claims)
    BY <1>1 DEF Signed
  <1>2. /\ asked.algorithms = {"EdDSA"} /\ asked.audience = options.audience
        /\ asked.issuer = options.issuer /\ asked.subject = options.subject
        /\ asked.op = options.op /\ asked.resource = options.resource
        /\ asked.now = options.now /\ asked.tolerance = options.tolerance
        /\ asked.loopback = options.loopback
    BY DEF VerifierOptions
  <1>3. /\ made.typ = "JWT" /\ made.alg = "EdDSA" /\ made.kid = kid /\ made.claims = claims
        /\ made.notBefore = None /\ made.signer = signer
    OBVIOUS
  <1> HIDE DEF made, asked, kid
  <1>4. /\ claims.iat <= options.now + options.tolerance <=>
             claims.iat - options.tolerance <= options.now
        /\ claims.exp > options.now - options.tolerance <=>
             options.now < claims.exp + options.tolerance
    BY DEF AssertionClaims, VerifierOptions
  <1>5. ASSUME ValidClaims(claims, options.loopback), KeyBound(kid, claims)
        PROVE  Verified(made, signer, asked) <=>
                 /\ claims.iat - options.tolerance <= options.now
                 /\ options.now < claims.exp + options.tolerance
                 /\ options.audience \in {None, claims.aud} /\ options.op \in {None, claims.op}
                 /\ {options.issuer, options.subject} \subseteq {None, claims.iss}
                 /\ \/ options.resource = None
                    \/ SameResource(claims.resource, options.resource)
                       /\ IsResource(options.resource, options.loopback)
    <2>1. claims.iss = claims.sub
      BY <1>5 DEF KeyBound
    <2> QED
      BY <1>2, <1>3, <1>4, <1>5, <2>1 DEF Verified
  <1> QED
    BY <1>1, <1>5 DEF SignedVerifies, asked

\* The claims are those that were wanted, but for where their window is.
Fills(claims, wanted) == [claims EXCEPT !.iat = wanted.iat, !.exp = wanted.exp] = wanted

LEMMA AsWanted ==
  ASSUME NEW Text, NEW claims \in AssertionClaims(Text), NEW wanted \in AssertionClaims(Text)
  PROVE  Fills(claims, wanted) <=>
           /\ claims.aud = wanted.aud /\ claims.iss = wanted.iss /\ claims.jti = wanted.jti
           /\ claims.op = wanted.op /\ claims.resource = wanted.resource
           /\ claims.sub = wanted.sub
  BY DEF AssertionClaims, Fills

LEMMA TakenServed ==
  ASSUME NEW Text, NEW assertion \in SignedAssertion(Text), NEW service \in ServiceOptions(Text),
         NEW wanted \in AssertionClaims(Text), NEW resource \in Url(Text) \cup {None},
         NEW taken \in Int, NEW at \in Int,
         wanted.resource # None => Normalized(wanted.resource) = wanted.resource
  PROVE  TakenIsServed(assertion, service, wanted, resource, taken, at)
  <1> DEFINE claims == assertion.claims
  <1> SUFFICES ASSUME AgentTakes(assertion, wanted, service.algorithms, service.loopback, taken),
                      wanted.aud = service.did, wanted.iss.method \in service.methods,
                      wanted.exp - wanted.iat <= service.longest,
                      at + service.tolerance >= taken, at - service.tolerance < claims.exp
               PROVE  ServiceTakes(assertion, service, wanted.op, resource, at)
                        <=> resource = wanted.resource
    BY DEF TakenIsServed
  <1>1. /\ claims \in AssertionClaims(Text)
        /\ claims.iat \in Int /\ claims.exp \in Int /\ service.tolerance \in Nat
    BY DEF SignedAssertion, AssertionClaims, ServiceOptions
  <1>2. /\ ValidClaims(claims, service.loopback) /\ claims.iss = claims.sub
        /\ assertion.typ = "JWT" /\ assertion.kid.did = wanted.iss
        /\ assertion.alg \in service.algorithms
        /\ claims.exp - claims.iat = wanted.exp - wanted.iat
        /\ claims.iat <= taken
    BY DEF AgentTakes, ValidClaims
  <1>t. Fills(claims, wanted)
    BY DEF AgentTakes, Fills
  <1> HIDE DEF claims
  <1>3. /\ claims.aud = wanted.aud /\ claims.iss = wanted.iss /\ claims.op = wanted.op
        /\ claims.resource = wanted.resource
    BY <1>1, <1>t, AsWanted
  <1>4. claims.iat <= at + service.tolerance /\ claims.exp > at - service.tolerance
    BY <1>1, <1>2
  <1>5. (IF claims.resource = None THEN None ELSE Normalized(claims.resource)) = wanted.resource
    BY <1>3
  <1> QED
    BY <1>2, <1>3, <1>4, <1>5 DEF ServiceTakes, claims

LEMMA WantedType ==
  ASSUME NEW Text, NEW audience \in Did(Text), NEW agent \in Did(Text), NEW jti \in Text,
         NEW op \in Text, NEW asked, NEW asking \in Int, NEW lifetime \in Int,
         asked # None => Normalized(asked) \in Url(Text)
  PROVE  Wanted(audience, agent, jti, op, asked, asking, lifetime) \in AssertionClaims(Text)
  BY DEF Wanted, AssertionClaims

\* An assertion that an Agent takes from its provider is taken by the Service it is for, for
\* its resource and no other, while clocks differ by no more than the Service tolerates
\* (agent/client.py, service/service.py).
THEOREM TakenAssertionsServed ==
  ASSUME NEW Text, "" \in Text,
         NEW assertion \in SignedAssertion(Text), NEW service \in ServiceOptions(Text),
         NEW audience \in Did(Text), NEW agent \in Did(Text), NEW jti \in Text, NEW op \in Text,
         NEW asked \in Url(Text) \cup {None}, NEW resource \in Url(Text) \cup {None},
         NEW asking \in Int, NEW lifetime \in Int, NEW taken \in Int, NEW at \in Int
  PROVE  TakenIsServed(assertion, service,
                       Wanted(audience, agent, jti, op, asked, asking, lifetime),
                       resource, taken, at)
  <1> DEFINE wanted == Wanted(audience, agent, jti, op, asked, asking, lifetime)
             normal == IF asked = None THEN None ELSE Normalized(asked)
  <1>1. /\ asked # None => Normalized(asked) \in Url(Text)
        /\ normal # None => Normalized(normal) = normal
    BY NormalizedUrl, NormalOnce
  <1>2. wanted \in AssertionClaims(Text)
    BY <1>1, WantedType, Zenon
  <1>3. wanted.resource = normal
    BY Zenon DEF Wanted
  <1> HIDE DEF wanted, normal
  <1>4. TakenIsServed(assertion, service, wanted, resource, taken, at)
    BY <1>1, <1>2, <1>3, TakenServed, Zenon
  <1> QED
    BY <1>4 DEF wanted

\* What the Platform gives for an identity, its client takes while it lives exactly if it is for
\* the resource as the Agent wrote it (platform/platform.py, agent/platform_provider.py).
THEOREM GivenAssertionsTaken ==
  ASSUME NEW Text, None \notin Text \cup Did(Text),
         NEW answer \in Completed(Text), NEW identity \in Identity(Text),
         NEW wanted \in AssertionClaims(Text), wanted.iss = wanted.sub,
         NEW given \in Int, NEW at \in Int
  PROVE  GivenIsTaken(answer, identity, wanted, given, at)
  <1> DEFINE assertion == answer.assertion
             claims == assertion.claims
             request == [service |-> wanted.aud, jti |-> wanted.jti, op |-> wanted.op,
                         resource |-> wanted.resource]
             options == [algorithms |-> identity.algorithms, audience |-> wanted.aud,
                         issuer |-> identity.did, subject |-> identity.did, op |-> wanted.op,
                         resource |-> wanted.resource, now |-> given, tolerance |-> 0,
                         loopback |-> FALSE]
  <1> SUFFICES ASSUME PlatformGives(answer, identity, request, wanted.exp - wanted.iat, given),
                      wanted.iss = identity.did, wanted.aud = identity.service,
                      given <= at, at < answer.expires
               PROVE  ProviderTakes(answer, identity, wanted, identity.algorithms, FALSE, at)
                        <=> claims.resource = wanted.resource
    BY DEF GivenIsTaken
  <1>1. /\ claims \in AssertionClaims(Text) /\ claims.iat \in Int /\ claims.exp \in Int
        /\ wanted.aud \in Did(Text) /\ wanted.op \in Text /\ identity.did \in Did(Text)
    BY DEF Completed, SignedAssertion, AssertionClaims, Identity
  <1>2. /\ answer.did = identity.did /\ answer.service = wanted.aud /\ answer.jti = wanted.jti
        /\ answer.expires - answer.issued = wanted.exp - wanted.iat
        /\ assertion.kid = identity.key
        /\ claims.iat = answer.issued /\ claims.exp = answer.expires /\ claims.jti = wanted.jti
        /\ Verified(assertion, identity.did, options)
    BY DEF PlatformGives
  <1>3. /\ assertion.typ = "JWT" /\ assertion.alg \in identity.algorithms
        /\ ValidClaims(claims, FALSE) /\ KeyBound(assertion.kid, claims)
        /\ claims.iat <= given + 0
        /\ wanted.aud \in {None, claims.aud} /\ identity.did \in {None, claims.iss}
        /\ identity.did \in {None, claims.sub} /\ wanted.op \in {None, claims.op}
    BY <1>2 DEF Verified
  <1>4. /\ claims.aud = wanted.aud /\ claims.iss = wanted.iss /\ claims.sub = wanted.sub
        /\ claims.op = wanted.op /\ assertion.kid.did = wanted.iss
    BY <1>1, <1>3 DEF KeyBound
  <1>5. claims.iat <= at /\ claims.exp > at
    BY <1>1, <1>2, <1>3
  <1> HIDE DEF claims, assertion, options, request
  <1>6. [claims EXCEPT !.iat = wanted.iat, !.exp = wanted.exp] = wanted
          <=> claims.resource = wanted.resource
    <2>1. Fills(claims, wanted) <=>
            /\ claims.aud = wanted.aud /\ claims.iss = wanted.iss /\ claims.jti = wanted.jti
            /\ claims.op = wanted.op /\ claims.resource = wanted.resource
            /\ claims.sub = wanted.sub
      BY <1>1, AsWanted
    <2> QED
      BY <1>2, <1>4, <2>1 DEF Fills
  <1> QED
    BY <1>2, <1>3, <1>4, <1>5, <1>6 DEF ProviderTakes, AgentTakes, claims, assertion
=============================================================================
