----------------------------- MODULE MCPlatform -----------------------------
(***************************************************************************)
(* Platform for TLC: an identity of p1 exists; p1 signs with it, updates   *)
(* it and provisions, p2 owns nothing at first and has assertions verified.*)
(* The generators may return the material that exists.                     *)
(***************************************************************************)
EXTENDS Platform, Sequences, TLC

CONSTANTS error, p1, p2, s1, s2, i1, i2, d1, d2, k1, k2, j1

MCProvisioned ==
  {[id |-> i1, did |-> d1, principal |-> p1, service |-> s1, status |-> "active"]}

MCMaterials == {[id |-> i1, did |-> d2], [id |-> i2, did |-> d2]}

MCForged == {[did |-> d1, service |-> s1, jti |-> j1, exp |-> 2, genuine |-> FALSE]}

Provisions ==
  {[op |-> "provision", principal |-> o[1], service |-> o[2], key |-> o[3]] :
     o \in {<<p1, s2, k1>>, <<p1, s2, k2>>, <<p2, s2, k1>>}}

Signs ==
  {[op |-> "sign", principal |-> o[1], id |-> i1, service |-> o[2], jti |-> j1,
    lifetime |-> o[3], key |-> o[4]] :
     o \in {<<p1, s1, 2, k1>>, <<p1, s1, 2, k2>>, <<p1, s1, 3, k1>>,
            <<p1, s2, 2, k1>>, <<p2, s1, 2, k1>>}}

Updates ==
  {[op |-> "update", principal |-> p, id |-> i1, status |-> "suspended"] : p \in {p1, p2}}

Asserted == {[did |-> d1, service |-> s1, jti |-> j1, exp |-> e, genuine |-> TRUE] :
               e \in 1 .. MaxTime + MaximumLifetime}

Verifications ==
  {[op |-> "verify", principal |-> p2, assertion |-> o[1], service |-> o[2][1],
    key |-> o[2][2]] :
     o \in (Asserted \X {<<s1, k1>>, <<s1, k2>>, <<s2, k1>>})
             \cup (MCForged \X {<<s1, k1>>})}

TaskSymmetry == Permutations(Tasks)

MCRequests == Provisions \cup Signs \cup Updates \cup Verifications
-----------------------------------------------------------------------------
(* What a Platform publishes, over bounded inputs *)

Texts == {"1", "2", "3", "4"}
UrlOfDid(did) == CASE did = "1" -> "u1" [] did = "2" -> "u2" [] did = "3" -> "u3" [] did = "4" -> "u4"
PD == INSTANCE ProviderChecks
        WITH Malformed <- {"malformed"}, Placeholder <- "{}", Sample <- "validation",
             Limit <- 2, WebDids <- Texts, DocumentAt <- UrlOfDid, Error <- error

Paths(n, parts) == UNION {[1..m -> parts] : m \in 0..n}
Templates ==
  [host : {"a"}, prefix : Paths(2, {"agents", "validation"}),
   template : [host : {"a", "b"},
               path : {path \o <<"did.json">> : path \in Paths(3, {"agents", "validation", "{}"})}]]

Path(identity, others) == [text |-> "/x", identity |-> identity, others |-> others]
OfIdentity == {Path(1, 0), Path(1, 1), Path(0, 0)}
SomeOptions ==
  [algorithms : {<<"EdDSA">>, <<"ES256", "ES256">>}, default : {0, 1, 300}, maximum : {300, 301},
   verifies : BOOLEAN, replays : BOOLEAN, host : {"a"}, prefix : {<<>>}, name : {"platform"},
   did : {None}, template : {[host |-> "a", path |-> <<"{}", "did.json">>]},
   base : {Path(0, 0), Path(1, 0)},
   endpoints : [lifecycle : OfIdentity, sign : OfIdentity, list : {Path(0, 0), Path(0, 1)},
                provision : {Path(0, 0)},
                hosted : {None, Path(0, 0), Path(1, 0),
                          [text |-> "malformed", identity |-> 0, others |-> 0]}]]

Stored(n, p, s, status, at) ==
  LET id == <<"1", "2", "3", "4">>[n] IN
  [id |-> id, did |-> id, didId |-> id, url |-> UrlOfDid(id), key |-> id, principal |-> p,
   service |-> s, algorithms |-> {"EdDSA"}, status |-> status, created |-> at, rank |-> n]
Stores == {{Stored(1, "p", "s", "active", at), Stored(2, "p", o, "revoked", 1),
            Stored(3, "p", "s", "active", 1), Stored(4, o, "s", "active", 0)} :
             at \in 0..2, o \in {"p", "s"}}
Queries == [descending : BOOLEAN, limit : {0}, offset : {0}, service : {None, "s"},
            status : {None, "active"}]
Methods == [id : {"1", "2"}, controller : {"1"}, type : {"JsonWebKey", "malformed"},
            jwk : [type : {"OKP", "oct"}, members : SUBSET {"x", "d", "k"}]]

ASSUME TemplatesSound ==
  \A options \in Templates : \A id \in {"x", "validation"} : PD!UrlsAgree(options, id)
ASSUME EndpointsSound == \A options \in SomeOptions : PD!EndpointsUsable(options)
ASSUME PagesComplete ==
  \A store \in Stores, query \in Queries, limit \in 1..3 :
    PD!PagesCover(store, "p", query, limit)
Shelves == {{Stored(1, "p", "s", a, at), Stored(2, "p", "s", b, 1), Stored(3, "p", "s", c, 1),
             Stored(4, o[1], o[2], d, 2)} :
              a, b, c, d \in {"active", "revoked"}, at \in {0, 3}, o \in {"p", "q"} \X {"s", "r"}}
HeaderNames == {"accept", "authorization", "idempotency-key", "x"}
Supplies == UNION {[names -> {"v"}] : names \in SUBSET HeaderNames}

ASSUME FindsSound == \A store \in Shelves : PD!FindsActive(store, "p", "s")
ASSUME HeadersSound ==
  \A authorization \in {None, "a"}, supply \in Supplies, body \in BOOLEAN, key \in {None, "k"} :
    PD!CommandsKeepHeaders(authorization, supply, body, key)
ASSUME KeysPublic ==
  \A record \in UNION Stores, method \in Methods : PD!PublicOnly(record, record.id, method)
=============================================================================
