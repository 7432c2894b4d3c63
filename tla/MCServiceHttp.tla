------------------------------ MODULE MCServiceHttp ------------------------------
(* An instance of ServiceHttp for TLC: a Grant, a command that may repeat its key or   *)
(* its assertion or come from its Agent, and a third request: a command, a request that  *)
(* is refused on the way, or one for a resource that presents one thing or several.      *)
EXTENDS ServiceHttp, ClaimLimits, TLC

CONSTANTS t1, t2, t3, g, h, k, k2, g1, g2, h1, r1, e1, s1, a1, a2

MCClaimsOf ==
  [a \in {g1, g2, h1, r1, e1, s1, a1, a2} |->
     [sub |-> IF a \in {h1, a2} THEN h ELSE g,
      op |-> CASE a \in {g1, g2, h1} -> "grant" [] a = r1 -> "revoke" [] a = e1 -> "enroll"
               [] a = s1 -> "status" [] OTHER -> "authenticate"]]

Shows(scheme, credentials) ==
  <<[scheme |-> scheme, proper |-> TRUE, comma |-> FALSE, credentials |-> credentials]>>
Improper(scheme) == <<[scheme |-> scheme, proper |-> FALSE, comma |-> FALSE, credentials |-> a1]>>
Says(content) == [large |-> FALSE, content |-> content]
Nothing == Says(None)
Asking(type) == Says([type |-> type])
Revoking(type, id) == Says([type |-> type, id |-> id, all |-> type = None])
Name == [name |-> 1, value |-> [kind |-> "text", length |-> 1]]
Claiming(n) == [bytes |-> n, value |-> [kind |-> "object", members |-> [m \in 1..n |-> Name]]]
Enrolling(agent, key, documents, n) ==
  Says([agent |-> agent, key |-> key, documents |-> documents, sized |-> Claiming(n),
        claims |-> IF n = 0 THEN None ELSE "email" :> "value"])

MCContents == {body.content : body \in
  {Asking("oauth-bearer"), Asking("basic"), Revoking(None, None), Revoking("oauth-bearer", t1),
   Revoking("basic", None), Revoking("oauth-bearer", None), Revoking("malformed", None)}
   \cup {Enrolling(a, key, d, n) : a \in {g, h}, key \in {None, k, k2}, d \in {None, <<>>, <<"terms">>},
         n \in 0..2}}
MCLimits == [bytes |-> 1, members |-> 2, depth |-> 2, text |-> 1]
MCOptions ==
  [did |-> "did", methods |-> <<"did:web">>, algorithms |-> <<"EdDSA", "ES256">>,
   tolerance |-> 30, lifetime |-> 300, limits |-> MCLimits, base |-> "/aep/", openapi |-> None,
   grantTypes |-> <<[type |-> "oauth-bearer", configured |-> TRUE, perCredential |-> TRUE,
                     authenticator |-> TRUE]>>,
   authentication |-> <<"aep-jwt", "oauth-bearer">>, inspectUrl |-> None,
   claims |-> [required |-> <<"email">>, preferred |-> None, optional |-> None],
   extensions |-> <<DocumentsExtension>>,
   documents |-> <<[id |-> "terms", type |-> "terms", enrollment |-> "required",
                    media |-> <<"text/html">>]>>]
Get(path, values) ==
  [path |-> path, method |-> "GET", standard |-> values, dedicated |-> <<>>, others |-> {},
   keys |-> <<>>, types |-> <<>>, body |-> Nothing, etags |-> {}]
Post(path, a, body) ==
  [Get(path, Shows("AEP", a)) EXCEPT !.method = "POST", !.keys = <<k>>, !.types = <<"aep">>,
                                     !.body = body]

Grants == {Post("grant", g1, Asking("oauth-bearer")), Post("grant", g2, Asking("basic")),
           Post("grant", h1, Asking("oauth-bearer"))}
Commanded ==
  {Post("grant", g1, Asking("oauth-bearer")), Post("grant", g2, Asking("oauth-bearer")),
   Post("revoke", r1, Revoking("oauth-bearer", t1)),
   Post("enroll", e1, Enrolling(g, k, <<>>, 1))}
Odd ==
  {Get("inspect", <<>>), [Get("inspect", <<>>) EXCEPT !.etags = {"*", "other"}],
   [Get("inspect", <<>>) EXCEPT !.method = "POST"], Get("elsewhere", <<>>),
   Get("status", Shows("AEP", s1)), [Get("status", <<>>) EXCEPT !.method = "POST"],
   Get("grant", Shows("AEP", g1)), Post("grant", r1, Asking("oauth-bearer")),
   [Post("revoke", r1, Revoking("basic", None)) EXCEPT !.types = <<"aep", "json">>],
   Post("revoke", r1, Revoking("basic", None)), Post("revoke", r1, Revoking("malformed", None)),
   Post("revoke", r1, Revoking(None, None)),
   [Post("enroll", e1, Enrolling(g, k, <<>>, 1)) EXCEPT !.keys = <<k, k>>],
   [Post("enroll", e1, Nothing) EXCEPT !.body.large = TRUE], Post("enroll", e1, Nothing),
   Post("enroll", e1, Enrolling(h, k, <<>>, 1)), Post("enroll", e1, Enrolling(g, k2, <<>>, 1)),
   Post("enroll", e1, Enrolling(g, None, <<>>, 2)),
   Post("enroll", e1, Enrolling(g, None, <<"terms">>, 0))}
Resources ==
  {Get("resource", Shows("AEP", a1)), Get("resource", Shows("AEP", g1)),
   Get("resource", Shows("Bearer", t1)), Get("resource", Shows("Basic", t1)),
   Get("resource", Improper("Bearer")), Get("resource", Improper("other")),
   Get("resource", Improper("other") \o Shows("AEP", a1)),
   [Get("resource", Shows("AEP", a1)) EXCEPT !.dedicated = Shows("AEP", a2)],
   [Get("resource", Improper("other")) EXCEPT !.dedicated = Shows("AEP", a2)],
   [Get("resource", Improper("other")) EXCEPT !.others = {t1}]}
MCAsks == [t \in {t1, t2, t3} |-> CASE t = t1 -> Grants [] t = t2 -> Commanded
                                    [] OTHER -> Grants \cup Commanded \cup Odd \cup Resources]
-----------------------------------------------------------------------------
(* The configuration and the limits, over bounded inputs *)

Definitions == {[type |-> type, configured |-> configured, perCredential |-> FALSE,
                 authenticator |-> authenticator] :
                  type \in {"oauth-bearer", "basic"}, configured \in BOOLEAN, authenticator \in BOOLEAN}
UpTo(n, set) == UNION {[1..m -> set] : m \in 0..n}
SomeOptions ==
  {[MCOptions EXCEPT !.grantTypes = d, !.authentication = a, !.extensions = e, !.documents = f] :
     d \in UpTo(2, Definitions), a \in UpTo(2, {Jwt, "oauth-bearer", "basic"}),
     e \in {<<>>, <<DocumentsExtension>>}, f \in {None, <<>>, MCOptions.documents}}

Leaf(n) == [kind |-> "text", length |-> n]
Lists(n, values) == {[kind |-> "list", items |-> items] : items \in UpTo(n, values)}
Objects(n, names, values) ==
  {[kind |-> "object", members |-> members] :
     members \in UpTo(n, [name : names, value : values])}
Flat == {Leaf(1), Leaf(3), [kind |-> "other"]}
Nested == Flat \cup Lists(2, Flat) \cup Objects(2, {1, 3}, Flat)
Values == Nested \cup Lists(2, Nested) \cup Objects(2, {1}, Nested)
            \cup Lists(1, Lists(1, Nested)) \cup Objects(1, {1}, Lists(1, Nested))

ASSUME PublishedKept == \A options \in SomeOptions : PromisesKept(options)
ASSUME LimitsConfigured == Limits = Options.limits
ASSUME LimitsExact == \A value \in Values : WalkExact(value)
=============================================================================
