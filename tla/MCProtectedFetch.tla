---------------------------- MODULE MCProtectedFetch ----------------------------
(* An instance of ProtectedFetch for TLC: two origins, the second of which advertises *)
(* fewer methods, and documents with a template of every specificity and requirements *)
(* of every disposition.                                                              *)
EXTENDS ProtectedFetch

CONSTANTS home, away, apiKey, bearer, jwt, x1, x2, x3, pets, one, slash

MCAdvertised == [o \in {home, away} |-> IF o = home THEN <<apiKey, jwt, bearer>> ELSE <<bearer>>]
MCPath == <<pets, one>>
MCMethod == [s \in {x1, x2, x3} |-> CASE s = x1 -> apiKey [] s = x2 -> bearer [] s = x3 -> jwt]

Exact == <<pets, one>>
ByName == <<pets, {pets, one}>>
ByKind == <<{pets}, one>>
Shorter == <<pets>>
Slashed == <<pets, one, slash>>

Document(root, security) == [root |-> root, security |-> security, method |-> MCMethod]
MCDocuments ==
  {Document(None, [t \in {Exact, ByName} |->
                     IF t = Exact THEN <<{x1}, {x2}>> ELSE <<{x3}>>]),
   Document(<<{x1, x2}>>, [t \in {ByName, Shorter} |-> IF t = ByName THEN None ELSE <<>>]),
   Document(<<{x1, x2}, {x3}>>, [t \in {ByKind} |-> None]),
   Document(None, [t \in {ByName, ByKind} |->
                     IF t = ByName THEN <<{x3}, {x1}>> ELSE <<{x2}>>]),
   Document(<<{x3}>>, [t \in {ByName} |-> <<>>]),
   Document(None, [t \in {ByName} |-> <<{}, {x3}>>]),
   Document(None, [t \in {Exact, Slashed} |-> <<{x2}>>])}
-----------------------------------------------------------------------------
(* What the components ask of URLs, over bounded inputs *)

U == INSTANCE Urls WITH Separated <- {"a/b"}

Hosts == {"a", "localhost"}
Paths == {<<>>, <<"">>, <<"x">>, <<"x", "">>, <<"", "x">>, <<"..">>}
Of(schemes, hosts, ports, users, paths, queries, fragments) ==
  [scheme : schemes, host : hosts, port : ports, user : users, path : paths, query : queries,
   fragment : fragments]
Resources == Of({"https", "http"}, Hosts, {None, 80, 443}, {None}, {<<>>, <<"">>, <<"x">>},
                {None, "", "q"}, {None})
SomeUrls == Of({"https", "http", "ftp"}, Hosts \cup {"", "127.0.0.2"}, {None, 443}, {None, "", "u"},
           {<<>>, <<"x">>}, {None, "q"}, {None, "", "f"})
Identifiers == [method : {"web", "key"}, host : Hosts \cup {""}, port : {None, 443},
                path : {<<>>, <<"x">>, <<".well-known">>, <<"a/b">>, <<"..">>, <<"x", "">>}]
KeysOf(dids) == [did : dids, fragment : {"1", "2"}]
DidDocuments ==
  {[id |-> did, methods |-> <<[id |-> k1, jwk |-> None], [id |-> k2, jwk |-> "jwk"]>>] :
     did \in Identifiers, k1, k2 \in KeysOf({[method |-> "web", host |-> "a", port |-> None,
                                               path |-> <<>>]})}

ASSUME UrlsNormal == \A url, other \in Resources : U!NormalForm(url, other, TRUE)
ASSUME LookupsBound ==
  \A did \in Identifiers, url \in SomeUrls, loopback \in BOOLEAN : U!LookupBound(did, url, loopback)
ASSUME DocumentsKept ==
  \A did, other \in Identifiers, document \in DidDocuments :
    \A key \in {method.id : method \in {document.methods[n] : n \in 1..2}} :
      U!DocumentsApart(did, other, document, key)
ASSUME ChecksTogether ==
  \A url, inspect \in SomeUrls, loopback \in BOOLEAN : U!ChecksAgree(url, inspect, loopback)
ASSUME RequestsBound ==
  \A origin \in SomeUrls, path \in Paths, query \in {"", "q"}, loopback \in BOOLEAN :
    U!RequestsStay(origin, path, query, loopback)
=============================================================================
