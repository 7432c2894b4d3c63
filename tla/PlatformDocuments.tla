---------------------------- MODULE PlatformDocuments ----------------------------
(***************************************************************************)
(* What a Platform accepts as its options and publishes: its discovery     *)
(* document, the DID documents of its identities and the lists of them     *)
(* (Platform.__init__, discovery, did_document and list in                 *)
(* platform/platform.py, platform/document.py, MemoryIdentityStore.list).  *)
(* Components of a path are atoms, and a template of DID URLs is a host    *)
(* and the components of its path, one or more of which may be the place   *)
(* for the identifier.                                                     *)
(***************************************************************************)
EXTENDS ProtocolModels, FiniteSetsExt

CONSTANTS
  Placeholder,  \* in a template
  Sample        \* the identifier that templates are tried with: "validation"

\* create_service_scoped_agent_did and the URL of its document, and a rendered template.
DidOf(host, prefix, id) == [host |-> host, path |-> prefix \o <<id>>]
DocumentUrl(did) == [host |-> did.host, path |-> did.path \o <<"did.json">>]
Rendered(template, id) ==
  [host |-> template.host,
   path |-> [n \in 1..Len(template.path) |->
               IF template.path[n] = Placeholder THEN id ELSE template.path[n]]]
PlacesIn(template) ==
  Cardinality({n \in 1..Len(template.path) : template.path[n] = Placeholder})

ValidTemplate(options) ==
  /\ PlacesIn(options.template) = 1 /\ Formed({options.host})
  /\ Rendered(options.template, Sample) =
       DocumentUrl(DidOf(options.host, options.prefix, Sample))

\* An endpoint of the options is an absolute path; what it holds is looked at by the model
\* of the document.
ValidOptions(options) ==
  /\ options.algorithms # <<>> /\ Distinct(options.algorithms)
  /\ ToSet(options.algorithms) \subseteq {"EdDSA", "ES256"}
  /\ options.default >= 1 /\ options.default <= options.maximum /\ options.maximum <= 300
  /\ options.verifies => options.replays
  /\ ValidTemplate(options)
  /\ \A name \in DOMAIN options.endpoints :
       options.endpoints[name] # None => ValidPath(options.endpoints[name])
  /\ ValidPath(options.base) /\ Formed({options.name})
  /\ options.verifies <=> options.endpoints.hosted # None

DiscoveryOf(options) ==
  [major |-> 1, endpoints |-> options.endpoints, base |-> options.base,
   identity |-> [methods |-> <<"did:web">>, template |-> PlacesIn(options.template)],
   name |-> options.name, did |-> options.did, hostsVerification |-> options.verifies,
   algorithms |-> options.algorithms, lifetime |-> options.default]

Configured(options) == ValidOptions(options) /\ ValidDiscovery(DiscoveryOf(options))
-----------------------------------------------------------------------------
(* DID documents *)

\* A key is for signatures of one party or of two, and public or not.
ValidRecord(record) ==
  /\ Formed({record.did, record.didId, record.id, record.url, record.key, record.principal,
             record.service})
  /\ record.algorithms # {} /\ record.key = record.did

DidDocument(record, method) ==
  [id |-> record.did, methods |-> <<[id |-> method.id, controller |-> method.controller,
                                     jwk |-> method.jwk]>>]

\* Members of a key that are private, or symmetric.
PrivateMembers == {"d", "dp", "dq", "k", "oth", "p", "q", "qi"}

PublishableMethod(record, method) ==
  /\ method.id = record.key /\ method.controller = record.did
  /\ Formed({method.type}) /\ method.jwk.members # {}
  /\ method.jwk.type # "oct" /\ method.jwk.members \cap PrivateMembers = {}

\* Who asks is not found, raises an error, or is given a document.
AnswerDid(record, id, method) ==
  IF record = None \/ record.status # "active" THEN [code |-> 404]
  ELSE IF ValidRecord(record) /\ record.didId = id /\ PublishableMethod(record, method)
       THEN [code |-> 200, document |-> DidDocument(record, method)]
       ELSE [code |-> 500]
-----------------------------------------------------------------------------
(* Lists of identities *)

Fits(record, principal, query) ==
  /\ record.principal = principal
  /\ query.service \in {None, record.service} /\ query.status \in {None, record.status}

Before(r, s) == r.created < s.created \/ (r.created = s.created /\ r.rank < s.rank)

\* MemoryIdentityStore.list: what fits in the order of creation or against it, then a slice of it.
Listing(records, principal, query) ==
  LET fitting == {r \in records : Fits(r, principal, query)}
      ascending == SetToSortSeq(fitting, Before)
      ordered == IF query.descending THEN Reverse(ascending) ELSE ascending
      last == Min({query.offset + query.limit, Len(ordered)})
  IN [data |-> SubSeq(ordered, query.offset + 1, last), total |-> Len(ordered)]

ValidQuery(query) ==
  query.limit \in 0..100 /\ query.offset >= 0 /\ query.service \notin Malformed

\* What the Platform passes on of an application's store.
ValidListing(listed, principal, query) ==
  /\ \A n \in 1..Len(listed.data) :
       ValidRecord(listed.data[n]) /\ Fits(listed.data[n], principal, query)
  /\ listed.total >= Len(listed.data)
  /\ Distinct([n \in 1..Len(listed.data) |-> listed.data[n].id])

ListResponse(listed) ==
  [data |-> listed.data, count |-> Len(listed.data), total |-> listed.total]

\* Full is the limit of a query that asks for none.
ListAnswer(records, principal, query, authorized, Full) ==
  LET effective == IF query.limit = 0 THEN [query EXCEPT !.limit = Full] ELSE query
      listed == Listing(records, principal, effective)
  IN IF ~ValidQuery(query) THEN [code |-> 400]
     ELSE IF ~authorized THEN [code |-> 404]
     ELSE IF ValidListing(listed, principal, effective)
          THEN [code |-> 200, body |-> ListResponse(listed)] ELSE [code |-> 500]
-----------------------------------------------------------------------------
(* What they add up to *)

\* What an Agent makes of an advertised path: the place for the identity is filled in, and a
\* path with another place is refused (_endpoint in agent/platform_provider.py).
Usable(path, identified) ==
  ValidPath(path) /\ path.others = 0 /\ (path.identity = 0 \/ identified)

\* Every endpoint that a configured Platform advertises is one that an Agent can use, but for
\* a place in the paths of an identity that is not for the identity.
EndpointsUsable(options) ==
  Configured(options) =>
    /\ \A name \in {"lifecycle", "sign"} :
         Usable(options.endpoints[name], TRUE) <=> options.endpoints[name].others = 0
    /\ \A name \in {"list", "provision", "hosted"} :
         options.endpoints[name] # None => Usable(options.endpoints[name], FALSE)
    /\ options.verifies => options.endpoints.hosted # None

\* For every identifier, the URL that a configured Platform gives for an identity's document
\* is where its DID says it is - unless a component of the prefix is the sample itself, which
\* the template can then have in the place of the identifier.
UrlsAgree(options, id) ==
  ValidTemplate(options) /\ Sample \notin ToSet(options.prefix) =>
    Rendered(options.template, id) = DocumentUrl(DidOf(options.host, options.prefix, id))

\* A page after another covers all that fits, in order and nothing twice, and every page is a
\* response that the other side accepts.
PagesCover(records, principal, query, limit) ==
  LET page(k) == ListAnswer(records, principal,
                            [query EXCEPT !.limit = limit, !.offset = k * limit], TRUE, 100)
      whole == ListAnswer(records, principal, [query EXCEPT !.limit = 0, !.offset = 0], TRUE, 100)
      pages == [k \in 1..Cardinality(records) + 1 |-> page(k - 1).body.data]
  IN /\ FlattenSeq(pages) = whole.body.data
     /\ ToSet(whole.body.data) = {r \in records : Fits(r, principal, query)}
     /\ \A k \in 0..Cardinality(records) :
          ValidList(page(k).body) /\ page(k).body.total = whole.body.total

\* A DID document that is published has a public key, of the DID it is asked for.
PublicOnly(record, id, method) ==
  LET answer == AnswerDid(record, id, method) IN
  answer.code = 200 =>
    /\ answer.document.id = record.did /\ record.didId = id /\ record.status = "active"
    /\ \A n \in 1..Len(answer.document.methods) :
         LET published == answer.document.methods[n] IN
         published.controller = answer.document.id
           /\ published.jwk.members \cap PrivateMembers = {}
=============================================================================
