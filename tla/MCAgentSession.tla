----------------------------- MODULE MCAgentSession -----------------------------
(* An instance of AgentSession for TLC: two sessions of one Agent, an API-key type that *)
(* the Agent stores and a custom type that it does not, and calls that repeat a key.    *)
EXTENDS AgentSession, TLC

CONSTANTS error, apiKey, custom, jwt, i1, i2, d1, d2, k1, t1, t2, t3, s1, s2

Plain(op) == [op |-> op, type |-> None, id |-> None, key |-> None, allowed |-> {}]
MCSessionOf == [t \in {t1, t2, t3} |-> IF t = t3 THEN s2 ELSE s1]
DidSymmetry == Permutations({d1, d2})
MCMethods == <<apiKey, jwt>>
Grant(key) == [Plain("grant") EXCEPT !.type = apiKey, !.key = key]
MCJobsOf ==
  [t \in {t1, t2, t3} |->
     CASE t = t1 -> {Plain("wait"), Grant(None), Grant(k1), [Plain("enroll") EXCEPT !.key = k1]}
       [] t = t2 -> {Plain("revoke"), [Plain("headers") EXCEPT !.allowed = {apiKey, jwt}],
                     [Plain("grant") EXCEPT !.type = custom]}
       [] t = t3 -> {Plain("status"), Grant(None), Grant(k1),
                     [Plain("forget") EXCEPT !.id = i1]}]
-----------------------------------------------------------------------------
(* What an Agent checks, over bounded inputs *)

A == INSTANCE AgentChecks WITH Error <- error, Malformed <- {"malformed"}
P == INSTANCE PortableDocuments
       WITH MaxBytes <- 2, MaxBlocks <- 4, MaxNesting <- 2, Malformed <- {"malformed"}

Lists(n, members) == UNION {[1..m -> members] : m \in 0..n}
GrantTypes == {"api-key", "basic", "custom"}
Revokes == [all : BOOLEAN, type : GrantTypes \cup {None}, id : {None, "1"}]
Commands == [grantTypes : {None} \cup Lists(2, GrantTypes), perCredential : SUBSET GrantTypes]
Responses ==
  [id : {"", "1"}, expires : 0..3, secret : A!Secrets, user : {"visible", "control"},
   token : {"Bearer", "other"}, header : {"x-key", "malformed", "x-other"}]
Configured == {None, {"x-key"}}

Text == [type |-> "paragraph", text |-> "t", title |-> None, items |-> None, blocks |-> None]
Within(members) ==
  {[Text EXCEPT !.type = "section", !.title = "t", !.blocks = inside] :
     inside \in Lists(2, members)}
Flat == {Text, [Text EXCEPT !.text = None]}
Nested == Flat \cup Within(Flat)
Deep == Within(Within(Within({Text}))) \cup Within(Nested)
Contents == {<<block>> : block \in Deep} \cup Lists(3, Within(Flat) \cup {Text})
Documents ==
  [id : {"1", "2"}, content : {<<block>> : block \in Deep}, summary : {None, <<Text>>, <<>>}]
Answers ==
  {None} \cup [success : BOOLEAN, media : {"application/json", "text/html"}, plain : BOOLEAN,
               bytes : 2..3, document : Documents]

ASSUME SelectionsSound ==
  \A advertised, preferred \in Lists(2, GrantTypes), selected \in GrantTypes \cup {None} :
    A!SelectionSound(advertised, selected, preferred)
ASSUME RevokesSound ==
  \A options \in Revokes, commands \in Commands : A!RevokesSound(options, commands)
ASSUME CredentialsServe ==
  \A type \in A!BuiltInTypes \cup {"custom"}, response \in Responses, configured \in Configured :
    \A at \in 0..1, later \in 0..3, carrier \in {"authorization", "aep-authorization"} :
      A!SavedServes(type, response, configured, at, later, carrier)
ASSUME BoundsExact == \A blocks \in Contents : P!BoundedExact(blocks)
ASSUME ReadsSound ==
  \A response \in Answers, media \in {<<"text/html">>, <<"text/html", "application/json">>} :
    P!ReadSound([id |-> "1", media |-> media], response)
=============================================================================
