------------------------------ MODULE AgentChecks ------------------------------
(***************************************************************************)
(* What an Agent checks before it asks, stores and presents, apart from    *)
(* the steps of its sessions (AgentSession): the Grant Type of a Grant,    *)
(* the selectors of a Revoke, the identity of a provider, and the          *)
(* credentials that a Service grants, from the response through the store  *)
(* to the header of a request (agent/client.py, and the responses' models  *)
(* in core/models.py).  A secret is known by what it is made of, and the   *)
(* name of a header has its letters in lower case.                         *)
(***************************************************************************)
EXTENDS ProtocolModels

CONSTANTS Error   \* a call that raises

BuiltInTypes == {"api-key", "basic", "oauth-bearer"}
AssertionMethod == "aep-jwt"
Visible == {"visible"}                  \* visible ASCII, without a space
Field == Visible \cup {"separated"}     \* with a character that separates header values
Uncontrolled == Field \cup {"spaced"}   \* any text without a control character
Secrets == Uncontrolled \cup {"control", ""}

\* _select_grant_type
SelectGrantType(advertised, selected, preferred) ==
  LET candidates == IF preferred = <<>> THEN advertised ELSE preferred
      fit == SelectSeq(candidates, LAMBDA type : type \in ToSet(advertised))
  IN IF selected # None THEN (IF selected \in ToSet(advertised) THEN selected ELSE Error)
     ELSE IF fit = <<>> THEN Error ELSE Head(fit)

\* What revoke() asks for, and what it refuses to.
RevokeAsked(options) ==
  IF options.all THEN [all |-> TRUE, type |-> None, id |-> None]
  ELSE [all |-> FALSE, type |-> options.type, id |-> options.id]
RevokeAllowed(options, commands) ==
  LET request == RevokeAsked(options) IN
  /\ ValidRevokeRequest(request)
  /\ request.type # None => request.type \in Listed(commands.grantTypes)
  /\ request.id # None => request.type \in commands.perCredential

\* A declaration of documents that were read needs a Service that has them, and an answer
\* that repeats it.
Declarable(documents, extensions) == documents # None => DocumentsExtension \in Listed(extensions)
Acknowledged(documents, response) ==
  response.status = "rejected" \/ response.documents = documents

ValidIdentityOf(identity, inspection) ==
  /\ identity.did.method # "" /\ identity.service = inspection.did
  /\ identity.method \in inspection.methods /\ identity.algorithms # {}
  /\ identity.method = "did:web" => identity.did.method = "web"
-----------------------------------------------------------------------------
(* Credentials *)

\* The responses' models: which secrets can be the credential of a Grant Type.
ValidCredential(type, response) ==
  /\ response.id # ""
  /\ CASE type = "api-key" -> response.secret \in Visible /\ Formed({response.header})
       [] type = "basic" ->
            response.secret \in Uncontrolled /\ response.user \in Uncontrolled
       [] type = "oauth-bearer" -> response.secret # "" /\ response.token = "Bearer"

\* _parse_credential: any other Grant Type's credential is the application's to keep.
Parsed(type, response) ==
  IF type \notin BuiltInTypes THEN (IF response.id # "" THEN None ELSE Error)
  ELSE IF ValidCredential(type, response) THEN response ELSE Error

\* The end of grant(): the record that is saved, None, or an error.
RecordOf(type, response, configured, service, at) ==
  LET credential == Parsed(type, response) IN
  IF credential \in {None, Error} THEN credential
  ELSE IF /\ type = "api-key" /\ configured # None /\ credential.header \notin configured
       THEN Error
  ELSE IF credential.expires <= at THEN Error
  ELSE [id |-> credential.id, type |-> type, expires |-> credential.expires, issued |-> at,
        payload |-> credential, service |-> service]

\* _validate_credential_record
ValidRecord(record, service, at) ==
  LET credential == Parsed(record.type, record.payload) IN
  /\ record.id # "" /\ record.service = service /\ record.expires > at
  /\ credential \notin {None, Error}
  /\ credential.id = record.id /\ credential.expires = record.expires

\* render_authorization
Rendered(carrier, scheme, credentials) ==
  IF credentials \in Visible \cup {"separated"} THEN [name |-> carrier, scheme |-> scheme]
  ELSE Error

\* _credential_headers: an API key has a header of its own, and a user's name and password
\* are encoded.
Presented(record, carrier) ==
  LET credential == Parsed(record.type, record.payload) IN
  IF credential \in {None, Error} THEN Error
  ELSE IF credential.id # record.id THEN Error
  ELSE CASE record.type = "api-key" -> [name |-> credential.header, scheme |-> None]
         [] record.type = "oauth-bearer" -> Rendered(carrier, "Bearer", credential.secret)
         [] record.type = "basic" -> Rendered(carrier, "Basic", "visible")
-----------------------------------------------------------------------------
(* What they add up to *)

\* A Grant is for an advertised type: for the one the application named and no other, or for
\* the first of those it prefers that is advertised.
SelectionSound(advertised, selected, preferred) ==
  LET type == SelectGrantType(advertised, selected, preferred) IN
  /\ type # Error => type \in ToSet(advertised)
  /\ selected # None => type \in {selected, Error}
  /\ selected = None =>
       (type = Error <=>
          /\ ToSet(preferred) \cap ToSet(advertised) = {}
          /\ preferred # <<>> \/ advertised = <<>>)
  /\ selected = None /\ type # Error /\ preferred # <<>> =>
       \E n \in 1..Len(preferred) :
         preferred[n] = type /\ \A k \in 1..n - 1 : preferred[k] \notin ToSet(advertised)

\* What a Revoke may be asked for is all credentials, those of an advertised Grant Type, or
\* one of a type whose credentials the Service revokes one by one - and nothing less than
\* what was named: an identifier without its type is no request for all of them.
RevokesSound(options, commands) ==
  RevokeAllowed(options, commands) <=>
    \/ options.all
    \/ /\ options.type # None /\ options.type \in Listed(commands.grantTypes)
       /\ options.id = None \/ options.type \in commands.perCredential

\* A credential that is saved passes the checks it meets when it is taken from the store,
\* until it expires, and can be presented in the carrier that is asked for, or in a header
\* that the Service advertises - but for a bearer token that is not one visible word: it is
\* saved, and no request can carry it.
SavedServes(type, response, configured, at, later, carrier) ==
  LET record == RecordOf(type, response, configured, "s", at) IN
  record \notin {None, Error} =>
    LET presented == Presented(record, carrier) IN
    /\ ValidRecord(record, "s", later) <=> later < response.expires
    /\ ~ValidRecord(record, "another", later)
    /\ presented = Error <=> type = "oauth-bearer" /\ response.secret \notin Field
    /\ presented # Error =>
         IF type = "api-key" THEN configured # None => presented.name \in configured
         ELSE presented.name = carrier
=============================================================================
