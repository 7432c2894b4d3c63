--------------------------- MODULE ServiceConfiguration ---------------------------
(***************************************************************************)
(* What a Service accepts as its options, and the Inspect document it      *)
(* publishes for them (Service.__init__ in service/service.py).  A did:web *)
(* DID and a URL are the origin they stand for; what the application       *)
(* supplies as code (verifier, stores, policy, clock) is left out.         *)
(***************************************************************************)
EXTENDS ProtocolModels

CONSTANT Jwt   \* the client-assertion authentication method

\* A definition of a Grant Type: whether it has a configuration to publish, whether that
\* says it can revoke one credential, and whether it comes with an authenticator.
GrantType == [type : STRING, configured : BOOLEAN, perCredential : BOOLEAN,
              authenticator : BOOLEAN]

TypesOf(options) == [n \in 1..Len(options.grantTypes) |-> options.grantTypes[n].type]

\* Every way to authenticate but the assertion has an authenticator of a Grant Type.
ValidMethods(options) ==
  /\ Len(options.authentication) <= 16 /\ Distinct(options.authentication)
  /\ \A method \in ToSet(options.authentication) \ {Jwt} :
       \E n \in 1..Len(options.grantTypes) :
         options.grantTypes[n].type = method /\ options.grantTypes[n].authenticator

CommandsOf(options) ==
  IF options.grantTypes = <<>> THEN <<"enroll", "inspect", "status">>
  ELSE <<"enroll", "grant", "inspect", "revoke", "status">>

\* An empty list is not published; only the service documents must then be left out.
Published(list) == IF list = <<>> THEN None ELSE list

DocumentOf(options) ==
  [major |-> 1,
   bindings |-> <<"http">>,
   commands |-> [supported |-> CommandsOf(options),
                 grantTypes |-> Published(TypesOf(options)),
                 configured |-> {options.grantTypes[n].type : n \in
                   {k \in 1..Len(options.grantTypes) : options.grantTypes[k].configured}}],
   algorithms |-> options.algorithms,
   http |-> [base |-> options.base, openapi |-> options.openapi],
   methods |-> options.methods,
   did |-> options.did,
   claims |-> options.claims,
   extensions |-> Published(options.extensions),
   documents |-> options.documents,
   authentication |-> Published(options.authentication)]

Configured(options) ==
  /\ options.methods # <<>> /\ Distinct(options.methods)
  /\ Distinct(options.algorithms) /\ ValidAlgorithms(options.algorithms)
  /\ options.tolerance \in 0..30 /\ options.lifetime \in 1..300
  /\ \A limit \in DOMAIN options.limits : options.limits[limit] >= 1
  /\ Distinct(TypesOf(options))
  /\ ValidMethods(options)
  /\ ValidInspect(DocumentOf(options))
  /\ options.inspectUrl \in {None, options.did}
-----------------------------------------------------------------------------
\* A document that a Service publishes does not promise what it refuses: every method but the assertion
\* is a Grant Type that can be asked for, and the commands for credentials are there if
\* and only if there is something to grant.
PromisesKept(options) ==
  LET document == DocumentOf(options)  supported == ToSet(document.commands.supported) IN
  Configured(options) =>
    /\ Listed(document.authentication) \ {Jwt} \subseteq Listed(document.commands.grantTypes)
    /\ "grant" \in supported <=> Listed(document.commands.grantTypes) # {}
    /\ "grant" \in supported <=> "revoke" \in supported
=============================================================================
