---------------------------- MODULE AuthenticationMethods ----------------------------
(***************************************************************************)
(* The ways in which an Agent authenticates to a Service: a credential of  *)
(* a Grant Type, or a client assertion.                                    *)
(***************************************************************************)
EXTENDS NoValue

CONSTANTS Types, Jwt
=============================================================================
