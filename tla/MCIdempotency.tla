---------------------------- MODULE MCIdempotency ----------------------------
(* An instance of Idempotency for TLC: three one-shot tasks, so that one can   *)
(* run, one wait and one come later, over two keys and two requests, with a    *)
(* clock that passes the retention twice.                                      *)
EXTENDS Idempotency
=============================================================================
