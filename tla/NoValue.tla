---------------------------------- MODULE NoValue ----------------------------------
(***************************************************************************)
(* Python's None: the value of what is not there.  A module that needs it  *)
(* extends this one, so that modules with different subjects can be        *)
(* extended together.                                                      *)
(***************************************************************************)
CONSTANT None
=============================================================================
