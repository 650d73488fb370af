---------------------------- MODULE MCRebaseToken ----------------------------
(* Finite instances of RebaseToken for TLC. *)
EXTENDS RebaseToken
=============================================================================
