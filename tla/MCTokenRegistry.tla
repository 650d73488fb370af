--------------------------- MODULE MCTokenRegistry ---------------------------
(* The accounts, pools and modules of an instance for TLC. *)
EXTENDS TokenRegistry

CONSTANTS deployer, registryOwner, stranger
=============================================================================
