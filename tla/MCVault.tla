------------------------------- MODULE MCVault -------------------------------
(* A finite instance of Vault for TLC: alice has no code, carol has; between
   them they own four wei.  MaxUint is large enough for every balance with
   its interest, as 2^256-1 is for all the ether there is. *)
EXTENDS Vault, TLC

CONSTANTS alice, carol

MCFunds == (alice :> 2) @@ (carol :> 2)
=============================================================================
