---------------------------- MODULE MCCrossChain -----------------------------
(* Finite instances of CrossChain for TLC. *)
EXTENDS CrossChain, TLC

CONSTANTS alice, bob

\* Two messages out and one back; or three out, for the liveness run.
TwoAndOne == (Home :> 2) @@ (Remote :> 1)
ThreeOut == (Home :> 3) @@ (Remote :> 0)
=============================================================================
