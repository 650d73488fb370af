----------------------------- MODULE MCPoolLane ------------------------------
(* Lanes and updates for TLC. *)
EXTENDS PoolLane

CONSTANTS s1, s2, d1

On(capacity, rate) == [isEnabled |-> TRUE, capacity |-> capacity, rate |-> rate]
Off == [isEnabled |-> FALSE, capacity |-> 0, rate |-> 0]
Limits == {Off, On(2, 1), On(3, 1)}

Update(pools, outbound, inbound) ==
    [pools |-> pools, hasToken |-> TRUE, outbound |-> outbound, inbound |-> inbound]

\* Only the destination limits what arrives, for one pool of the source or
\* for both.  Two updates are refused: the script's, and one without a token.
FromSource == {Update(<<d1>>, Off, Off)}
AtDest == {Update(<<s1>>, Off, limits) : limits \in {On(2, 1), On(3, 1)}}
             \cup {Update(<<s1, s2>>, Off, On(3, 1)), ScriptUpdate(Off),
                   [ScriptUpdate(Off) EXCEPT !.pools = <<s1>>, !.hasToken = FALSE]}
=============================================================================
