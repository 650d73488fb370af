---------------------------- MODULE MCLaneLimits -----------------------------
(* Limits and lanes for TLC. *)
EXTENDS LaneLimits

On(capacity, rate) == [isEnabled |-> TRUE, capacity |-> capacity, rate |-> rate]
Off == [isEnabled |-> FALSE, capacity |-> 0, rate |-> 0]

\* Limits that are off and on; and two that are refused, a rate that is not
\* below the capacity and limits that are off but not zero.
Limits ==
    {Off, [Off EXCEPT !.rate = 1], On(2, 2)}
      \cup {On(3, 1), On(5, 1), On(7, 2)}

\* A lane whose inbound capacity exceeds the outbound one by what the rate
\* adds in MaxDelay seconds; one with the same limits in both directions, as
\* ConfigurePoolScript gives them; and one without limits.
Lanes ==
    {[outbound |-> On(3, 1), inbound |-> On(3 + MaxDelay, 1)],
     [outbound |-> On(3, 1), inbound |-> On(3, 1)],
     [outbound |-> Off, inbound |-> Off]}
=============================================================================
