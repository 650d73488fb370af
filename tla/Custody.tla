------------------------------ MODULE Custody -------------------------------
(***************************************************************************)
(* What a vault promises its users, whatever it does inside: it keeps      *)
(* their ether against a credit and never makes anybody richer.  One step  *)
(* is one settled transaction; it may serve several users at once.         *)
(***************************************************************************)
EXTENDS Integers, FiniteSets

CONSTANTS Users, Funds  \* Funds[u] is the ether user u starts with

VARIABLES
    wallet,  \* ether each user holds
    credit,  \* ether the vault owes each user
    pot      \* ether the vault holds

\* What all hold together, counted unit by unit.
Sum(f) == Cardinality(UNION {{u} \X (1..f[u]) : u \in DOMAIN f})

Init ==
    /\ wallet = Funds
    /\ credit = [u \in Users |-> 0]
    /\ pot = 0

\* A settled transaction creates no ether, and leaves no user with more ether
\* and credit together than before.
Settle ==
    /\ Sum(wallet') + pot' = Sum(wallet) + pot
    /\ \A u \in Users : /\ wallet'[u] >= 0 /\ credit'[u] >= 0
                        /\ wallet'[u] + credit'[u] <= wallet[u] + credit[u]

Spec == Init /\ [][Settle]_<<wallet, credit, pot>>
=============================================================================
