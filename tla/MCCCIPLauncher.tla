---------------------------- MODULE MCCCIPLauncher -----------------------------
(* An instance for TLC: what happens in one behaviour is bounded in one of *)
(* three ways, each of which leaves one kind of trouble room.              *)
EXTENDS CCIPLauncher

Promotions == [dons |-> 1, configs |-> 3, memberships |-> {TRUE},
               errors |-> 0, faults |-> 0, restarts |-> 0]

Restarts == [dons |-> 1, configs |-> 2, memberships |-> BOOLEAN,
             errors |-> 0, faults |-> 0, restarts |-> 1]

Faults == [dons |-> 2, configs |-> 2, memberships |-> {TRUE},
           errors |-> 1, faults |-> 1, restarts |-> 0]

ThreeTroubles == {Promotions, Restarts, Faults}

\* One configuration, and nothing fails.
Quiet == {[dons |-> 1, configs |-> 1, memberships |-> {TRUE},
           errors |-> 0, faults |-> 0, restarts |-> 0]}
=============================================================================
