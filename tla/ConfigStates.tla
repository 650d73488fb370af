----------------------------- MODULE ConfigStates -----------------------------
(***************************************************************************)
(* The states of the configuration of each plugin of each DON, and the     *)
(* arrows between them, as the contract CCIPHome documents them: a call    *)
(* moves one plugin's along one arrow.                                     *)
(***************************************************************************)
CONSTANT Keys    \* the plugins of the DONs
VARIABLE state

Init == \A k \in Keys : state[k] = "Init"

SetCandidate == {<<"Init", "Candidate">>, <<"Active", "ActiveAndCandidate">>}
RevokeCandidate == {<<"Candidate", "Init">>, <<"ActiveAndCandidate", "Active">>}
Promote == {<<"Candidate", "Active">>, <<"ActiveAndCandidate", "Active">>, <<"Active", "Init">>}

Next ==
    \E k \in Keys :
        /\ <<state[k], state'[k]>> \in SetCandidate \cup RevokeCandidate \cup Promote
        /\ \A other \in Keys \ {k} : state'[other] = state[other]

Spec == Init /\ [][Next]_state
=============================================================================
