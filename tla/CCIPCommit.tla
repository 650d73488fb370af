------------------------------ MODULE CCIPCommit -------------------------------
(***************************************************************************)
(* The commit plugin: the nodes agree on the next interval of messages and *)
(* transmit its root.  Each honest node reads both chains behind time by   *)
(* as much as it likes, whenever it reads them; the faulty ones observe    *)
(* what they like; and transmissions are lost.                             *)
(***************************************************************************)
EXTENDS CCIPDon

CONSTANT
    FaultyIntervals  \* the intervals faulty nodes observe

AnyInterval == [min : 0 .. MaxSent + 1, max : 0 .. MaxSent + 1]

ASSUME CCIPCommitAssumption ==
    /\ FaultyIntervals \subseteq AnyInterval
    /\ NoRound \notin AnyInterval

VARIABLES
    agreed,   \* the interval the round under way is about, or NoRound
    current,  \* whether the honest nodes keep up with both chains in this round
    attested  \* the intervals signed and not given up yet

commitVars == <<agreed, current, attested>>
cvars == <<sent, roots, agreed, current, attested>>

NoInterval == [min |-> 0, max |-> 0]

CommitInit ==
    /\ StoreInit
    /\ agreed = NoRound
    /\ current = FALSE
    /\ attested = {}

-----------------------------------------------------------------------------

\* calculateMinMaxSequenceNumbers, of a node that sees that many messages.
Observation(seen, next) ==
    IF seen < next THEN NoInterval ELSE [min |-> next, max |-> seen]

\* What honest nodes may observe, in a round in which they keep up or not.
Observations(keepUp) ==
    IF keepUp THEN {Observation(sent, ExpectedNext)}
    ELSE {Observation(seen, next) : seen \in 0..sent, next \in EarlierNexts}

\* OCR wants to hear more than 2F nodes; up to F of them observe something
\* that cannot be parsed.
Parsable == {heard \ mute : heard \in {n \in SUBSET Nodes : Cardinality(n) > 2 * F},
                            mute \in SUBSET Faulty}

\* What the leader of a round may gather.
HeardIntervals(possible) ==
    UNION {{obs \in [heard -> possible \cup FaultyIntervals] :
               \A n \in heard \ Faulty : obs[n] \in possible} : heard \in Parsable}

\* The value v is at place k, counted from 0, when those of g are sorted.
IsAt(k, v, g) ==
    /\ Cardinality({n \in DOMAIN g : g[n] < v}) <= k
    /\ Cardinality({n \in DOMAIN g : g[n] <= v}) > k

\* Mutant: as if no observation could be wrong, the least counts.
MinMaxOfAll(obs, interval) ==
    /\ IsAt(0, interval.min, [n \in DOMAIN obs |-> obs[n].min])
    /\ IsAt(0, interval.max, [n \in DOMAIN obs |-> obs[n].max])

\* The minimum and the maximum, of which F may be less.
MinMax(obs, interval) ==
    /\ IsAt(F, interval.min, [n \in DOMAIN obs |-> obs[n].min])
    /\ IsAt(F, interval.max, [n \in DOMAIN obs |-> obs[n].max])

\* Mutant: one message more than fit into a tree.
TruncateLate(interval) ==
    IF interval.min = 0 \/ interval.max < interval.min THEN NoInterval
    ELSE IF interval.max - interval.min <= RangeLimit THEN interval
    ELSE [interval EXCEPT !.max = interval.min + RangeLimit]

\* calculateIntervalConsensus, of that minimum and that maximum; NoInterval
\* stands for an error, too.
Truncate(interval) ==
    IF interval.min = 0 \/ interval.max < interval.min THEN NoInterval
    ELSE IF interval.max - interval.min < RangeLimit THEN interval
    ELSE [interval EXCEPT !.max = interval.min + RangeLimit - 1]

AgreedIntervals(possible) ==
    {Truncate(interval) : interval \in
        {i \in AnyInterval : \E obs \in HeardIntervals(possible) : MinMax(obs, i)}}

\* A round begins.
CommitObserve(keepUp) ==
    /\ agreed = NoRound
    /\ agreed' \in AgreedIntervals(Observations(keepUp))
    /\ current' = keepUp
    /\ UNCHANGED <<store, attested>>

\* buildReport: whoever has every message of the interval can build the tree.
Builds(interval) == interval.max <= sent

\* An honest node that does not keep up may miss some messages; a faulty one
\* signs anything, or nothing.
CommitReport(signers) ==
    /\ agreed # NoRound
    /\ current => Honest \subseteq signers
    /\ attested' =
         IF /\ agreed # NoInterval
            /\ Attests(IF Builds(agreed) THEN signers ELSE signers \cap Faulty)
         THEN attested \cup {agreed} ELSE attested
    /\ agreed' = NoRound
    /\ UNCHANGED <<store, current>>

\* A node for which the report is not stale, in isStaleMerkleRoot, transmits
\* it, and the store takes it.
TransmitRoot(interval) ==
    /\ interval \in attested
    /\ interval.min = ExpectedNext
    /\ interval.min <= interval.max
    /\ roots' = Append(roots, interval)
    /\ UNCHANGED <<sent, commitVars>>

\* The report is stale for every node that would still transmit it, or its
\* transactions are lost or reverted.
GiveUpRoot(interval) ==
    /\ attested' = attested \ {interval}
    /\ UNCHANGED <<store, agreed, current>>

CommitNext ==
    \/ Send /\ UNCHANGED commitVars
    \/ \E keepUp \in BOOLEAN : CommitObserve(keepUp)
    \/ \E signers \in SUBSET Nodes : CommitReport(signers)
    \/ \E interval \in attested : TransmitRoot(interval) \/ GiveUpRoot(interval)

CommitSpec == CommitInit /\ [][CommitNext]_cvars

\* CommitObserve(TRUE), as far as its fairness goes: which nodes are heard,
\* and what the faulty ones say, is not for the system to choose.
CommitRoundBegins ==
    /\ agreed = NoRound
    /\ agreed' \in AnyInterval
    /\ current' = TRUE
    /\ UNCHANGED <<store, attested>>

-----------------------------------------------------------------------------
(* Properties. *)

\* Whatever faulty nodes observe and however old the views of the others are,
\* the roots stand for messages that were sent, without a gap and each once.
ImplementsStore == StoreSpec

\* Every message is committed, whatever up to F nodes observe, if the others
\* keep up with the chains (calculateIntervalConsensus).
EveryMessageCommitted == \A s \in Messages : sent >= s ~> ExpectedNext > s
=============================================================================
