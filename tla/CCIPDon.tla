-------------------------------- MODULE CCIPDon --------------------------------
(***************************************************************************)
(* The nodes that carry the messages of a lane, and what their two OCR     *)
(* plugins have between them: the messages sent on the source chain, and   *)
(* the roots in the commit store of the destination chain, each of which   *)
(* stands for an interval of messages.  The commit plugin promises the     *)
(* exec plugin StoreSpec.                                                  *)
(***************************************************************************)
EXTENDS Integers, Sequences, FiniteSets

CONSTANTS
    Nodes,       \* the nodes of the DON
    Faulty,      \* those that may observe, sign and transmit anything
    F,           \* the number of faulty nodes the DON tolerates
    RangeLimit,  \* MaxNumberTreeLeaves
    MaxSent,     \* bound on the messages sent
    NoRound      \* there is no round under way

ASSUME CCIPDonAssumption ==
    /\ IsFiniteSet(Nodes)
    /\ Faulty \subseteq Nodes
    /\ F \in Nat
    /\ Cardinality(Faulty) <= F
    /\ RangeLimit \in Nat \ {0}
    /\ MaxSent \in Nat

VARIABLES
    sent,   \* the messages sent have the sequence numbers 1 .. sent
    roots   \* the intervals of the roots that are committed, in their order

store == <<sent, roots>>

Honest == Nodes \ Faulty

Messages == 1..MaxSent
Interval == [min : Messages, max : Messages]

\* What GetExpectedNextSequenceNumber answers when n roots are committed.
NextAfter(n) == IF n = 0 THEN 1 ELSE roots[n].max + 1
ExpectedNext == NextAfter(Len(roots))

\* Reading a chain, a node may find it as it was some blocks ago.
EarlierNexts == {NextAfter(n) : n \in 0..Len(roots)}

\* OCR takes the signatures of more than F nodes for an attestation.
Attests(signers) == Cardinality(signers) > F

StoreInit ==
    /\ sent = 0
    /\ roots = <<>>

\* A message is sent and final.
Send ==
    /\ sent < MaxSent
    /\ sent' = sent + 1
    /\ UNCHANGED roots

\* Only messages that were sent are committed, without a gap and each once.
Commit(interval) ==
    /\ interval.min = ExpectedNext
    /\ interval.max \in interval.min .. sent
    /\ interval.max - interval.min < RangeLimit
    /\ roots' = Append(roots, interval)
    /\ UNCHANGED sent

CommitSome == \E interval \in Interval : Commit(interval)

StoreSpec == StoreInit /\ [][Send \/ CommitSome]_store
=============================================================================
