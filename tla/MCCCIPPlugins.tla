----------------------------- MODULE MCCCIPPlugins ------------------------------
(* An instance for TLC: either plugin, in every behaviour one of them, with *)
(* three honest nodes and a faulty one.                                     *)
EXTENDS CCIPCommit, CCIPExec

CONSTANT ExecSent  \* bound on the messages sent while the exec plugin runs

VARIABLE plugin  \* the one that runs; the other stands still

vars == <<store, commitVars, execVars, plugin>>

PluginsInit == CommitInit /\ ExecInit /\ plugin \in {"commit", "exec"}

\* A step of either plugin.
OfCommit(A) == plugin = "commit" /\ A /\ UNCHANGED <<execVars, plugin>>
OfExec(A) == plugin = "exec" /\ A /\ UNCHANGED <<commitVars, plugin>>

PluginsNext == OfCommit(CommitNext) \/ OfExec(ExecNext /\ sent' <= ExecSent)

\* Rounds follow one another, and again and again there is one in which the
\* honest nodes keep up.  Not every transmission is lost.
CommitFairness ==
    /\ SF_vars(OfCommit(CommitRoundBegins))
    /\ WF_vars(OfCommit(\E signers \in SUBSET Nodes : CommitReport(signers)))
    /\ SF_vars(OfCommit(\E interval \in attested : TransmitRoot(interval)))

\* Rounds follow one another, the bucket refills, reports and snoozes expire,
\* each snooze by itself, and not every transmission is lost of the reports
\* that an honest node accepted and that are not stale to it.
ExecFairness ==
    /\ WF_vars(OfExec(CatchUp))
    /\ WF_vars(OfExec(Refill))
    /\ WF_vars(OfExec(ExecRoundBegins))
    /\ WF_vars(OfExec(ExecReport))
    /\ SF_vars(OfExec(\E report \in pending : TransmitReport(report)))
    /\ \A n \in Honest :
          /\ WF_vars(OfExec(\E report \in inflight[n] : Expire(n, report)))
          /\ \A i \in 1..ExecSent : WF_vars(OfExec(WakeUp(n, i)))

PluginsSpec == PluginsInit /\ [][PluginsNext]_vars /\ CommitFairness /\ ExecFairness

LiesAboutIntervals ==
    {NoInterval, [min |-> 1, max |-> MaxSent + 1], [min |-> MaxSent + 1, max |-> MaxSent + 1]}

LiesAboutMessages == {<<>>, [m \in 1..ExecSent |-> "forged"], Fetched(1..ExecSent)}

OneSender == [m \in Messages |-> "sender"]

\* As many tokens with each message as the bucket holds.
FullValue == [m \in Messages |-> TokenLimit]

\* The commit plugin commits every message.
AllCommitted == plugin = "commit" => EveryMessageCommitted

\* The exec plugin executes every message that is committed.
AllExecuted == plugin = "exec" => EveryMessageExecuted
=============================================================================
