------------------------------- MODULE CCIPExec --------------------------------
(***************************************************************************)
(* The exec plugin, with the best-effort batching strategy: the nodes      *)
(* agree which committed messages to execute and with what token data.     *)
(* Each honest node reads the destination chain behind time, asks for      *)
(* token data that may not be ready, leaves room in the off-ramp's bucket  *)
(* for the reports it holds in flight, snoozes a root it found nothing in, *)
(* and accepts and transmits only what it does not hold in flight; the     *)
(* faulty ones observe what they like; transmissions are lost; and anybody *)
(* may execute a message by hand.                                          *)
(***************************************************************************)
EXTENDS CCIPDon, FiniteSetsExt

CONSTANTS
    Sender,          \* who sent each message
    TokenValue,      \* the value of the tokens of each message
    TokenLimit,      \* the capacity of the off-ramp's aggregate rate limiter
    FaultyMessages   \* the observations of faulty nodes

\* The token data of a message is what the attestation service gave, or not.
TokenData == {"fetched", "forged"}

\* An observation, and a report, map messages to their token data.
ObservedMessages == UNION {[msgs -> TokenData] : msgs \in SUBSET Messages}

ASSUME CCIPExecAssumption ==
    /\ TokenLimit \in Nat
    /\ TokenValue \in [Messages -> 0..TokenLimit]
    /\ FaultyMessages \subseteq ObservedMessages
    /\ NoRound \notin ObservedMessages

VARIABLES
    inTime,    \* whether the honest nodes are all heard and reached, with all
               \* there is to read, from now on
    batches,   \* the messages executed, by each transaction, in their order
    bucket,    \* the tokens in the bucket of the aggregate rate limiter
    observed,  \* what the observations of the round under way agree on, or NoRound
    pending,   \* the reports that honest nodes accepted, and would transmit
    inflight,  \* inflightReports of each honest node
    snoozed    \* the roots commitRootsCache keeps from each honest node, but for
               \* those that are executed; counted from CatchUp on

execVars == <<inTime, batches, bucket, observed, pending, inflight, snoozed>>
evars == <<sent, roots, inTime, batches, bucket, observed, pending, inflight, snoozed>>

ExecInit ==
    /\ StoreInit
    /\ inTime = FALSE
    /\ batches = <<>>
    /\ bucket = TokenLimit
    /\ observed = NoRound
    /\ pending = {}
    /\ inflight = [n \in Honest |-> {}]
    /\ snoozed = [n \in Honest |-> {}]

-----------------------------------------------------------------------------
(* The destination chain.                                                  *)

Root(i) == roots[i].min .. roots[i].max
ExecutedAfter(k) == UNION {batches[i] : i \in 1..k}
Executed == ExecutedAfter(Len(batches))
Committed == 1 .. ExpectedNext - 1

EarlierOfSender(m) == {k \in Messages : k < m /\ Sender[k] = Sender[m]}

\* What the off-ramp executes of a report: what is new, with each sender's
\* messages in their order.
Executes(msgs) ==
    {m \in msgs \ Executed : EarlierOfSender(m) \subseteq Executed \cup msgs}

ValueOf(msgs) == SumFunctionOnSet(TokenValue, msgs)

\* isStaleReport, of a node that has seen these messages executed.
Stale(report, done) == Min(DOMAIN report) \in done

Unexecuted(done) == {i \in DOMAIN roots : ~(Root(i) \subseteq done)}

\* A message that succeeds takes its value from the bucket; one that fails,
\* for want of tokens or otherwise, is executed all the same.  A report that
\* becomes stale is not transmitted any more: where a node is late to see it,
\* what follows its first message is executed as it may be by hand.
ExecuteBatch(msgs) ==
    LET done == Executed \cup Executes(msgs)
    IN  /\ Executes(msgs) # {}
        /\ batches' = Append(batches, Executes(msgs))
        /\ bucket' \in Max({0, bucket - ValueOf(Executes(msgs))}) .. bucket
        /\ pending' = {report \in pending : ~Stale(report, done)}
        /\ snoozed' = [n \in Honest |-> snoozed[n] \cap Unexecuted(done)]
        /\ UNCHANGED <<store, inTime, observed, inflight>>

Refill ==
    /\ bucket' \in bucket + 1 .. TokenLimit
    /\ UNCHANGED <<store, inTime, batches, observed, pending, inflight, snoozed>>

-----------------------------------------------------------------------------
(* Observations.                                                           *)

\* getInflightAggregateRateLimit
InflightValue(n) == MapThenSumSet(LAMBDA report : ValueOf(DOMAIN report), inflight[n])

\* BuildBatch, in the order of the messages: done are those the node knows to
\* be executed, ready those whose token data can be had, and room is what the
\* bucket leaves beside the reports in flight.
Batch(i, done, ready, room) ==
    CHOOSE batch \in SUBSET (Root(i) \ done) :
        batch = {m \in (Root(i) \cap ready) \ done :
                    /\ EarlierOfSender(m) \subseteq done \cup batch
                    /\ ValueOf({k \in batch : k < m} \cup {m}) <= room}

\* The roots that are neither executed nor snoozed.
Eligible(n) == Unexecuted(Executed) \ snoozed[n]

\* Those a node that is in time finds a batch in.
BatchInTime(n, i) == Batch(i, Executed, Root(i), bucket - InflightValue(n))
Filled(n) == {i \in Eligible(n) : BatchInTime(n, i) # {}}

\* getExecutableObservations: the first batch that is not empty.
FirstBatch(n) == IF Filled(n) = {} THEN {} ELSE BatchInTime(n, Min(Filled(n)))

\* It snoozes the roots before it.
SnoozePassed ==
    snoozed' = IF inTime
               THEN [n \in Honest |->
                        LET filled == Filled(n)
                        IN  snoozed[n] \cup {i \in Eligible(n) : \A j \in filled : i < j}]
               ELSE snoozed

Times == 0..Len(batches)

\* The messages an honest node may observe.  A node that is not heard
\* observes nothing, and one that has snoozed some roots takes its batch from
\* any; one that reads an older bucket, or nonces older or newer than done,
\* skips messages as if they were not ready.
MayObserve(n) ==
    IF inTime THEN {FirstBatch(n)}
    ELSE LET room == TokenLimit - InflightValue(n)
         IN  {{}} \cup
             UNION {{Batch(i, ExecutedAfter(k), ready, room) : k \in Times, ready \in SUBSET Root(i)} :
                       i \in DOMAIN roots}

Fetched(msgs) == [m \in msgs |-> "fetched"]

\* What the leader of a round may gather.
HeardMessages ==
    LET may == UNION {{n} \X MayObserve(n) : n \in Honest}
        heard == {h \in [Honest -> {each[2] : each \in may}] : \A n \in Honest : <<n, h[n]>> \in may}
    IN  {[n \in Nodes |-> IF n \in Faulty THEN lies[n] ELSE Fetched(h[n])] :
            h \in heard, lies \in [Faulty -> FaultyMessages]}

-----------------------------------------------------------------------------
(* Reports.                                                                *)

Tally(obs, m, data) ==
    Cardinality({n \in Nodes : m \in DOMAIN obs[n] /\ obs[n][m] = data})

\* getConsensusThreshold
Threshold == F + 1

\* Mutant: the token data with the most occurrences is taken.
IsMostFrequent(obs, m, data) ==
    /\ Tally(obs, m, data) > 0
    /\ \A d \in TokenData : Tally(obs, m, d) <= Tally(obs, m, data)

\* The token data of more nodes than the threshold, and of the most nodes.
IsAgreed(obs, m, data) ==
    /\ Tally(obs, m, data) > Threshold
    /\ \A d \in TokenData : Tally(obs, m, d) <= Tally(obs, m, data)

\* calculateObservedMessagesConsensus; between equals a hash decides.
AgreedMessages(obs) ==
    LET agreed == {m \in Messages : \E data \in TokenData : IsAgreed(obs, m, data)}
    IN  {report \in [agreed -> TokenData] : \A m \in agreed : IsAgreed(obs, m, report[m])}

\* A round begins.
ExecObserve ==
    /\ observed = NoRound
    /\ observed' \in UNION {AgreedMessages(obs) : obs \in HeardMessages}
    /\ SnoozePassed
    /\ UNCHANGED <<store, inTime, batches, bucket, pending, inflight>>

\* buildReport takes the messages in the root of the first one.
InFirstRoot(msgs) ==
    UNION {msgs \cap Root(i) : i \in {j \in DOMAIN roots : Min(msgs) \in Root(j)}}

\* inflightReports.add fails for a report with the same first message.
AlreadyInflight(n, report) ==
    \E other \in inflight[n] : Min(DOMAIN other) = Min(DOMAIN report)

\* ShouldAcceptFinalizedReport of the nodes the report reaches, to some of
\* which it may be stale.
Accept(report) ==
    LET free == {n \in Honest : ~AlreadyInflight(n, report)}
    IN  \E acceptors \in SUBSET free :
           /\ inTime => acceptors = IF Stale(report, Executed) THEN {} ELSE free
           /\ inflight' = [n \in Honest |->
                 IF n \in acceptors THEN inflight[n] \cup {report} ELSE inflight[n]]
           /\ pending' = IF acceptors = {} \/ Stale(report, Executed) THEN pending
                         ELSE pending \cup {report}

\* Report: it is attested unless a message is not committed.
ExecReport ==
    /\ observed # NoRound
    /\ observed' = NoRound
    /\ IF observed = <<>> \/ ~(DOMAIN observed \subseteq Committed)
       THEN UNCHANGED <<pending, inflight>>
       ELSE Accept([m \in InFirstRoot(DOMAIN observed) |-> observed[m]])
    /\ UNCHANGED <<store, inTime, batches, bucket, snoozed>>

\* By an honest node.  What a faulty one transmits, whether anybody accepted it
\* or not, is executed as it may be by hand.
TransmitReport(report) ==
    /\ report \in pending
    /\ ExecuteBatch(DOMAIN report)

\* The transactions of all nodes that would transmit it are lost or reverted.
GiveUpReport(report) ==
    /\ pending' = pending \ {report}
    /\ UNCHANGED <<store, inTime, batches, bucket, observed, inflight, snoozed>>

\* Mutant: reports stay in flight.
ExpireNever(n, report) ==
    /\ report \in inflight[n]
    /\ FALSE
    /\ inflight' = [inflight EXCEPT ![n] = @ \ {report}]
    /\ UNCHANGED <<store, inTime, batches, bucket, observed, pending, snoozed>>

\* Every observation begins with it, whether its round comes to a report or
\* not.
Expire(n, report) ==
    /\ report \in inflight[n]
    /\ inflight' = [inflight EXCEPT ![n] = @ \ {report}]
    /\ UNCHANGED <<store, inTime, batches, bucket, observed, pending, snoozed>>

\* RootSnoozeTime is over.
WakeUp(n, i) ==
    /\ i \in snoozed[n]
    /\ snoozed' = [snoozed EXCEPT ![n] = @ \ {i}]
    /\ UNCHANGED <<store, inTime, batches, bucket, observed, pending, inflight>>

ExecuteByHand(m) ==
    /\ m \in Committed
    /\ ExecuteBatch({m})

\* The lag of the honest nodes, and of the token data, comes to an end.  None
\* of the nodes can be spared when there are no more than the 3F + 1 of OCR:
\* the tally must exceed the threshold.  Up to now any root may be snoozed at
\* any node, as MayObserve has it: all are, of which any may wake up at once.
CatchUp ==
    /\ ~inTime
    /\ inTime' = TRUE
    /\ snoozed' = [n \in Honest |-> Unexecuted(Executed)]
    /\ UNCHANGED <<store, batches, bucket, observed, pending, inflight>>

ExecNext ==
    \/ (Send \/ CommitSome) /\ UNCHANGED execVars
    \/ CatchUp
    \/ Refill
    \/ ExecObserve
    \/ ExecReport
    \/ \E report \in pending : TransmitReport(report) \/ GiveUpReport(report)
    \/ \E n \in Honest :
          \/ \E report \in inflight[n] : Expire(n, report)
          \/ \E i \in snoozed[n] : WakeUp(n, i)
    \/ \E m \in Messages : ExecuteByHand(m)

ExecSpec == ExecInit /\ [][ExecNext]_evars

\* ExecObserve, as far as its fairness goes: which nodes are heard, and what
\* the faulty ones say, is not for the system to choose.
ExecRoundBegins ==
    /\ observed = NoRound
    /\ observed' \in ObservedMessages
    /\ SnoozePassed
    /\ UNCHANGED <<store, inTime, batches, bucket, pending, inflight>>

-----------------------------------------------------------------------------
(* Properties. *)

\* No round agrees on, and no node holds in flight or transmits, token data
\* that only faulty nodes have observed (calculateObservedMessagesConsensus).
NothingForged ==
    LET held == UNION {inflight[n] : n \in Honest}
        ofRound == {observed} \ {NoRound}
    IN  \A report \in pending \cup held \cup ofRound :
            \A m \in DOMAIN report : report[m] = "fetched"

\* Every message of a root is executed, whatever faulty nodes observe: although
\* its report may be lost and is refused as long as it is in flight, its value
\* may not fit beside what is in flight or into the bucket, and nodes that
\* found it so snooze its root, each for a time of its own.
EveryMessageExecuted == \A m \in Messages : m \in Committed ~> m \in Executed
=============================================================================
