----------------------------- MODULE LaneLimits ------------------------------
(***************************************************************************)
(* The two buckets of one lane: outbound in the pool of the source chain,  *)
(* inbound in the pool of the destination.  A message becomes executable   *)
(* some seconds after it was sent, when its epoch is final and its root    *)
(* committed, so that messages sent at different times arrive at once.     *)
(* The inbound limits may be changed and the chain be removed and added    *)
(* again.  An observer opens a window at the destination whenever it likes *)
(* and counts what is admitted while it is open.                           *)
(***************************************************************************)
EXTENDS RateLimiter

CONSTANTS
    LaneConfigs,  \* the limits of a lane, [outbound, inbound]
    Requests,     \* the amounts users send
    MaxDelay,     \* bound on the seconds between sending and first attempt
    MaxInflight,  \* bound on the messages on their way
    MaxChanges,   \* bound on the changes of the inbound limits
    MaxWindow     \* bound on the seconds a window stays open

ASSUME LaneLimitsAssumption ==
    /\ LaneConfigs \subseteq [outbound : BucketConfigs, inbound : BucketConfigs]
    /\ Requests \subseteq Nat \ {0}
    /\ {MaxDelay, MaxInflight, MaxChanges, MaxWindow} \subseteq Nat

VARIABLES
    outbound,  \* the bucket of the source pool
    inbound,   \* the bucket of the destination pool
    inflight,  \* the messages that have not arrived yet, by their ids
    changes,   \* the number of changes of the inbound limits so far
    window     \* the observer: seconds since it was opened, what the inbound
               \* limits allowed since then, and what was admitted under them

vars == <<outbound, inbound, inflight, changes, window>>

\* The id of a message is free again when it has arrived.
MessageIds == 1..MaxInflight

Message == [amount : Requests, age : 0..MaxDelay, refused : BOOLEAN]

Window == [elapsed : 0..MaxWindow, allowed : Nat, admitted : Nat]

NewMessage(amount) == [amount |-> amount, age |-> 0, refused |-> FALSE]

\* A window allows at once what the bucket can hold.
Opened(b) == [elapsed |-> 0, allowed |-> b.capacity, admitted |-> 0]

\* applyChainUpdates in both pools
Init ==
    \E lane \in LaneConfigs :
        /\ IsValidConfig(lane.outbound) /\ IsValidConfig(lane.inbound)
        /\ outbound = FullBucket(lane.outbound)
        /\ inbound = FullBucket(lane.inbound)
        /\ inflight = <<>>
        /\ changes = 0
        /\ window = Opened(inbound)

\* lockOrBurn
Send(amount, id) ==
    /\ id \notin DOMAIN inflight
    /\ CanConsume(outbound, amount)
    /\ outbound' = AfterConsume(outbound, amount)
    /\ inflight' = [j \in DOMAIN inflight \cup {id} |->
                       IF j = id THEN NewMessage(amount) ELSE inflight[j]]
    /\ UNCHANGED <<inbound, changes, window>>

\* releaseOrMint, at a first attempt or a later one.  Messages of different
\* senders reach it in any order.
Deliver(id) ==
    /\ id \in DOMAIN inflight
    /\ CanConsume(inbound, inflight[id].amount)
    /\ inbound' = AfterConsume(inbound, inflight[id].amount)
    /\ inflight' = [j \in DOMAIN inflight \ {id} |-> inflight[j]]
    /\ window' = [window EXCEPT
                    !.admitted = IF inbound.isEnabled THEN @ + inflight[id].amount ELSE @]
    /\ UNCHANGED <<outbound, changes>>

\* A first attempt that fails at the limit.
Refuse(id) ==
    /\ id \in DOMAIN inflight
    /\ ~inflight[id].refused
    /\ ~CanConsume(inbound, inflight[id].amount)
    /\ inflight' = [inflight EXCEPT ![id].refused = TRUE, ![id].age = MaxDelay]
    /\ UNCHANGED <<outbound, inbound, changes, window>>

Change == changes < MaxChanges /\ changes' = changes + 1

SetChainRateLimiterConfig(config) ==
    /\ Change
    /\ IsValidConfig(config)
    /\ inbound' = AfterSetConfig(inbound, config)
    /\ UNCHANGED <<outbound, inflight, window>>

\* The chain is removed and added again: the limits start afresh, and so
\* does the observer.
ApplyChainUpdates(config) ==
    /\ Change
    /\ IsValidConfig(config)
    /\ inbound' = FullBucket(config)
    /\ window' = Opened(inbound')
    /\ UNCHANGED <<outbound, inflight>>

OpenWindow ==
    /\ window' = Opened(inbound)
    /\ UNCHANGED <<outbound, inbound, inflight, changes>>

\* A second passes, unless a first attempt is due.
Tick ==
    /\ window.elapsed < MaxWindow
    /\ \A id \in DOMAIN inflight : inflight[id].age < MaxDelay \/ inflight[id].refused
    /\ outbound' = Older(outbound)
    /\ inbound' = Older(inbound)
    /\ inflight' = [id \in DOMAIN inflight |->
                       [inflight[id] EXCEPT !.age = IF inflight[id].refused THEN @ ELSE @ + 1]]
    /\ window' = [window EXCEPT !.elapsed = @ + 1, !.allowed = @ + inbound.rate]
    /\ UNCHANGED changes

Next ==
    \/ \E id \in MessageIds :
          \/ \E amount \in Requests : Send(amount, id)
          \/ Deliver(id)
          \/ Refuse(id)
    \/ \E config \in BucketConfigs :
          \/ SetChainRateLimiterConfig(config)
          \/ ApplyChainUpdates(config)
    \/ OpenWindow
    \/ Tick

Spec == Init /\ [][Next]_vars

-----------------------------------------------------------------------------

\* The sum of the numbers in f.
TotalOf(f) == Cardinality(UNION {{x} \X (1..f[x]) : x \in DOMAIN f})

\* What the first attempts still to come ask of the destination, of the
\* messages that were sent in the last secs seconds.
DueOf(secs) ==
    [id \in DOMAIN inflight |->
        IF inflight[id].refused \/ inflight[id].age > secs THEN 0 ELSE inflight[id].amount]

Due == TotalOf(DueOf(MaxDelay))

\* The inbound limits exceed the outbound ones by what the rate adds during a
\* delay (src/lib/chainlink/contracts/src/v0.8/ccip/pools/TokenPool.sol:480
\* asks for higher inbound limits to this end).
Buffered(out, in) ==
    /\ out.isEnabled /\ in.isEnabled
    /\ out.rate <= in.rate
    /\ out.capacity + MaxDelay * out.rate <= in.capacity

\* What the source admitted the destination can mint at once, all messages
\* together and whatever the delays, if its limits are buffered and nobody
\* changes them: no first attempt fails at the limit, to wait for somebody to
\* retry it.
FirstAttemptsFit ==
    changes = 0 /\ Buffered(outbound, inbound) => Due <= Available(inbound)

\* Over any stretch of time, however the limits were changed in it or
\* switched off and on, the bucket admits no more than the capacity at its
\* beginning and the rate of every second that passed: a raised rate does
\* not count for the time before it, and no change of limits hands out
\* tokens.
AdmitsWithinLimits == window.admitted <= window.allowed

\* No history of changes bricks the lane: a bucket left alone for long
\* enough admits its whole capacity again.  Were there ever more tokens than
\* the capacity, _consume would revert with BucketOverfilled for good.
NeverBricked ==
    \A b \in {outbound, inbound} :
        b.isEnabled => CanConsume([b EXCEPT !.age = MaxAge], b.capacity)

\* minWaitInSeconds tells a refused request exactly how long to wait: after so
\* many seconds without other traffic it is admitted, and not a second before.
WaitIsExact ==
    \A b \in {outbound, inbound}, amount \in Requests :
        (b.isEnabled /\ amount <= b.capacity /\ ~CanConsume(b, amount)) =>
              LET wait == MinWaitInSeconds(b, amount)
                  After(secs) == [b EXCEPT !.age = @ + secs]
              IN  /\ CanConsume(After(wait), amount)
                  /\ \A secs \in 0..(wait - 1) : ~CanConsume(After(secs), amount)
=============================================================================
