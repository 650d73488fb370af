------------------------------ MODULE PoolLane -------------------------------
(***************************************************************************)
(* The pools of a lane over their life: messages in flight from source to  *)
(* destination while the administrators of both chains change limits,      *)
(* remote pools, routers and the pools themselves, and the RMN curses.     *)
(***************************************************************************)
EXTENDS TokenPool

CONSTANTS
    SourcePools, DestPools,  \* the pools deployed on either chain, by number
    FirstSource, FirstDest,  \* the pools that are set up first
    SourceUpdates,           \* the chain updates given to source pools
    DestUpdates,             \* the chain updates given to destination pools
    Requests,                \* the amounts users send
    MaxMessages,             \* bound on the messages sent
    MaxChanges               \* bound on the calls of administrators

Pools == SourcePools \cup DestPools
Peers(p) == IF p \in SourcePools THEN DestPools ELSE SourcePools
Updates(p) == IF p \in SourcePools THEN SourceUpdates ELSE DestUpdates

ASSUME PoolLaneAssumption ==
    /\ SourcePools \cap DestPools = {}
    /\ Pools \subseteq RemotePools
    /\ FirstSource \in SourcePools
    /\ FirstDest \in DestPools
    /\ SourceUpdates \cup DestUpdates \subseteq ChainUpdate
    /\ Requests \subseteq Nat \ {0}
    /\ MaxMessages \in Nat
    /\ MaxChanges \in Nat

VARIABLES
    pool,                    \* pool[p]: the storage of pool p
    activeSource, activeDest,\* the pool of the token in either TokenAdminRegistry
    cursed,                  \* whether the RMN has cursed the lane
    messages,                \* the messages sent, in order
    changes                  \* the number of calls of administrators so far

vars == <<pool, activeSource, activeDest, cursed, messages, changes>>

Message == [pool : SourcePools, amount : Requests, arrived : BOOLEAN]

\* The first pools are set up for each other, as test/CrossChain.t.sol does.
\* The pools to replace the source's first one may be set up already, and be
\* known to the destination.
Init ==
    /\ \E s \in SourceUpdates, d \in DestUpdates :
          /\ CanAddChain(NewPool, s) /\ s.pools = <<FirstDest>>
          /\ CanAddChain(NewPool, d) /\ Head(d.pools) = FirstSource
          /\ pool = [p \in Pools |->
                        CASE p \in SourcePools -> AfterAddChain(NewPool, s)
                          [] p = FirstDest -> AfterAddChain(NewPool, d)
                          [] OTHER -> NewPool]
    /\ activeSource = FirstSource
    /\ activeDest = FirstDest
    /\ cursed = FALSE
    /\ messages = <<>>
    /\ changes = 0

\* ConfigurePoolScript hands applyChainUpdates an array of one remote pool
\* address and never stores the address it has computed in it.
ScriptUpdate(limits) ==
    [pools |-> <<NoAddress>>, hasToken |-> TRUE, outbound |-> limits, inbound |-> limits]

-----------------------------------------------------------------------------
(* Messages. *)

\* lockOrBurn, in the pool the on-ramp finds in the registry.
Send(amount) ==
    /\ Len(messages) < MaxMessages
    /\ activeSource # NoAddress
    /\ CanLockOrBurn(pool[activeSource], cursed, amount)
    /\ pool' = [pool EXCEPT ![activeSource] = AfterLockOrBurn(@, amount)]
    /\ messages' = Append(messages, [pool |-> activeSource, amount |-> amount,
                                     arrived |-> FALSE])
    /\ UNCHANGED <<activeSource, activeDest, cursed, changes>>

\* Mutant: an attempt that fails at the limit still writes the time of the
\* refill.
ExecuteTouchesBucket(i) ==
    /\ i \in DOMAIN messages
    /\ ~messages[i].arrived
    /\ activeDest # NoAddress
    /\ LET m == messages[i]
           dest == pool[activeDest]
       IN  \/ /\ CanReleaseOrMint(dest, cursed, m.pool, m.amount)
              /\ pool' = [pool EXCEPT ![activeDest] = AfterReleaseOrMint(@, m.amount)]
              /\ messages' = [messages EXCEPT ![i].arrived = TRUE]
           \/ /\ ~CanReleaseOrMint(dest, cursed, m.pool, m.amount)
              /\ pool' = [pool EXCEPT ![activeDest].inbound.age = 0]
              /\ UNCHANGED messages
    /\ UNCHANGED <<activeSource, activeDest, cursed, changes>>

\* releaseOrMint, at the first attempt or a later one, in the pool the
\* off-ramp finds in the registry now.  An attempt that fails is reverted.
Execute(i) ==
    /\ i \in DOMAIN messages
    /\ ~messages[i].arrived
    /\ activeDest # NoAddress
    /\ LET m == messages[i]
       IN  /\ CanReleaseOrMint(pool[activeDest], cursed, m.pool, m.amount)
           /\ pool' = [pool EXCEPT ![activeDest] = AfterReleaseOrMint(@, m.amount)]
    /\ messages' = [messages EXCEPT ![i].arrived = TRUE]
    /\ UNCHANGED <<activeSource, activeDest, cursed, changes>>

Tick ==
    /\ pool' = [p \in Pools |-> OlderPool(pool[p])]
    /\ UNCHANGED <<activeSource, activeDest, cursed, messages, changes>>

-----------------------------------------------------------------------------
(* Administration. *)

Change == changes < MaxChanges /\ changes' = changes + 1

\* A call of pool p's administrator that leaves the storage changed.
Administer(p, changed) ==
    /\ Change
    /\ pool' = [pool EXCEPT ![p] = changed]
    /\ UNCHANGED <<activeSource, activeDest, cursed, messages>>

AddRemotePool(p, remote) ==
    /\ CanAddRemotePool(pool[p], remote)
    /\ Administer(p, AfterAddRemotePool(pool[p], remote))

RemoveRemotePool(p, remote) ==
    /\ CanRemoveRemotePool(pool[p], remote)
    /\ Administer(p, AfterRemoveRemotePool(pool[p], remote))

\* applyChainUpdates to remove the chain, ...
RemoveChain(p) ==
    /\ pool[p].supported
    /\ Administer(p, AfterRemoveChain(pool[p]))

\* ... to add it, ...
AddChain(p, update) ==
    /\ CanAddChain(pool[p], update)
    /\ Administer(p, AfterAddChain(pool[p], update))

\* ... and to replace its configuration in one call.
ReplaceChain(p, update) ==
    /\ pool[p].supported
    /\ CanAddChain(AfterRemoveChain(pool[p]), update)
    /\ Administer(p, AfterAddChain(AfterRemoveChain(pool[p]), update))

\* By the owner or the rate limit admin.
SetChainRateLimiterConfig(p, outbound, inbound) ==
    /\ CanSetLimits(pool[p], outbound, inbound)
    /\ Administer(p, AfterSetLimits(pool[p], outbound, inbound))

SetRouter(p, router) ==
    /\ router # pool[p].router
    /\ Administer(p, [pool[p] EXCEPT !.router = router])

\* TokenAdminRegistry.setPool; without a pool the token is not listed.
SetSourcePool(p) ==
    /\ Change
    /\ activeSource' = p
    /\ UNCHANGED <<pool, activeDest, cursed, messages>>

SetDestPool(p) ==
    /\ Change
    /\ activeDest' = p
    /\ UNCHANGED <<pool, activeSource, cursed, messages>>

Curse ==
    /\ Change
    /\ cursed' = ~cursed
    /\ UNCHANGED <<pool, activeSource, activeDest, messages>>

Next ==
    \/ \E amount \in Requests : Send(amount)
    \/ \E i \in 1..MaxMessages : Execute(i)
    \/ Tick
    \/ \E p \in Pools :
          \/ \E remote \in Peers(p) \cup {NoAddress} :
                AddRemotePool(p, remote) \/ RemoveRemotePool(p, remote)
          \/ RemoveChain(p)
          \/ \E update \in Updates(p) :
                \/ AddChain(p, update)
                \/ ReplaceChain(p, update)
                \/ SetChainRateLimiterConfig(p, update.outbound, update.inbound)
          \/ \E router \in Routers : SetRouter(p, router)
    \/ \E p \in SourcePools \cup {NoAddress} : SetSourcePool(p)
    \/ \E p \in DestPools \cup {NoAddress} : SetDestPool(p)
    \/ Curse

Spec == Init /\ [][Next]_vars

\* Whoever waits for a message has it attempted again as long as it can
\* succeed, and time passes.
Fairness ==
    /\ \A i \in 1..MaxMessages : WF_vars(Execute(i))
    /\ WF_vars(Tick)

FairSpec == Spec /\ Fairness

-----------------------------------------------------------------------------
(* Properties. *)

\* The pools getRemotePools shows are those releaseOrMint accepts messages
\* from, whatever was added, removed, or went with a removed chain: nobody
\* mints for a pool that no list shows.
ShownIsAccepted ==
    \A p \in Pools, remote \in RemotePools :
        IsRemotePool(pool[p], remote) <=> remote \in GetRemotePools(pool[p])

\* The destination takes message i, at a time its bucket is full.
Admissible(i) ==
    /\ i \in DOMAIN messages
    /\ activeDest # NoAddress
    /\ ~cursed
    /\ LET dest == pool[activeDest]
       IN  /\ dest.supported
           /\ dest.router = Router
           /\ messages[i].pool \in GetRemotePools(dest)
           /\ dest.inbound.isEnabled =>
                 messages[i].amount <= dest.inbound.capacity

\* A message waits for its limit but is never lost to it: whatever was
\* changed while it was in flight, the source's pool included, if in the end
\* its own pool is listed at the destination, nothing is cursed and the limit
\* is not below its amount, it arrives, however many of its attempts were
\* refused before and whichever messages were let in ahead of it.  It counts on
\* there being no more than MaxMessages of them: traffic that never ceases may
\* take every refill, as _consume says of the wait it reports.
InflightArrives ==
    \A i \in 1..MaxMessages :
        <>[]Admissible(i) => <>(i \in DOMAIN messages /\ messages[i].arrived)
=============================================================================
