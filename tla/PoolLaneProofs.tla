---------------------------- MODULE PoolLaneProofs ----------------------------
(***************************************************************************)
(* The remote pools of every pool of a lane, for any number of pools, any  *)
(* updates and any history of administration: the list that is shown and   *)
(* the mapping that is looked at agree.                                    *)
(***************************************************************************)
EXTENDS PoolLane, TLAPS

-----------------------------------------------------------------------------
(* Every call leaves a pool's storage good, if it found it good. *)

\* A set whose list and mapping agree.
GoodSet(set) ==
    /\ set \in EnumerableSet
    /\ set.values = set.positions

GoodPool(q) == q \in PoolStorage /\ GoodSet(q.remotePools)

LEMMA BucketTypes ==
  ASSUME NEW b \in TokenBucket
  PROVE  /\ b.tokens \in Nat /\ b.capacity \in Nat /\ b.rate \in Nat
         /\ b.age \in 0..MaxAge /\ MaxAge \in Nat
         /\ Available(b) \in Nat
<1>1. /\ b.tokens \in Nat /\ b.capacity \in Nat /\ b.rate \in Nat
      /\ b.age \in 0..MaxAge /\ b.age \in Nat /\ MaxAge \in Nat
  BY RateLimiterAssumption DEF TokenBucket
<1>2. b.tokens + b.age * b.rate \in Nat
  BY <1>1
<1>3. \A n \in Nat, m \in Nat : Min({n, m}) \in Nat
  BY DEF Min
<1>4. Refilled(b, b.age) \in Nat
  BY <1>1, <1>2, <1>3 DEF Refilled
<1> QED BY <1>1, <1>4 DEF Available

LEMMA ConfigTypes ==
  ASSUME NEW c \in BucketConfigs
  PROVE  c.isEnabled \in BOOLEAN /\ c.capacity \in Nat /\ c.rate \in Nat /\ 0 \in 0..MaxAge
BY RateLimiterAssumption

LEMMA BucketsTyped ==
  ASSUME NEW b \in TokenBucket
  PROVE  /\ Older(b) \in TokenBucket
         /\ \A amount \in Nat : CanConsume(b, amount) => AfterConsume(b, amount) \in TokenBucket
         /\ \A c \in BucketConfigs : /\ AfterSetConfig(b, c) \in TokenBucket
                                     /\ FullBucket(c) \in TokenBucket
<1>1. Older(b) \in TokenBucket
  <2> DEFINE age == Min({MaxAge, b.age + 1})
  <2>1. \A n \in Nat, m \in Nat : Min({n, m}) = IF n <= m THEN n ELSE m
    BY DEF Min
  <2>2. age \in 0..MaxAge
    BY <2>1, BucketTypes
  <2> HIDE DEF age
  <2>3. [b EXCEPT !.age = age] \in TokenBucket
    BY <2>2 DEF TokenBucket
  <2> QED BY <2>3 DEF Older, age
<1>2. ASSUME NEW amount \in Nat, CanConsume(b, amount)
      PROVE  AfterConsume(b, amount) \in TokenBucket
  <2>1. CASE ~b.isEnabled \/ amount = 0
    BY <2>1 DEF AfterConsume
  <2>2. CASE b.isEnabled /\ amount # 0
    <3> DEFINE tokens == Available(b) - amount
    <3>1. tokens \in Nat /\ 0 \in 0..MaxAge
      BY <1>2, <2>2, BucketTypes DEF CanConsume
    <3> HIDE DEF tokens
    <3>2. [b EXCEPT !.tokens = tokens, !.age = 0] \in TokenBucket
      BY <3>1 DEF TokenBucket
    <3> QED BY <2>2, <3>2 DEF AfterConsume, tokens
  <2> QED BY <2>1, <2>2, BucketTypes DEF TokenBucket
<1>3. ASSUME NEW c \in BucketConfigs
      PROVE  AfterSetConfig(b, c) \in TokenBucket /\ FullBucket(c) \in TokenBucket
  <2> DEFINE tokens == Min({c.capacity, Available(b)})
  <2>1. \A n \in Nat, m \in Nat : Min({n, m}) \in Nat
    BY DEF Min
  <2>2. tokens \in Nat
    BY <2>1, BucketTypes, ConfigTypes
  <2> HIDE DEF tokens
  <2>3. [tokens |-> tokens, age |-> 0, isEnabled |-> c.isEnabled,
         capacity |-> c.capacity, rate |-> c.rate] \in TokenBucket
    BY <2>2, ConfigTypes DEF TokenBucket
  <2> QED BY <2>3, ConfigTypes DEF AfterSetConfig, FullBucket, TokenBucket, tokens
<1> QED BY <1>1, <1>2, <1>3

LEMMA NoBucketTyped == NoBucket \in TokenBucket
BY RateLimiterAssumption DEF NoBucket, TokenBucket

LEMMA NewPoolGood == GoodPool(NewPool)
<1>1. NewPool.remotePools = [values |-> {}, positions |-> {}]
  BY DEF NewPool
<1>2. GoodSet(NewPool.remotePools)
  BY <1>1 DEF GoodSet, EnumerableSet
<1> QED BY <1>2, NoBucketTyped, TokenPoolAssumption
        DEF GoodPool, GoodSet, NewPool, PoolStorage

\* A pool whose set of remote pools and buckets are replaced by good ones.
LEMMA ReplacedGood ==
  ASSUME NEW q, GoodPool(q), NEW set, GoodSet(set),
         NEW out \in TokenBucket, NEW in \in TokenBucket
  PROVE  /\ GoodPool([q EXCEPT !.remotePools = set])
         /\ GoodPool([q EXCEPT !.outbound = out])
         /\ GoodPool([q EXCEPT !.inbound = in])
         /\ GoodPool([q EXCEPT !.outbound = out, !.inbound = in])
BY DEF GoodPool, GoodSet, PoolStorage

LEMMA ChainReplacedGood ==
  ASSUME NEW q, GoodPool(q), NEW supported \in BOOLEAN, NEW set, GoodSet(set),
         NEW out \in TokenBucket, NEW in \in TokenBucket
  PROVE  GoodPool([q EXCEPT !.supported = supported, !.remotePools = set,
                            !.outbound = out, !.inbound = in])
BY DEF GoodPool, GoodSet, PoolStorage

LEMMA PoolFields ==
  ASSUME NEW q, GoodPool(q)
  PROVE  /\ q.outbound \in TokenBucket /\ q.inbound \in TokenBucket
         /\ q.supported \in BOOLEAN /\ q.router \in Routers
         /\ GoodSet(q.remotePools)
         /\ q.remotePools.values \subseteq RemotePools
         /\ q.remotePools.positions = q.remotePools.values
BY DEF GoodPool, GoodSet, PoolStorage, EnumerableSet

\* The calls that change the set.
LEMMA RemotePoolAdded ==
  ASSUME NEW q, GoodPool(q), NEW remote \in RemotePools \cup {NoAddress},
         CanAddRemotePool(q, remote)
  PROVE  GoodPool(AfterAddRemotePool(q, remote))
<1>1. remote \in RemotePools
  BY DEF CanAddRemotePool, CanSetRemotePool
<1>2. GoodSet(Plus(q.remotePools, remote))
  BY <1>1, PoolFields DEF Plus, GoodSet, EnumerableSet
<1>3. q.supported \in BOOLEAN /\ q.outbound \in TokenBucket /\ q.inbound \in TokenBucket
  BY PoolFields
<1>4. GoodPool([q EXCEPT !.remotePools = Plus(q.remotePools, remote)])
  BY <1>2, <1>3, ReplacedGood
<1> QED BY <1>4 DEF AfterAddRemotePool

LEMMA RemotePoolRemoved ==
  ASSUME NEW q, GoodPool(q), NEW remote
  PROVE  GoodPool(AfterRemoveRemotePool(q, remote))
<1>1. GoodSet(Minus(q.remotePools, {remote}))
  BY PoolFields DEF Minus, GoodSet, EnumerableSet
<1>2. q.supported \in BOOLEAN /\ q.outbound \in TokenBucket /\ q.inbound \in TokenBucket
  BY PoolFields
<1>3. GoodPool([q EXCEPT !.remotePools = Minus(q.remotePools, {remote})])
  BY <1>1, <1>2, ReplacedGood
<1> QED BY <1>3 DEF AfterRemoveRemotePool

\* Emptying the set before the struct is deleted clears the mapping too.
LEMMA ChainRemoved ==
  ASSUME NEW q, GoodPool(q)
  PROVE  GoodPool(AfterRemoveChain(q))
<1> DEFINE set == Deleted(Minus(q.remotePools, q.remotePools.values))
<1>1. GoodSet(set)
  <2> DEFINE emptied == Minus(q.remotePools, q.remotePools.values)
  <2>1. emptied = [values |-> {}, positions |-> {}]
    BY PoolFields DEF Minus
  <2> HIDE DEF emptied
  <2>2. Deleted(emptied) = [values |-> {}, positions |-> {}]
    BY <2>1 DEF Deleted
  <2> QED BY <2>2 DEF emptied, GoodSet, EnumerableSet
<1>2. AfterRemoveChain(q) = [q EXCEPT !.supported = FALSE, !.remotePools = set,
                                      !.outbound = NoBucket, !.inbound = NoBucket]
  BY DEF AfterRemoveChain
<1> HIDE DEF set
<1>3. FALSE \in BOOLEAN /\ NoBucket \in TokenBucket
  BY NoBucketTyped
<1> DEFINE supported == FALSE
           bucket == NoBucket
<1>4. supported \in BOOLEAN /\ bucket \in TokenBucket
  BY <1>3
<1> HIDE DEF supported, bucket
<1>5. GoodPool([q EXCEPT !.supported = supported, !.remotePools = set,
                         !.outbound = bucket, !.inbound = bucket])
  BY <1>1, <1>4, ChainReplacedGood
<1> QED BY <1>2, <1>5 DEF supported, bucket

LEMMA ChainAdded ==
  ASSUME NEW q, GoodPool(q), NEW update \in ChainUpdate, CanAddChain(q, update)
  PROVE  GoodPool(AfterAddChain(q, update))
<1> DEFINE added == {update.pools[i] : i \in DOMAIN update.pools}
           set == [values |-> q.remotePools.values \cup added,
                   positions |-> q.remotePools.positions \cup added]
<1>1. added \subseteq RemotePools
  <2> SUFFICES ASSUME NEW i \in DOMAIN update.pools PROVE update.pools[i] \in RemotePools
    OBVIOUS
  <2>1. update.pools \in Seq(RemotePools \cup {NoAddress})
    BY DEF ChainUpdate
  <2>2. update.pools[i] \in RemotePools \cup {NoAddress}
    BY <2>1
  <2> QED BY <2>2 DEF CanAddChain, CanSetRemotePool
<1>2. AfterAddChain(q, update)
        = [q EXCEPT !.supported = TRUE, !.remotePools = set,
                    !.outbound = FullBucket(update.outbound),
                    !.inbound = FullBucket(update.inbound)]
  BY DEF AfterAddChain
<1> HIDE DEF added
<1>3. GoodSet(set)
  BY <1>1, PoolFields DEF GoodSet, EnumerableSet
<1> HIDE DEF set
<1>4. FullBucket(update.outbound) \in TokenBucket /\ FullBucket(update.inbound) \in TokenBucket
  <2>1. update.outbound \in BucketConfigs /\ update.inbound \in BucketConfigs
    BY DEF ChainUpdate
  <2> QED BY <2>1, NoBucketTyped, BucketsTyped
<1>5. TRUE \in BOOLEAN
  OBVIOUS
<1> DEFINE out == FullBucket(update.outbound)
           in == FullBucket(update.inbound)
<1>6. out \in TokenBucket /\ in \in TokenBucket
  BY <1>4
<1> HIDE DEF out, in
<1>7. GoodPool([q EXCEPT !.supported = TRUE, !.remotePools = set, !.outbound = out, !.inbound = in])
  BY <1>3, <1>5, <1>6, ChainReplacedGood
<1> QED BY <1>2, <1>7 DEF out, in

\* The calls that change only buckets, and the passing of a second.
LEMMA BucketsChanged ==
  ASSUME NEW q, GoodPool(q)
  PROVE  /\ GoodPool(OlderPool(q))
         /\ \A amount \in Nat :
               /\ CanConsume(q.outbound, amount) => GoodPool(AfterLockOrBurn(q, amount))
               /\ CanConsume(q.inbound, amount) => GoodPool(AfterReleaseOrMint(q, amount))
         /\ \A out \in BucketConfigs, in \in BucketConfigs : GoodPool(AfterSetLimits(q, out, in))
<1>1. /\ q.outbound \in TokenBucket /\ q.inbound \in TokenBucket
      /\ q.supported \in BOOLEAN /\ GoodSet(q.remotePools)
  BY PoolFields
<1>2. GoodPool(OlderPool(q))
  BY <1>1, BucketsTyped, ReplacedGood DEF OlderPool
<1>3. ASSUME NEW amount \in Nat, CanConsume(q.outbound, amount)
      PROVE  GoodPool(AfterLockOrBurn(q, amount))
  <2>1. AfterConsume(q.outbound, amount) \in TokenBucket
    BY <1>1, <1>3, BucketsTyped
  <2> QED BY <1>1, <2>1, ReplacedGood DEF AfterLockOrBurn
<1>4. ASSUME NEW amount \in Nat, CanConsume(q.inbound, amount)
      PROVE  GoodPool(AfterReleaseOrMint(q, amount))
  <2>1. AfterConsume(q.inbound, amount) \in TokenBucket
    BY <1>1, <1>4, BucketsTyped
  <2> QED BY <1>1, <2>1, ReplacedGood DEF AfterReleaseOrMint
<1>5. ASSUME NEW out \in BucketConfigs, NEW in \in BucketConfigs
      PROVE  GoodPool(AfterSetLimits(q, out, in))
  <2>1. /\ AfterSetConfig(q.outbound, out) \in TokenBucket
        /\ AfterSetConfig(q.inbound, in) \in TokenBucket
    BY <1>1, BucketsTyped
  <2> QED BY <1>1, <2>1, ReplacedGood DEF AfterSetLimits
<1> QED BY <1>2, <1>3, <1>4, <1>5

-----------------------------------------------------------------------------
(* The lane. *)

PoolsGood(f) == f \in [Pools -> PoolStorage] /\ \A p \in Pools : GoodPool(f[p])

LaneInv ==
    /\ PoolsGood(pool)
    /\ activeSource \in SourcePools \cup {NoAddress}
    /\ activeDest \in DestPools \cup {NoAddress}
    /\ messages \in Seq(Message)

LEMMA OnePoolChanged ==
  ASSUME NEW f, PoolsGood(f), NEW p \in Pools, NEW q, GoodPool(q)
  PROVE  PoolsGood([f EXCEPT ![p] = q])
BY DEF PoolsGood, GoodPool

LEMMA UpdatesTyped ==
  ASSUME NEW p \in Pools, NEW update \in Updates(p)
  PROVE  /\ update \in ChainUpdate
         /\ update.outbound \in BucketConfigs /\ update.inbound \in BucketConfigs
<1>1. update \in SourceUpdates \cup DestUpdates
  BY DEF Updates
<1> QED BY <1>1, PoolLaneAssumption DEF ChainUpdate

LEMMA LaneInvHolds == Spec => []LaneInv
<1>1. Init => LaneInv
  <2> SUFFICES ASSUME Init PROVE LaneInv
    OBVIOUS
  <2>1. PICK s \in SourceUpdates, d \in DestUpdates :
           /\ CanAddChain(NewPool, s) /\ CanAddChain(NewPool, d)
           /\ pool = [p \in Pools |->
                         CASE p \in SourcePools -> AfterAddChain(NewPool, s)
                           [] p = FirstDest -> AfterAddChain(NewPool, d)
                           [] OTHER -> NewPool]
    BY DEF Init
  <2>2. s \in ChainUpdate /\ d \in ChainUpdate
    BY PoolLaneAssumption
  <2>3. GoodPool(AfterAddChain(NewPool, s)) /\ GoodPool(AfterAddChain(NewPool, d))
    BY <2>1, <2>2, NewPoolGood, ChainAdded
  <2>4. \A p \in Pools : GoodPool(pool[p])
    BY <2>1, <2>3, NewPoolGood
  <2>5. PoolsGood(pool)
    BY <2>1, <2>4 DEF PoolsGood, GoodPool
  <2> QED BY <2>5, PoolLaneAssumption DEF Init, LaneInv
<1>2. LaneInv /\ [Next]_vars => LaneInv'
  <2> SUFFICES ASSUME LaneInv, [Next]_vars PROVE LaneInv'
    OBVIOUS
  <2>0. /\ PoolsGood(pool) /\ \A p \in Pools : GoodPool(pool[p])
        /\ \A i \in DOMAIN messages : /\ messages[i] \in Message
                                      /\ messages[i].amount \in Nat
        /\ SourcePools \subseteq Pools /\ DestPools \subseteq Pools
    <3>1. ASSUME NEW i \in DOMAIN messages
          PROVE  messages[i] \in Message /\ messages[i].amount \in Nat
      <4>1. messages[i] \in Message
        BY DEF LaneInv
      <4> QED BY <4>1, PoolLaneAssumption DEF Message
    <3> QED BY <3>1 DEF LaneInv, PoolsGood, Pools
  <2>1. ASSUME NEW amount \in Requests, Send(amount) PROVE LaneInv'
    <3>1. activeSource \in SourcePools /\ activeSource \in Pools /\ amount \in Nat
      BY <2>0, <2>1, PoolLaneAssumption DEF LaneInv, Send
    <3>2. GoodPool(AfterLockOrBurn(pool[activeSource], amount))
      BY <2>0, <2>1, <3>1, BucketsChanged DEF Send, CanLockOrBurn
    <3>3. PoolsGood(pool')
      BY <2>0, <2>1, <3>1, <3>2, OnePoolChanged DEF Send
    <3>4. [pool |-> activeSource, amount |-> amount, arrived |-> FALSE] \in Message
      BY <3>1 DEF Message
    <3>5. messages' \in Seq(Message)
      BY <2>1, <3>4 DEF Send, LaneInv
    <3> QED BY <2>1, <3>3, <3>5 DEF Send, LaneInv
  <2>2. ASSUME NEW i, Execute(i) PROVE LaneInv'
    <3>1. activeDest \in Pools /\ i \in DOMAIN messages /\ messages[i].amount \in Nat
      BY <2>0, <2>2 DEF LaneInv, Execute
    <3>2. GoodPool(AfterReleaseOrMint(pool[activeDest], messages[i].amount))
      BY <2>0, <2>2, <3>1, BucketsChanged DEF Execute, CanReleaseOrMint
    <3>3. PoolsGood(pool')
      BY <2>0, <2>2, <3>1, <3>2, OnePoolChanged DEF Execute
    <3>4. messages' \in Seq(Message)
      <4>1. [messages[i] EXCEPT !.arrived = TRUE] \in Message
        BY <2>0, <3>1 DEF Message
      <4>2. messages' = [messages EXCEPT ![i] = [messages[i] EXCEPT !.arrived = TRUE]]
        BY <2>2 DEF Execute
      <4> QED BY <3>1, <4>1, <4>2 DEF LaneInv
    <3> QED BY <2>2, <3>3, <3>4 DEF Execute, LaneInv
  <2>3. CASE Tick
    <3>1. \A p \in Pools : GoodPool(OlderPool(pool[p]))
      BY <2>0, BucketsChanged
    <3>2. PoolsGood(pool')
      BY <2>3, <3>1 DEF Tick, PoolsGood, GoodPool
    <3> QED BY <2>3, <3>2 DEF Tick, LaneInv
  <2>4. ASSUME NEW p \in Pools, NEW changed, GoodPool(changed), Administer(p, changed)
        PROVE  LaneInv'
    <3>1. PoolsGood(pool')
      BY <2>0, <2>4, OnePoolChanged DEF Administer
    <3> QED BY <2>4, <3>1 DEF Administer, LaneInv
  <2>5. ASSUME NEW p \in Pools, NEW remote \in Peers(p) \cup {NoAddress},
               AddRemotePool(p, remote) \/ RemoveRemotePool(p, remote)
        PROVE  LaneInv'
    <3>0. remote \in RemotePools \cup {NoAddress}
      BY <2>5, PoolLaneAssumption DEF Peers, Pools
    <3>1. CASE AddRemotePool(p, remote)
      BY <2>0, <2>4, <3>0, <3>1, RemotePoolAdded DEF AddRemotePool
    <3>2. CASE RemoveRemotePool(p, remote)
      BY <2>0, <2>4, <3>2, RemotePoolRemoved DEF RemoveRemotePool
    <3> QED BY <2>5, <3>1, <3>2
  <2>6. ASSUME NEW p \in Pools, RemoveChain(p) PROVE LaneInv'
    BY <2>0, <2>4, <2>6, ChainRemoved DEF RemoveChain
  <2>7. ASSUME NEW p \in Pools, NEW update \in Updates(p),
               \/ AddChain(p, update) \/ ReplaceChain(p, update)
               \/ SetChainRateLimiterConfig(p, update.outbound, update.inbound)
        PROVE  LaneInv'
    <3>1. CASE AddChain(p, update)
      <4>1. GoodPool(AfterAddChain(pool[p], update))
        BY <2>0, <3>1, ChainAdded, UpdatesTyped DEF AddChain
      <4> QED BY <2>4, <3>1, <4>1 DEF AddChain
    <3>2. CASE ReplaceChain(p, update)
      <4>1. GoodPool(AfterRemoveChain(pool[p]))
        BY <2>0, ChainRemoved
      <4>2. GoodPool(AfterAddChain(AfterRemoveChain(pool[p]), update))
        BY <3>2, <4>1, ChainAdded, UpdatesTyped DEF ReplaceChain
      <4> QED BY <2>4, <3>2, <4>2 DEF ReplaceChain
    <3>3. CASE SetChainRateLimiterConfig(p, update.outbound, update.inbound)
      <4>1. GoodPool(AfterSetLimits(pool[p], update.outbound, update.inbound))
        BY <2>0, BucketsChanged, UpdatesTyped
      <4> QED BY <2>4, <3>3, <4>1 DEF SetChainRateLimiterConfig
    <3> QED BY <2>7, <3>1, <3>2, <3>3
  <2>8. ASSUME NEW p \in Pools, NEW router \in Routers, SetRouter(p, router) PROVE LaneInv'
    <3>1. GoodPool([pool[p] EXCEPT !.router = router])
      BY <2>0 DEF GoodPool, GoodSet, PoolStorage
    <3> QED BY <2>4, <2>8, <3>1 DEF SetRouter
  <2>9. ASSUME NEW p \in SourcePools \cup {NoAddress}, SetSourcePool(p) PROVE LaneInv'
    BY <2>9 DEF SetSourcePool, LaneInv
  <2>10. ASSUME NEW p \in DestPools \cup {NoAddress}, SetDestPool(p) PROVE LaneInv'
    BY <2>10 DEF SetDestPool, LaneInv
  <2>11. CASE Curse
    BY <2>11 DEF Curse, LaneInv
  <2>12. CASE UNCHANGED vars
    BY <2>12 DEF vars, LaneInv
  <2> QED BY <2>1, <2>2, <2>3, <2>5, <2>6, <2>7, <2>8, <2>9, <2>10, <2>11, <2>12 DEF Next
<1> QED BY <1>1, <1>2, PTL DEF Spec

\* releaseOrMint accepts messages from exactly the pools getRemotePools shows,
\* after every history of additions, removals and removed chains.
THEOREM ShownPoolsAreAccepted == Spec => []ShownIsAccepted
<1>1. LaneInv => ShownIsAccepted
  BY PoolFields DEF LaneInv, PoolsGood, ShownIsAccepted, IsRemotePool, GetRemotePools
<1> QED BY <1>1, LaneInvHolds, PTL
=============================================================================
