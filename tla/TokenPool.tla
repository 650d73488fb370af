------------------------------ MODULE TokenPool ------------------------------
(***************************************************************************)
(* The storage of a RebaseTokenPool as far as it inherits it from TokenPool,*)
(* for the one remote chain it serves, and the calls that read or change   *)
(* it, as CanF and AfterF.  The pool is deployed without an allow list.    *)
(***************************************************************************)
EXTENDS RateLimiter, Sequences

CONSTANTS
    RemotePools,  \* the encoded addresses of pools on the other chain
    NoAddress,    \* the empty byte string
    Router,       \* the router that knows the ramps of this lane
    Routers       \* the addresses setRouter may be given

ASSUME TokenPoolAssumption ==
    /\ NoAddress \notin RemotePools
    /\ Router \in Routers

\* An EnumerableSet: its values, and the values its mapping has a position
\* for.  contains, add and remove look at the mapping.
EnumerableSet == [values : SUBSET RemotePools, positions : SUBSET RemotePools]

Plus(set, v) ==
    [values |-> set.values \cup {v}, positions |-> set.positions \cup {v}]

Minus(set, vs) ==
    [values |-> set.values \ vs, positions |-> set.positions \ vs]

\* delete on a struct resets the array and cannot reset the mapping.
Deleted(set) == [set EXCEPT !.values = {}]

PoolStorage ==
    [supported : BOOLEAN, remotePools : EnumerableSet, outbound : TokenBucket,
     inbound : TokenBucket, router : Routers]

\* A pool that was just deployed.
NewPool ==
    [supported |-> FALSE, remotePools |-> [values |-> {}, positions |-> {}],
     outbound |-> NoBucket, inbound |-> NoBucket, router |-> Router]

IsRemotePool(pool, p) == p \in pool.remotePools.positions
GetRemotePools(pool) == pool.remotePools.values

\* What applyChainUpdates is given to add a chain: addresses for the remote
\* pools, in order, the remote token's, of which only counts that there is
\* one, and limits.
ChainUpdate ==
    [pools : Seq(RemotePools \cup {NoAddress}), hasToken : BOOLEAN,
     outbound : BucketConfigs, inbound : BucketConfigs]

\* _setRemotePool
CanSetRemotePool(set, p) == p # NoAddress /\ p \notin set.positions

CanAddRemotePool(pool, p) ==
    pool.supported /\ CanSetRemotePool(pool.remotePools, p)

AfterAddRemotePool(pool, p) == [pool EXCEPT !.remotePools = Plus(@, p)]

CanRemoveRemotePool(pool, p) == pool.supported /\ IsRemotePool(pool, p)
AfterRemoveRemotePool(pool, p) == [pool EXCEPT !.remotePools = Minus(@, {p})]

\* Mutant: the struct is deleted but its set is not emptied first.
AfterRemoveChainKeepsSet(pool) ==
    [pool EXCEPT !.supported = FALSE, !.remotePools = Deleted(@),
                 !.outbound = NoBucket, !.inbound = NoBucket]

\* The first loop of applyChainUpdates.
AfterRemoveChain(pool) ==
    [pool EXCEPT !.supported = FALSE,
                 !.remotePools = Deleted(Minus(@, @.values)),
                 !.outbound = NoBucket, !.inbound = NoBucket]

\* The second loop.  Every address must be there and none be added twice.
CanAddChain(pool, update) ==
    /\ IsValidConfig(update.outbound)
    /\ IsValidConfig(update.inbound)
    /\ update.hasToken
    /\ ~pool.supported
    /\ \A i \in DOMAIN update.pools :
          /\ CanSetRemotePool(pool.remotePools, update.pools[i])
          /\ \A j \in 1..(i - 1) : update.pools[i] # update.pools[j]

AfterAddChain(pool, update) ==
    LET added == {update.pools[i] : i \in DOMAIN update.pools}
    IN  [pool EXCEPT !.supported = TRUE,
                     !.remotePools = [values |-> @.values \cup added,
                                      positions |-> @.positions \cup added],
                     !.outbound = FullBucket(update.outbound),
                     !.inbound = FullBucket(update.inbound)]

CanSetLimits(pool, outbound, inbound) ==
    pool.supported /\ IsValidConfig(outbound) /\ IsValidConfig(inbound)

AfterSetLimits(pool, outbound, inbound) ==
    [pool EXCEPT !.outbound = AfterSetConfig(@, outbound),
                 !.inbound = AfterSetConfig(@, inbound)]

\* _validateLockOrBurn, called by the on-ramp of Router.
CanLockOrBurn(pool, cursed, amount) ==
    /\ ~cursed
    /\ pool.supported
    /\ pool.router = Router
    /\ CanConsume(pool.outbound, amount)

AfterLockOrBurn(pool, amount) ==
    [pool EXCEPT !.outbound = AfterConsume(@, amount)]

\* _validateReleaseOrMint, called by the off-ramp of Router.
CanReleaseOrMint(pool, cursed, sourcePool, amount) ==
    /\ ~cursed
    /\ pool.supported
    /\ pool.router = Router
    /\ IsRemotePool(pool, sourcePool)
    /\ CanConsume(pool.inbound, amount)

AfterReleaseOrMint(pool, amount) ==
    [pool EXCEPT !.inbound = AfterConsume(@, amount)]

\* The pool a second later.
OlderPool(pool) ==
    [pool EXCEPT !.outbound = Older(@), !.inbound = Older(@)]
=============================================================================
