----------------------------- MODULE RateLimiter -----------------------------
(***************************************************************************)
(* The token bucket that limits a lane of a TokenPool.  As in RebaseTokenOps*)
(* a call is a pair: CanF says when it does not revert, AfterF the bucket  *)
(* it leaves.  Instead of the time of the last refill a bucket carries its *)
(* age, the seconds since then, which stops counting at MaxAge: by then    *)
(* every bucket is full.                                                   *)
(***************************************************************************)
EXTENDS Naturals, FiniteSetsExt

CONSTANTS
    BucketConfigs, \* the configurations somebody asks for, [isEnabled, capacity, rate]
    MaxAge         \* bound on the age of a bucket

ASSUME RateLimiterAssumption ==
    /\ BucketConfigs \subseteq [isEnabled : BOOLEAN, capacity : Nat, rate : Nat]
    /\ MaxAge \in Nat \ {0}
    /\ \A c \in BucketConfigs : c.capacity <= MaxAge

TokenBucket == [tokens : Nat, age : 0..MaxAge, isEnabled : BOOLEAN,
                capacity : Nat, rate : Nat]

\* The bucket of a chain that was never added.
NoBucket == [tokens |-> 0, age |-> MaxAge, isEnabled |-> FALSE,
             capacity |-> 0, rate |-> 0]

\* _validateTokenBucketConfig(config, false)
IsValidConfig(config) ==
    IF config.isEnabled
    THEN config.rate # 0 /\ config.rate < config.capacity
    ELSE config.rate = 0 /\ config.capacity = 0

\* _calculateRefill, for a bucket that was left alone for secs seconds.
Refilled(bucket, secs) == Min({bucket.capacity, bucket.tokens + secs * bucket.rate})

\* The tokens a call finds, which refills only in a later block.
Available(bucket) ==
    IF bucket.age = 0 THEN bucket.tokens ELSE Refilled(bucket, bucket.age)

CanConsume(bucket, requestTokens) ==
    \/ ~bucket.isEnabled
    \/ requestTokens = 0
    \/ /\ bucket.age # 0 => bucket.tokens <= bucket.capacity
       /\ requestTokens <= bucket.capacity
       /\ requestTokens <= Available(bucket)

\* Mutant: the time of the refill is not written.
AfterConsumeKeepsAge(bucket, requestTokens) ==
    IF ~bucket.isEnabled \/ requestTokens = 0 THEN bucket
    ELSE [bucket EXCEPT !.tokens = Available(bucket) - requestTokens]

AfterConsume(bucket, requestTokens) ==
    IF ~bucket.isEnabled \/ requestTokens = 0 THEN bucket
    ELSE [bucket EXCEPT !.tokens = Available(bucket) - requestTokens, !.age = 0]

\* Mutant: the wait is rounded down.
MinWaitRoundedDown(bucket, requestTokens) ==
    (requestTokens - Available(bucket)) \div bucket.rate

\* minWaitInSeconds, which a refused request is told.
MinWaitInSeconds(bucket, requestTokens) ==
    ((requestTokens - Available(bucket)) + (bucket.rate - 1)) \div bucket.rate

\* Mutant: the tokens are not capped at the new capacity.
AfterSetConfigUncapped(bucket, config) ==
    [tokens |-> Available(bucket), age |-> 0, isEnabled |-> config.isEnabled,
     capacity |-> config.capacity, rate |-> config.rate]

\* Mutant: the time before the change is refilled at the new rate.
AfterSetConfigNewRate(bucket, config) ==
    [tokens |-> Min({config.capacity, bucket.tokens + bucket.age * config.rate}),
     age |-> 0, isEnabled |-> config.isEnabled,
     capacity |-> config.capacity, rate |-> config.rate]

\* _setTokenBucketConfig
AfterSetConfig(bucket, config) ==
    [tokens |-> Min({config.capacity, Available(bucket)}), age |-> 0,
     isEnabled |-> config.isEnabled, capacity |-> config.capacity,
     rate |-> config.rate]

\* The bucket of a chain that applyChainUpdates adds: it starts full.
FullBucket(config) ==
    [tokens |-> config.capacity, age |-> 0, isEnabled |-> config.isEnabled,
     capacity |-> config.capacity, rate |-> config.rate]

\* The bucket a second later.
Older(bucket) == [bucket EXCEPT !.age = Min({MaxAge, @ + 1})]
=============================================================================
