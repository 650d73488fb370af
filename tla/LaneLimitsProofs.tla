--------------------------- MODULE LaneLimitsProofs ----------------------------
(***************************************************************************)
(* The token bucket, for all limits, requests and histories: it never      *)
(* holds more than its capacity, admits no more than a window allows, and  *)
(* tells a refused request exactly how long to wait.  Of two buckets with  *)
(* room for a delay between them the second refuses nothing of what the    *)
(* first admitted.                                                         *)
(***************************************************************************)
EXTENDS LaneLimits, FiniteSetTheorems, TLAPS

LEMMA MinOfTwo ==
  ASSUME NEW a \in Nat, NEW b \in Nat
  PROVE  Min({a, b}) = IF a <= b THEN a ELSE b
BY DEF Min

\* A bucket whose configuration is valid and which holds no more than its
\* capacity.
Sound(b) ==
    /\ b \in TokenBucket
    /\ b.tokens <= b.capacity
    /\ b.capacity <= MaxAge
    /\ b.isEnabled => b.rate # 0

\* What a call finds in a sound bucket, in the block of the last refill too.
LEMMA AvailableIs ==
  ASSUME NEW b, Sound(b)
  PROVE  /\ b.age * b.rate \in Nat
         /\ Available(b) = IF b.capacity <= b.tokens + b.age * b.rate
                           THEN b.capacity ELSE b.tokens + b.age * b.rate
         /\ Available(b) \in Nat /\ Available(b) <= b.capacity
<1>1. /\ b.tokens \in Nat /\ b.age \in Nat /\ b.rate \in Nat /\ b.capacity \in Nat
      /\ b.tokens <= b.capacity
  BY RateLimiterAssumption DEF Sound, TokenBucket
<1>2. b.age * b.rate \in Nat
  BY <1>1
<1>3. CASE b.age = 0
  <2>1. b.age * b.rate = 0
    BY <1>1, <1>3
  <2> QED BY <1>1, <1>3, <2>1 DEF Available
<1>4. CASE b.age # 0
  <2>1. Available(b) = Min({b.capacity, b.tokens + b.age * b.rate})
    BY <1>4 DEF Available, Refilled
  <2>2. b.tokens + b.age * b.rate \in Nat
    BY <1>1, <1>2
  <2> DEFINE refilled == b.tokens + b.age * b.rate
  <2> HIDE DEF refilled
  <2>3. Min({b.capacity, refilled}) = IF b.capacity <= refilled THEN b.capacity ELSE refilled
    BY <1>1, <2>2, MinOfTwo DEF refilled
  <2> QED BY <1>1, <1>2, <2>1, <2>2, <2>3 DEF refilled
<1> QED BY <1>2, <1>3, <1>4

LEMMA SoundFields ==
  ASSUME NEW b, Sound(b)
  PROVE  /\ b.tokens \in Nat /\ b.age \in 0..MaxAge /\ b.rate \in Nat
         /\ b.capacity \in Nat /\ b.isEnabled \in BOOLEAN
         /\ MaxAge \in Nat \ {0}
BY RateLimiterAssumption DEF Sound, TokenBucket

\* A request takes its amount.
LEMMA ConsumeSound ==
  ASSUME NEW b, Sound(b), NEW amount \in Nat \ {0}, CanConsume(b, amount)
  PROVE  /\ Sound(AfterConsume(b, amount))
         /\ AfterConsume(b, amount).isEnabled = b.isEnabled
         /\ Available(AfterConsume(b, amount))
              = IF b.isEnabled THEN Available(b) - amount ELSE Available(b)
<1> DEFINE new == AfterConsume(b, amount)
<1>1. Available(b) \in Nat /\ Available(b) <= b.capacity
  BY AvailableIs
<1>2. CASE ~b.isEnabled
  BY <1>2 DEF AfterConsume
<1>3. CASE b.isEnabled
  <2>1. amount <= Available(b)
    BY <1>3 DEF CanConsume
  <2>2. new = [b EXCEPT !.tokens = Available(b) - amount, !.age = 0]
    BY <1>3 DEF AfterConsume
  <2>3. /\ new.tokens = Available(b) - amount /\ new.age = 0
        /\ new.capacity = b.capacity /\ new.rate = b.rate
        /\ new.isEnabled = b.isEnabled
    BY <2>2 DEF Sound, TokenBucket
  <2>4. Available(b) - amount \in Nat /\ 0 \in 0..MaxAge
    BY <1>1, <2>1, SoundFields
  <2>5. new \in TokenBucket
    BY <2>2, <2>4 DEF Sound, TokenBucket
  <2>6. Sound(new)
    BY <1>1, <2>1, <2>3, <2>5, SoundFields DEF Sound
  <2>7. Available(new) = Available(b) - amount
    BY <2>3 DEF Available
  <2> QED BY <1>3, <2>3, <2>6, <2>7
<1> QED BY <1>2, <1>3

\* A second adds at most the rate.
LEMMA OlderSound ==
  ASSUME NEW b, Sound(b)
  PROVE  /\ Sound(Older(b))
         /\ Older(b).isEnabled = b.isEnabled
         /\ Older(b).rate = b.rate
         /\ Available(Older(b)) <= Available(b) + b.rate
<1> DEFINE new == Older(b)
           age == IF MaxAge <= b.age + 1 THEN MaxAge ELSE b.age + 1
<1>1. /\ b.tokens \in Nat /\ b.age \in 0..MaxAge /\ b.rate \in Nat
      /\ b.capacity \in Nat /\ MaxAge \in Nat \ {0}
  BY SoundFields
<1>2. Min({MaxAge, b.age + 1}) = age
  BY <1>1, MinOfTwo
<1>3. age \in 0..MaxAge /\ (age = b.age \/ age = b.age + 1)
  BY <1>1
<1> HIDE DEF age
<1>4. new = [b EXCEPT !.age = age]
  BY <1>2 DEF Older
<1>5. /\ new.tokens = b.tokens /\ new.age = age /\ new.capacity = b.capacity
      /\ new.rate = b.rate /\ new.isEnabled = b.isEnabled
  BY <1>4 DEF Sound, TokenBucket
<1>6. Sound(new)
  <2>1. new \in TokenBucket
    BY <1>3, <1>4 DEF Sound, TokenBucket
  <2> QED BY <1>5, <2>1 DEF Sound
<1>7. age * b.rate <= b.age * b.rate + b.rate /\ age * b.rate \in Nat /\ b.age * b.rate \in Nat
  <2>1. (b.age + 1) * b.rate = b.age * b.rate + b.rate
    BY <1>1
  <2>2. age \in Nat /\ age * b.rate \in Nat /\ b.age * b.rate \in Nat
    BY <1>1, <1>3
  <2> QED BY <1>1, <1>3, <2>1, <2>2
<1>8. Available(new) = IF b.capacity <= b.tokens + age * b.rate
                       THEN b.capacity ELSE b.tokens + age * b.rate
  BY <1>5, <1>6, AvailableIs
<1> HIDE DEF new
<1>9. Available(new) <= Available(b) + b.rate
  BY <1>1, <1>7, <1>8, AvailableIs
<1> QED BY <1>5, <1>6, <1>9 DEF new

\* New limits keep what there is, up to their capacity.
LEMMA SetConfigSound ==
  ASSUME NEW b, Sound(b), NEW config \in BucketConfigs, IsValidConfig(config)
  PROVE  /\ Sound(AfterSetConfig(b, config))
         /\ Available(AfterSetConfig(b, config)) <= Available(b)
<1> DEFINE new == AfterSetConfig(b, config)
           kept == IF config.capacity <= Available(b) THEN config.capacity ELSE Available(b)
<1>1. /\ config.isEnabled \in BOOLEAN /\ config.capacity \in Nat /\ config.rate \in Nat
      /\ config.capacity <= MaxAge /\ MaxAge \in Nat
  BY RateLimiterAssumption
<1>2. Available(b) \in Nat
  BY AvailableIs
<1>3. Min({config.capacity, Available(b)}) = kept
  BY <1>1, <1>2, MinOfTwo
<1>4. kept \in Nat /\ kept <= config.capacity /\ kept <= Available(b)
  BY <1>1, <1>2
<1> HIDE DEF kept
<1>5. new = [tokens |-> kept, age |-> 0, isEnabled |-> config.isEnabled,
             capacity |-> config.capacity, rate |-> config.rate]
  BY <1>3 DEF AfterSetConfig
<1>6. new \in TokenBucket
  BY <1>1, <1>4, <1>5 DEF TokenBucket
<1>7. Sound(new)
  BY <1>1, <1>4, <1>5, <1>6 DEF Sound, IsValidConfig
<1>8. Available(new) = kept
  BY <1>5 DEF Available
<1> QED BY <1>4, <1>7, <1>8

\* A bucket that starts full.
LEMMA FullSound ==
  ASSUME NEW config \in BucketConfigs, IsValidConfig(config)
  PROVE  Sound(FullBucket(config))
<1>1. /\ config.isEnabled \in BOOLEAN /\ config.capacity \in Nat /\ config.rate \in Nat
      /\ config.capacity <= MaxAge /\ 0 \in 0..MaxAge
  BY RateLimiterAssumption
<1>2. FullBucket(config) \in TokenBucket
  BY <1>1 DEF FullBucket, TokenBucket
<1> QED BY <1>1, <1>2 DEF FullBucket, Sound, IsValidConfig

-----------------------------------------------------------------------------
(* The invariant: the tokens that are there count as if they had been       *)
(* admitted already.                                                        *)

MessagesTyped(f) ==
    DOMAIN f \subseteq MessageIds /\ f \in [DOMAIN f -> Message]

LaneInv ==
    /\ Sound(outbound)
    /\ Sound(inbound)
    /\ MessagesTyped(inflight)
    /\ window.allowed \in Nat /\ window.admitted \in Nat
    /\ window \in [elapsed : Nat, allowed : Nat, admitted : Nat]
    /\ window.admitted + Available(inbound) <= window.allowed

LEMMA OpenedKeeps ==
  ASSUME NEW b, Sound(b)
  PROVE  /\ Opened(b) \in [elapsed : Nat, allowed : Nat, admitted : Nat]
         /\ Opened(b).admitted + Available(b) <= Opened(b).allowed
BY SoundFields, AvailableIs DEF Opened

LEMMA DelayIsNat == MaxDelay \in Nat /\ MaxInflight \in Nat
<1>1. {MaxDelay, MaxInflight, MaxChanges, MaxWindow} \subseteq Nat
  BY LaneLimitsAssumption
<1>2. {MaxDelay, MaxInflight} \subseteq {MaxDelay, MaxInflight, MaxChanges, MaxWindow}
  OBVIOUS
<1> QED BY <1>1, <1>2

\* A message that was refused, or is a second older, is a message.
LEMMA MessagesAge ==
  ASSUME NEW m \in Message
  PROVE  /\ [m EXCEPT !.refused = TRUE, !.age = MaxDelay] \in Message
         /\ (m.refused \/ m.age < MaxDelay) =>
               [m EXCEPT !.age = IF m.refused THEN @ ELSE @ + 1] \in Message
<1>1. MaxDelay \in Nat
  BY DelayIsNat
<1>2. m.age \in 0..MaxDelay /\ m.refused \in BOOLEAN
  BY DEF Message
<1>3. [m EXCEPT !.refused = TRUE, !.age = MaxDelay] \in Message
  <2>1. ASSUME NEW refused \in BOOLEAN, NEW age \in 0..MaxDelay
        PROVE  [m EXCEPT !.refused = refused, !.age = age] \in Message
    BY DEF Message
  <2>2. TRUE \in BOOLEAN /\ MaxDelay \in 0..MaxDelay
    BY <1>1
  <2> QED BY <2>1, <2>2, Zenon
<1>4. ASSUME m.refused \/ m.age < MaxDelay
      PROVE  [m EXCEPT !.age = IF m.refused THEN @ ELSE @ + 1] \in Message
  <2> DEFINE age == IF m.refused THEN m.age ELSE m.age + 1
  <2>1. age \in 0..MaxDelay
    BY <1>1, <1>2, <1>4
  <2> HIDE DEF age
  <2>2. [m EXCEPT !.age = age] \in Message
    BY <2>1 DEF Message
  <2> QED BY <2>2 DEF age
<1> QED BY <1>3, <1>4

LEMMA LaneInvHolds == Spec => []LaneInv
<1>1. Init => LaneInv
  <2> SUFFICES ASSUME Init PROVE LaneInv
    OBVIOUS
  <2>1. PICK lane \in LaneConfigs :
           /\ IsValidConfig(lane.outbound) /\ IsValidConfig(lane.inbound)
           /\ outbound = FullBucket(lane.outbound)
           /\ inbound = FullBucket(lane.inbound)
           /\ inflight = <<>>
           /\ window = Opened(inbound)
    BY DEF Init
  <2>2. Sound(outbound) /\ Sound(inbound)
    <3>1. lane.outbound \in BucketConfigs /\ lane.inbound \in BucketConfigs
      BY LaneLimitsAssumption
    <3> QED BY <2>1, <3>1, FullSound
  <2>3. MessagesTyped(inflight)
    BY <2>1 DEF MessagesTyped
  <2> QED BY <2>1, <2>2, <2>3, OpenedKeeps DEF LaneInv
<1>2. LaneInv /\ [Next]_vars => LaneInv'
  <2> SUFFICES ASSUME LaneInv, [Next]_vars PROVE LaneInv'
    OBVIOUS
  <2> USE DEF LaneInv
  <2>0. /\ Available(inbound) \in Nat
        /\ \A i \in DOMAIN inflight :
              /\ inflight[i] \in Message
              /\ inflight[i].amount \in Requests /\ inflight[i].amount \in Nat \ {0}
    <3>1. ASSUME NEW i \in DOMAIN inflight PROVE inflight[i] \in Message
      BY DEF MessagesTyped
    <3> QED BY <3>1, AvailableIs, LaneLimitsAssumption DEF Message
  <2>1. ASSUME NEW id \in MessageIds, NEW amount \in Requests, Send(amount, id) PROVE LaneInv'
    <3>1. amount \in Nat \ {0}
      BY LaneLimitsAssumption
    <3>2. Sound(outbound')
      BY <2>1, <3>1, ConsumeSound DEF Send
    <3>3. NewMessage(amount) \in Message
      BY LaneLimitsAssumption, DelayIsNat DEF Message, NewMessage
    <3>4. MessagesTyped(inflight')
      BY <2>1, <3>3 DEF Send, MessagesTyped
    <3> QED BY <2>1, <3>2, <3>4 DEF Send
  <2>2. ASSUME NEW i, Deliver(i) PROVE LaneInv'
    <3> DEFINE amount == inflight[i].amount
    <3>1. amount \in Nat \ {0}
      BY <2>0, <2>2 DEF Deliver
    <3>2. CanConsume(inbound, amount) /\ inbound' = AfterConsume(inbound, amount)
      BY <2>2 DEF Deliver
    <3>3. /\ Sound(inbound')
          /\ Available(inbound') = IF inbound.isEnabled THEN Available(inbound) - amount
                                   ELSE Available(inbound)
      <4> HIDE DEF amount
      <4> QED BY <3>1, <3>2, ConsumeSound
    <3>4. MessagesTyped(inflight')
      BY <2>2 DEF Deliver, MessagesTyped
    <3>5. window' = [window EXCEPT
                       !.admitted = IF inbound.isEnabled THEN @ + amount ELSE @]
      BY <2>2 DEF Deliver
    <3> HIDE DEF amount
    <3>6. /\ window'.allowed = window.allowed
          /\ window'.admitted = IF inbound.isEnabled THEN window.admitted + amount
                                ELSE window.admitted
          /\ window' \in [elapsed : Nat, allowed : Nat, admitted : Nat]
      BY <3>1, <3>5
    <3>7. window'.admitted + Available(inbound') <= window'.allowed
      BY <2>0, <3>1, <3>3, <3>6
    <3> QED BY <2>2, <3>1, <3>3, <3>4, <3>6, <3>7 DEF Deliver
  <2>3. ASSUME NEW i, Refuse(i) PROVE LaneInv'
    <3>1. MessagesTyped(inflight')
      <4>1. [inflight[i] EXCEPT !.refused = TRUE, !.age = MaxDelay] \in Message
        BY <2>0, <2>3, MessagesAge DEF Refuse
      <4>2. i \in DOMAIN inflight /\ inflight[i] \in Message
        BY <2>0, <2>3 DEF Refuse
      <4>3. inflight' = [inflight EXCEPT
                           ![i] = [inflight[i] EXCEPT !.refused = TRUE, !.age = MaxDelay]]
        <5>1. inflight' = [inflight EXCEPT ![i].refused = TRUE, ![i].age = MaxDelay]
          BY <2>3 DEF Refuse
        <5> QED BY <4>2, <5>1 DEF MessagesTyped, Message
      <4> QED BY <4>1, <4>2, <4>3 DEF MessagesTyped
    <3> QED BY <2>3, <3>1 DEF Refuse
  <2>4. ASSUME NEW config \in BucketConfigs, SetChainRateLimiterConfig(config) PROVE LaneInv'
    <3>1. Sound(inbound') /\ Available(inbound') <= Available(inbound)
      BY <2>4, SetConfigSound DEF SetChainRateLimiterConfig
    <3>2. Available(inbound') \in Nat
      BY <3>1, AvailableIs
    <3> QED BY <2>0, <2>4, <3>1, <3>2 DEF SetChainRateLimiterConfig
  <2>5. ASSUME NEW config \in BucketConfigs, ApplyChainUpdates(config) PROVE LaneInv'
    <3>1. Sound(inbound')
      BY <2>5, FullSound DEF ApplyChainUpdates
    <3> QED BY <2>5, <3>1, OpenedKeeps DEF ApplyChainUpdates
  <2>6. CASE OpenWindow
    BY <2>6, OpenedKeeps DEF OpenWindow
  <2>7. CASE Tick
    <3>1. Sound(outbound') /\ Sound(inbound')
      BY <2>7, OlderSound DEF Tick
    <3>2. Available(inbound') <= Available(inbound) + inbound.rate /\ Available(inbound') \in Nat
      BY <2>7, <3>1, OlderSound, AvailableIs DEF Tick
    <3>3. inbound.rate \in Nat
      BY SoundFields
    <3>4. MessagesTyped(inflight')
      <4>1. ASSUME NEW i \in DOMAIN inflight
            PROVE  [inflight[i] EXCEPT !.age = IF inflight[i].refused THEN @ ELSE @ + 1]
                      \in Message
        <5>1. inflight[i].age < MaxDelay \/ inflight[i].refused
          BY <2>7 DEF Tick
        <5>2. inflight[i] \in Message
          BY <2>0
        <5> HIDE DEF LaneInv
        <5> QED BY <5>1, <5>2, MessagesAge
      <4> QED BY <2>7, <4>1 DEF Tick, MessagesTyped
    <3>5. /\ window'.allowed = window.allowed + inbound.rate
          /\ window'.admitted = window.admitted
          /\ window' \in [elapsed : Nat, allowed : Nat, admitted : Nat]
      <4>1. window' = [window EXCEPT !.elapsed = @ + 1, !.allowed = @ + inbound.rate]
        BY <2>7 DEF Tick
      <4>2. window.elapsed \in Nat
        BY DEF LaneInv
      <4>3. window \in [elapsed : Nat, allowed : Nat, admitted : Nat]
        BY DEF LaneInv
      <4> DEFINE elapsed == window.elapsed + 1
                 allowed == window.allowed + inbound.rate
      <4>4. elapsed \in Nat /\ allowed \in Nat
        BY <3>3, <4>2, <4>3
      <4>5. window' = [window EXCEPT !.elapsed = elapsed, !.allowed = allowed]
        BY <4>1
      <4> HIDE DEF elapsed, LaneInv
      <4>6. /\ window'.allowed = allowed /\ window'.admitted = window.admitted
            /\ window' \in [elapsed : Nat, allowed : Nat, admitted : Nat]
        <5> HIDE DEF allowed
        <5> QED BY <4>3, <4>4, <4>5
      <4> QED BY <4>6
    <3>6. window'.admitted + Available(inbound') <= window'.allowed
      BY <2>0, <3>2, <3>3, <3>5
    <3> QED BY <3>1, <3>4, <3>5, <3>6
  <2>8. CASE UNCHANGED vars
    BY <2>8 DEF vars
  <2> QED BY <2>1, <2>2, <2>3, <2>4, <2>5, <2>6, <2>7, <2>8 DEF Next
<1> QED BY <1>1, <1>2, PTL DEF Spec

\* Over any stretch of time the bucket admits no more than the capacity at its
\* beginning and the rate of every second (_consume, _setTokenBucketConfig).
THEOREM WindowsAreLimited == Spec => []AdmitsWithinLimits
<1>1. LaneInv => AdmitsWithinLimits
  BY AvailableIs DEF LaneInv, AdmitsWithinLimits
<1> QED BY <1>1, LaneInvHolds, PTL

\* No history of changes bricks a bucket (BucketOverfilled in _consume).
THEOREM BucketsRefill == Spec => []NeverBricked
<1>1. ASSUME NEW b, Sound(b), b.isEnabled
      PROVE  CanConsume([b EXCEPT !.age = MaxAge], b.capacity)
  <2> DEFINE new == [b EXCEPT !.age = MaxAge]
  <2>1. /\ b.tokens \in Nat /\ b.rate \in Nat /\ b.capacity \in Nat
        /\ MaxAge \in Nat \ {0} /\ b.rate # 0 /\ b.capacity <= MaxAge
        /\ b.tokens <= b.capacity
    BY <1>1, SoundFields DEF Sound
  <2>2. /\ new.tokens = b.tokens /\ new.age = MaxAge /\ new.capacity = b.capacity
        /\ new.rate = b.rate /\ new.isEnabled = b.isEnabled
    BY <1>1 DEF Sound, TokenBucket
  <2>3. new \in TokenBucket
    BY <1>1, <2>1 DEF Sound, TokenBucket
  <2>4. Sound(new)
    BY <1>1, <2>2, <2>3 DEF Sound
  <2>5. MaxAge * b.rate >= MaxAge /\ MaxAge * b.rate \in Nat
    <3> DEFINE r == b.rate - 1
    <3>1. r \in Nat /\ b.rate = r + 1
      BY <2>1
    <3> HIDE DEF r
    <3>2. MaxAge * (r + 1) = MaxAge * r + MaxAge /\ MaxAge * r \in Nat
      BY <2>1, <3>1
    <3> QED BY <2>1, <3>1, <3>2
  <2>6. Available(new) = b.capacity
    <3>1. Available(new) = IF b.capacity <= b.tokens + MaxAge * b.rate
                           THEN b.capacity ELSE b.tokens + MaxAge * b.rate
      BY <2>2, <2>4, AvailableIs
    <3> HIDE DEF new
    <3> QED BY <2>1, <2>5, <3>1
  <2> HIDE DEF new
  <2>7. CanConsume(new, b.capacity)
    BY <2>1, <2>2, <2>6 DEF CanConsume
  <2> QED BY <2>7 DEF new
<1>2. LaneInv => NeverBricked
  BY <1>1 DEF LaneInv, NeverBricked
<1> QED BY <1>2, LaneInvHolds, PTL

-----------------------------------------------------------------------------
(* The wait.                                                                *)

\* What a bucket that never held too much has after secs seconds alone.
LEMMA AvailableAfter ==
  ASSUME NEW b, Sound(b), NEW secs \in Nat, b.age + secs # 0
  PROVE  Available([b EXCEPT !.age = @ + secs])
           = IF b.capacity <= b.tokens + (b.age * b.rate + secs * b.rate)
             THEN b.capacity ELSE b.tokens + (b.age * b.rate + secs * b.rate)
<1> DEFINE age == b.age + secs
           new == [b EXCEPT !.age = age]
           refilled == b.tokens + (b.age * b.rate + secs * b.rate)
<1>1. /\ b.tokens \in Nat /\ b.age \in Nat /\ b.rate \in Nat /\ b.capacity \in Nat
  BY SoundFields
<1>2. /\ b.age * b.rate \in Nat /\ secs * b.rate \in Nat
      /\ (b.age + secs) * b.rate = b.age * b.rate + secs * b.rate
  BY <1>1
<1>3. refilled \in Nat /\ refilled = b.tokens + age * b.rate
  BY <1>1, <1>2
<1> HIDE DEF age
<1>4. /\ new.tokens = b.tokens /\ new.age = age /\ new.capacity = b.capacity
      /\ new.rate = b.rate
  BY DEF Sound, TokenBucket
<1>5. age # 0
  BY DEF age
<1> HIDE DEF new, refilled
<1>6. Available(new) = Min({b.capacity, refilled})
  BY <1>3, <1>4, <1>5 DEF Available, Refilled
<1>7. Min({b.capacity, refilled}) = IF b.capacity <= refilled THEN b.capacity ELSE refilled
  BY <1>1, <1>3, MinOfTwo
<1> QED BY <1>6, <1>7 DEF new, age, refilled

\* minWaitInSeconds rounds up.
LEMMA RoundedUp ==
  ASSUME NEW missing \in Nat \ {0}, NEW rate \in Nat \ {0}
  PROVE  LET wait == (missing + (rate - 1)) \div rate
         IN  /\ wait \in Nat \ {0}
             /\ wait * rate \in Nat /\ wait * rate >= missing
             /\ \A secs \in 0..(wait - 1) : secs * rate \in Nat /\ secs * rate < missing
<1> DEFINE wait == (missing + (rate - 1)) \div rate
           rest == (missing + (rate - 1)) % rate
<1>1. /\ wait \in Int /\ rest \in 0..(rate - 1)
      /\ missing + (rate - 1) = rate * wait + rest
  OBVIOUS
<1> HIDE DEF wait, rest
<1>2. rate * wait = wait * rate /\ rate * wait \in Int /\ rest <= rate - 1 /\ rest >= 0
  BY <1>1
<1>3. wait * rate >= missing /\ wait * rate <= missing + (rate - 1)
  BY <1>1, <1>2
<1>4. wait >= 1
  <2>1. SUFFICES ASSUME wait <= 0 PROVE FALSE
    BY <1>1
  <2> DEFINE d == 0 - wait
  <2>2. d \in Nat /\ wait = 0 - d
    BY <1>1, <2>1
  <2> HIDE DEF d
  <2>3. d * rate \in Nat /\ (0 - d) * rate = 0 - d * rate
    BY <2>2
  <2> QED BY <1>3, <2>2, <2>3
<1>5. ASSUME NEW secs \in 0..(wait - 1)
      PROVE  secs * rate \in Nat /\ secs * rate < missing
  <2> DEFINE d == (wait - 1) - secs
  <2>1. d \in Nat /\ secs \in Nat /\ wait = (secs + d) + 1
    BY <1>1, <1>5
  <2> HIDE DEF d
  <2>2. secs * rate \in Nat /\ d * rate \in Nat
    BY <2>1
  <2>3. ((secs + d) + 1) * rate = (secs * rate + d * rate) + rate
    BY <2>1
  <2> QED BY <1>3, <2>1, <2>2, <2>3
<1> QED BY <1>1, <1>2, <1>3, <1>4, <1>5 DEF wait

\* A refused request is told the shortest wait that admits it
\* (minWaitInSeconds in _consume), after every history of the bucket.
THEOREM WaitsAreExact == Spec => []WaitIsExact
<1>1. ASSUME NEW b, Sound(b), NEW amount \in Requests, b.isEnabled,
             amount <= b.capacity, ~CanConsume(b, amount)
      PROVE  LET wait == MinWaitInSeconds(b, amount)
                 After(secs) == [b EXCEPT !.age = @ + secs]
             IN  /\ CanConsume(After(wait), amount)
                 /\ \A secs \in 0..(wait - 1) : ~CanConsume(After(secs), amount)
  <2> DEFINE avail == Available(b)
             missing == amount - avail
             wait == MinWaitInSeconds(b, amount)
             After(secs) == [b EXCEPT !.age = @ + secs]
  <2>1. /\ b.tokens \in Nat /\ b.age \in Nat /\ b.rate \in Nat \ {0}
        /\ b.capacity \in Nat /\ b.tokens <= b.capacity /\ amount \in Nat \ {0}
    BY <1>1, SoundFields, LaneLimitsAssumption DEF Sound
  <2>2. avail \in Nat /\ b.age * b.rate \in Nat
    BY <1>1, AvailableIs
  <2>3. avail < amount
    BY <1>1, <2>1, <2>2 DEF CanConsume
  <2>4. avail = b.tokens + b.age * b.rate
    BY <1>1, <2>1, <2>2, <2>3, AvailableIs
  <2>5. missing \in Nat \ {0}
    BY <2>1, <2>2, <2>3
  <2>6. wait = (missing + (b.rate - 1)) \div b.rate
    BY DEF MinWaitInSeconds
  <2> HIDE DEF wait, missing
  <2>7. /\ wait \in Nat \ {0}
        /\ wait * b.rate \in Nat /\ wait * b.rate >= missing
        /\ \A secs \in 0..(wait - 1) : secs * b.rate \in Nat /\ secs * b.rate < missing
    BY <2>1, <2>5, <2>6, RoundedUp
  <2>8. ASSUME NEW secs \in Nat
        PROVE  /\ After(secs).tokens = b.tokens /\ After(secs).capacity = b.capacity
               /\ After(secs).isEnabled = b.isEnabled
    BY <1>1 DEF Sound, TokenBucket
  <2>9. CanConsume(After(wait), amount)
    <3>1. Available(After(wait))
            = IF b.capacity <= b.tokens + (b.age * b.rate + wait * b.rate)
              THEN b.capacity ELSE b.tokens + (b.age * b.rate + wait * b.rate)
      BY <1>1, <2>1, <2>7, AvailableAfter
    <3>2. /\ After(wait).tokens = b.tokens /\ After(wait).capacity = b.capacity
      BY <2>7, <2>8
    <3> HIDE DEF After, avail
    <3>3. amount <= Available(After(wait))
      BY <1>1, <2>1, <2>2, <2>4, <2>7, <3>1 DEF missing
    <3> QED BY <1>1, <2>1, <3>2, <3>3 DEF CanConsume
  <2>10. ASSUME NEW secs \in 0..(wait - 1) PROVE ~CanConsume(After(secs), amount)
    <3>1. secs \in Nat /\ secs * b.rate \in Nat /\ secs * b.rate < missing
      BY <2>7
    <3>2. CASE b.age + secs = 0
      <4>1. secs = 0
        BY <2>1, <3>1, <3>2
      <4>2. After(secs) = b
        BY <1>1, <2>1, <4>1 DEF Sound, TokenBucket
      <4> QED BY <1>1, <4>2
    <3>3. CASE b.age + secs # 0
      <4>1. Available(After(secs))
              = IF b.capacity <= b.tokens + (b.age * b.rate + secs * b.rate)
                THEN b.capacity ELSE b.tokens + (b.age * b.rate + secs * b.rate)
        BY <1>1, <3>1, <3>3, AvailableAfter
      <4>2. After(secs).isEnabled = b.isEnabled
        BY <2>8, <3>1
      <4> HIDE DEF After, avail
      <4>3. b.tokens + (b.age * b.rate + secs * b.rate) < amount
        BY <2>1, <2>2, <2>4, <3>1 DEF missing
      <4>4. ~(amount <= Available(After(secs)))
        BY <1>1, <2>1, <2>2, <3>1, <4>1, <4>3
      <4> QED BY <1>1, <2>1, <4>2, <4>4 DEF CanConsume
    <3> QED BY <3>2, <3>3
  <2> QED BY <2>9, <2>10 DEF wait
<1>2. LaneInv => WaitIsExact
  BY <1>1 DEF LaneInv, WaitIsExact
<1> QED BY <1>2, LaneInvHolds, PTL

-----------------------------------------------------------------------------
(* Sums, as cardinalities: what one more entry adds, and that a sum grows   *)
(* with its entries.                                                        *)

Summable(f) == IsFiniteSet(DOMAIN f) /\ f \in [DOMAIN f -> 0..MaxAge]

UnitsIn(f) == UNION {{x} \X (1..f[x]) : x \in DOMAIN f}

LEMMA UnitsFinite ==
  ASSUME NEW f, Summable(f)
  PROVE  IsFiniteSet(UnitsIn(f)) /\ TotalOf(f) = Cardinality(UnitsIn(f)) /\ TotalOf(f) \in Nat
<1>1. MaxAge \in Int /\ IsFiniteSet(1..MaxAge)
  BY FS_Interval, RateLimiterAssumption
<1>2. IsFiniteSet((DOMAIN f) \X (1..MaxAge))
  BY <1>1, FS_Product DEF Summable
<1>3. UnitsIn(f) \subseteq (DOMAIN f) \X (1..MaxAge)
  <2> SUFFICES ASSUME NEW x \in DOMAIN f, NEW z \in {x} \X (1..f[x])
               PROVE  z \in (DOMAIN f) \X (1..MaxAge)
    BY DEF UnitsIn
  <2>1. f[x] \in 0..MaxAge
    BY DEF Summable
  <2>2. z[1] = x /\ z[2] \in 1..f[x] /\ z = <<z[1], z[2]>>
    OBVIOUS
  <2>3. z[2] \in 1..MaxAge
    BY <1>1, <2>1, <2>2
  <2> QED BY <2>2, <2>3
<1>4. IsFiniteSet(UnitsIn(f))
  BY <1>2, <1>3, FS_Subset
<1> QED BY <1>4, FS_CardinalityType DEF TotalOf, UnitsIn

LEMMA TotalGrows ==
  ASSUME NEW f, NEW g, Summable(f), Summable(g), DOMAIN f \subseteq DOMAIN g,
         \A x \in DOMAIN f : f[x] <= g[x]
  PROVE  TotalOf(f) <= TotalOf(g)
<1>1. UnitsIn(f) \subseteq UnitsIn(g)
  <2> SUFFICES ASSUME NEW x \in DOMAIN f, NEW z \in {x} \X (1..f[x])
               PROVE  z \in {x} \X (1..g[x])
    BY DEF UnitsIn
  <2>1. f[x] \in 0..MaxAge /\ g[x] \in 0..MaxAge /\ f[x] <= g[x] /\ MaxAge \in Nat
    BY RateLimiterAssumption DEF Summable
  <2>2. z[1] = x /\ z[2] \in 1..f[x] /\ z = <<z[1], z[2]>>
    OBVIOUS
  <2>3. z[2] \in 1..g[x]
    BY <2>1, <2>2
  <2> QED BY <2>2, <2>3
<1> QED BY <1>1, UnitsFinite, FS_Subset

LEMMA TotalOfOneMore ==
  ASSUME NEW f, NEW g, Summable(f), Summable(g), NEW x, x \notin DOMAIN f,
         DOMAIN g = DOMAIN f \cup {x}, \A y \in DOMAIN f : g[y] = f[y]
  PROVE  TotalOf(g) = TotalOf(f) + g[x]
<1> DEFINE one == {x} \X (1..g[x])
<1>1. g[x] \in Nat
  BY RateLimiterAssumption DEF Summable
<1>2. IsFiniteSet(one) /\ Cardinality(one) = g[x]
  <2>1. IsFiniteSet(1..g[x]) /\ Cardinality(1..g[x]) = g[x]
    BY <1>1, FS_Interval
  <2>2. IsFiniteSet({x}) /\ Cardinality({x}) = 1
    BY FS_Singleton
  <2>3. IsFiniteSet(one) /\ Cardinality(one) = Cardinality({x}) * Cardinality(1..g[x])
    BY <2>1, <2>2, FS_Product
  <2> QED BY <1>1, <2>1, <2>2, <2>3
<1>3. UnitsIn(g) = UnitsIn(f) \cup one
  BY DEF UnitsIn
<1>4. UnitsIn(f) \cap one = {}
  BY DEF UnitsIn
<1> HIDE DEF one
<1>5. IsFiniteSet(UnitsIn(f)) /\ Cardinality(UnitsIn(f)) \in Nat
  BY UnitsFinite, FS_CardinalityType
<1>6. Cardinality(UnitsIn(g)) = Cardinality(UnitsIn(f)) + Cardinality(one) - Cardinality({})
  BY <1>2, <1>3, <1>4, <1>5, FS_Union
<1>7. Cardinality({}) = 0
  BY FS_EmptySet
<1> QED BY <1>1, <1>2, <1>5, <1>6, <1>7, UnitsFinite

LEMMA EntryAtMostTotal ==
  ASSUME NEW f, Summable(f), NEW x \in DOMAIN f
  PROVE  f[x] <= TotalOf(f) /\ TotalOf(f) \in Nat /\ f[x] \in Nat
<1> DEFINE g == [y \in {x} |-> f[x]]
           none == [y \in {} |-> 0]
<1>1. f[x] \in 0..MaxAge /\ MaxAge \in Nat
  BY RateLimiterAssumption DEF Summable
<1>2. IsFiniteSet({x}) /\ IsFiniteSet({})
  BY FS_Singleton, FS_EmptySet
<1>3. Summable(g) /\ Summable(none) /\ DOMAIN g = {x} /\ DOMAIN none = {} /\ g[x] = f[x]
  BY <1>1, <1>2 DEF Summable
<1> HIDE DEF g, none
<1>4. TotalOf(g) = TotalOf(none) + g[x]
  BY <1>3, TotalOfOneMore
<1>5. TotalOf(g) <= TotalOf(f)
  BY <1>1, <1>3, TotalGrows
<1>6. TotalOf(g) \in Nat /\ TotalOf(none) \in Nat /\ TotalOf(f) \in Nat
  BY <1>3, UnitsFinite
<1> QED BY <1>1, <1>3, <1>4, <1>5, <1>6

\* Nothing adds up to nothing.
LEMMA TotalOfZeros ==
  ASSUME NEW f, \A x \in DOMAIN f : f[x] = 0
  PROVE  TotalOf(f) = 0
<1>1. \A x \in DOMAIN f : {x} \X (1..f[x]) = {}
  <2> SUFFICES ASSUME NEW x \in DOMAIN f, NEW z \in {x} \X (1..f[x]) PROVE FALSE
    OBVIOUS
  <2>1. z[2] \in 1..f[x] /\ f[x] = 0
    OBVIOUS
  <2> QED BY <2>1
<1>2. UNION {{x} \X (1..f[x]) : x \in DOMAIN f} = {}
  BY <1>1
<1> QED BY <1>2, FS_EmptySet DEF TotalOf

-----------------------------------------------------------------------------
(* The first attempts.  A message counts against the destination from the   *)
(* moment it is sent, and the tokens that the source still holds count with *)
(* it: those it can send at once, and those sent in the last seconds, are   *)
(* together no more than its capacity and what the rate added meanwhile.    *)

SameLimits(b, c) ==
    c.capacity = b.capacity /\ c.rate = b.rate /\ c.isEnabled = b.isEnabled

LEMMA ConsumeKeepsLimits ==
  ASSUME NEW b, Sound(b), NEW amount
  PROVE  SameLimits(b, AfterConsume(b, amount))
BY DEF AfterConsume, SameLimits, Sound, TokenBucket

LEMMA OlderKeepsLimits ==
  ASSUME NEW b, Sound(b)
  PROVE  SameLimits(b, Older(b))
BY DEF Older, SameLimits, Sound, TokenBucket

\* A second adds the rate, unless the bucket is full before: a bucket whose
\* age has stopped counting is full.
LEMMA OlderRefills ==
  ASSUME NEW b, Sound(b), b.isEnabled
  PROVE  \/ Available(Older(b)) >= b.capacity
         \/ Available(Older(b)) >= Available(b) + b.rate
<1> DEFINE new == Older(b)
           age == IF MaxAge <= b.age + 1 THEN MaxAge ELSE b.age + 1
<1>1. /\ b.tokens \in Nat /\ b.age \in 0..MaxAge /\ b.rate \in Nat /\ b.rate # 0
      /\ b.capacity \in Nat /\ MaxAge \in Nat \ {0} /\ b.capacity <= MaxAge
  BY SoundFields DEF Sound
<1>2. Min({MaxAge, b.age + 1}) = age
  BY <1>1, MinOfTwo
<1>3. age \in Nat /\ (age = MaxAge \/ age = b.age + 1)
  BY <1>1
<1> HIDE DEF age
<1>4. /\ new.tokens = b.tokens /\ new.age = age /\ new.capacity = b.capacity
      /\ new.rate = b.rate
  BY <1>2 DEF Older, Sound, TokenBucket
<1>5. Available(new) = IF b.capacity <= b.tokens + age * b.rate
                       THEN b.capacity ELSE b.tokens + age * b.rate
  BY <1>4, OlderSound, AvailableIs
<1> HIDE DEF new
<1>6. /\ Available(b) = IF b.capacity <= b.tokens + b.age * b.rate
                        THEN b.capacity ELSE b.tokens + b.age * b.rate
      /\ b.age * b.rate \in Nat
  BY AvailableIs
<1>7. CASE age = b.age + 1
  <2>1. (b.age + 1) * b.rate = b.age * b.rate + b.rate
    BY <1>1
  <2> QED BY <1>1, <1>5, <1>6, <1>7, <2>1 DEF new
<1>8. CASE age = MaxAge
  <2> DEFINE r == b.rate - 1
  <2>1. r \in Nat /\ b.rate = r + 1
    BY <1>1
  <2> HIDE DEF r
  <2>2. MaxAge * (r + 1) = MaxAge * r + MaxAge /\ MaxAge * r \in Nat
    BY <1>1, <2>1
  <2>3. MaxAge * b.rate >= b.capacity /\ MaxAge * b.rate \in Nat
    BY <1>1, <2>1, <2>2
  <2> QED BY <1>1, <1>5, <1>8, <2>3 DEF new
<1> QED BY <1>3, <1>7, <1>8

\* While the limits of a buffered lane stand.
FitInv ==
    /\ changes \in Nat
    /\ changes = 0 /\ Buffered(outbound, inbound) =>
          /\ \A id \in DOMAIN inflight : ~inflight[id].refused /\ inflight[id].amount <= MaxAge
          /\ \A secs \in 0..MaxDelay :
                TotalOf(DueOf(secs)) + Available(outbound)
                  <= outbound.capacity + secs * outbound.rate
          /\ Due + Available(outbound) <= Available(inbound)

\* What is due of a set of messages, and how a step changes it.
DueIn(f, secs) ==
    [id \in DOMAIN f |-> IF f[id].refused \/ f[id].age > secs THEN 0 ELSE f[id].amount]

Bounded(f) == MessagesTyped(f) /\ \A id \in DOMAIN f : f[id].amount <= MaxAge

LEMMA MessageFields ==
  ASSUME NEW f, MessagesTyped(f), NEW id \in DOMAIN f
  PROVE  /\ f[id].amount \in Requests /\ f[id].amount \in Nat \ {0}
         /\ f[id].age \in 0..MaxDelay /\ f[id].refused \in BOOLEAN
<1>1. f[id] \in Message
  BY DEF MessagesTyped
<1> QED BY <1>1, LaneLimitsAssumption DEF Message

LEMMA DueSummable ==
  ASSUME NEW f, Bounded(f), NEW secs \in 0..MaxDelay
  PROVE  Summable(DueIn(f, secs)) /\ DOMAIN DueIn(f, secs) = DOMAIN f
<1>1. IsFiniteSet(DOMAIN f)
  <2>1. IsFiniteSet(MessageIds)
    BY FS_Interval, DelayIsNat DEF MessageIds
  <2> QED BY <2>1, FS_Subset DEF Bounded, MessagesTyped
<1>2. ASSUME NEW id \in DOMAIN f PROVE DueIn(f, secs)[id] \in 0..MaxAge
  <2>1. f[id].amount \in Nat /\ f[id].amount <= MaxAge /\ MaxAge \in Nat
    BY MessageFields, RateLimiterAssumption DEF Bounded
  <2> QED BY <2>1 DEF DueIn
<1> QED BY <1>1, <1>2 DEF Summable, DueIn

LEMMA SendDue ==
  ASSUME NEW f, NEW g, Bounded(f), Bounded(g), NEW id, id \notin DOMAIN f, NEW amount,
         g = [j \in DOMAIN f \cup {id} |-> IF j = id THEN NewMessage(amount) ELSE f[j]],
         NEW secs \in 0..MaxDelay
  PROVE  TotalOf(DueIn(g, secs)) = TotalOf(DueIn(f, secs)) + amount
<1>1. /\ Summable(DueIn(f, secs)) /\ DOMAIN DueIn(f, secs) = DOMAIN f
      /\ Summable(DueIn(g, secs)) /\ DOMAIN DueIn(g, secs) = DOMAIN f \cup {id}
  BY DueSummable
<1>2. \A j \in DOMAIN f : DueIn(g, secs)[j] = DueIn(f, secs)[j]
  BY DEF DueIn
<1>3. DueIn(g, secs)[id] = amount
  <2>1. g[id] = NewMessage(amount) /\ id \in DOMAIN g
    OBVIOUS
  <2>2. g[id].amount = amount /\ g[id].age = 0 /\ g[id].refused = FALSE
    BY <2>1 DEF NewMessage
  <2>3. ~(0 > secs)
    BY DelayIsNat
  <2> QED BY <2>1, <2>2, <2>3 DEF DueIn
<1> QED BY <1>1, <1>2, <1>3, TotalOfOneMore

LEMMA DeliverDue ==
  ASSUME NEW f, NEW g, Bounded(f), Bounded(g), NEW id \in DOMAIN f,
         g = [j \in DOMAIN f \ {id} |-> f[j]], NEW secs \in 0..MaxDelay
  PROVE  TotalOf(DueIn(f, secs)) = TotalOf(DueIn(g, secs)) + DueIn(f, secs)[id]
<1>1. /\ Summable(DueIn(f, secs)) /\ DOMAIN DueIn(f, secs) = DOMAIN f
      /\ Summable(DueIn(g, secs)) /\ DOMAIN DueIn(g, secs) = DOMAIN f \ {id}
  BY DueSummable
<1>2. \A j \in DOMAIN f \ {id} : DueIn(f, secs)[j] = DueIn(g, secs)[j]
  BY DEF DueIn
<1>3. DOMAIN f = (DOMAIN f \ {id}) \cup {id} /\ id \notin DOMAIN f \ {id}
  OBVIOUS
<1> QED BY <1>1, <1>2, <1>3, TotalOfOneMore

LEMMA TickDue ==
  ASSUME NEW f, NEW g, Bounded(f), Bounded(g),
         \A id \in DOMAIN f : ~f[id].refused,
         g = [id \in DOMAIN f |-> [f[id] EXCEPT !.age = IF f[id].refused THEN @ ELSE @ + 1]]
  PROVE  /\ TotalOf(DueIn(g, 0)) = 0
         /\ \A secs \in 1..MaxDelay : TotalOf(DueIn(g, secs)) <= TotalOf(DueIn(f, secs - 1))
         /\ TotalOf(DueIn(g, MaxDelay)) <= TotalOf(DueIn(f, MaxDelay))
<1>1. ASSUME NEW id \in DOMAIN f
      PROVE  /\ g[id].amount = f[id].amount /\ g[id].age = f[id].age + 1
             /\ g[id].refused = FALSE /\ f[id].refused = FALSE
             /\ f[id].amount \in Nat /\ f[id].age \in Nat
  <2>1. f[id] \in Message /\ f[id].refused = FALSE
    BY MessageFields DEF Bounded, MessagesTyped
  <2>2. g[id] = [f[id] EXCEPT !.age = @ + 1]
    BY <2>1
  <2>3. f[id].amount \in Nat /\ f[id].age \in Nat
    BY MessageFields, DelayIsNat DEF Bounded
  <2> QED BY <2>1, <2>2, <2>3 DEF Message
<1>2. DOMAIN g = DOMAIN f
  OBVIOUS
<1>3. MaxDelay \in Nat
  BY DelayIsNat
<1>4. TotalOf(DueIn(g, 0)) = 0
  <2>1. ASSUME NEW id \in DOMAIN f PROVE DueIn(g, 0)[id] = 0
    <3>1. g[id].age = f[id].age + 1 /\ f[id].age \in Nat
      BY <1>1
    <3>2. g[id].age > 0
      BY <3>1
    <3> QED BY <1>2, <3>2 DEF DueIn
  <2>2. DOMAIN DueIn(g, 0) = DOMAIN f
    BY <1>2 DEF DueIn
  <2> QED BY <2>1, <2>2, TotalOfZeros
<1>5. ASSUME NEW a \in 0..MaxDelay, NEW b \in 0..MaxDelay, a <= b + 1
      PROVE  TotalOf(DueIn(g, a)) <= TotalOf(DueIn(f, b))
  <2>1. /\ Summable(DueIn(f, b)) /\ DOMAIN DueIn(f, b) = DOMAIN f
        /\ Summable(DueIn(g, a)) /\ DOMAIN DueIn(g, a) = DOMAIN f
    BY <1>2, DueSummable
  <2>2. \A id \in DOMAIN f : DueIn(g, a)[id] <= DueIn(f, b)[id]
    <3> SUFFICES ASSUME NEW id \in DOMAIN f PROVE DueIn(g, a)[id] <= DueIn(f, b)[id]
      OBVIOUS
    <3>1. /\ DueIn(g, a)[id] = IF f[id].age + 1 > a THEN 0 ELSE f[id].amount
          /\ DueIn(f, b)[id] = IF f[id].age > b THEN 0 ELSE f[id].amount
      BY <1>1, <1>2 DEF DueIn
    <3>2. f[id].amount \in Nat /\ f[id].age \in Nat
      BY <1>1
    <3>3. a \in Nat /\ b \in Nat
      BY <1>3
    <3> QED BY <1>5, <3>1, <3>2, <3>3
  <2> QED BY <2>1, <2>2, TotalGrows
<1>6. ASSUME NEW secs \in 1..MaxDelay
      PROVE  TotalOf(DueIn(g, secs)) <= TotalOf(DueIn(f, secs - 1))
  <2>1. secs \in 0..MaxDelay /\ secs - 1 \in 0..MaxDelay /\ secs <= (secs - 1) + 1
    BY <1>3
  <2> QED BY <1>5, <2>1
<1>7. TotalOf(DueIn(g, MaxDelay)) <= TotalOf(DueIn(f, MaxDelay))
  BY <1>3, <1>5
<1> QED BY <1>4, <1>6, <1>7

LEMMA DueAre ==
  \A secs : DueOf(secs) = DueIn(inflight, secs) /\ DueOf(secs)' = DueIn(inflight', secs)
BY DEF DueOf, DueIn

LEMMA ChangeEnds ==
  ASSUME changes \in Nat, Change
  PROVE  changes' \in Nat /\ changes' # 0
BY DEF Change

\* What is said of a lane whose limits stand, of any two buckets and any
\* messages.
Fit(out, in, f) ==
    /\ \A id \in DOMAIN f : ~f[id].refused /\ f[id].amount <= MaxAge
    /\ \A secs \in 0..MaxDelay :
          TotalOf(DueIn(f, secs)) + Available(out) <= out.capacity + secs * out.rate
    /\ TotalOf(DueIn(f, MaxDelay)) + Available(out) <= Available(in)

LEMMA FitIs ==
  /\ FitInv <=> changes \in Nat /\ (changes = 0 /\ Buffered(outbound, inbound)
                                      => Fit(outbound, inbound, inflight))
  /\ FitInv' <=> changes' \in Nat /\ (changes' = 0 /\ Buffered(outbound', inbound')
                                      => Fit(outbound', inbound', inflight'))
BY DueAre DEF FitInv, Fit, Due

LEMMA BufferedKept ==
  ASSUME NEW out, NEW in, NEW out2, NEW in2, SameLimits(out, out2), SameLimits(in, in2)
  PROVE  Buffered(out2, in2) <=> Buffered(out, in)
BY DEF Buffered, SameLimits

\* The sums of a lane that fits are numbers.
LEMMA FitTypes ==
  ASSUME LaneInv, Fit(outbound, inbound, inflight)
  PROVE  /\ Bounded(inflight)
         /\ Available(outbound) \in Nat /\ Available(inbound) \in Nat
         /\ outbound.capacity \in Nat /\ outbound.rate \in Nat
         /\ MaxDelay \in 0..MaxDelay
         /\ \A secs \in 0..MaxDelay : /\ TotalOf(DueIn(inflight, secs)) \in Nat
                                      /\ secs * outbound.rate \in Nat
<1>1. Bounded(inflight)
  BY DEF LaneInv, Fit, Bounded
<1>2. \A secs \in 0..MaxDelay : TotalOf(DueIn(inflight, secs)) \in Nat
  BY <1>1, DueSummable, UnitsFinite
<1>3. outbound.capacity \in Nat /\ outbound.rate \in Nat
  BY SoundFields DEF LaneInv
<1>4. \A secs \in 0..MaxDelay : secs * outbound.rate \in Nat
  BY <1>3, DelayIsNat
<1> QED BY <1>1, <1>2, <1>3, <1>4, AvailableIs, DelayIsNat DEF LaneInv

LEMMA SendFits ==
  ASSUME LaneInv, LaneInv', Buffered(outbound, inbound), Fit(outbound, inbound, inflight),
         NEW id \in MessageIds, NEW amount \in Requests, Send(amount, id)
  PROVE  Fit(outbound', inbound', inflight')
<1>1. amount \in Nat \ {0} /\ outbound.isEnabled
  BY LaneLimitsAssumption DEF Buffered
<1>2. amount <= Available(outbound) /\ amount <= outbound.capacity
  BY <1>1 DEF Send, CanConsume
<1>3. /\ Available(outbound') = Available(outbound) - amount
      /\ outbound'.capacity = outbound.capacity /\ outbound'.rate = outbound.rate
  BY <1>1, ConsumeSound, ConsumeKeepsLimits DEF Send, LaneInv, SameLimits
<1>4. /\ inflight' = [j \in DOMAIN inflight \cup {id} |->
                         IF j = id THEN NewMessage(amount) ELSE inflight[j]]
      /\ id \notin DOMAIN inflight /\ inbound' = inbound
  BY DEF Send
<1>5. amount <= MaxAge
  BY <1>1, <1>2, RateLimiterAssumption, FitTypes DEF LaneInv, Sound
<1>6. \A j \in DOMAIN inflight' : ~inflight'[j].refused /\ inflight'[j].amount <= MaxAge
  <2>1. \A j \in DOMAIN inflight : ~inflight[j].refused /\ inflight[j].amount <= MaxAge
    BY DEF Fit
  <2>2. NewMessage(amount).refused = FALSE /\ NewMessage(amount).amount = amount
    BY DEF NewMessage
  <2>3. ASSUME NEW j \in DOMAIN inflight' PROVE ~inflight'[j].refused /\ inflight'[j].amount <= MaxAge
    <3>1. CASE j = id
      BY <1>4, <1>5, <2>2, <3>1
    <3>2. CASE j # id
      BY <1>4, <2>1, <3>2
    <3> QED BY <3>1, <3>2
  <2> QED BY <2>3
<1>7. Bounded(inflight) /\ Bounded(inflight')
  BY <1>6, FitTypes DEF LaneInv, Bounded
<1>8. \A secs \in 0..MaxDelay :
         TotalOf(DueIn(inflight', secs)) = TotalOf(DueIn(inflight, secs)) + amount
  BY <1>4, <1>7, SendDue
<1>9. ASSUME NEW secs \in 0..MaxDelay
      PROVE  TotalOf(DueIn(inflight', secs)) + Available(outbound')
               <= outbound'.capacity + secs * outbound'.rate
  <2>1. TotalOf(DueIn(inflight, secs)) + Available(outbound)
          <= outbound.capacity + secs * outbound.rate
    BY DEF Fit
  <2> QED BY <1>1, <1>3, <1>8, <2>1, FitTypes
<1>10. TotalOf(DueIn(inflight', MaxDelay)) + Available(outbound') <= Available(inbound')
  <2>1. TotalOf(DueIn(inflight, MaxDelay)) + Available(outbound) <= Available(inbound)
    BY DEF Fit
  <2>2. MaxDelay \in 0..MaxDelay /\ TotalOf(DueIn(inflight, MaxDelay)) \in Nat
        /\ Available(outbound) \in Nat /\ Available(inbound) \in Nat
    BY FitTypes
  <2>3. TotalOf(DueIn(inflight', MaxDelay)) = TotalOf(DueIn(inflight, MaxDelay)) + amount
    BY <1>8, <2>2
  <2> QED BY <1>1, <1>3, <1>4, <2>1, <2>2, <2>3
<1> QED BY <1>6, <1>9, <1>10 DEF Fit

LEMMA DeliverFits ==
  ASSUME LaneInv, LaneInv', Buffered(outbound, inbound), Fit(outbound, inbound, inflight),
         NEW id, Deliver(id)
  PROVE  Fit(outbound', inbound', inflight')
<1> DEFINE amount == inflight[id].amount
<1>1. /\ id \in DOMAIN inflight /\ inflight' = [j \in DOMAIN inflight \ {id} |-> inflight[j]]
      /\ outbound' = outbound /\ CanConsume(inbound, amount)
      /\ inbound' = AfterConsume(inbound, amount) /\ inbound.isEnabled
  BY DEF Deliver, Buffered
<1>2. amount \in Nat \ {0} /\ inflight[id].age \in 0..MaxDelay /\ inflight[id].refused \in BOOLEAN
  BY <1>1, MessageFields DEF LaneInv
<1>3. \A j \in DOMAIN inflight : ~inflight[j].refused /\ inflight[j].amount <= MaxAge
  BY DEF Fit
<1>4. \A j \in DOMAIN inflight' : ~inflight'[j].refused /\ inflight'[j].amount <= MaxAge
  BY <1>1, <1>3
<1>5. Bounded(inflight) /\ Bounded(inflight')
  BY <1>4, FitTypes DEF LaneInv, Bounded
<1>6. \A secs \in 0..MaxDelay :
         /\ TotalOf(DueIn(inflight, secs))
              = TotalOf(DueIn(inflight', secs)) + DueIn(inflight, secs)[id]
         /\ TotalOf(DueIn(inflight', secs)) \in Nat
  BY <1>1, <1>5, DeliverDue, DueSummable, UnitsFinite
<1>7. \A secs \in 0..MaxDelay : DueIn(inflight, secs)[id] \in Nat
  BY <1>1, <1>2 DEF DueIn
<1>8. DueIn(inflight, MaxDelay)[id] = amount
  <2>1. ~(inflight[id].age > MaxDelay) /\ ~inflight[id].refused
    BY <1>1, <1>2, <1>3, DelayIsNat
  <2> QED BY <1>1, <2>1 DEF DueIn
<1> HIDE DEF amount
<1>9. Available(inbound') = Available(inbound) - amount
  BY <1>1, <1>2, ConsumeSound DEF LaneInv
<1>10. ASSUME NEW secs \in 0..MaxDelay
       PROVE  TotalOf(DueIn(inflight', secs)) + Available(outbound')
                <= outbound'.capacity + secs * outbound'.rate
  <2>1. TotalOf(DueIn(inflight, secs)) + Available(outbound)
          <= outbound.capacity + secs * outbound.rate
    BY DEF Fit
  <2>2. /\ TotalOf(DueIn(inflight, secs)) \in Nat /\ TotalOf(DueIn(inflight', secs)) \in Nat
        /\ Available(outbound) \in Nat /\ outbound.capacity \in Nat
        /\ secs * outbound.rate \in Nat /\ DueIn(inflight, secs)[id] \in Nat
    BY <1>6, <1>7, FitTypes
  <2>3. TotalOf(DueIn(inflight', secs)) <= TotalOf(DueIn(inflight, secs))
    BY <1>6, <2>2
  <2> QED BY <1>1, <2>1, <2>2, <2>3
<1>11. TotalOf(DueIn(inflight', MaxDelay)) + Available(outbound') <= Available(inbound')
  <2>1. TotalOf(DueIn(inflight, MaxDelay)) + Available(outbound) <= Available(inbound)
    BY DEF Fit
  <2>2. MaxDelay \in 0..MaxDelay /\ Available(outbound) \in Nat /\ Available(inbound) \in Nat
    BY FitTypes
  <2>3. /\ TotalOf(DueIn(inflight, MaxDelay)) = TotalOf(DueIn(inflight', MaxDelay)) + amount
        /\ TotalOf(DueIn(inflight', MaxDelay)) \in Nat
    BY <1>6, <1>8, <2>2
  <2> QED BY <1>1, <1>2, <1>9, <2>1, <2>2, <2>3
<1> QED BY <1>4, <1>10, <1>11 DEF Fit

\* No first attempt is refused.
LEMMA NoneRefused ==
  ASSUME LaneInv, Buffered(outbound, inbound), Fit(outbound, inbound, inflight),
         NEW id, Refuse(id)
  PROVE  FALSE
<1> DEFINE amount == inflight[id].amount
<1>1. id \in DOMAIN inflight /\ ~inflight[id].refused /\ ~CanConsume(inbound, amount)
  BY DEF Refuse
<1>2. amount \in Nat /\ inflight[id].age \in 0..MaxDelay
  BY <1>1, MessageFields DEF LaneInv
<1>3. DueIn(inflight, MaxDelay)[id] = amount
  <2>1. ~(inflight[id].age > MaxDelay)
    BY <1>2, DelayIsNat
  <2> QED BY <1>1, <2>1 DEF DueIn
<1>4. amount <= TotalOf(DueIn(inflight, MaxDelay))
  BY <1>1, <1>3, FitTypes, DueSummable, EntryAtMostTotal
<1> HIDE DEF amount
<1>5. TotalOf(DueIn(inflight, MaxDelay)) + Available(outbound) <= Available(inbound)
  BY DEF Fit
<1>6. amount <= Available(inbound)
  BY <1>2, <1>4, <1>5, FitTypes
<1>7. Available(inbound) <= inbound.capacity /\ inbound.capacity \in Nat
      /\ inbound.tokens <= inbound.capacity
  BY AvailableIs, SoundFields DEF LaneInv, Sound
<1> QED BY <1>1, <1>2, <1>6, <1>7, FitTypes DEF CanConsume

LEMMA TickFits ==
  ASSUME LaneInv, LaneInv', Buffered(outbound, inbound), Fit(outbound, inbound, inflight), Tick
  PROVE  Fit(outbound', inbound', inflight')
<1>1. /\ outbound' = Older(outbound) /\ inbound' = Older(inbound)
      /\ inflight' = [id \in DOMAIN inflight |->
                        [inflight[id] EXCEPT !.age = IF inflight[id].refused THEN @ ELSE @ + 1]]
  BY DEF Tick
<1>2. /\ outbound'.capacity = outbound.capacity /\ outbound'.rate = outbound.rate
      /\ Available(outbound') <= Available(outbound) + outbound.rate
      /\ Available(outbound') <= outbound.capacity /\ Available(outbound') \in Nat
  <2>1. Sound(outbound) /\ Sound(outbound')
    BY DEF LaneInv
  <2>2. outbound'.capacity = outbound.capacity /\ outbound'.rate = outbound.rate
    BY <1>1, <2>1, OlderKeepsLimits DEF SameLimits
  <2>3. Available(outbound') <= outbound'.capacity /\ Available(outbound') \in Nat
    BY <2>1, AvailableIs
  <2> QED BY <1>1, <2>1, <2>2, <2>3, OlderSound
<1>3. \/ Available(inbound') >= inbound.capacity
      \/ Available(inbound') >= Available(inbound) + inbound.rate
  BY <1>1, OlderRefills DEF LaneInv, Buffered
<1>4. \A id \in DOMAIN inflight : ~inflight[id].refused /\ inflight[id].amount <= MaxAge
  BY DEF Fit
<1>5. \A id \in DOMAIN inflight' : ~inflight'[id].refused /\ inflight'[id].amount <= MaxAge
  <2> SUFFICES ASSUME NEW id \in DOMAIN inflight'
               PROVE  ~inflight'[id].refused /\ inflight'[id].amount <= MaxAge
    OBVIOUS
  <2>1. id \in DOMAIN inflight /\ inflight[id] \in Message
    BY <1>1 DEF LaneInv, MessagesTyped
  <2>2. inflight'[id].refused = inflight[id].refused /\ inflight'[id].amount = inflight[id].amount
    BY <1>1, <2>1 DEF Message
  <2> QED BY <1>4, <2>1, <2>2
<1>6. Bounded(inflight) /\ Bounded(inflight')
  BY <1>5, FitTypes DEF LaneInv, Bounded
<1>7. /\ TotalOf(DueIn(inflight', 0)) = 0
      /\ \A secs \in 1..MaxDelay :
            TotalOf(DueIn(inflight', secs)) <= TotalOf(DueIn(inflight, secs - 1))
      /\ TotalOf(DueIn(inflight', MaxDelay)) <= TotalOf(DueIn(inflight, MaxDelay))
  BY <1>1, <1>4, <1>6, TickDue
<1>8. \A secs \in 0..MaxDelay : TotalOf(DueIn(inflight', secs)) \in Nat
  BY <1>6, DueSummable, UnitsFinite
<1>9. ASSUME NEW secs \in 0..MaxDelay
      PROVE  TotalOf(DueIn(inflight', secs)) + Available(outbound')
               <= outbound.capacity + secs * outbound.rate
  <2>1. CASE secs = 0
    <3>1. secs * outbound.rate = 0
      BY <2>1, FitTypes
    <3> QED BY <1>2, <1>7, <2>1, <3>1, FitTypes, SMTT(30)
  <2>2. CASE secs # 0
    <3> DEFINE before == secs - 1
    <3>1. secs \in 1..MaxDelay /\ before \in 0..MaxDelay /\ before + 1 = secs
      BY <2>2, DelayIsNat
    <3>2. TotalOf(DueIn(inflight', secs)) <= TotalOf(DueIn(inflight, before))
      BY <1>7, <3>1
    <3> HIDE DEF before
    <3>3. TotalOf(DueIn(inflight, before)) + Available(outbound)
            <= outbound.capacity + before * outbound.rate
      BY <3>1 DEF Fit
    <3>4. secs * outbound.rate = before * outbound.rate + outbound.rate
      <4>1. before \in Int /\ outbound.rate \in Int
        BY <3>1, FitTypes, DelayIsNat
      <4>2. (before + 1) * outbound.rate = before * outbound.rate + outbound.rate
        BY <4>1
      <4> QED BY <3>1, <4>2
    <3>5. /\ TotalOf(DueIn(inflight, before)) \in Nat /\ before * outbound.rate \in Nat
          /\ TotalOf(DueIn(inflight', secs)) \in Nat /\ Available(outbound) \in Nat
          /\ outbound.capacity \in Nat /\ outbound.rate \in Nat
      BY <1>8, <3>1, FitTypes
    <3> QED BY <1>2, <3>2, <3>3, <3>4, <3>5
  <2> QED BY <2>1, <2>2
<1>10. TotalOf(DueIn(inflight', MaxDelay)) + Available(outbound') <= Available(inbound')
  <2>1. TotalOf(DueIn(inflight, MaxDelay)) + Available(outbound) <= Available(inbound)
    BY DEF Fit
  <2>2. /\ outbound.rate <= inbound.rate
        /\ outbound.capacity + MaxDelay * outbound.rate <= inbound.capacity
    BY DEF Buffered
  <2>3. /\ MaxDelay \in 0..MaxDelay /\ MaxDelay * outbound.rate \in Nat
        /\ TotalOf(DueIn(inflight, MaxDelay)) \in Nat /\ TotalOf(DueIn(inflight', MaxDelay)) \in Nat
        /\ outbound.capacity \in Nat /\ outbound.rate \in Nat
        /\ Available(outbound) \in Nat /\ Available(inbound) \in Nat
    BY <1>8, FitTypes
  <2>4. inbound.rate \in Nat /\ inbound.capacity \in Nat /\ Available(inbound') \in Nat
    BY SoundFields, AvailableIs DEF LaneInv
  <2>5. CASE Available(inbound') >= inbound.capacity
    <3>1. TotalOf(DueIn(inflight', MaxDelay)) + Available(outbound')
            <= outbound.capacity + MaxDelay * outbound.rate
      BY <1>9, <2>3
    <3> QED BY <1>2, <2>2, <2>3, <2>4, <2>5, <3>1
  <2>6. CASE Available(inbound') >= Available(inbound) + inbound.rate
    BY <1>2, <1>7, <2>1, <2>2, <2>3, <2>4, <2>6
  <2> QED BY <1>3, <2>5, <2>6
<1> QED BY <1>2, <1>5, <1>9, <1>10 DEF Fit

LEMMA InitFits ==
  ASSUME Init, LaneInv
  PROVE  FitInv
<1>1. PICK lane \in LaneConfigs :
         /\ IsValidConfig(lane.outbound) /\ IsValidConfig(lane.inbound)
         /\ outbound = FullBucket(lane.outbound)
         /\ inbound = FullBucket(lane.inbound)
         /\ inflight = <<>> /\ changes = 0
  BY DEF Init
<1>2. DOMAIN inflight = {}
  BY <1>1
<1>3. \A secs : TotalOf(DueIn(inflight, secs)) = 0
  <2>1. \A secs : \A x \in DOMAIN DueIn(inflight, secs) : DueIn(inflight, secs)[x] = 0
    BY <1>2 DEF DueIn
  <2> QED BY <2>1, TotalOfZeros
<1>4. Available(outbound) = outbound.capacity /\ Available(inbound) = inbound.capacity
  BY <1>1 DEF FullBucket, Available
<1>5. /\ outbound.capacity \in Nat /\ outbound.rate \in Nat
      /\ inbound.capacity \in Nat /\ MaxDelay \in Nat
  BY SoundFields, DelayIsNat DEF LaneInv
<1>6. ASSUME Buffered(outbound, inbound) PROVE Fit(outbound, inbound, inflight)
  <2>1. \A secs \in 0..MaxDelay : secs * outbound.rate \in Nat
    BY <1>5
  <2>2. \A secs \in 0..MaxDelay :
           TotalOf(DueIn(inflight, secs)) + Available(outbound)
             <= outbound.capacity + secs * outbound.rate
    BY <1>3, <1>4, <1>5, <2>1
  <2>3. MaxDelay * outbound.rate \in Nat
    BY <1>5
  <2>4. TotalOf(DueIn(inflight, MaxDelay)) + Available(outbound) <= Available(inbound)
    BY <1>3, <1>4, <1>5, <1>6, <2>3 DEF Buffered
  <2> QED BY <1>2, <2>2, <2>4 DEF Fit
<1> QED BY <1>1, <1>6, FitIs

LEMMA NextFits ==
  ASSUME LaneInv, LaneInv', FitInv, [Next]_vars
  PROVE  FitInv'
<1>1. changes \in Nat
  BY DEF FitInv
<1>2. CASE \/ \E config \in BucketConfigs : SetChainRateLimiterConfig(config)
                                            \/ ApplyChainUpdates(config)
  <2>1. Change
    BY <1>2 DEF SetChainRateLimiterConfig, ApplyChainUpdates
  <2> QED BY <1>1, <2>1, ChangeEnds, FitIs
<1>3. CASE OpenWindow \/ UNCHANGED vars
  <2>1. UNCHANGED <<outbound, inbound, inflight, changes>>
    BY <1>3 DEF OpenWindow, vars
  <2> QED BY <2>1, FitIs
<1>4. CASE Tick \/ \E id \in MessageIds : \/ \E amount \in Requests : Send(amount, id)
                                         \/ Deliver(id) \/ Refuse(id)
  <2>1. changes' = changes
    BY <1>4 DEF Tick, Send, Deliver, Refuse
  <2>2. SameLimits(outbound, outbound') /\ SameLimits(inbound, inbound')
    <3>1. Sound(outbound) /\ Sound(inbound)
      BY DEF LaneInv
    <3>2. SameLimits(outbound, outbound) /\ SameLimits(inbound, inbound)
      BY DEF SameLimits
    <3>3. CASE Tick
      BY <3>1, <3>3, OlderKeepsLimits DEF Tick
    <3>4. ASSUME NEW id \in MessageIds, NEW amount \in Requests, Send(amount, id)
          PROVE  SameLimits(outbound, outbound') /\ SameLimits(inbound, inbound')
      BY <3>1, <3>2, <3>4, ConsumeKeepsLimits DEF Send
    <3>5. ASSUME NEW id \in MessageIds, Deliver(id)
          PROVE  SameLimits(outbound, outbound') /\ SameLimits(inbound, inbound')
      BY <3>1, <3>2, <3>5, ConsumeKeepsLimits DEF Deliver
    <3>6. ASSUME NEW id \in MessageIds, Refuse(id)
          PROVE  SameLimits(outbound, outbound') /\ SameLimits(inbound, inbound')
      BY <3>2, <3>6 DEF Refuse
    <3> QED BY <1>4, <3>3, <3>4, <3>5, <3>6
  <2>3. ASSUME changes = 0, Buffered(outbound, inbound)
        PROVE  Fit(outbound', inbound', inflight')
    <3>1. Fit(outbound, inbound, inflight)
      BY <2>3, FitIs
    <3> QED BY <1>4, <2>3, <3>1, SendFits, DeliverFits, NoneRefused, TickFits
  <2>4. Buffered(outbound', inbound') <=> Buffered(outbound, inbound)
    BY <2>2, BufferedKept
  <2> QED BY <1>1, <2>1, <2>3, <2>4, FitIs
<1> QED BY <1>2, <1>3, <1>4 DEF Next

\* Inbound limits that exceed the outbound ones by what the rate adds during
\* a delay refuse no first attempt (the comment at TokenPool.sol:480), for
\* all limits, delays and numbers of messages on their way.
THEOREM FirstAttemptsAdmitted == Spec => []FirstAttemptsFit
<1>1. Init /\ LaneInv => FitInv
  BY InitFits
<1>2. LaneInv /\ LaneInv' /\ FitInv /\ [Next]_vars => FitInv'
  BY NextFits
<1>3. LaneInv /\ FitInv => FirstAttemptsFit
  <2> SUFFICES ASSUME LaneInv, FitInv, changes = 0, Buffered(outbound, inbound)
               PROVE  Due <= Available(inbound)
    BY DEF FirstAttemptsFit
  <2>1. Fit(outbound, inbound, inflight) /\ Due = TotalOf(DueIn(inflight, MaxDelay))
    BY FitIs, DueAre DEF Due
  <2>2. TotalOf(DueIn(inflight, MaxDelay)) + Available(outbound) <= Available(inbound)
    BY <2>1 DEF Fit
  <2> QED BY <2>1, <2>2, FitTypes
<1> QED BY <1>1, <1>2, <1>3, LaneInvHolds, PTL DEF Spec
=============================================================================
