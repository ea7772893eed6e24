--------------------------- MODULE RateLimitProofs ---------------------------
(***************************************************************************)
(* Theorems about TokenBucket, for every rate, burst, clock resolution and *)
(* set of callers, and about RateLimit, for every set of round trips,      *)
(* every bucket and every hint a server may send.                          *)
(***************************************************************************)
EXTENDS RateLimit, SequenceTheorems, TLAPS

-----------------------------------------------------------------------------
(* The bucket.                                                             *)

\* The parameters NewTokenBucket derives are sound whatever it is given.
LEMMA Derived ==
  /\ Unit \in Nat \ {0}
  /\ Rate \in Nat
  /\ MaxTokens \in Nat
  /\ WaitTime \in Nat
  /\ MaxTime \in Nat
<1>1. CASE Unlimited
  BY <1>1, BucketAssumption DEF Rate, MaxTokens, WaitTime
<1>2. CASE ~Unlimited
  <2>1. CfgRate \in Nat \ {0} /\ CfgBurst \in Nat \ {0} /\ Unit \in Nat \ {0}
    BY <1>2, BucketAssumption DEF Unlimited
  <2>2. Rate = CfgRate /\ MaxTokens = CfgBurst * Unit /\ WaitTime = Unit \div CfgRate
    BY <1>2 DEF Rate, MaxTokens, WaitTime
  <2>3. CfgBurst * Unit \in Nat
    BY <2>1
  <2>4. Unit \div CfgRate \in Nat
    BY <2>1
  <2> QED
    BY <2>1, <2>2, <2>3, <2>4, BucketAssumption
<1> QED
  BY <1>1, <1>2

-----------------------------------------------------------------------------
(* The level of the bucket.                                                *)

\* What the level depends on.
Measured == /\ now \in Nat
            /\ lastRefill \in 0..now
            /\ tokens \in 0..MaxTokens

LEMMA LevelInRange ==
  ASSUME Measured
  PROVE  Refilled \in 0..MaxTokens
<1> DEFINE gain == (now - lastRefill) * Rate
<1>1. gain \in Nat
  BY Derived DEF Measured
<1>2. Refilled = IF tokens + gain > MaxTokens THEN MaxTokens ELSE tokens + gain
  BY DEF Refilled
<1> HIDE DEF gain
<1> QED
  BY <1>1, <1>2, Derived DEF Measured

\* A refill changes the level by what is taken, and by nothing else.
LEMMA RefillKeepsLevel ==
  ASSUME Measured, NEW taken \in Nat, taken <= Refilled, Refill(taken), now' = now
  PROVE  /\ Refilled' = Refilled - taken
         /\ Measured'
<1>1. Refilled \in 0..MaxTokens
  BY LevelInRange
<1>2. tokens' = Refilled - taken /\ lastRefill' = now
  BY DEF Refill
<1>3. (now' - lastRefill') * Rate = 0
  BY <1>2, Derived DEF Measured
<1>4. Refilled' = IF tokens' + (now' - lastRefill') * Rate > MaxTokens
                    THEN MaxTokens ELSE tokens' + (now' - lastRefill') * Rate
  BY DEF Refilled
<1> HIDE DEF Refilled
<1>5. tokens' \in 0..MaxTokens
  BY <1>1, <1>2, Derived
<1>6. Refilled' = tokens'
  BY <1>3, <1>4, <1>5, Derived
<1> QED
  BY <1>2, <1>5, <1>6 DEF Measured

\* A tick brings Rate parts of a token, up to the capacity.
LEMMA TickDrips ==
  ASSUME Measured, now' = now + 1, UNCHANGED bucket
  PROVE  /\ Refilled' = IF Refilled + Rate > MaxTokens THEN MaxTokens ELSE Refilled + Rate
         /\ Measured'
<1> DEFINE gain == (now - lastRefill) * Rate
<1>1. gain \in Nat
  BY Derived DEF Measured
<1>2. (now' - lastRefill') * Rate = gain + Rate
  BY Derived DEF Measured, bucket
<1>3. Refilled = IF tokens + gain > MaxTokens THEN MaxTokens ELSE tokens + gain
  BY DEF Refilled
<1>4. Refilled' = IF tokens + (gain + Rate) > MaxTokens
                    THEN MaxTokens ELSE tokens + (gain + Rate)
  BY <1>2 DEF Refilled, bucket
<1>5. Measured'
  BY DEF Measured, bucket
<1> HIDE DEF gain
<1> QED
  BY <1>1, <1>3, <1>4, <1>5, Derived DEF Measured

\* When neither the clock nor the bucket moves, nor does the level.
LEMMA LevelUnchanged ==
  ASSUME UNCHANGED <<now, bucket>>
  PROVE  Refilled' = Refilled /\ (Measured => Measured')
BY DEF Refilled, Measured, bucket

-----------------------------------------------------------------------------
(* Type correctness.                                                       *)

LEMMA InitTyped == BucketInit => BucketTypeOK
BY Derived DEF BucketInit, BucketTypeOK, BucketStages

LEMMA TypedIsMeasured == BucketTypeOK => Measured
BY Derived DEF BucketTypeOK, Measured

LEMMA NextTyped == BucketTypeOK /\ [BucketNext]_bucketVars => BucketTypeOK'
<1> SUFFICES ASSUME BucketTypeOK, [BucketNext]_bucketVars PROVE BucketTypeOK'
  OBVIOUS
<1>0. Measured
  BY TypedIsMeasured
<1>1. ASSUME NEW taken \in Nat, taken <= Refilled, Refill(taken), now' = now
      PROVE  tokens' \in 0..MaxTokens /\ lastRefill' \in 0..now'
  BY <1>0, <1>1, RefillKeepsLevel DEF Measured
<1>2. CASE Elapse
  BY <1>2, Derived DEF Elapse, BucketTypeOK, bucket
<1>3. CASE ReadTokens
  <2>1. 0 \in Nat /\ 0 <= Refilled
    BY <1>0, LevelInRange, Derived
  <2>2. tokens' \in 0..MaxTokens /\ lastRefill' \in 0..now'
    BY <1>1, <1>3, <2>1 DEF ReadTokens
  <2> QED
    BY <1>3, <2>2 DEF ReadTokens, BucketTypeOK
<1>4. ASSUME NEW c \in Calls, Call(c) PROVE BucketTypeOK'
  BY <1>4 DEF Call, BucketTypeOK, BucketStages, bucket
<1>5. ASSUME NEW c \in Calls, EndContext(c) PROVE BucketTypeOK'
  BY <1>5 DEF EndContext, BucketTypeOK, bucket
<1>6. ASSUME NEW c \in Calls, LimiterStep(c) PROVE BucketTypeOK'
  <2>1. CASE Acquire(c)
    <3>2. tokens' \in 0..MaxTokens /\ lastRefill' \in 0..now'
      <4>1. CASE ~Unlimited
        <5>1. Unit \in Nat /\ Unit <= Refilled /\ Refill(Unit) /\ now' = now
          BY <1>0, <2>1, <4>1, LevelInRange, Derived DEF Acquire, TokenAvailable
        <5> QED
          BY <1>1, <5>1
      <4>2. CASE Unlimited
        BY <2>1, <4>2 DEF Acquire, bucket, BucketTypeOK
      <4> QED
        BY <4>1, <4>2
    <3>3. grants' \in Seq(Nat)
      BY <2>1, Derived, AppendProperties DEF Acquire, BucketTypeOK
    <3>4. at' \in [Calls -> BucketStages] /\ misses' \in [Calls -> Nat]
      BY <2>1 DEF Acquire, BucketTypeOK, BucketStages
    <3>5. UNCHANGED <<now, wakeAt, ctxDone>>
      BY <2>1 DEF Acquire
    <3> QED
      BY <3>2, <3>3, <3>4, <3>5 DEF BucketTypeOK
  <2>2. CASE Miss(c)
    <3>1. 0 \in Nat /\ 0 <= Refilled
      BY <1>0, LevelInRange, Derived
    <3>2. tokens' \in 0..MaxTokens /\ lastRefill' \in 0..now'
      BY <1>1, <2>2, <3>1 DEF Miss
    <3>3. wakeAt' \in [Calls -> Nat] /\ at' \in [Calls -> BucketStages]
      <4>1. now + WaitTime \in Nat
        BY <1>0, Derived DEF Measured
      <4>2. CASE c \in Blocking
        BY <2>2, <4>1, <4>2 DEF Miss, BucketTypeOK, BucketStages
      <4>3. CASE c \notin Blocking
        BY <2>2, <4>3 DEF Miss, BucketTypeOK, BucketStages
      <4> QED
        BY <4>2, <4>3
    <3>4. misses' \in [Calls -> Nat]
      BY <2>2 DEF Miss, BucketTypeOK
    <3>5. UNCHANGED <<now, ctxDone, grants>>
      BY <2>2 DEF Miss
    <3> QED
      BY <3>2, <3>3, <3>4, <3>5 DEF BucketTypeOK
  <2>3. CASE Wake(c)
    BY <2>3 DEF Wake, BucketTypeOK, BucketStages, bucket
  <2>4. CASE GiveUp(c)
    BY <2>4 DEF GiveUp, BucketTypeOK, BucketStages, bucket
  <2> QED
    BY <1>6, <2>1, <2>2, <2>3, <2>4 DEF LimiterStep
<1>7. CASE UNCHANGED bucketVars
  BY <1>7 DEF bucketVars, limiter, bucket, BucketTypeOK
<1> QED
  BY <1>2, <1>3, <1>4, <1>5, <1>6, <1>7 DEF BucketNext

\* BucketTypeOK holds in every reachable state of every instance: the bucket
\* never owes tokens and never holds more than its capacity.
THEOREM BucketTypeCorrect == BucketSpec => []BucketTypeOK
BY InitTyped, NextTyped, PTL DEF BucketSpec

-----------------------------------------------------------------------------
(* The rate.                                                               *)

\* What the tokens granted since the i-th grant and the level add up to never
\* exceeds what the bucket could hold then plus what has dripped in since.
Conserved ==
  \A i \in 1..Len(grants) :
    (Len(grants) - i + 1) * Unit + Refilled <= MaxTokens + Rate * (now - grants[i])

\* The inductive invariant.  RateEnvelope relates grants to one another only;
\* Conserved relates them to the level from which the next one is taken.
EnvelopeInv ==
  /\ BucketTypeOK
  /\ \A i \in 1..Len(grants) : grants[i] <= now
  /\ Conserved
  /\ RateEnvelope

LEMMA InitEnvelope == BucketInit => EnvelopeInv
<1> SUFFICES ASSUME BucketInit PROVE EnvelopeInv
  OBVIOUS
<1>1. Len(grants) = 0 /\ DOMAIN grants = {}
  BY DEF BucketInit
<1> QED
  BY <1>1, InitTyped DEF EnvelopeInv, Conserved, RateEnvelope

\* A step that leaves the level and the grants alone conserves.
LEMMA EnvelopeUnchanged ==
  ASSUME EnvelopeInv, BucketTypeOK', UNCHANGED <<now, grants>>, Refilled' = Refilled
  PROVE  EnvelopeInv'
<1>1. Conserved'
  BY DEF EnvelopeInv, Conserved
<1>2. RateEnvelope'
  BY DEF EnvelopeInv, RateEnvelope
<1>3. (\A i \in 1..Len(grants) : grants[i] <= now)'
  BY DEF EnvelopeInv
<1> QED
  BY <1>1, <1>2, <1>3 DEF EnvelopeInv

\* A tick adds Rate to both sides.
LEMMA EnvelopeTick ==
  ASSUME EnvelopeInv, BucketTypeOK', Elapse
  PROVE  EnvelopeInv'
<1>0. BucketTypeOK /\ Measured /\ Len(grants) \in Nat /\ grants \in Seq(Nat)
  BY TypedIsMeasured DEF EnvelopeInv, BucketTypeOK
<1>1. now' = now + 1 /\ grants' = grants /\ UNCHANGED bucket
  BY DEF Elapse
<1>2. Refilled \in Nat /\ Refilled' \in Nat /\ Refilled' <= Refilled + Rate
  <2>1. Refilled' = IF Refilled + Rate > MaxTokens THEN MaxTokens ELSE Refilled + Rate
    BY <1>0, <1>1, TickDrips
  <2> QED
    BY <1>0, <2>1, LevelInRange, Derived
<1>3. ASSUME NEW i \in 1..Len(grants)
      PROVE  (Len(grants) - i + 1) * Unit + Refilled' <= MaxTokens + Rate * (now' - grants[i])
  <2>1. (Len(grants) - i + 1) * Unit + Refilled <= MaxTokens + Rate * (now - grants[i])
    BY DEF EnvelopeInv, Conserved
  <2>2. grants[i] \in Nat /\ now \in Nat
    BY <1>0 DEF Measured
  <2>3. Rate * (now' - grants[i]) = Rate * (now - grants[i]) + Rate
    BY <1>1, <2>2, Derived
  <2>4. (Len(grants) - i + 1) * Unit \in Int /\ Rate * (now - grants[i]) \in Int
    BY <1>0, <2>2, Derived
  <2> QED
    BY <1>2, <2>1, <2>3, <2>4, Derived
<1>4. Conserved'
  BY <1>1, <1>3 DEF Conserved
<1>5. RateEnvelope'
  BY <1>1 DEF EnvelopeInv, RateEnvelope
<1>6. (\A i \in 1..Len(grants) : grants[i] <= now)'
  BY <1>0, <1>1 DEF EnvelopeInv, Measured
<1> QED
  BY <1>4, <1>5, <1>6 DEF EnvelopeInv

\* A grant takes Unit out of the level and adds it to what is owed.
LEMMA EnvelopeAcquire ==
  ASSUME ~Unlimited, EnvelopeInv, BucketTypeOK', NEW c \in Calls, Acquire(c)
  PROVE  EnvelopeInv'
<1> DEFINE n == Len(grants)
<1>0. BucketTypeOK /\ Measured /\ n \in Nat /\ grants \in Seq(Nat) /\ now \in Nat
  BY TypedIsMeasured DEF EnvelopeInv, BucketTypeOK, Measured
<1>1. now' = now /\ grants' = Append(grants, now) /\ Refill(Unit) /\ Refilled >= Unit
  BY DEF Acquire, TokenAvailable
<1>2. /\ Len(grants') = n + 1
      /\ \A i \in 1..n : grants'[i] = grants[i]
      /\ grants'[n + 1] = now
      /\ DOMAIN grants' = 1..(n + 1)
  BY <1>0, <1>1, AppendProperties, LenProperties
<1>3. /\ Refilled \in Nat /\ Refilled <= MaxTokens
      /\ Refilled' \in Nat /\ Refilled' = Refilled - Unit
  BY <1>0, <1>1, RefillKeepsLevel, LevelInRange, Derived
<1>4. ASSUME NEW i \in 1..(n + 1)
      PROVE  /\ (n + 1 - i + 1) * Unit + Refilled' <= MaxTokens + Rate * (now - grants'[i])
             /\ grants'[i] <= now
  <2>1. CASE i = n + 1
    <3>1. (n + 1 - i + 1) * Unit = Unit /\ Rate * (now - grants'[i]) = 0
      BY <1>0, <1>2, <2>1, Derived
    <3> QED
      BY <1>0, <1>2, <1>3, <2>1, <3>1, Derived
  <2>2. CASE i \in 1..n
    <3>1. (n - i + 1) * Unit + Refilled <= MaxTokens + Rate * (now - grants[i])
      BY <2>2 DEF EnvelopeInv, Conserved
    <3>2. (n + 1 - i + 1) * Unit = (n - i + 1) * Unit + Unit /\ (n - i + 1) * Unit \in Int
      BY <1>0, Derived
    <3>3. grants'[i] = grants[i] /\ grants[i] <= now
      BY <1>2, <2>2 DEF EnvelopeInv
    <3>4. (n + 1 - i + 1) * Unit + Refilled' = (n - i + 1) * Unit + Refilled
      BY <1>3, <3>2, Derived
    <3> QED
      BY <3>1, <3>3, <3>4
  <2> QED
    BY <1>0, <2>1, <2>2
<1>5. Conserved'
  BY <1>1, <1>2, <1>4 DEF Conserved
<1>6. RateEnvelope'
  <2> SUFFICES ASSUME NEW i \in 1..(n + 1), NEW j \in 1..(n + 1), i <= j
               PROVE  (j - i + 1) * Unit <= MaxTokens + Rate * (grants'[j] - grants'[i])
    BY <1>2 DEF RateEnvelope
  <2>1. CASE j = n + 1
    <3>1. (n + 1 - i + 1) * Unit + Refilled' <= MaxTokens + Rate * (now - grants'[i])
      BY <1>4
    <3>2. (n + 1 - i + 1) * Unit \in Int /\ Rate * (now - grants'[i]) \in Int
      BY <1>0, <1>2, Derived, ElementOfSeq
    <3>3. (n + 1 - i + 1) * Unit <= MaxTokens + Rate * (now - grants'[i])
      BY <1>3, <3>1, <3>2, Derived
    <3> QED
      BY <1>2, <2>1, <3>3
  <2>2. CASE j # n + 1
    <3>1. i \in 1..n /\ j \in 1..n
      BY <1>0, <2>2
    <3>2. DOMAIN grants = 1..n
      BY <1>0, LenProperties
    <3> QED
      BY <1>2, <3>1, <3>2 DEF EnvelopeInv, RateEnvelope
  <2> QED
    BY <2>1, <2>2
<1>7. (\A i \in 1..Len(grants) : grants[i] <= now)'
  BY <1>1, <1>2, <1>4
<1> QED
  BY <1>5, <1>6, <1>7 DEF EnvelopeInv

LEMMA NextEnvelope ==
  ~Unlimited /\ EnvelopeInv /\ [BucketNext]_bucketVars => EnvelopeInv'
<1> SUFFICES ASSUME ~Unlimited, EnvelopeInv, [BucketNext]_bucketVars PROVE EnvelopeInv'
  OBVIOUS
<1>0. BucketTypeOK /\ BucketTypeOK' /\ Measured
  BY NextTyped, TypedIsMeasured DEF EnvelopeInv
<1>1. ASSUME UNCHANGED <<now, grants>>, Refill(0) PROVE EnvelopeInv'
  <2>1. 0 \in Nat /\ 0 <= Refilled /\ Refilled \in Nat
    BY <1>0, LevelInRange, Derived
  <2>2. Refilled' = Refilled - 0
    BY <1>0, <1>1, <2>1, RefillKeepsLevel
  <2> QED
    BY <1>0, <1>1, <2>1, <2>2, EnvelopeUnchanged
<1>2. ASSUME UNCHANGED <<now, grants, bucket>> PROVE EnvelopeInv'
  BY <1>0, <1>2, LevelUnchanged, EnvelopeUnchanged
<1>3. CASE Elapse
  BY <1>0, <1>3, EnvelopeTick
<1>4. CASE ReadTokens
  BY <1>1, <1>4 DEF ReadTokens
<1>5. ASSUME NEW c \in Calls, Call(c) \/ EndContext(c) \/ Wake(c) \/ GiveUp(c)
      PROVE  EnvelopeInv'
  BY <1>2, <1>5 DEF Call, EndContext, Wake, GiveUp
<1>6. ASSUME NEW c \in Calls, Acquire(c) PROVE EnvelopeInv'
  BY <1>0, <1>6, EnvelopeAcquire
<1>7. ASSUME NEW c \in Calls, Miss(c) PROVE EnvelopeInv'
  BY <1>1, <1>7 DEF Miss
<1>8. CASE UNCHANGED bucketVars
  BY <1>2, <1>8 DEF bucketVars, limiter
<1> QED
  BY <1>3, <1>4, <1>5, <1>6, <1>7, <1>8 DEF BucketNext, LimiterStep

\* However its callers interleave, a bucket that limits never grants more than
\* burst + rate x time tokens in any stretch of time.
THEOREM RateNeverExceeded == BucketSpec => []RateEnvelope
<1>1. CASE Unlimited
  <2>1. RateEnvelope
    BY <1>1 DEF RateEnvelope
  <2> QED
    BY <2>1, PTL
<1>2. CASE ~Unlimited
  <2>1. EnvelopeInv /\ [BucketNext]_bucketVars => EnvelopeInv'
    BY <1>2, NextEnvelope
  <2>2. EnvelopeInv => RateEnvelope
    BY DEF EnvelopeInv
  <2> QED
    BY <2>1, <2>2, InitEnvelope, PTL DEF BucketSpec
<1> QED
  BY <1>1, <1>2

-----------------------------------------------------------------------------
(* Refill on demand is as good as refill on every tick.                    *)

LEMMA InitEager == BucketInit => Eager!Init
<1> SUFFICES ASSUME BucketInit PROVE Eager!Init
  OBVIOUS
<1>1. Measured /\ tokens = MaxTokens /\ (now - lastRefill) * Rate = 0
  BY InitTyped, TypedIsMeasured, Derived DEF BucketInit
<1>2. Refilled = MaxTokens
  BY <1>1, Derived DEF Refilled
<1> HIDE DEF Refilled
<1> QED
  BY <1>2 DEF BucketInit, Eager!Init

LEMMA NextEager ==
  ~Unlimited /\ BucketTypeOK /\ [BucketNext]_bucketVars => [Eager!Next]_(Eager!vars)
<1> SUFFICES ASSUME ~Unlimited, BucketTypeOK, [BucketNext]_bucketVars
             PROVE  Eager!Next \/ UNCHANGED Eager!vars
  OBVIOUS
<1> HIDE DEF Refilled
<1>0. Measured /\ Refilled \in Nat
  BY TypedIsMeasured, LevelInRange, Derived
<1>1. ASSUME UNCHANGED <<now, grants>>, Refilled' = Refilled
      PROVE  UNCHANGED Eager!vars
  BY <1>1 DEF Eager!vars
<1>2. ASSUME UNCHANGED <<now, grants>>, Refill(0) PROVE UNCHANGED Eager!vars
  <2>1. Refilled' = Refilled - 0
    BY <1>0, <1>2, RefillKeepsLevel
  <2> QED
    BY <1>0, <1>1, <1>2, <2>1
<1>3. CASE Elapse
  <2>1. now' = now + 1 /\ UNCHANGED bucket /\ grants' = grants
    BY <1>3 DEF Elapse
  <2>2. Refilled' = IF Refilled + Rate > MaxTokens THEN MaxTokens ELSE Refilled + Rate
    BY <1>0, <2>1, TickDrips
  <2>3. Eager!Drip
    BY <2>1, <2>2 DEF Eager!Drip
  <2> QED
    BY <2>3 DEF Eager!Next
<1>4. CASE ReadTokens
  BY <1>2, <1>4 DEF ReadTokens
<1>5. ASSUME NEW c \in Calls, Call(c) \/ EndContext(c) \/ Wake(c) \/ GiveUp(c)
      PROVE  UNCHANGED Eager!vars
  BY <1>1, <1>5, LevelUnchanged DEF Call, EndContext, Wake, GiveUp
<1>6. ASSUME NEW c \in Calls, Acquire(c) PROVE Eager!Next
  <2>1. now' = now /\ Refill(Unit) /\ Refilled >= Unit /\ grants' = Append(grants, now)
    BY <1>6 DEF Acquire, TokenAvailable
  <2>2. Refilled' = Refilled - Unit
    BY <1>0, <2>1, RefillKeepsLevel, Derived
  <2>3. Len(grants') = Len(grants) + 1
    BY <1>0, <2>1, AppendProperties DEF BucketTypeOK, Measured
  <2>4. Eager!Take
    BY <2>1, <2>2, <2>3 DEF Eager!Take
  <2> QED
    BY <2>4 DEF Eager!Next
<1>7. ASSUME NEW c \in Calls, Miss(c) PROVE UNCHANGED Eager!vars
  BY <1>2, <1>7 DEF Miss
<1>8. CASE UNCHANGED bucketVars
  BY <1>1, <1>8, LevelUnchanged DEF bucketVars, limiter
<1> QED
  BY <1>3, <1>4, <1>5, <1>6, <1>7, <1>8 DEF BucketNext, LimiterStep

\* A bucket that limits, refilled only when somebody asks, implements one into
\* which tokens drip on every tick.
THEOREM LazyRefillIsEager == ~Unlimited => (BucketSpec => ImplementsEagerBucket)
<1> SUFFICES ASSUME ~Unlimited PROVE BucketSpec => ImplementsEagerBucket
  OBVIOUS
<1>1. BucketTypeOK /\ [BucketNext]_bucketVars => [Eager!Next]_(Eager!vars)
  BY NextEager
<1> QED
  BY <1>1, InitEager, BucketTypeCorrect, PTL
     DEF BucketSpec, ImplementsEagerBucket, Eager!Spec

-----------------------------------------------------------------------------
(* Waiting is not in vain.                                                 *)

\* What a sleep of waitTime brings.
Brings == WaitTime * Rate

\* waitTime is truncated, yet two sleeps are worth a token.
LEMMA TwoSleepsSuffice ==
  ASSUME ~Unlimited, Rate <= Unit
  PROVE  Rate \in Nat \ {0} /\ Brings \in Nat /\ 2 * Brings >= Unit /\ MaxTokens >= Unit
<1>1. Rate \in Nat \ {0} /\ CfgBurst \in Nat \ {0} /\ MaxTokens = CfgBurst * Unit
  BY BucketAssumption DEF Unlimited, Rate, MaxTokens
<1>2. MaxTokens >= Unit
  BY <1>1, Derived
<1>3. WaitTime = Unit \div Rate
  BY DEF WaitTime
<1>4. WaitTime \in Nat \ {0} /\ WaitTime * Rate + Rate > Unit
  BY <1>1, <1>3, Derived
<1>5. WaitTime * Rate >= Rate
  BY <1>1, <1>4
<1>6. WaitTime * Rate \in Nat
  BY <1>1, <1>4
<1> QED
  BY <1>1, <1>2, <1>4, <1>5, <1>6, Derived DEF Brings

\* As long as no token has been granted, the level has kept what the sleeps of
\* each caller brought, or is at the capacity.
Saved(c) ==
  /\ misses[c] \in 0..2
  /\ at[c] = "idle" => misses[c] = 0
  /\ at[c] = "calling" =>
       Refilled = MaxTokens \/ Refilled >= misses[c] * Brings
  /\ at[c] = "sleeping" /\ misses[c] # 0 =>
       \/ Refilled = MaxTokens
       \/ Refilled + (wakeAt[c] - now) * Rate >= misses[c] * Brings

WaitInv == BucketTypeOK /\ (~Unlimited /\ Rate <= Unit => \A c \in Calls : Saved(c))

LEMMA InitWait == BucketInit => WaitInv
<1> SUFFICES ASSUME BucketInit PROVE WaitInv
  OBVIOUS
<1>1. BucketTypeOK
  BY InitTyped
<1>2. ASSUME NEW c \in Calls PROVE Saved(c)
  <2>1. at[c] = "idle" /\ misses[c] = 0
    BY DEF BucketInit
  <2> QED
    BY <2>1 DEF Saved
<1> QED
  BY <1>1, <1>2 DEF WaitInv

\* A step that leaves the level where it is.
LEMMA LevelStaysSaved ==
  ASSUME BucketTypeOK, NEW c \in Calls, Saved(c), Refilled' = Refilled, now' = now,
         misses'[c] = misses[c], wakeAt'[c] = wakeAt[c],
         \/ at'[c] \in {at[c], "granted", "refused", "canceled"}
         \/ at[c] = "idle" /\ at'[c] = "calling"
  PROVE  Saved(c)'
<1>1. Refilled \in 0..MaxTokens
  BY TypedIsMeasured, LevelInRange
<1>2. misses[c] = 0 => misses[c] * Brings = 0
  BY Derived DEF Saved, Brings
<1> HIDE DEF Refilled, Brings
<1> QED
  BY <1>1, <1>2, Derived DEF Saved

LEMMA NextWait == WaitInv /\ [BucketNext]_bucketVars => WaitInv'
<1> SUFFICES ASSUME WaitInv, [BucketNext]_bucketVars PROVE WaitInv'
  OBVIOUS
<1>1. BucketTypeOK /\ BucketTypeOK' /\ Measured
  BY NextTyped, TypedIsMeasured DEF WaitInv
<1>2. Unlimited' = Unlimited /\ Rate' = Rate
  OBVIOUS
<1> SUFFICES ASSUME ~Unlimited, Rate <= Unit, NEW c \in Calls PROVE Saved(c)'
  BY <1>1, <1>2 DEF WaitInv
<1>3. Saved(c)
  BY DEF WaitInv
<1>4. /\ Rate \in Nat \ {0} /\ Brings \in Nat
      /\ 2 * Brings >= Unit /\ MaxTokens >= Unit /\ Unit \in Nat \ {0}
      /\ Refilled \in 0..MaxTokens /\ MaxTokens \in Nat
      /\ now \in Nat /\ now' \in Nat /\ wakeAt[c] \in Nat /\ wakeAt'[c] \in Nat
  BY <1>1, TwoSleepsSuffice, LevelInRange, TypedIsMeasured, Derived
     DEF BucketTypeOK
<1>5. CASE UNCHANGED bucketVars
  BY <1>1, <1>3, <1>5, LevelUnchanged, LevelStaysSaved DEF bucketVars, limiter, bucket
<1>6. CASE Elapse
  <2>1. now' = now + 1 /\ UNCHANGED <<bucket, at, wakeAt, misses>>
    BY <1>6 DEF Elapse
  <2>2. Refilled' = IF Refilled + Rate > MaxTokens THEN MaxTokens ELSE Refilled + Rate
    BY <1>1, <2>1, TickDrips
  <2>3. (wakeAt'[c] - now') * Rate = (wakeAt[c] - now) * Rate - Rate
    <3> DEFINE rest == wakeAt[c] - now
    <3>1. rest \in Int /\ wakeAt[c] - (now + 1) = rest - 1
      BY <1>4
    <3>2. wakeAt'[c] = wakeAt[c]
      BY <2>1
    <3>3. wakeAt'[c] - now' = rest - 1
      BY <2>1, <3>1, <3>2
    <3> HIDE DEF rest
    <3>4. (rest - 1) * Rate = rest * Rate - Rate
      BY <1>4, <3>1
    <3> QED
      BY <3>3, <3>4 DEF rest
  <2> DEFINE owed == (wakeAt[c] - now) * Rate
  <2>4. owed \in Int
    BY <1>4
  <2> HIDE DEF owed, Refilled
  <2>5. (wakeAt'[c] - now') * Rate = owed - Rate
    BY <2>3 DEF owed
  <2>6. at[c] = "sleeping" /\ misses[c] # 0 =>
          Refilled = MaxTokens \/ Refilled + owed >= misses[c] * Brings
    BY <1>3 DEF Saved, owed
  <2>7. misses[c] * Brings \in Nat
    BY <1>3, <1>4 DEF Saved
  <2> QED
    BY <1>3, <1>4, <2>1, <2>2, <2>4, <2>5, <2>6, <2>7 DEF Saved
<1>7. CASE ReadTokens
  <2>1. Refilled' = Refilled
    BY <1>1, <1>4, <1>7, RefillKeepsLevel DEF ReadTokens
  <2> QED
    BY <1>1, <1>3, <1>7, <2>1, LevelStaysSaved DEF ReadTokens
<1>8. ASSUME NEW d \in Calls, Call(d) \/ EndContext(d) \/ GiveUp(d) PROVE Saved(c)'
  <2>1. UNCHANGED <<now, bucket, wakeAt, misses>>
    BY <1>8 DEF Call, EndContext, GiveUp
  <2>2. at'[c] \in {at[c], "canceled"} \/ (at[c] = "idle" /\ at'[c] = "calling")
    BY <1>1, <1>8 DEF Call, EndContext, GiveUp, BucketTypeOK
  <2> QED
    BY <1>1, <1>3, <2>1, <2>2, LevelUnchanged, LevelStaysSaved
<1>9. ASSUME NEW d \in Calls, Acquire(d) PROVE Saved(c)'
  <2>1. /\ misses'[c] = 0
        /\ at'[c] = IF c = d THEN "granted" ELSE at[c]
    BY <1>1, <1>9 DEF Acquire, BucketTypeOK
  <2>2. misses'[c] * Brings = 0
    BY <1>4, <2>1
  <2>3. Refilled' = Refilled - Unit /\ Refilled >= Unit
    BY <1>1, <1>4, <1>9, RefillKeepsLevel DEF Acquire, TokenAvailable
  <2> HIDE DEF Refilled, Brings
  <2> QED
    BY <1>4, <2>1, <2>2, <2>3 DEF Saved
<1>10. ASSUME NEW d \in Calls, Miss(d) PROVE Saved(c)'
  <2>1. Refilled' = Refilled /\ now' = now /\ Refilled < Unit
    BY <1>1, <1>4, <1>10, RefillKeepsLevel DEF Miss, TokenAvailable
  <2>2. CASE c # d
    <3>1. misses'[c] = misses[c] /\ wakeAt'[c] = wakeAt[c] /\ at'[c] = at[c]
      BY <1>1, <1>10, <2>2 DEF Miss, BucketTypeOK
    <3> QED
      BY <1>1, <1>3, <2>1, <3>1, LevelStaysSaved
  <2>3. CASE c = d
    <3>1. /\ at[c] = "calling" /\ misses'[c] = misses[c] + 1
          /\ at'[c] \in {"sleeping", "refused"}
          /\ at'[c] = "sleeping" => wakeAt'[c] = now + WaitTime
      BY <1>1, <1>10, <2>3 DEF Miss, BucketTypeOK
    <3>2. Refilled >= misses[c] * Brings /\ misses[c] \in 0..2
      BY <1>3, <1>4, <2>1, <3>1 DEF Saved
    <3>3. misses[c] # 2
      BY <1>4, <2>1, <3>2
    <3>4. at'[c] = "sleeping" => (wakeAt'[c] - now') * Rate = Brings
      BY <1>4, <2>1, <3>1, Derived DEF Brings
    <3>5. misses'[c] * Brings = misses[c] * Brings + Brings
      BY <1>4, <3>1, <3>2
    <3>6. misses[c] * Brings \in Nat
      BY <1>4, <3>2
    <3> HIDE DEF Refilled, Brings
    <3> QED
      BY <1>4, <2>1, <3>1, <3>2, <3>3, <3>4, <3>5, <3>6 DEF Saved
  <2> QED
    BY <2>2, <2>3
<1>11. ASSUME NEW d \in Calls, Wake(d) PROVE Saved(c)'
  <2>1. Refilled' = Refilled /\ UNCHANGED <<now, wakeAt, misses>>
    BY <1>11, LevelUnchanged DEF Wake
  <2>2. CASE c # d
    <3>1. at'[c] = at[c]
      BY <1>1, <1>11, <2>2 DEF Wake, BucketTypeOK
    <3> QED
      BY <1>1, <1>3, <2>1, <3>1, LevelStaysSaved
  <2>3. CASE c = d
    <3>1. at[c] = "sleeping" /\ at'[c] = "calling" /\ now >= wakeAt[c]
      BY <1>1, <1>11, <2>3 DEF Wake, BucketTypeOK
    <3>2. (wakeAt[c] - now) * Rate <= 0 /\ (wakeAt[c] - now) * Rate \in Int
      BY <1>4, <3>1
    <3> DEFINE owed == (wakeAt[c] - now) * Rate
    <3>3. misses[c] # 0 => Refilled = MaxTokens \/ Refilled + owed >= misses[c] * Brings
      BY <1>3, <3>1 DEF Saved
    <3>4. misses[c] = 0 => misses[c] * Brings = 0
      BY <1>4
    <3>5. misses[c] * Brings \in Nat /\ owed <= 0 /\ owed \in Int
      BY <1>3, <1>4, <3>2 DEF Saved
    <3> HIDE DEF Refilled, Brings, owed
    <3> QED
      BY <1>3, <1>4, <2>1, <3>1, <3>3, <3>4, <3>5 DEF Saved
  <2> QED
    BY <2>2, <2>3
<1> QED
  BY <1>5, <1>6, <1>7, <1>8, <1>9, <1>10, <1>11 DEF BucketNext, LimiterStep

\* While nobody is granted a token, no caller fails more than three attempts,
\* whatever the others do to the bucket.
THEOREM WaitsAreNotFutile == BucketSpec => []NoFutileWaiting
<1>1. WaitInv => NoFutileWaiting
  <2> SUFFICES ASSUME WaitInv, ~Unlimited /\ Rate <= Unit, NEW c \in Calls
               PROVE  misses[c] <= 2
    BY DEF NoFutileWaiting
  <2>1. Saved(c)
    BY DEF WaitInv
  <2> QED
    BY <2>1 DEF Saved
<1> QED
  BY <1>1, InitWait, NextWait, PTL DEF BucketSpec

-----------------------------------------------------------------------------
(* The middleware over the bucket.                                         *)

\* A hint that was recorded, or none.
LEMMA RepliesTyped ==
  /\ NoHint \in Replies
  /\ \A r \in Replies : r.value \in Int /\ (r.form = "date" => r.value \in Nat)
<1>1. NoHint \in Replies
  BY DEF Replies
<1>2. NoHint.value = 0 /\ NoHint.form = "none"
  BY DEF NoHint
<1>3. ASSUME NEW r \in [form : {"seconds"}, value : HintSeconds]
      PROVE  r.value \in Int /\ r.form = "seconds"
  BY RateLimitAssumption
<1>4. ASSUME NEW r \in [form : {"date"}, value : HintDates]
      PROVE  r.value \in Nat
  BY RateLimitAssumption
<1> QED
  BY <1>1, <1>2, <1>3, <1>4 DEF Replies

\* A product that overflows wraps, within the integers.
LEMMA AsDurationTyped ==
  ASSUME NEW seconds \in Int
  PROVE  AsDuration(seconds) \in Int
<1> DEFINE half == 2^(DurationBits - 1)
<1>1. half \in Nat \ {0}
  BY RateLimitAssumption
<1>2. seconds * Unit \in Int
  BY Derived
<1>3. AsDuration(seconds) = ((seconds * Unit + half) % (2 * half)) - half
  BY DEF AsDuration
<1> HIDE DEF half
<1>4. seconds * Unit + half \in Int /\ 2 * half \in Nat \ {0}
  BY <1>1, <1>2
<1>5. (seconds * Unit + half) % (2 * half) \in Int
  BY <1>4
<1> QED
  BY <1>1, <1>3, <1>5

-----------------------------------------------------------------------------
(* The middleware drives the bucket.                                       *)

\* The context of a caller ends after it has had its answer from the limiter.
LateCancel == UNCHANGED <<now, limiter>> /\ \E c \in Calls : ctxDone' = [ctxDone EXCEPT ![c] = TRUE]

\* Whatever the middleware does, the bucket sees an operation of its own, or
\* nothing, or the end of a context.
LEMMA BucketSteps ==
  ASSUME [Next]_vars
  PROVE  [BucketNext]_bucketVars \/ LateCancel
<1>1. CASE Elapse /\ UNCHANGED middleware
  BY <1>1 DEF BucketNext
<1>2. ASSUME NEW c \in Calls, EnterFree(c) \/ CoolDownOver(c) PROVE BucketNext
  BY <1>2 DEF EnterFree, CoolDownOver, TurnToLimiter, BucketNext
<1>3. ASSUME NEW c \in Calls, AskLimiter(c) PROVE BucketNext
  BY <1>3 DEF AskLimiter, BucketNext
<1>4. ASSUME NEW c \in Calls,
             \/ EnterCooling(c) \/ CoolDownCanceled(c) \/ Refused(c) \/ Send(c)
             \/ Record(c) \/ \E r \in Replies : Answer(c, r)
      PROVE  UNCHANGED bucketVars
  BY <1>4 DEF EnterCooling, CoolDownCanceled, Refused, CloseAndFail, Send, Record,
              Answer, bucketVars
<1>5. ASSUME NEW c \in Calls, Cancel(c) PROVE LateCancel
  BY <1>5 DEF Cancel, LateCancel
<1>6. CASE UNCHANGED vars
  BY <1>6 DEF vars, bucketVars
<1> QED
  BY <1>1, <1>2, <1>3, <1>4, <1>5, <1>6 DEF Next, Step

LEMMA BucketStaysTyped ==
  ASSUME BucketTypeOK, [Next]_vars
  PROVE  BucketTypeOK'
<1>1. CASE [BucketNext]_bucketVars
  BY <1>1, NextTyped
<1>2. CASE LateCancel
  BY <1>2 DEF LateCancel, BucketTypeOK, limiter, bucket
<1> QED
  BY <1>1, <1>2, BucketSteps

\* Behind the middleware as on its own, the bucket never grants more than its
\* burst and what its rate brings: a Retry-After window, a canceled context or a
\* refused request gives no token back and takes none.
THEOREM RateKeptByMiddleware == Spec => []RateEnvelope
<1>1. CASE Unlimited
  <2>1. RateEnvelope
    BY <1>1 DEF RateEnvelope
  <2> QED
    BY <2>1, PTL
<1>2. CASE ~Unlimited
  <2>1. Init => EnvelopeInv
    BY InitEnvelope DEF Init
  <2>2. EnvelopeInv /\ [Next]_vars => EnvelopeInv'
    <3> SUFFICES ASSUME EnvelopeInv, [Next]_vars PROVE EnvelopeInv'
      OBVIOUS
    <3>1. CASE [BucketNext]_bucketVars
      BY <1>2, <3>1, NextEnvelope
    <3>2. CASE LateCancel
      <4>1. BucketTypeOK'
        BY BucketStaysTyped DEF EnvelopeInv
      <4>2. UNCHANGED <<now, grants, bucket>>
        BY <3>2 DEF LateCancel, limiter
      <4>3. Refilled' = Refilled
        BY <4>2, LevelUnchanged
      <4> QED
        BY <4>1, <4>2, <4>3, EnvelopeUnchanged
    <3> QED
      BY <3>1, <3>2, BucketSteps
  <2>3. EnvelopeInv => RateEnvelope
    BY DEF EnvelopeInv
  <2> QED
    BY <2>1, <2>2, <2>3, PTL DEF Spec
<1> QED
  BY <1>1, <1>2
-----------------------------------------------------------------------------
(* Types.                                                                  *)

LEMMA InitLimitTyped == Init => TypeOK
<1> SUFFICES ASSUME Init PROVE TypeOK
  OBVIOUS
<1>1. BucketTypeOK
  BY InitTyped DEF Init
<1>2. stage \in [Calls -> LimitStages]
  BY DEF Init, LimitStages
<1>3. reply \in [Calls -> Replies]
  BY RepliesTyped DEF Init
<1> QED
  BY <1>1, <1>2, <1>3 DEF Init, TypeOK

\* What a recorded hint does to the window and to what is known of the servers.
LEMMA RecordTyped ==
  ASSUME TypeOK, NEW c \in Calls, Record(c)
  PROVE  retryAt' \in Int /\ asked' \in Nat
<1> DEFINE r == reply[c]
<1>1. r \in Replies /\ now \in Nat /\ asked \in Nat
  BY Derived DEF TypeOK, BucketTypeOK
<1>2. r.value \in Int /\ (r.form = "date" => r.value \in Nat)
  BY <1>1, RepliesTyped
<1>3. AsDuration(r.value) \in Int /\ r.value * Unit \in Int
  BY <1>2, AsDurationTyped, Derived
<1>4. WindowEnd(r) \in Int /\ AskedUntil(r) \in Int
  BY <1>1, <1>2, <1>3 DEF WindowEnd, AskedUntil
<1>5. retryAt' = WindowEnd(r) /\ asked' = Later(asked, AskedUntil(r))
  BY DEF Record
<1> HIDE DEF r
<1> QED
  BY <1>1, <1>4, <1>5 DEF Later

LEMMA NextLimitTyped == TypeOK /\ [Next]_vars => TypeOK'
<1> SUFFICES ASSUME TypeOK, [Next]_vars PROVE TypeOK'
  OBVIOUS
<1>0. BucketTypeOK'
  BY BucketStaysTyped DEF TypeOK
<1> USE <1>0
<1>1. ASSUME UNCHANGED middleware PROVE TypeOK'
  BY <1>1 DEF TypeOK, middleware
<1>2. ASSUME NEW c \in Calls, EnterFree(c) \/ CoolDownOver(c) PROVE TypeOK'
  BY <1>2 DEF EnterFree, CoolDownOver, TurnToLimiter, TypeOK, LimitStages
<1>3. ASSUME NEW c \in Calls, EnterCooling(c) PROVE TypeOK'
  <2>1. now \in Nat /\ retryAt \in Int /\ now < retryAt
    BY <1>3, Derived DEF EnterCooling, Cooling, TypeOK, BucketTypeOK
  <2>2. retryAt \in Nat
    BY <2>1
  <2> QED
    BY <1>3, <2>2 DEF EnterCooling, TypeOK, LimitStages
<1>4. ASSUME NEW c \in Calls, CoolDownCanceled(c) \/ Refused(c) PROVE TypeOK'
  BY <1>4 DEF CoolDownCanceled, Refused, CloseAndFail, TypeOK, LimitStages
<1>5. ASSUME NEW c \in Calls, Send(c) PROVE TypeOK'
  BY <1>5 DEF Send, TypeOK, LimitStages
<1>6. ASSUME NEW c \in Calls, NEW r \in Replies, Answer(c, r) PROVE TypeOK'
  BY <1>6 DEF Answer, TypeOK, LimitStages
<1>7. ASSUME NEW c \in Calls, Record(c) PROVE TypeOK'
  <2>1. retryAt' \in Int /\ asked' \in Nat
    BY <1>7, RecordTyped
  <2> QED
    BY <1>7, <2>1 DEF Record, TypeOK, LimitStages
<1>8. ASSUME NEW c \in Calls, AskLimiter(c) \/ Cancel(c) PROVE TypeOK'
  BY <1>1, <1>8 DEF AskLimiter, Cancel
<1>9. CASE UNCHANGED vars
  BY <1>1, <1>9 DEF vars
<1> QED
  BY <1>1, <1>2, <1>3, <1>4, <1>5, <1>6, <1>7, <1>8, <1>9 DEF Next, Step

\* TypeOK holds in every reachable state of every instance.  A window may end
\* before the clock started, when a product wraps; a round trip never sleeps
\* for such a one.
THEOREM LimitTypeCorrect == Spec => []TypeOK
BY InitLimitTyped, NextLimitTyped, PTL DEF Spec

-----------------------------------------------------------------------------
(* Short circuits.                                                         *)

\* The limiter moves one caller, and only one that has turned to it.
LEMMA OnlyOneMoves ==
  ASSUME TypeOK, NEW c \in Calls, LimiterStep(c)
  PROVE  \A d \in Calls \ {c} : at'[d] = at[d]
<1>1. at \in [Calls -> BucketStages]
  BY DEF TypeOK, BucketTypeOK
<1>2. \E s \in BucketStages : at' = [at EXCEPT ![c] = s]
  <2>1. CASE Acquire(c)
    BY <2>1 DEF Acquire, BucketStages
  <2>2. CASE Miss(c)
    BY <2>2 DEF Miss, BucketStages
  <2>3. CASE Wake(c)
    BY <2>3 DEF Wake, BucketStages
  <2>4. CASE GiveUp(c)
    BY <2>4 DEF GiveUp, BucketStages
  <2> QED
    BY <2>1, <2>2, <2>3, <2>4 DEF LimiterStep
<1> QED
  BY <1>1, <1>2

\* The inductive invariant: a round trip that has not turned to the limiter yet
\* has asked it for nothing, so that failing there leaves no token behind.
CleanInv ==
  /\ TypeOK
  /\ \A c \in Calls : stage[c] \in {"new", "cooling"} => at[c] = "idle"
  /\ ShortCircuitsAreClean

LEMMA NextClean == CleanInv /\ [Next]_vars => CleanInv'
<1> SUFFICES ASSUME CleanInv, [Next]_vars PROVE CleanInv'
  OBVIOUS
<1> DEFINE Clean(s, b, l) == /\ s \in {"new", "cooling"} => l = "idle"
                             /\ b <=> s = "failed"
                             /\ s = "failed" => l # "granted"
<1>0. TypeOK /\ TypeOK'
  BY NextLimitTyped DEF CleanInv
<1>1. \A c \in Calls : Clean(stage[c], bodyClosed[c], at[c])
  BY DEF CleanInv, ShortCircuitsAreClean
<1>2. SUFFICES \A c \in Calls : Clean(stage'[c], bodyClosed'[c], at'[c])
  BY <1>0 DEF CleanInv, ShortCircuitsAreClean
<1>3. /\ stage \in [Calls -> LimitStages] /\ bodyClosed \in [Calls -> BOOLEAN]
      /\ at \in [Calls -> BucketStages]
  BY <1>0 DEF TypeOK, BucketTypeOK
<1>4. ASSUME UNCHANGED <<stage, bodyClosed, at>>
      PROVE  \A c \in Calls : Clean(stage'[c], bodyClosed'[c], at'[c])
  BY <1>1, <1>4
<1>5. ASSUME NEW c \in Calls, EnterFree(c) \/ CoolDownOver(c)
      PROVE  \A d \in Calls : Clean(stage'[d], bodyClosed'[d], at'[d])
  BY <1>1, <1>3, <1>5 DEF EnterFree, CoolDownOver, Enters, TurnToLimiter, Call
<1>6. ASSUME NEW c \in Calls, EnterCooling(c)
      PROVE  \A d \in Calls : Clean(stage'[d], bodyClosed'[d], at'[d])
  BY <1>1, <1>3, <1>6 DEF EnterCooling, Enters, limiter
<1>7. ASSUME NEW c \in Calls, CoolDownCanceled(c) \/ Refused(c)
      PROVE  \A d \in Calls : Clean(stage'[d], bodyClosed'[d], at'[d])
  BY <1>1, <1>3, <1>7 DEF CoolDownCanceled, Refused, CloseAndFail, limiter
<1>8. ASSUME NEW c \in Calls, Send(c) \/ Record(c) \/ \E r \in Replies : Answer(c, r)
      PROVE  \A d \in Calls : Clean(stage'[d], bodyClosed'[d], at'[d])
  BY <1>1, <1>3, <1>8 DEF Send, Record, Answer, limiter
<1>9. ASSUME NEW c \in Calls, AskLimiter(c)
      PROVE  \A d \in Calls : Clean(stage'[d], bodyClosed'[d], at'[d])
  <2>1. stage[c] = "limiting" /\ LimiterStep(c) /\ UNCHANGED <<stage, bodyClosed>>
    BY <1>9 DEF AskLimiter, middleware
  <2>2. \A d \in Calls \ {c} : at'[d] = at[d]
    BY <1>0, <2>1, OnlyOneMoves
  <2> QED
    BY <1>1, <2>1, <2>2
<1>10. CASE Elapse /\ UNCHANGED middleware
  BY <1>4, <1>10 DEF Elapse, middleware
<1>11. ASSUME NEW c \in Calls, Cancel(c) PROVE UNCHANGED <<stage, bodyClosed, at>>
  BY <1>11 DEF Cancel, middleware, limiter
<1>12. CASE UNCHANGED vars
  BY <1>4, <1>12 DEF vars, middleware, limiter
<1> HIDE DEF Clean
<1> QED
  BY <1>4, <1>5, <1>6, <1>7, <1>8, <1>9, <1>10, <1>11, <1>12 DEF Next, Step

\* A round trip that fails without reaching the transport has closed the body of
\* its request, no other has, and it holds no token.
THEOREM CleanShortCircuits == Spec => []ShortCircuitsAreClean
<1>1. Init => CleanInv
  BY InitLimitTyped DEF Init, BucketInit, CleanInv, ShortCircuitsAreClean
<1>2. CleanInv => ShortCircuitsAreClean
  BY DEF CleanInv
<1> QED
  BY <1>1, <1>2, NextClean, PTL DEF Spec

-----------------------------------------------------------------------------
(* Retry-After windows.                                                    *)

\* The inductive invariant: the window a round trip met is over when it turns to
\* the limiter, and one that meets none has none recorded.
WindowInv ==
  /\ TypeOK
  /\ \A c \in Calls : /\ stage[c] = "new" => coolUntil[c] = 0
                      /\ stage[c] = "limiting" => now >= coolUntil[c]

LEMMA NextWindow == WindowInv /\ [Next]_vars => WindowInv'
<1> SUFFICES ASSUME WindowInv, [Next]_vars PROVE WindowInv'
  OBVIOUS
<1> DEFINE Over(s, u, t) == (s = "new" => u = 0) /\ (s = "limiting" => t >= u)
<1>0. TypeOK /\ TypeOK'
  BY NextLimitTyped DEF WindowInv
<1>1. \A c \in Calls : Over(stage[c], coolUntil[c], now)
  BY DEF WindowInv
<1>2. SUFFICES \A c \in Calls : Over(stage'[c], coolUntil'[c], now')
  BY <1>0 DEF WindowInv
<1>3. /\ stage \in [Calls -> LimitStages] /\ coolUntil \in [Calls -> Nat]
      /\ now \in Nat
  BY <1>0, Derived DEF TypeOK, BucketTypeOK
<1>4. ASSUME UNCHANGED <<stage, coolUntil, now>>
      PROVE  \A c \in Calls : Over(stage'[c], coolUntil'[c], now')
  BY <1>1, <1>4
<1>5. ASSUME NEW c \in Calls, EnterFree(c)
      PROVE  \A d \in Calls : Over(stage'[d], coolUntil'[d], now')
  BY <1>1, <1>3, <1>5 DEF EnterFree, Enters, TurnToLimiter, Call
<1>6. ASSUME NEW c \in Calls, CoolDownOver(c)
      PROVE  \A d \in Calls : Over(stage'[d], coolUntil'[d], now')
  BY <1>1, <1>3, <1>6 DEF CoolDownOver, TurnToLimiter, Call
<1>7. ASSUME NEW c \in Calls, EnterCooling(c)
      PROVE  \A d \in Calls : Over(stage'[d], coolUntil'[d], now')
  BY <1>1, <1>3, <1>7 DEF EnterCooling
<1>8. ASSUME NEW c \in Calls,
             \/ CoolDownCanceled(c) \/ Refused(c) \/ Send(c)
             \/ Record(c) \/ \E r \in Replies : Answer(c, r)
      PROVE  \A d \in Calls : Over(stage'[d], coolUntil'[d], now')
  BY <1>1, <1>3, <1>8
     DEF CoolDownCanceled, Refused, CloseAndFail, Send, Record, Answer
<1>9. CASE Elapse /\ UNCHANGED middleware
  BY <1>1, <1>3, <1>9 DEF Elapse, middleware
<1>10. ASSUME NEW c \in Calls, AskLimiter(c) PROVE UNCHANGED <<stage, coolUntil, now>>
  BY <1>10 DEF AskLimiter, LimiterStep, Acquire, Miss, Wake, GiveUp, middleware
<1>11. ASSUME NEW c \in Calls, Cancel(c) PROVE UNCHANGED <<stage, coolUntil, now>>
  BY <1>11 DEF Cancel, middleware
<1>12. CASE UNCHANGED vars
  BY <1>4, <1>12 DEF vars, middleware
<1> HIDE DEF Over
<1> QED
  BY <1>4, <1>5, <1>6, <1>7, <1>8, <1>9, <1>10, <1>11, <1>12 DEF Next, Step

\* A round trip that met a window on its way in lets its request leave no sooner
\* than that window ends, however long the limiter keeps it and whatever the
\* answers to other round trips do to the window meanwhile.
THEOREM SeenWindowsHonoured == Spec => SeenWindowHonoured
<1>1. Init => WindowInv
  BY InitLimitTyped DEF Init, WindowInv
<1>2. WindowInv /\ [Next]_vars =>
        [\A c \in Calls : Leaves(c) => now >= coolUntil[c]]_vars
  BY DEF WindowInv, Leaves
<1> QED
  BY <1>1, <1>2, NextWindow, PTL DEF Spec, SeenWindowHonoured
=============================================================================
