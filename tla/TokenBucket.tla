----------------------------- MODULE TokenBucket -----------------------------
(***************************************************************************)
(* TokenBucket of ratelimit.go, shared by the goroutines of Calls.         *)
(*                                                                         *)
(* TryAcquire reads the clock and refills under tb.mu, so each attempt is  *)
(* one step.  WaitContext alternates attempts with timers of waitTime and  *)
(* gives up when its context is done.                                      *)
(*                                                                         *)
(* The rate is Rate tokens every Unit ticks of the clock.  A token is cut  *)
(* into Unit parts so that a tick brings a whole number of them; the       *)
(* rounding of float64 is left out.                                        *)
(***************************************************************************)
EXTENDS Integers, Sequences

CONSTANTS
  Calls,        \* the callers of the limiter
  Unit,         \* ticks per second
  CfgRate,      \* the arguments of NewTokenBucket
  CfgBurst,
  Blocking,     \* the callers that use WaitContext; the others use TryAcquire
  MaxTime       \* bound: last value of the clock

ASSUME BucketAssumption ==
  /\ Unit \in Nat \ {0}
  /\ CfgRate \in Int
  /\ CfgBurst \in Int
  /\ Blocking \subseteq Calls
  /\ MaxTime \in Nat

\* NewTokenBucket: a rate or a burst that cannot limit gives a bucket that
\* grants everything.  The fields of such a bucket are never used.
Unlimited == CfgRate <= 0 \/ CfgBurst < 1
Rate      == IF Unlimited THEN 0 ELSE CfgRate
MaxTokens == IF Unlimited THEN 0 ELSE CfgBurst * Unit

\* time.Duration(float64(time.Second) / rate) truncates.
WaitTime == IF Unlimited THEN 0 ELSE Unit \div Rate

-----------------------------------------------------------------------------
VARIABLES
  now,          \* the monotonic clock, in ticks
  tokens,       \* in parts of 1/Unit
  lastRefill,
  at,           \* at[c]: where the caller c is
  wakeAt,       \* wakeAt[c]: when the timer of c fires
  ctxDone,      \* ctxDone[c]: is the context of c done?
  grants,       \* history: the times at which tokens were granted
  misses        \* history: the attempts c failed since the last grant

bucket == <<tokens, lastRefill>>
limiter == <<bucket, at, wakeAt, grants, misses>>
bucketVars == <<now, limiter, ctxDone>>

\* "calling" is about to TryAcquire, "sleeping" waits for its timer.
BucketStages == {"idle", "calling", "sleeping", "granted", "refused", "canceled"}

BucketInit ==
  /\ now = 0
  /\ tokens = MaxTokens
  /\ lastRefill = 0
  /\ at = [c \in Calls |-> "idle"]
  /\ wakeAt = [c \in Calls |-> 0]
  /\ ctxDone = [c \in Calls |-> FALSE]
  /\ grants = <<>>
  /\ misses = [c \in Calls |-> 0]

-----------------------------------------------------------------------------
\* Mutant: the refill forgets the capacity.
Refilled_Uncapped == tokens + (now - lastRefill) * Rate

\* Mutant: only whole tokens are refilled, the fraction is lost.
Refilled_Whole ==
  LET sum == tokens + (((now - lastRefill) * Rate) \div Unit) * Unit
  IN  IF sum > MaxTokens THEN MaxTokens ELSE sum

\* The tokens refill leaves when it runs now.
Refilled ==
  LET sum == tokens + (now - lastRefill) * Rate
  IN  IF sum > MaxTokens THEN MaxTokens ELSE sum

\* Mutant: refill does not move lastRefill.
Refill_SameStart(taken) ==
  /\ tokens' = Refilled - taken
  /\ UNCHANGED lastRefill

\* refill, and the tokens taken right after it.
Refill(taken) ==
  /\ tokens' = Refilled - taken
  /\ lastRefill' = now

\* TryAcquire grants: at once when the bucket does not limit.
TokenAvailable == ~Unlimited => Refilled >= Unit

Call(c) ==
  /\ at[c] = "idle"
  /\ at' = [at EXCEPT ![c] = "calling"]
  /\ UNCHANGED <<now, bucket, wakeAt, ctxDone, grants, misses>>

\* TryAcquire returns true.
Acquire(c) ==
  /\ at[c] = "calling"
  /\ TokenAvailable
  /\ IF Unlimited THEN UNCHANGED bucket ELSE Refill(Unit)
  /\ at' = [at EXCEPT ![c] = "granted"]
  /\ grants' = Append(grants, now)
  /\ misses' = [d \in Calls |-> 0]
  /\ UNCHANGED <<now, wakeAt, ctxDone>>

\* TryAcquire returns false; WaitContext starts a timer, the others give up.
Miss(c) ==
  /\ at[c] = "calling"
  /\ ~TokenAvailable
  /\ Refill(0)
  /\ misses' = [misses EXCEPT ![c] = @ + 1]
  /\ IF c \in Blocking
       THEN /\ at' = [at EXCEPT ![c] = "sleeping"]
            /\ wakeAt' = [wakeAt EXCEPT ![c] = now + WaitTime]
       ELSE /\ at' = [at EXCEPT ![c] = "refused"]
            /\ UNCHANGED wakeAt
  /\ UNCHANGED <<now, ctxDone, grants>>

\* The two cases of WaitContext's select; when both are ready either is taken.
\* A timer fires when it is due or later.
Wake(c) ==
  /\ at[c] = "sleeping"
  /\ now >= wakeAt[c]
  /\ at' = [at EXCEPT ![c] = "calling"]
  /\ UNCHANGED <<now, bucket, wakeAt, ctxDone, grants, misses>>

GiveUp(c) ==
  /\ at[c] = "sleeping"
  /\ ctxDone[c]
  /\ at' = [at EXCEPT ![c] = "canceled"]
  /\ UNCHANGED <<now, bucket, wakeAt, ctxDone, grants, misses>>

\* Tokens() refills as TryAcquire does.
ReadTokens ==
  /\ Refill(0)
  /\ UNCHANGED <<now, at, wakeAt, ctxDone, grants, misses>>

\* The caller's context ends, at any moment.
EndContext(c) ==
  /\ ~ctxDone[c]
  /\ at[c] \in {"idle", "calling", "sleeping"}
  /\ ctxDone' = [ctxDone EXCEPT ![c] = TRUE]
  /\ UNCHANGED <<now, bucket, at, wakeAt, grants, misses>>

Elapse ==
  /\ now < MaxTime
  /\ now' = now + 1
  /\ UNCHANGED <<bucket, at, wakeAt, ctxDone, grants, misses>>

\* What the goroutine of c does inside the limiter.
LimiterStep(c) ==
  \/ Acquire(c)
  \/ Miss(c)
  \/ Wake(c)
  \/ GiveUp(c)

BucketNext ==
  \/ Elapse
  \/ ReadTokens
  \/ \E c \in Calls : Call(c) \/ LimiterStep(c) \/ EndContext(c)

BucketSpec == BucketInit /\ [][BucketNext]_bucketVars

-----------------------------------------------------------------------------
(* Correctness.                                                            *)

\* Every variable keeps its type: the bucket never owes tokens nor overflows.
BucketTypeOK ==
  /\ now \in 0..MaxTime
  /\ tokens \in 0..MaxTokens
  /\ lastRefill \in 0..now
  /\ at \in [Calls -> BucketStages]
  /\ wakeAt \in [Calls -> Nat]
  /\ ctxDone \in [Calls -> BOOLEAN]
  /\ grants \in Seq(Nat)
  /\ misses \in [Calls -> Nat]

\* Never more than burst + rate x time: any stretch of consecutive grants fits
\* the capacity plus what the elapsed time brings, wherever the stretch begins
\* and however attempts and readings of Tokens() were interleaved with it.
RateEnvelope ==
  ~Unlimited =>
    \A i, j \in DOMAIN grants :
      i <= j => (j - i + 1) * Unit <= MaxTokens + Rate * (grants[j] - grants[i])

\* While nobody is granted a token, no caller fails more than three attempts:
\* waitTime is truncated and a single sleep may come up short, but the tokens
\* of two sleeps are never lost, to rounding, to the failed attempts of others
\* or to readings of Tokens().  (A rate above Unit makes waitTime zero.)
NoFutileWaiting ==
  ~Unlimited /\ Rate <= Unit => \A c \in Calls : misses[c] <= 2

\* A bucket refilled on demand is one into which tokens drip.
Eager == INSTANCE EagerBucket WITH
  Capacity <- MaxTokens,
  level    <- Refilled,
  taken    <- Len(grants)

\* TryAcquire and Tokens() cannot be told from operations on a bucket that is
\* refilled at every tick: when refills happen makes no difference.
ImplementsEagerBucket == Eager!Spec
=============================================================================
