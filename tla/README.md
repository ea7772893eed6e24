# Verification of go-httpclient (package rhttp)

This directory holds the TLA+ models of `rhttp`, the resilient HTTP client of
this repository, their TLC configurations, and theorems about them checked by
TLAPS. The code under `src/` is the reference for every definition; `PROJECT.json`
names the lines each one translates.

## The system

`rhttp.New` builds a `Client` from a base `http.RoundTripper` and a list of
middlewares. A middleware wraps the next RoundTripper; `chain` makes the first
one the outermost. `Client.Do` clones the request onto the caller's context and
runs it through the chain. Nothing runs in the background: all concurrency comes
from callers that share a client, a limiter, a breaker or a backoff, and from
contexts and timers that fire while a request is in flight.

| component | state it keeps | operations | hard behaviour | what makes it correct |
|---|---|---|---|---|
| circuit breaker (`circuitbreaker.go`) | state, generation, counters, time of the last failure, behind one mutex; shared by all requests | `tryAdmit`, `applyResult`, `publish`, `State` | requests outlive the state they were admitted in; probe slots are freed by whoever gets there first; callbacks run unlocked | slots add up, late results do not count, every transition is due and published once |
| token bucket (`ratelimit.go`) | tokens, time of the last refill, behind one mutex | `TryAcquire`, `WaitContext`, `Tokens` | lazy refill from a clock, unfair waiters, truncated wait time | never more than burst + rate x time grants in any window; nobody waits past what the supply explains |
| rate limit middleware (`ratelimit.go`) | the end of the Retry-After window, per middleware | `RoundTrip` | the window is checked once and may move while a call waits; cancellation races with timers | a call honours the window it saw, short-circuits release the body, cancellation frees the caller |
| retry (`retry.go`) | per call: attempt number, bodies, attempt contexts | `RoundTrip`, `prepareRequest`, `attempt`, `waitBackoff`, `drainAndClose` | cancellation during a backoff, one-shot bodies, partial failures of `GetBody` | no body or context leaks, a one-shot body is sent once, the caller gets a readable response |
| timeout (`timeout.go`) | per call: a derived context owned by the response body | `RoundTrip`, `cancelBody.Close` | the context must outlive RoundTrip and no longer than the body | the context is released exactly when the body is |
| backoff (`backoff.go`) | none, except `lastBackoff` of the decorrelated one | one function per strategy, `WithJitter`, `WithMax`, `WithMin`, `WithRetryAfter` | int64 overflow, jitter after the cap, state shared by retry sequences | delays stay between zero and the maximum |
| error classification (`errorclass.go`) | none | `Classify`, `IsRetryable` ... | overlapping error chains | the root cause decides, whatever is wrapped around it |
| request builder (`request.go`) | URL, headers, two body sources, the last marshalling error, context, timeout | setters, `execute` and its eight callers | setters called in any order, builders executed twice, readers around the 10 MB buffer, a timeout that outlives `execute`, a header map shared with the request | every attempt carries what was described; nothing of an execution leaks into the next |
| client and chain (`client.go`, `options.go`, `middleware.go`) | immutable after New | `New`, `Do`, `chain` | composition of the others: who closes which body, who may refuse, who sees what | bodies are released by the layer that stops them, refusals are final, cancellation frees in every layer |
| metrics, logging (`metrics.go`, `logging.go`) | none of their own | `RoundTrip` | retries, refusals and waits below them | every operation reported once, as what it was |
| diagnostics (`diagnostics.go`) | the package variable `OnInvalidConfig` | `reportInvalidConfig` | none once it is assigned at startup, as documented | a constructor that falls back to a pass-through reports it |
| JSON decoding (`decode.go`) | none | `DecodeJSON` | every way out closes | body drained and closed |

Contents of bodies and headers are data the models abstract from; benchmarks and
examples are programs around the library and are left out.

Requests pass the recommended chain `Logging -> Metrics -> Timeout -> RateLimit ->
Retry -> CircuitBreaker -> transport` from left to right. A middleware talks to the next
one by one call, `next.RoundTrip`, and to the rest of the world through its
configuration: `IsFailure`, `IsRetryable`, `Backoff`, `OnStateChange`, `Limiter`.
What passes between layers and needs care is ownership: of the request body
(whoever fails before calling `next` closes it), of the response body (the caller
closes it, and through `cancelBody` the contexts of the layers go with it) and of
the position in a shared window, bucket or breaker, which may move between the
moment a call looks at it and the moment it acts.

## Modules

| module | models | extends or instances |
|---|---|---|
| `BreakerContract` | what any circuit breaker promises: who may be admitted when, and which results may change its mind | - |
| `CircuitBreaker` | `circuitbreaker.go` | instances `BreakerContract` |
| `EagerBucket` | a token bucket that drips on every tick | - |
| `TokenBucket` | `TokenBucket` of `ratelimit.go` | instances `EagerBucket` |
| `RateLimit` | `rateLimitRoundTripper` over a `TokenBucket` | extends `TokenBucket` |
| `Retry` | one `RoundTrip` of `retry.go` with per-attempt timeouts | - |
| `TimeoutRetry` | `timeout.go` around `Retry`, the total budget | extends `Retry` |
| `Backoff` | the strategies and decorators of `backoff.go` | - |
| `ErrorClass` | `errorclass.go` and `DefaultIsRetryable`, as functions of an error chain | - |
| `Chain` | one client: logging, metrics, rate limit, retry and circuit breaker around the transport | extends `CircuitBreaker` and `ErrorClass`, instances `RateLimit` |
| `RequestBuilder` | `request.go` and `Client.Do`, the caller and its errors | extends `ErrorClass` |
| `MC...` | symmetry sets and sample constants for TLC | the module they are named after |
| `Recursion` | lemmas about recursive functions and folds, for the proofs | - |
| `...Proofs` | theorems checked by TLAPS | the module they are named after (`RateLimitProofs` is also about `TokenBucket`, `RetryProofs` about `TimeoutRetry`); those about errors, the builder and the backoff also `Recursion`; `ChainProofs` also the theorems of the breaker and of the errors, `RequestBuilderProofs` those of the errors |

In every module a definition named `X_Something`, commented *Mutant*, is a
broken variant of the definition `X` below it. No specification uses it; putting
it in the place of `X` makes the property that `PROJECT.json` names fail, which
shows that the run can see that mistake.

### CircuitBreaker

Each element of `Calls` is one `RoundTrip`. Its `pc` is `ready` until
`tryAdmit`, `publishing` while `OnStateChange` runs for the transition that the
admission caused, `transport` inside `next.RoundTrip`, `returned` while
`IsFailure` runs and until `applyResult` gets the mutex, `reporting` while
`OnStateChange` runs for the transition its result caused, then `done`;
`rejected` and `panicked` are the other ends. `tryAdmit` and `applyResult` hold
`cb.mu` throughout and are one step each, split into one action per way through
their switches: `AdmitClosed`, `AdmitFirstProbe`, `AdmitProbe`, `RejectOpen`,
`RejectHalfOpen`, and `DiscardResult`, `ClosedSuccess`, `ClosedFailure`,
`HalfOpenSuccess`, `HalfOpenFailure`. The fields of `circuitBreaker` are
variables of the same names. `setState` is an operator the actions share: with
`OnStateChange` set it leaves a transition in `pending` for its goroutine to
publish, without the mutex. The transport's outcome is one of four: a response
below 500, one above, an error of kind canceled, any other error; that is all a
failure predicate of the defaults can tell apart. `published` and `episodes` are
histories: what the callback saw, and the states the breaker went through, each
with the results counted in it. The properties are about these histories, not
about the counters.

### TokenBucket and RateLimit

`TryAcquire` reads the clock and refills under the bucket's mutex: `Acquire` and
`Miss` are its two results. `WaitContext` alternates it with a timer of
`waitTime`; `Wake` and `GiveUp` are the two cases of its select, and either may be
taken when both are ready. `Blocking` says which callers wait. A token is divided
into `Unit` parts, `Unit` being the ticks of a second, so a tick brings `Rate`
parts exactly; the rounding of `float64` is what is left out. A bucket that
`NewTokenBucket` found unusable (`Unlimited`) grants everything.

A round trip of `RateLimit` compares the clock with `retryAt` once
(`EnterFree`, `EnterCooling`), sleeps until the moment it read, asks the limiter
(`AskLimiter` performs the steps of `TokenBucket`), leaves (`Send`), is answered
(`Answer`) and takes `retryLock` again to move the window (`Record`); the
answer and the record are separate steps, so several answers may be recorded in
another order than they came. `delay-seconds` is multiplied in a signed integer of
`DurationBits`. `asked` is a history: the latest moment until which a server that
has been heard asked not to be called.

### Retry, TimeoutRetry

One call, with its caller's context, which may be done at any moment, from before
the start on. What an attempt opens is tracked by attempt number: `reqBody`
(`open`, `handed` to the transport, `closed`), `attemptCtx` (the context
`WithTimeout` made) and `respBody`. `prepareRequest` and `attempt` are `Begin` for
attempt 0 and `Again` for the others; `GetBodyFails` is the former's error path;
`DrainAndWait` is `drainAndClose` followed by the timer of `waitBackoff`, whose
select is `BackoffOver` and `BackoffCanceled`. Which answers are retryable is left
to the environment, so every `IsRetryable` is covered. `TimeoutRetry` adds the
outer middleware: it steps aside or derives a context, runs `Retry`, and on the
way out cancels that context or leaves it to the wrapped body. Clocks are left out:
a deadline is `EndContext`, a backoff ends with `FireTimer`.

### Backoff

Durations are `Width`-bit signed integers that wrap, `Width` being 64 in the
code and 6 or 8 in the runs, where a few retries reach the end of the
integers as a few dozen do in 64 bits. A strategy with its decorators is chosen
initially and shared by the retry sequences, each of which asks for its
waits 0, 1, 2, ... and starts over at will. A random wait is any value of its
interval. `DecorrelatedJitterBackoff` remembers the last wait it gave to anybody.
A `float64` that does not fit in a duration becomes the largest or the smallest
one, as the platform likes.

### ErrorClass

An error is the sequence of its layers, outermost first, the last being its root
cause; `Unwrap` is `Tail`. `errors.Is` and `errors.As` look for a layer from the
outside in, which is `Has`, and what is below the first `*url.Error` is `Below`.
Each branch of `classifyError` is an operator that gives a kind or `"unknown"`;
`OrElse` puts them in their order, and `Kind` the recursion through `url.Error`. The
roots are the classes of causes that the branches can tell apart, not a list of
errors; `Timeout()` of net's wrappers asks the error directly below and no
further, so a plain wrapper in between hides it. Errors that wrap several others
are left out.

### Chain

`Chain` is `CircuitBreaker` and an instance of `RateLimit` with the loop of
`Retry` in between. An operation of `Ops` is a call of `RateLimit`; attempt `k` of
operation `o` is the call `<<o, k>>` of the breaker, so all that `CircuitBreaker`
says of its calls holds here of attempts. `phase` says where `o` is in Retry and,
later, in Metrics and Logging; while it is `outside` or `calling` the rest is in
`stage` of RateLimit or `pc` of the breaker. What the transport answers is a status,
an error of `ErrorClass` and perhaps a Retry-After; `OutcomeOf` is the default
failure predicate and `TryAgain` the default retry predicate of the same
answer. `openBodies` holds the request bodies that nobody has closed: that of
attempt 0 is the caller's own, and each backoff that ends adds the one `GetBody` made.
`overlapped` remembers whether two operations were ever under way at once: some
promises are made to a single stream only. Attempt timeouts, `GetBody` that
fails and response bodies are in `Retry`, the total budget in `TimeoutRetry`, panics
in `CircuitBreaker`, and none of these is repeated here.

### RequestBuilder

`rb` is the builder, its fields named as in the code. Setters are actions while the
caller is `idle`; `Execute` computes the URL, `Resolve...` are the ways through
`resolveBody`, `Do` covers the rest of `execute` up to the call of the chain, and
`DoPanics` is the nil context that `context.WithTimeout` does not take. A body is a
piece of a source, from a byte number to another; `position` is how far each reader
has been read, by the buffer or by the transport. The chain below may attempt
the request, again if `canRetry` says so, read any part of each body, set headers
on the request it got and answer anything; `wire` records what each attempt
read. `header` tells whether the request's header map is the builder's own. The URL
is a sequence of tokens; `order` is the one in which Go ranges over the path
parameters. A failed execution may send its error up through frames of the caller,
each of which wraps it; `DecodeJSON` and `Close` are the same to the builder.

## Runs

| run | bounds | shows |
|---|---|---|
| `breaker_concurrent` | 6 calls, 3 at once, thresholds 2, 2 probe slots, clock to 3, panics | type, slot accounting, dead branch, stale results, every transition due and published exactly once, refinement of `BreakerContract` |
| `breaker_canceled_probe` | 2 calls | violated: a probe that was canceled closes the circuit |
| `bucket_shared` | 3 waiters and a fail-fast caller, 2 tokens per 3 ticks, clock to 6 | the rate envelope, no futile waiting, lazy refill equals eager refill |
| `ratelimit_concurrent` | 3 calls, 2 at once, waiting, clock to 3, a hint that wraps and a date | a window that was met is honoured, short circuits are clean, cancellation frees |
| `ratelimit_extended_window` | 2 calls at once | violated: a call that had passed the check goes out inside a newer window |
| `retry_attempts` | 4 attempts, all requests, answers and failures | bodies, contexts and responses of retry and timeout; a done call ends |
| `retry_canceled` | 2 attempts | violated: a canceled request may be retried |
| `backoff_curves` | 2 sequences, 6 bits, 6 retries, all strategies, 3 decorations | curves to the bit, sound shared memory, hints are minima |
| `backoff_overflow` | 8 bits, 12 retries | violated: the Fibonacci product wraps to a negative wait |
| `chain` | 2 operations, one with 3 attempts and one that may not be retried, burst 1, threshold 1, 2 successes to close, clock to 2 | bodies, refusals, reports and cancellations across the layers; a stream's promises; a full Half-Open breaker does not stay full |
| `builder_exchanges` | every order of setters, 4 readers around a buffer of 2 bytes, 2 executions of 2 attempts, 2 path parameters, errors of up to 5 layers | what is sent is what was described; headers, URL, deadline; error classes survive wrapping |
| `builder_last_body` | 1 reader, 1 byte slice, 1 execution | violated: a reader set after bytes is never read |

**Why the bounds are enough.** In the breaker, a late result needs one call from
each of two episodes and a third to move the state between them; two thresholds
of 2 and two slots distinguish "one" from "all", and a clock of 3 lets the
circuit open, cool down, and open again. Rate 2 with unit 3 makes `waitTime`
inexact, so that the truncation matters, and four callers exceed the burst of 2.
Two round trips at once are what it takes to move a window under a call, and the
third call comes after them. Four attempts have a first, a last and two in
between, of which the second follows a wait that follows a wait. A duration of
six bits overflows at retry 4 to 6 for the bases used, and the caps are one
below and one at the largest value. In `chain`, three attempts of one operation
are enough to open the circuit, find it open, cool down and probe while the
other operation is anywhere; the other may not be retried, so both kinds of
answer to `canRetry` meet; a burst of 1 makes the second operation short of a
token, of which one of the two waits for it and the other is refused, and two
successes to close keep the breaker Half-Open through more than one operation.
In `builder_exchanges` the readers hold less than the buffer (and fail), exactly
the buffer, one byte more, and more than is ever read ahead; two executions are
what it takes to leave something behind, and two path parameters to substitute
one into the other. Five layers put a wrapper on either side of a `url.Error`
around what net returns. Calls are never reused, so no bound hides a longer
history of one call; what a bound does hide, longer runs of many calls, is what
the theorems are for. Deadlock checking is off where a model ends on its own:
every call over and the clock at its bound.

**Fairness.** Only `chain`, `ratelimit_concurrent` and `retry_attempts` have
liveness properties. A goroutine that can run does (the Go scheduler is
preemptive): weak fairness of what each call does by itself. In `chain` that of
an operation's own steps together with the transport's answer: `OnStateChange`
returns, as its documentation demands of it, and the transport answers, in time
or with an error, as it does under a Timeout: without that, a probe that never
returns does hold its slot for ever, and this is the precondition of recovery
worth knowing; callers, contexts, the clock and the timers of a backoff may stop
for ever. In `RateLimit` nothing is assumed of the transport or of the clock; a
canceled waiter is freed even if time stops. When the timer and the cancellation
are both ready, Go's select picks one at random; the clock of the model is
bounded, so a waiter runs out of timers, where in the code it would have to lose
an endless series of coin tosses. In `TimeoutRetry` the transport is only
assumed to answer a request whose context is done, as net/http's does, and
nothing is assumed of backoff timers. Nothing is ever assumed of callers.

## What the violated runs say

- **`breaker_canceled_probe`.** `DefaultIsFailure` does not count an error of kind
  canceled as a failure, which is right in Closed state, where such a result
  resets the count, but in Half-Open state everything that is not a failure is a
  successful probe: one whose caller lost patience closes the circuit although the
  dependency never answered. The configuration's comment speaks of
  successful probes, and of any error being a failure.
- **`ratelimit_extended_window`.** `retryAt` is read once, before the sleep and
  before the wait for a token. A call in that wait goes out inside a window that
  opened meanwhile. `SeenWindowHonoured` is what the code does guarantee.
- **`retry_canceled`.** The documentation promises that a canceled request is never
  retried. `waitBackoff` selects among two ready channels at random, and
  neither the loop nor `attempt` looks at the context again. The attempt fails at
  once in net/http, but the next RoundTripper is called, and a breaker or a
  metric beneath counts it. `DoneCallsEnd` is what remains true.
- **`backoff_overflow`.** `FibonacciBackoff` (and `LinearBackoff`, after more
  retries than anyone makes) multiply without the check that the exponential
  strategies have. With a base of 100ms the 55th retry gets a negative wait, that
  is none at all, where the cap was due.

- **`builder_last_body`.** `resolveBody` prefers `bodyBytes`, which every setter of
  bytes sets and no setter clears. A builder that was given bytes and then a reader
  sends the bytes; given bytes and then nil, it sends nothing at first and, if that
  attempt is retried, the bytes. The documentation of the type speaks of both
  kinds of body and not of their mixture. `SentAsDescribed` is what holds for
  every other sequence of setters.

## Theorems

TLAPS checks these for all values of the constants that satisfy the assumptions
named in the modules. `ConfigAssumption`, `BucketAssumption`, `RateLimitAssumption`,
`RetryAssumption` and `ChainAssumption` say no more than what types the
parameters have. `BackoffAssumption` adds that powers of two, up to the greatest
one that is looked at, are positive and double, which the provers do not know of `^`;
`BuilderAssumption` that readers, byte slices and nil are different things, that a
URL template is a sequence of tokens and that the chain attempts at least once. Both
`BuilderAssumption` and the `AnswerAssumption` of `Chain` take the errors of the
transport to be `WellFormed`: one root cause, and `net.OpError` directly
around what went wrong in the network, as net makes them. TLC evaluates every
assumption on the runs.

| theorem | statement |
|---|---|
| `CircuitBreakerProofs!TypeCorrect` | `Spec => []TypeOK` |
| `CircuitBreakerProofs!ProbesAccountedFor` | `Spec => []ProbeAccounting` |
| `CircuitBreakerProofs!OpenCaseUnreachable` | `Spec => []OpenHasNoLiveCalls` |
| `CircuitBreakerProofs!LateResultsDiscarded` | `Spec => []StaleResultsDiscarded` |
| `CircuitBreakerProofs!TransitionsJustified` | `Spec => []EveryTransitionJustified` |
| `CircuitBreakerProofs!TransitionsPublishedOnce` | `Spec => []EachTransitionPublishedOnce`, with `OnStateChange` set |
| `CircuitBreakerProofs!BreakerImplementsContract` | `Spec => ImplementsContract` |
| `RateLimitProofs!BucketTypeCorrect` | `BucketSpec => []BucketTypeOK` |
| `RateLimitProofs!RateNeverExceeded` | `BucketSpec => []RateEnvelope` |
| `RateLimitProofs!WaitsAreNotFutile` | `BucketSpec => []NoFutileWaiting` |
| `RateLimitProofs!LazyRefillIsEager` | `~Unlimited => (BucketSpec => ImplementsEagerBucket)` |
| `RateLimitProofs!LimitTypeCorrect` | `Spec => []TypeOK` |
| `RateLimitProofs!RateKeptByMiddleware` | `Spec => []RateEnvelope` |
| `RateLimitProofs!CleanShortCircuits` | `Spec => []ShortCircuitsAreClean` |
| `RateLimitProofs!SeenWindowsHonoured` | `Spec => SeenWindowHonoured` |
| `RetryProofs!RetryTypeCorrect` ... `ResponsesAreReadable` | the six safety properties of `Retry` |
| `RetryProofs!BudgetIsKept` | `TSpec => []BudgetCoversExchange` |
| `BackoffProofs!DecorrelatedStaysInBounds` | `Spec => []SharedMemoryIsSound` |
| `BackoffProofs!HintsAreMinimal` | `Spec => []HintIsAMinimum` |
| `BackoffProofs!CurvesAreFollowed` | `Spec => []WaitsFollowCurve` |
| `ErrorClassProofs!ClassifiedByRoot` | `Kind[e] = KindOfRoot(e)` for every well-formed error |
| `ErrorClassProofs!WrappingKeepsKind` | one more layer of `fmt.Errorf` or `url.Error` keeps root and kind |
| `ErrorClassProofs!OnlyTransientRetryable` | retryable exactly if the root is transient, unless it is opaque |
| `RequestBuilderProofs!BuilderTypeCorrect` | `Spec => []TypeOK` |
| `RequestBuilderProofs!URLIsDescribed` | `Spec => []UrlAsDescribed` |
| `RequestBuilderProofs!SendsWhatWasDescribed` | `Spec => []SentAsDescribed` |
| `RequestBuilderProofs!HeadersStayAsSet` | `Spec => []HeadersAsSet` |
| `RequestBuilderProofs!DeadlineIsReleased` | `Spec => []DeadlineFollowsBody` |
| `RequestBuilderProofs!KindSurvives` | `Spec => []KindSurvivesWrapping` |
| `RequestBuilderProofs!RootDecides` | `Spec => []RootCauseDecides` |
| `ChainProofs!ChainRunsBreaker` | `ChainSpec => Spec /\ ImplementsContract` |
| `ChainProofs!NoBodyLeaks` | `ChainSpec => []BodiesReleased` |
| `ChainProofs!StreamOrdered` | `ChainSpec => []StreamPublishesInOrder` |
| `ChainProofs!StreamWaits` | `ChainSpec => StreamRespectsRetryAfter`, if `RespectRetryAfter` is set and no hint overflows a duration |
| `ChainProofs!RetriesAreTransient` | `ChainSpec => []OnlyTransientRetried` |
| `ChainProofs!OneReportEach` | `ChainSpec => []ReportedOnce` |

**The breaker, its slots.** `ProbeAccounting` alone is not inductive: a late result
must not be counted, and nothing in it says that a call of an older generation
cannot look live. The invariant adds that no call has a generation the breaker has not
reached, and that in Open state nobody is live; then admission adds one
element to `Live` and one to `halfOpenInFlight`, settling takes one from
both, and a transition empties both, because the new generation is above every
call's. The guard `halfOpenInFlight > 0` of the code is shown never to
matter. The refinement maps the set of live calls to that of the contract; a
discarded result, a publication or a panic is a stutter.

**The breaker, its history.** The other three properties speak of `episodes` and
`published`, which the code does not have. Each gets an invariant that ties the
histories to the code's fields: a result in an episode belongs to a call whose
generation was that of the episode and which has been settled, so that no call
is in two and none is in a wrong one; the counter of the present
state is what counting the results of the last episode gives, and it is below its
threshold, since the step that reaches it ends the episode; and the transitions
published or in some goroutine's `pending` are those that happened, and as many.

**The bucket.** Everything is said of the *level*, what a refill would leave if it
ran now. Three lemmas give the level's law: it stays within the capacity, a
refill changes it by exactly what is taken, a tick adds `Rate` up to the
capacity. `RateEnvelope` relates grants to each other and is not inductive;
`Conserved` adds, for each past grant, that what was granted since then plus the
present level is within capacity plus what dripped in. The law of the level is
also the refinement of `EagerBucket`. For `NoFutileWaiting` the invariant is `Saved`: as
long as nobody is granted a token, the level is at the capacity or has kept
what each caller's sleeps brought; and two truncated sleeps bring at least a
token (`TwoSleepsSuffice`), so a third attempt cannot fail.

**The rate limiter.** `RateLimit` adds variables to `TokenBucket` and takes its
steps, so its behaviours are the bucket's with stuttering, and `RateEnvelope` carries
over. Its own invariant says what a round trip at each `stage` holds: its body,
a token or not, and which moment it may not leave before.

**Retry.** `RetryInv` says what is open at each `pc`, that there is no second
attempt of what may not be retried, and that a body that has not gone out has not
been sent. The checked properties follow from it. `BudgetIsKept` adds the
outer layer on top: every step under Timeout is a step of Retry
(`TimeoutImplementsRetry`), so `RetryInv` carries over.

**Recursion.** tlapm knows of a recursive definition only that the function is
chosen to satisfy it: that it can be satisfied must be shown. `Recursion` does so once,
by induction on the rank of the arguments, for every function that asks only
about arguments of lower rank (`RecursiveFunction`), and for the folds of the community
modules (`FoldSolvable`). Induction is over a set of numbers that contains 0 and, with
each number, the next (`InductiveSet`): it takes none of the library's
theorems about operators.

**The backoff.** A sequence asks for a first wait before it asks for another, and
the first wait sets the memory to base: while any sequence is past its
first question, whatever others did, the memory is between base and maxDuration.
Three times such a value fits, by the hypothesis of the property, so its
conversion is exact. The other two properties follow from `AnswerInv`, by which the latest
answer is one that may be given to its question, and from what the operators compute.
`DecoratorsLengthen` goes over the decorators one by one: behind `WithRetryAfter`
nothing that lengthens loses the hint again. `FibonacciExact` goes over the pairs
of the loop: while the number that is asked for fits, so does every one before it,
so no addition wraps. `OverflowIsSeen` says that the two tests of `overflowsExp`
together are exactly that the product does not fit.

**The errors.** `Timeout` and `Kind` recurse over the layers of an error, so the length is
their rank. From their equations induction on length gives `ClassifiedByRoot`: every branch
that looks past a wrapper finds what it would have found without it, and
`url.Error`, which sends the classification into a second round, changes nothing.

**The builder.** `SentAsDescribed` speaks of what has been read and says nothing
while nothing has. `BuilderInv` follows the body on its way there: the last
setter's argument is in the field that it set, a reader is where it was when the
execution began until it is resolved, and from then on the request and its
`GetBody` are the described piece. The lemma that matters is `BufferedAll`:
reading one byte more than may be kept, and comparing with what may be kept, tells
a body that was read to its end from one that was not. `CleanInv` needs no
strengthening but where the headers of the request are. An error on its way up stays
well formed and keeps the kind of its origin, frame by frame, by `WrappingKeepsKind`.
`URLIsDescribed` is an induction over the order in which Go ranges over the
parameters: after each of them exactly its placeholders have been filled, because an
escaped value is never taken for a placeholder (`AllSubstituted`).

**The chain.** `ChainRunsBreaker` shows that every step of the chain is a step of the
breaker, or leaves it alone, so what is proved of the breaker's calls holds of
attempts. `BodiesReleased` needs where each body is: of the attempts of an operation
only the current one can have an open body, and what stage of which layer
has it. A stream publishes in order because the only call that may have a transition to publish is then the one
that is going on; it waits because what a server asked for is then over, or
in the window that the next operation reads. For the last two, an invariant says what became of the attempt that an operation
is at: its answer is what the transport gave that attempt, its result what Retry
made of it, and `OutcomeOf` and `TryAgain` judge the same answer.

Only model-checked:

- all liveness: fairness and ENABLED are beyond the proof system;
- the violated runs, whose counterexamples need no proof.

Every invariant and every action property that a passing run checks is a theorem.

## What is not modelled

- `New`, `Option` and `chain` build an immutable value once, before any request;
  that `Do` refuses a nil request is one line. `Chain` fixes the recommended order;
  other orders of the same middlewares are legal and not checked.
- `transport.go` sets fields of net/http's transport. `diagnostics.go` is a package
  variable that its documentation says to assign before anything is constructed.
  The report generator, the example and `doc.go` are not part of the library's
  behaviour.
- In `Chain`: attempt timeouts, `GetBody` failures, response bodies and the total
  budget (in `Retry` and `TimeoutRetry`), panics (in `CircuitBreaker`), backoff
  lengths (in `Backoff`), headers: attempt 0 uses the request itself, so that what an
  inner middleware adds to its headers is there when a later attempt clones it.
- In `RequestBuilder`: header and query values, encodings, URLs with a fragment
  (to which the query would be appended), `SetBodyBytes(nil)`.
- Errors that wrap several others, and the wording of `ClassifiedError`.
- `CircuitBreaker.State()` only reads. Data races are excluded by the mutexes and
  not looked for. The 256 KiB bound of draining and the parsing of headers are data
  nothing here depends on.

## Plan

1. Done: every component that keeps state or decides, alone and composed, and the
   theorems above.
2. Theorems still worth proving: that the other strategies are `OverflowSafe` wherever
   jitter cannot wrap, and the safety properties of the models below.
3. Models still worth writing: `Chain` with `Timeout` outside, and with a breaker that
   two chains share (`SharedCircuitBreaker`).
