--------------------------- MODULE CircuitBreaker ---------------------------
(***************************************************************************)
(* The circuit-breaker middleware of circuitbreaker.go.                    *)
(*                                                                         *)
(* Each element of Calls is one RoundTrip through circuitBreakerRoundTripper*)
(* on a goroutine of its own; all of them share one circuitBreaker, whether *)
(* they come from one client or, through SharedCircuitBreaker, from         *)
(* several.  tryAdmit and applyResult hold cb.mu and are atomic; between    *)
(* them the goroutine runs the OnStateChange callback, the next             *)
(* RoundTripper and IsFailure with the mutex released, and every other      *)
(* call and the clock may move.                                            *)
(***************************************************************************)
EXTENDS Integers, FiniteSets, Sequences

CONSTANTS
  Calls,                   \* the round trips that may be made
  CfgFailureThreshold,     \* CircuitBreakerConfig, as the caller wrote it
  CfgResetTimeout,
  CfgMaxHalfOpenRequests,
  CfgSuccessThreshold,
  FailureOutcomes,         \* the outcomes for which cfg.IsFailure is true
  Observed,                \* cfg.OnStateChange # nil
  TransportOutcomes,       \* what the next RoundTripper may produce
  MayPanic,                \* may the next RoundTripper or IsFailure panic?
  MaxConcurrent,           \* bound: calls in flight at one time
  MaxTime                  \* bound: last value of the clock

(***************************************************************************)
(* What next.RoundTrip returns, as far as a failure predicate can tell: a   *)
(* response below 500, one at or above it, an error that Classify puts in   *)
(* ErrKindCanceled, or any other error.                                    *)
(***************************************************************************)
Outcomes == {"response", "response5xx", "canceled", "error"}
ErrorOutcomes == {"canceled", "error"}

DefaultIsFailure(o) ==
  IF o \in ErrorOutcomes THEN o # "canceled" ELSE o = "response5xx"

DefaultFailures == {o \in Outcomes : DefaultIsFailure(o)}

ASSUME ConfigAssumption ==
  /\ IsFiniteSet(Calls)
  /\ CfgFailureThreshold \in Int
  /\ CfgResetTimeout \in Int
  /\ CfgMaxHalfOpenRequests \in Int
  /\ CfgSuccessThreshold \in Int
  /\ FailureOutcomes \subseteq Outcomes
  /\ TransportOutcomes \subseteq Outcomes
  /\ Observed \in BOOLEAN
  /\ MayPanic \in BOOLEAN
  /\ MaxConcurrent \in Nat
  /\ MaxTime \in Nat

\* newCircuitBreaker replaces every non-positive setting by its default.
OrDefault(v, default) == IF v <= 0 THEN default ELSE v

FailureThreshold    == OrDefault(CfgFailureThreshold, 5)
ResetTimeout        == OrDefault(CfgResetTimeout, 30)
MaxHalfOpenRequests == OrDefault(CfgMaxHalfOpenRequests, 1)
SuccessThreshold    == OrDefault(CfgSuccessThreshold, 1)

IsFailure(o) == o \in FailureOutcomes

-----------------------------------------------------------------------------
VARIABLES
  now,               \* the monotonic clock, in units of ResetTimeout's scale
  state,             \* the fields of circuitBreaker
  generation,
  failures,
  lastFailureTime,
  halfOpenInFlight,
  halfOpenSuccess,
  pc,                \* pc[c]: where the round trip c is
  gen,               \* gen[c]: the generation allowRequest returned to c
  outcome,           \* outcome[c]: what next.RoundTrip returned to c
  pending,           \* pending[c]: the stateTransition c has yet to publish
  published,         \* history: the OnStateChange invocations, in order
  episodes           \* history: the states the breaker went through, each
                     \* with the results counted in it, in order

breaker == <<state, generation, failures, lastFailureTime,
             halfOpenInFlight, halfOpenSuccess>>
history == <<published, episodes>>
vars == <<now, breaker, pc, gen, outcome, pending, history>>

CircuitStates == {"closed", "open", "halfOpen"}

(***************************************************************************)
(* The stages of a round trip: "publishing" and "reporting" run the         *)
(* OnStateChange callback after tryAdmit and after applyResult, "transport" *)
(* is inside next.RoundTrip, "returned" runs IsFailure and waits for cb.mu. *)
(***************************************************************************)
Stages == {"ready", "publishing", "transport", "returned", "reporting",
           "done", "rejected", "panicked"}

InFlight == {"publishing", "transport", "returned", "reporting"}

\* Admitted, and the result neither counted nor discarded yet.
Unsettled == {"publishing", "transport", "returned", "panicked"}

\* A transition carries, besides its two ends, the generation it began.
Transition == [from : CircuitStates, to : CircuitStates, opens : Nat]
NoTransition == [from |-> "closed", to |-> "closed", opens |-> 0]

Result == [call : Calls, failed : BOOLEAN]
Episode == [state : CircuitStates, results : Seq(Result)]

\* time.Time{}: further in the past than any ResetTimeout.
ZeroTime == 0 - ResetTimeout

Init ==
  /\ now = 0
  /\ state = "closed"
  /\ generation = 0
  /\ failures = 0
  /\ lastFailureTime = ZeroTime
  /\ halfOpenInFlight = 0
  /\ halfOpenSuccess = 0
  /\ pc = [c \in Calls |-> "ready"]
  /\ gen = [c \in Calls |-> 0]
  /\ outcome = [c \in Calls |-> "response"]
  /\ pending = [c \in Calls |-> NoTransition]
  /\ published = <<>>
  /\ episodes = <<[state |-> "closed", results |-> <<>>]>>

-----------------------------------------------------------------------------
\* Mutant: setState bumps the generation only when it leaves Open.
SetState_OpensInPlace(c, to, publishAt, resumeAt, log) ==
  /\ state' = to
  /\ generation' = IF to = "open" THEN generation ELSE generation + 1
  /\ episodes' = Append(log, [state |-> to, results |-> <<>>])
  /\ pc' = [pc EXCEPT ![c] = resumeAt]
  /\ UNCHANGED pending

(***************************************************************************)
(* setState, on behalf of call c, whose goroutine publishes the transition  *)
(* at stage `publishAt' and otherwise goes straight on to stage `resumeAt'. *)
(* log is the history of episodes up to the transition.                    *)
(***************************************************************************)
SetState(c, to, publishAt, resumeAt, log) ==
  /\ state' = to
  /\ generation' = generation + 1
  /\ episodes' = Append(log, [state |-> to, results |-> <<>>])
  /\ IF Observed
       THEN /\ pending' = [pending EXCEPT ![c] =
                  [from |-> state, to |-> to, opens |-> generation + 1]]
            /\ pc' = [pc EXCEPT ![c] = publishAt]
       ELSE /\ UNCHANGED pending
            /\ pc' = [pc EXCEPT ![c] = resumeAt]

-----------------------------------------------------------------------------
(* tryAdmit, one action per way through its switch.                         *)

CanStart(c) ==
  /\ pc[c] = "ready"
  /\ Cardinality({d \in Calls : pc[d] \in InFlight}) < MaxConcurrent

\* Mutant: the cool-down ends one tick early.
ResetElapsed_Early == now - lastFailureTime >= ResetTimeout - 1

ResetElapsed == now - lastFailureTime >= ResetTimeout

\* Mutant: one probe too many.
ProbeSlotFree_OneMore == halfOpenInFlight <= MaxHalfOpenRequests

ProbeSlotFree == halfOpenInFlight < MaxHalfOpenRequests

AdmitClosed(c) ==
  /\ CanStart(c)
  /\ state = "closed"
  /\ gen' = [gen EXCEPT ![c] = generation]
  /\ pc' = [pc EXCEPT ![c] = "transport"]
  /\ UNCHANGED <<now, breaker, outcome, pending, history>>

\* Mutant: allowRequest drops the transition of tryAdmit instead of publishing it.
AdmitFirstProbe_Unpublished(c) ==
  /\ CanStart(c)
  /\ state = "open"
  /\ ResetElapsed
  /\ SetState(c, "halfOpen", "transport", "transport", episodes)
  /\ halfOpenSuccess' = 0
  /\ halfOpenInFlight' = 1
  /\ gen' = [gen EXCEPT ![c] = generation + 1]
  /\ UNCHANGED <<now, failures, lastFailureTime, outcome, published>>

AdmitFirstProbe(c) ==
  /\ CanStart(c)
  /\ state = "open"
  /\ ResetElapsed
  /\ SetState(c, "halfOpen", "publishing", "transport", episodes)
  /\ halfOpenSuccess' = 0
  /\ halfOpenInFlight' = 1
  /\ gen' = [gen EXCEPT ![c] = generation + 1]
  /\ UNCHANGED <<now, failures, lastFailureTime, outcome, published>>

AdmitProbe(c) ==
  /\ CanStart(c)
  /\ state = "halfOpen"
  /\ ProbeSlotFree
  /\ halfOpenInFlight' = halfOpenInFlight + 1
  /\ gen' = [gen EXCEPT ![c] = generation]
  /\ pc' = [pc EXCEPT ![c] = "transport"]
  /\ UNCHANGED <<now, state, generation, failures, lastFailureTime,
                 halfOpenSuccess, outcome, pending, history>>

\* ErrCircuitOpen: the request body is closed and next is never called.
RejectOpen(c) ==
  /\ CanStart(c)
  /\ state = "open"
  /\ ~ResetElapsed
  /\ pc' = [pc EXCEPT ![c] = "rejected"]
  /\ gen' = [gen EXCEPT ![c] = generation]
  /\ UNCHANGED <<now, breaker, outcome, pending, history>>

RejectHalfOpen(c) ==
  /\ CanStart(c)
  /\ state = "halfOpen"
  /\ ~ProbeSlotFree
  /\ pc' = [pc EXCEPT ![c] = "rejected"]
  /\ gen' = [gen EXCEPT ![c] = generation]
  /\ UNCHANGED <<now, breaker, outcome, pending, history>>

-----------------------------------------------------------------------------
(* publish, and the calls out of the middleware.                            *)

\* OnStateChange runs on the goroutine that caused the transition, which
\* resumes at stage `next' when the callback returns.
Publish(c, at, next) ==
  /\ pc[c] = at
  /\ published' = Append(published, pending[c])
  /\ pending' = [pending EXCEPT ![c] = NoTransition]
  /\ pc' = [pc EXCEPT ![c] = next]
  /\ UNCHANGED <<now, breaker, gen, outcome, episodes>>

PublishAdmission(c) == Publish(c, "publishing", "transport")
PublishResult(c)    == Publish(c, "reporting", "done")

\* next.RoundTrip returns o.
TransportReturn(c, o) ==
  /\ pc[c] = "transport"
  /\ outcome' = [outcome EXCEPT ![c] = o]
  /\ pc' = [pc EXCEPT ![c] = "returned"]
  /\ UNCHANGED <<now, breaker, gen, pending, history>>

\* RoundTrip has no deferred recordResult: a panic in next.RoundTrip or in
\* IsFailure that is recovered further out skips it.
Panic(c) ==
  /\ MayPanic
  /\ pc[c] \in {"transport", "returned"}
  /\ pc' = [pc EXCEPT ![c] = "panicked"]
  /\ UNCHANGED <<now, breaker, gen, outcome, pending, history>>

-----------------------------------------------------------------------------
(* applyResult, one action per way through it.                              *)

\* Mutant: late results are counted too.
ResultCounts_AnyGeneration(c) == state # "open"

\* The generation under which c was admitted is still current.  The switch's
\* CircuitOpen case, which the code calls unreachable, ignores the result too.
ResultCounts(c) == gen[c] = generation /\ state # "open"

\* episodes, with the result of c counted in the current one.
Counted(c) ==
  [episodes EXCEPT ![Len(episodes)].results =
     Append(@, [call |-> c, failed |-> IsFailure(outcome[c])])]

DiscardResult(c) ==
  /\ pc[c] = "returned"
  /\ ~ResultCounts(c)
  /\ pc' = [pc EXCEPT ![c] = "done"]
  /\ UNCHANGED <<now, breaker, gen, outcome, pending, history>>

\* Mutant: a success does not reset the consecutive failures.
ClosedSuccess_KeepsFailures(c) ==
  /\ pc[c] = "returned"
  /\ ResultCounts(c)
  /\ state = "closed"
  /\ ~IsFailure(outcome[c])
  /\ pc' = [pc EXCEPT ![c] = "done"]
  /\ episodes' = Counted(c)
  /\ UNCHANGED <<now, breaker, gen, outcome, pending, published>>

\* recordClosedResult
ClosedSuccess(c) ==
  /\ pc[c] = "returned"
  /\ ResultCounts(c)
  /\ state = "closed"
  /\ ~IsFailure(outcome[c])
  /\ failures' = 0
  /\ pc' = [pc EXCEPT ![c] = "done"]
  /\ episodes' = Counted(c)
  /\ UNCHANGED <<now, state, generation, lastFailureTime, halfOpenInFlight,
                 halfOpenSuccess, gen, outcome, pending, published>>

ClosedFailure(c) ==
  /\ pc[c] = "returned"
  /\ ResultCounts(c)
  /\ state = "closed"
  /\ IsFailure(outcome[c])
  /\ failures' = failures + 1
  /\ lastFailureTime' = now
  /\ IF failures + 1 >= FailureThreshold
       THEN SetState(c, "open", "reporting", "done", Counted(c))
       ELSE /\ pc' = [pc EXCEPT ![c] = "done"]
            /\ episodes' = Counted(c)
            /\ UNCHANGED <<state, generation, pending>>
  /\ UNCHANGED <<now, halfOpenInFlight, halfOpenSuccess, gen, outcome, published>>

\* Mutants: a success frees every slot; a success frees none.
SlotReleased_All == halfOpenInFlight - MaxHalfOpenRequests
SlotReleased_None == halfOpenInFlight

\* recordHalfOpenResult
SlotReleased ==
  IF halfOpenInFlight > 0 THEN halfOpenInFlight - 1 ELSE halfOpenInFlight

HalfOpenFailure(c) ==
  /\ pc[c] = "returned"
  /\ ResultCounts(c)
  /\ state = "halfOpen"
  /\ IsFailure(outcome[c])
  /\ SetState(c, "open", "reporting", "done", Counted(c))
  /\ lastFailureTime' = now
  /\ failures' = FailureThreshold
  /\ halfOpenSuccess' = 0
  /\ halfOpenInFlight' = 0
  /\ UNCHANGED <<now, gen, outcome, published>>

HalfOpenSuccess(c) ==
  /\ pc[c] = "returned"
  /\ ResultCounts(c)
  /\ state = "halfOpen"
  /\ ~IsFailure(outcome[c])
  /\ IF halfOpenSuccess + 1 < SuccessThreshold
       THEN /\ halfOpenInFlight' = SlotReleased
            /\ halfOpenSuccess' = halfOpenSuccess + 1
            /\ pc' = [pc EXCEPT ![c] = "done"]
            /\ episodes' = Counted(c)
            /\ UNCHANGED <<state, generation, failures, pending>>
       ELSE /\ SetState(c, "closed", "reporting", "done", Counted(c))
            /\ failures' = 0
            /\ halfOpenSuccess' = 0
            /\ halfOpenInFlight' = 0
  /\ UNCHANGED <<now, lastFailureTime, gen, outcome, published>>

-----------------------------------------------------------------------------
Tick ==
  /\ now < MaxTime
  /\ now' = now + 1
  /\ UNCHANGED <<breaker, pc, gen, outcome, pending, history>>

\* The entry of a call: tryAdmit, one action per way through it.
TryAdmit(c) ==
  \/ AdmitClosed(c)
  \/ AdmitFirstProbe(c)
  \/ AdmitProbe(c)
  \/ RejectOpen(c)
  \/ RejectHalfOpen(c)

\* The steps the middleware itself owes once the transport has answered.
Continue(c) ==
  \/ PublishAdmission(c)
  \/ DiscardResult(c)
  \/ ClosedSuccess(c)
  \/ ClosedFailure(c)
  \/ HalfOpenSuccess(c)
  \/ HalfOpenFailure(c)
  \/ PublishResult(c)

Next ==
  \/ Tick
  \/ \E c \in Calls :
       \/ TryAdmit(c)
       \/ Continue(c)
       \/ Panic(c)
       \/ \E o \in TransportOutcomes : TransportReturn(c, o)

Spec == Init /\ [][Next]_vars

-----------------------------------------------------------------------------
(* Correctness.                                                            *)

\* Every variable keeps its type; in particular the clock readings and the
\* counters of circuitBreaker stay integers of the range the code expects.
TypeOK ==
  /\ now \in 0..MaxTime
  /\ state \in CircuitStates
  /\ generation \in Nat
  /\ failures \in Nat
  /\ lastFailureTime \in Int
  /\ halfOpenInFlight \in Nat
  /\ halfOpenSuccess \in Nat
  /\ pc \in [Calls -> Stages]
  /\ gen \in [Calls -> Nat]
  /\ outcome \in [Calls -> Outcomes]
  /\ pending \in [Calls -> Transition]
  /\ published \in Seq(Transition)
  /\ episodes \in Seq(Episode)

\* The calls whose results applyResult would still count.
Live == {c \in Calls : gen[c] = generation /\ pc[c] \in Unsettled}

\* halfOpenInFlight is exactly the number of probes of the current Half-Open
\* episode that have not reported, never above MaxHalfOpenRequests, and zero in
\* the other states: late results of earlier episodes neither free a slot
\* (line 202) nor does a transition leak one (lines 162, 211, 223).
ProbeAccounting ==
  IF state = "halfOpen"
    THEN /\ halfOpenInFlight = Cardinality(Live)
         /\ halfOpenInFlight <= MaxHalfOpenRequests
    ELSE halfOpenInFlight = 0

\* The claim of the comment in applyResult: no result that reaches the switch
\* finds the breaker Open, because nobody is admitted into an Open episode and
\* opening bumps the generation.
OpenHasNoLiveCalls == state = "open" => Live = {}

\* The results counted while the breaker was in generation g, oldest first.
ResultsOf(g) == episodes[g + 1].results

\* Each result is counted at most once, and only in the generation under which
\* its request was admitted: a slow request never moves a breaker that has
\* changed state since, not even one that came back to the same state.
StaleResultsDiscarded ==
  \A g \in 0..generation : \A i \in DOMAIN ResultsOf(g) :
    /\ gen[ResultsOf(g)[i].call] = g
    /\ \A j \in DOMAIN ResultsOf(g) :
         ResultsOf(g)[i].call = ResultsOf(g)[j].call => i = j

EndsInFailures(s, n) ==
  /\ Len(s) >= n
  /\ \A i \in (Len(s) - n + 1)..Len(s) : s[i].failed

AllSucceeded(s) == \A i \in DOMAIN s : ~s[i].failed

Front1(s) == SubSeq(s, 1, Len(s) - 1)

\* The breaker opened at the first run of FailureThreshold failures in a row.
TrippedBy(s) ==
  \A n \in 0..Len(s) :
    EndsInFailures(SubSeq(s, 1, n), FailureThreshold) <=> n = Len(s)

\* The breaker closed at the SuccessThreshold-th success, having seen no failure.
RecoveredBy(s) == Len(s) = SuccessThreshold /\ AllSucceeded(s)

\* The first failed probe reopened the breaker.
RelapsedBy(s) ==
  /\ s # <<>>
  /\ s[Len(s)].failed
  /\ AllSucceeded(Front1(s))
  /\ Len(s) <= SuccessThreshold

\* Every transition the breaker ever made was due, and none that was due was
\* missed: it opens at exactly FailureThreshold consecutive failures counted in
\* one Closed episode, closes at exactly SuccessThreshold successful probes of
\* one Half-Open episode, reopens at the first failed probe, and counts nothing
\* while Open.  The history decides this, not the counters.
EveryTransitionJustified ==
  /\ Len(episodes) = generation + 1
  /\ episodes[generation + 1].state = state
  /\ \A g \in 0..(generation - 1) :
       LET from == episodes[g + 1].state
           to   == episodes[g + 2].state
           s    == ResultsOf(g)
       IN  \/ from = "closed"   /\ to = "open"     /\ TrippedBy(s)
           \/ from = "open"     /\ to = "halfOpen" /\ s = <<>>
           \/ from = "halfOpen" /\ to = "closed"   /\ RecoveredBy(s)
           \/ from = "halfOpen" /\ to = "open"     /\ RelapsedBy(s)
  /\ LET s == ResultsOf(generation)
     IN  CASE state = "closed" ->
                \A n \in 0..Len(s) :
                  ~EndsInFailures(SubSeq(s, 1, n), FailureThreshold)
           [] state = "open" -> s = <<>>
           [] state = "halfOpen" -> AllSucceeded(s) /\ Len(s) < SuccessThreshold

\* With OnStateChange set, every transition has been published, or is about to
\* be by the call that caused it, and never twice: a transition that completes
\* within one request is not lost, however the requests interleave.
EachTransitionPublishedOnce ==
  LET toPublish == {c \in Calls : pc[c] \in {"publishing", "reporting"}}
      happened  == {[from  |-> episodes[g].state, to |-> episodes[g + 1].state,
                     opens |-> g] : g \in 1..generation}
  IN  /\ {published[i] : i \in DOMAIN published} \union {pending[c] : c \in toPublish}
           = happened
      /\ Len(published) + Cardinality(toPublish) = generation

\* "Transitions are published in order for a single request stream": the n-th
\* invocation of OnStateChange is for the n-th transition.
PublishedInOrder ==
  \A i \in DOMAIN published : published[i].opens = i

\* The breaker keeps its promises; results of earlier generations are stutters.
Contract == INSTANCE BreakerContract WITH
  Cooldown  <- ResetTimeout,
  MaxProbes <- MaxHalfOpenRequests,
  Never     <- ZeroTime,
  mode      <- state,
  live      <- Live,
  openSince <- IF state = "open" THEN lastFailureTime ELSE ZeroTime

\* Every step of the middleware is a step of BreakerContract or changes nothing
\* there: in particular the cool-down is counted from the failure that opened
\* the circuit, and no in-flight call of a past episode can postpone it.
ImplementsContract == Contract!Spec

\* As long as the transport answers, a Half-Open breaker with every slot taken
\* does not stay so: it never rejects everybody for good.
ProbeSlotsRelease ==
  (state = "halfOpen" /\ ~ProbeSlotFree) ~> (state # "halfOpen" \/ ProbeSlotFree)

\* "SuccessThreshold is the number of consecutive successful probes required in
\* Half-Open state to close the circuit" (CircuitBreakerConfig): a circuit that
\* closed did so on responses.
ClosesOnSuccessfulProbes ==
  \A g \in 0..(generation - 1) :
    episodes[g + 1].state = "halfOpen" /\ episodes[g + 2].state = "closed" =>
      \A i \in DOMAIN ResultsOf(g) : outcome[ResultsOf(g)[i].call] = "response"
=============================================================================
