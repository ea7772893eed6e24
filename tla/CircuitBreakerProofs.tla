----------------------- MODULE CircuitBreakerProofs -----------------------
(***************************************************************************)
(* Theorems about CircuitBreaker for every set of calls, every             *)
(* configuration and every failure predicate.                              *)
(***************************************************************************)
EXTENDS CircuitBreaker, FiniteSetTheorems, SequenceTheorems, TLAPS

\* The effective settings are positive whatever the caller wrote.
LEMMA EffectiveSettings ==
  /\ FailureThreshold \in Nat \ {0}
  /\ ResetTimeout \in Nat \ {0}
  /\ MaxHalfOpenRequests \in Nat \ {0}
  /\ SuccessThreshold \in Nat \ {0}
BY ConfigAssumption
   DEF OrDefault, FailureThreshold, ResetTimeout, MaxHalfOpenRequests,
       SuccessThreshold

\* Counting a result keeps the history of episodes well typed.
LEMMA CountedTyped ==
  ASSUME TypeOK, Len(episodes) = generation + 1, NEW c \in Calls
  PROVE  /\ Counted(c) \in Seq(Episode)
         /\ Len(Counted(c)) = Len(episodes)
         /\ \A g \in 1..generation : Counted(c)[g] = episodes[g]
         /\ Counted(c)[generation + 1].state = episodes[generation + 1].state
         /\ Counted(c)[generation + 1].results =
              Append(episodes[generation + 1].results,
                     [call |-> c, failed |-> IsFailure(outcome[c])])
<1> DEFINE n == Len(episodes)
           r == [call |-> c, failed |-> IsFailure(outcome[c])]
           e == [episodes[n] EXCEPT !.results = Append(@, r)]
<1>1. n \in 1..Len(episodes) /\ episodes \in Seq(Episode)
  BY DEF TypeOK
<1>2. episodes[n] \in Episode
  BY <1>1, ElementOfSeq
<1>3. r \in Result
  BY DEF Result, IsFailure
<1>4. e \in Episode
  <2>1. episodes[n].results \in Seq(Result)
    BY <1>2 DEF Episode
  <2>2. Append(episodes[n].results, r) \in Seq(Result)
    BY <1>3, <2>1, AppendProperties
  <2> HIDE DEF n, r
  <2> QED
    BY <1>2, <2>2 DEF Episode
<1>5. Counted(c) = [episodes EXCEPT ![n] = e]
  BY <1>1 DEF Counted
<1>6. e.state = episodes[n].state /\ e.results = Append(episodes[n].results, r)
  BY <1>2 DEF Episode
<1> HIDE DEF e, n, r
<1>7. /\ Counted(c) \in Seq(Episode)
      /\ Len(Counted(c)) = Len(episodes)
      /\ \A j \in 1..Len(episodes) :
           Counted(c)[j] = IF j = n THEN e ELSE episodes[j]
  BY <1>1, <1>4, <1>5, ExceptSeq
<1> QED
  BY <1>1, <1>6, <1>7 DEF n, r, TypeOK

-----------------------------------------------------------------------------
(* Type correctness.                                                       *)

\* What makes TypeOK inductive: Counted needs an episode for each generation.
Typed == TypeOK /\ Len(episodes) = generation + 1

\* setState preserves the types, provided its log is well typed.
LEMMA SetStateTyped ==
  ASSUME Typed, NEW c \in Calls, NEW to \in CircuitStates,
         NEW publishAt \in Stages, NEW resumeAt \in Stages,
         NEW log \in Seq(Episode), Len(log) = generation + 1,
         SetState(c, to, publishAt, resumeAt, log)
  PROVE  /\ state' \in CircuitStates
         /\ generation' \in Nat
         /\ generation' = generation + 1
         /\ pc' \in [Calls -> Stages]
         /\ pending' \in [Calls -> Transition]
         /\ episodes' \in Seq(Episode)
         /\ Len(episodes') = generation' + 1
<1> DEFINE new == [state |-> to, results |-> <<>>]
<1>1. new \in Episode
  BY DEF Episode
<1>2. episodes' = Append(log, new) /\ generation' = generation + 1 /\ state' = to
  BY DEF SetState
<1> HIDE DEF new
<1>3. Append(log, new) \in Seq(Episode) /\ Len(Append(log, new)) = Len(log) + 1
  BY <1>1, AppendProperties
<1>4. pc' \in [Calls -> Stages]
  BY DEF SetState, Typed, TypeOK
<1>5. pending' \in [Calls -> Transition]
  <2>1. [from |-> state, to |-> to, opens |-> generation + 1] \in Transition
    BY DEF Typed, TypeOK, Transition
  <2> QED
    BY <2>1 DEF SetState, Typed, TypeOK
<1> QED
  BY <1>2, <1>3, <1>4, <1>5 DEF Typed, TypeOK

LEMMA InitTyped == Init => Typed
<1> SUFFICES ASSUME Init PROVE Typed
  OBVIOUS
<1>1. [state |-> "closed", results |-> <<>>] \in Episode
  BY DEF Episode, CircuitStates
<1>2. episodes \in Seq(Episode) /\ Len(episodes) = 1
  BY <1>1 DEF Init
<1>3. lastFailureTime \in Int
  BY EffectiveSettings DEF Init, ZeroTime
<1> QED
  BY <1>2, <1>3, ConfigAssumption
     DEF Init, Typed, TypeOK, CircuitStates, Stages, Outcomes, Transition, NoTransition

LEMMA NextTyped == Typed /\ [Next]_vars => Typed'
<1> SUFFICES ASSUME Typed, [Next]_vars PROVE Typed'
  OBVIOUS
<1> USE DEF Typed
<1>1. CASE Tick
  BY <1>1, ConfigAssumption DEF Tick, TypeOK, breaker, history
<1>2. ASSUME NEW c \in Calls, TryAdmit(c) PROVE Typed'
  <2>1. CASE AdmitClosed(c)
    BY <2>1 DEF AdmitClosed, TypeOK, breaker, history, Stages
  <2>2. CASE AdmitFirstProbe(c)
    <3>1. SetState(c, "halfOpen", "publishing", "transport", episodes)
      BY <2>2 DEF AdmitFirstProbe
    <3>2. "halfOpen" \in CircuitStates /\ "publishing" \in Stages /\ "transport" \in Stages
      BY DEF CircuitStates, Stages
    <3>3. /\ state' \in CircuitStates /\ generation' \in Nat
          /\ pc' \in [Calls -> Stages] /\ pending' \in [Calls -> Transition]
          /\ episodes' \in Seq(Episode) /\ Len(episodes') = generation' + 1
      BY <3>1, <3>2, SetStateTyped DEF TypeOK
    <3>4. gen' \in [Calls -> Nat]
      BY <2>2 DEF AdmitFirstProbe, TypeOK
    <3> QED
      BY <2>2, <3>3, <3>4 DEF AdmitFirstProbe, TypeOK
  <2>3. CASE AdmitProbe(c)
    BY <2>3 DEF AdmitProbe, TypeOK, history, Stages
  <2>4. CASE RejectOpen(c)
    BY <2>4 DEF RejectOpen, TypeOK, breaker, history, Stages
  <2>5. CASE RejectHalfOpen(c)
    BY <2>5 DEF RejectHalfOpen, TypeOK, breaker, history, Stages
  <2> QED
    BY <1>2, <2>1, <2>2, <2>3, <2>4, <2>5 DEF TryAdmit
<1>3. ASSUME NEW c \in Calls, Continue(c) PROVE Typed'
  <2> DEFINE counted == Counted(c)
  <2>0. counted \in Seq(Episode) /\ Len(counted) = generation + 1
    BY CountedTyped
  <2>1. ASSUME NEW at \in Stages, NEW next \in Stages, Publish(c, at, next) PROVE Typed'
    <3>1. published' \in Seq(Transition)
      BY <2>1, AppendProperties DEF Publish, TypeOK
    <3>2. pending' \in [Calls -> Transition]
      BY <2>1 DEF Publish, TypeOK, Transition, NoTransition, CircuitStates
    <3> QED
      BY <2>1, <3>1, <3>2 DEF Publish, TypeOK, breaker
  <2>2. CASE PublishAdmission(c)
    BY <2>1, <2>2 DEF PublishAdmission, Stages
  <2>3. CASE PublishResult(c)
    BY <2>1, <2>3 DEF PublishResult, Stages
  <2>4. CASE DiscardResult(c)
    BY <2>4 DEF DiscardResult, TypeOK, breaker, history, Stages
  <2>5. CASE ClosedSuccess(c)
    BY <2>0, <2>5 DEF ClosedSuccess, TypeOK, Stages
  <2>6. CASE ClosedFailure(c)
    <3>1. CASE failures + 1 >= FailureThreshold
      <4>1. SetState(c, "open", "reporting", "done", counted)
        BY <2>6, <3>1 DEF ClosedFailure
      <4>2. "open" \in CircuitStates /\ "reporting" \in Stages /\ "done" \in Stages
        BY DEF CircuitStates, Stages
      <4> HIDE DEF counted
      <4>3. /\ state' \in CircuitStates /\ generation' \in Nat
            /\ pc' \in [Calls -> Stages] /\ pending' \in [Calls -> Transition]
            /\ episodes' \in Seq(Episode) /\ Len(episodes') = generation' + 1
        BY <2>0, <4>1, <4>2, SetStateTyped
      <4>4. lastFailureTime' \in Int /\ failures' \in Nat
        BY <2>6, ConfigAssumption DEF ClosedFailure, TypeOK
      <4>5. UNCHANGED <<now, halfOpenInFlight, halfOpenSuccess, gen, outcome, published>>
        BY <2>6 DEF ClosedFailure
      <4> QED
        BY <4>3, <4>4, <4>5 DEF TypeOK
    <3>2. CASE ~(failures + 1 >= FailureThreshold)
      <4>1. /\ pc' = [pc EXCEPT ![c] = "done"]
            /\ episodes' = counted
            /\ UNCHANGED <<state, generation, pending>>
        BY <2>6, <3>2 DEF ClosedFailure
      <4>2. UNCHANGED <<now, halfOpenInFlight, halfOpenSuccess, gen, outcome, published>>
        BY <2>6 DEF ClosedFailure
      <4>3. lastFailureTime' \in Int /\ failures' \in Nat
        BY <2>6, ConfigAssumption DEF ClosedFailure, TypeOK
      <4> HIDE DEF counted
      <4> QED
        BY <2>0, <4>1, <4>2, <4>3 DEF TypeOK, Stages
    <3> QED
      BY <3>1, <3>2
  <2>7. CASE HalfOpenFailure(c)
    <3>1. SetState(c, "open", "reporting", "done", counted)
      BY <2>7 DEF HalfOpenFailure
    <3>2. "open" \in CircuitStates /\ "reporting" \in Stages /\ "done" \in Stages
      BY DEF CircuitStates, Stages
    <3> HIDE DEF counted
    <3>3. /\ state' \in CircuitStates /\ generation' \in Nat
          /\ pc' \in [Calls -> Stages] /\ pending' \in [Calls -> Transition]
          /\ episodes' \in Seq(Episode) /\ Len(episodes') = generation' + 1
      BY <2>0, <3>1, <3>2, SetStateTyped
    <3> QED
      BY <2>7, <3>3, EffectiveSettings DEF HalfOpenFailure, TypeOK
  <2>8. CASE HalfOpenSuccess(c)
    <3>1. CASE halfOpenSuccess + 1 < SuccessThreshold
      BY <2>0, <2>8, <3>1 DEF HalfOpenSuccess, SlotReleased, TypeOK, Stages
    <3>2. CASE ~(halfOpenSuccess + 1 < SuccessThreshold)
      <4>1. SetState(c, "closed", "reporting", "done", counted)
        BY <2>8, <3>2 DEF HalfOpenSuccess
      <4>2. "closed" \in CircuitStates /\ "reporting" \in Stages /\ "done" \in Stages
        BY DEF CircuitStates, Stages
      <4> HIDE DEF counted
      <4>3. /\ state' \in CircuitStates /\ generation' \in Nat
            /\ pc' \in [Calls -> Stages] /\ pending' \in [Calls -> Transition]
            /\ episodes' \in Seq(Episode) /\ Len(episodes') = generation' + 1
        BY <2>0, <4>1, <4>2, SetStateTyped
      <4> QED
        BY <2>8, <3>2, <4>3 DEF HalfOpenSuccess, TypeOK
    <3> QED
      BY <3>1, <3>2
  <2> QED
    BY <1>3, <2>2, <2>3, <2>4, <2>5, <2>6, <2>7, <2>8 DEF Continue
<1>4. ASSUME NEW c \in Calls, Panic(c) PROVE Typed'
  BY <1>4 DEF Panic, TypeOK, breaker, history, Stages
<1>5. ASSUME NEW c \in Calls, NEW o \in TransportOutcomes, TransportReturn(c, o) PROVE Typed'
  BY <1>5, ConfigAssumption DEF TransportReturn, TypeOK, breaker, history, Stages
<1>6. CASE UNCHANGED vars
  BY <1>6 DEF vars, breaker, history, TypeOK
<1> QED
  BY <1>1, <1>2, <1>3, <1>4, <1>5, <1>6 DEF Next

\* TypeOK holds in every reachable state of every instance.
THEOREM TypeCorrect == Spec => []TypeOK
<1>1. Typed => TypeOK
  BY DEF Typed
<1> QED
  BY <1>1, InitTyped, NextTyped, PTL DEF Spec

-----------------------------------------------------------------------------
(* Accounting for the calls in flight.                                     *)

\* Nobody carries a generation the breaker has not reached.
GenerationsReached == \A c \in Calls : gen[c] <= generation

\* The inductive invariant: opening has to find no live call, and a probe slot
\* has to be given to a call that is not live yet, for the slots to add up.
BreakerInv ==
  /\ Typed
  /\ GenerationsReached
  /\ ProbeAccounting
  /\ OpenHasNoLiveCalls

LEMMA LiveFinite == IsFiniteSet(Live) /\ Cardinality(Live) \in Nat
<1>1. Live \subseteq Calls
  BY DEF Live
<1> QED
  BY <1>1, ConfigAssumption, FS_Subset, FS_CardinalityType

\* A transition leaves every call admitted before it behind.
LEMMA TransitionForgets ==
  ASSUME Typed, GenerationsReached, generation' = generation + 1, gen' = gen
  PROVE  Live' = {}
BY DEF Live, Typed, TypeOK, GenerationsReached

\* How each kind of step changes the set of live calls.
LEMMA EnteringIsNew ==
  ASSUME Typed, NEW c \in Calls, pc[c] = "ready"
  PROVE  c \notin Live
BY DEF Live, Unsettled

LEMMA AdmissionAddsOne ==
  ASSUME Typed, NEW c \in Calls, generation' = generation,
         gen' = [gen EXCEPT ![c] = generation],
         pc' = [pc EXCEPT ![c] = "transport"]
  PROVE  Live' = Live \union {c}
BY DEF Live, Unsettled, Typed, TypeOK

LEMMA SettlingRemovesOne ==
  ASSUME Typed, NEW c \in Calls, generation' = generation, gen' = gen,
         pc' = [pc EXCEPT ![c] = "done"]
  PROVE  Live' = Live \ {c}
BY DEF Live, Unsettled, Typed, TypeOK

LEMMA RejectionAddsNone ==
  ASSUME Typed, NEW c \in Calls, pc[c] = "ready", generation' = generation,
         gen' = [gen EXCEPT ![c] = generation],
         pc' = [pc EXCEPT ![c] = "rejected"]
  PROVE  Live' = Live
BY DEF Live, Unsettled, Typed, TypeOK

LEMMA MovingKeepsLive ==
  ASSUME Typed, NEW c \in Calls, NEW to \in Unsettled, pc[c] \in Unsettled,
         generation' = generation, gen' = gen, pc' = [pc EXCEPT ![c] = to]
  PROVE  Live' = Live
BY DEF Live, Unsettled, Typed, TypeOK

\* A call whose result counts is live.
LEMMA CountedIsLive ==
  ASSUME NEW c \in Calls, pc[c] = "returned", ResultCounts(c)
  PROVE  c \in Live
BY DEF Live, Unsettled, ResultCounts

LEMMA FirstProbeIsAlone ==
  ASSUME Typed, GenerationsReached, NEW c \in Calls, AdmitFirstProbe(c)
  PROVE  Live' = {c}
<1>1. /\ generation' = generation + 1
      /\ gen' = [gen EXCEPT ![c] = generation + 1]
  BY DEF AdmitFirstProbe, SetState
<1>2. \E to \in {"publishing", "transport"} : pc' = [pc EXCEPT ![c] = to]
  BY DEF AdmitFirstProbe, SetState
<1> QED
  BY <1>1, <1>2 DEF Live, Unsettled, Typed, TypeOK, GenerationsReached

LEMMA DiscardIsNotLive ==
  ASSUME OpenHasNoLiveCalls, NEW c \in Calls, DiscardResult(c)
  PROVE  c \notin Live
BY DEF DiscardResult, OpenHasNoLiveCalls, ResultCounts, Live

LEMMA InitBreakerInv == Init => BreakerInv
<1> SUFFICES ASSUME Init PROVE BreakerInv
  OBVIOUS
<1> QED
  BY InitTyped DEF Init, BreakerInv, GenerationsReached, ProbeAccounting,
     OpenHasNoLiveCalls

\* What each step does to the live calls and to the probe slots.
LEMMA NextBreakerInv == BreakerInv /\ [Next]_vars => BreakerInv'
<1> SUFFICES ASSUME BreakerInv, [Next]_vars PROVE BreakerInv'
  OBVIOUS
<1> DEFINE Inv == GenerationsReached /\ ProbeAccounting /\ OpenHasNoLiveCalls
<1>0. Typed' /\ Typed /\ GenerationsReached /\ ProbeAccounting /\ OpenHasNoLiveCalls
  BY NextTyped DEF BreakerInv
<1>a. SUFFICES Inv'
  BY <1>0 DEF BreakerInv
<1>1. ASSUME UNCHANGED <<state, generation, halfOpenInFlight, gen>>, Live' = Live
      PROVE  Inv'
  BY <1>0, <1>1 DEF GenerationsReached, ProbeAccounting, OpenHasNoLiveCalls
<1>2. ASSUME NEW c \in Calls, generation' = generation + 1, gen' = gen,
             state' # "halfOpen", halfOpenInFlight' = 0
      PROVE  Inv'
  <2>1. Live' = {}
    BY <1>0, <1>2, TransitionForgets
  <2> QED
    BY <1>0, <1>2, <2>1
       DEF GenerationsReached, ProbeAccounting, OpenHasNoLiveCalls, Typed, TypeOK
<1>3. CASE Tick
  BY <1>1, <1>3 DEF Tick, breaker, Live
<1>4. ASSUME NEW c \in Calls, TryAdmit(c) PROVE Inv'
  <2>1. CASE AdmitClosed(c)
    <3>1. UNCHANGED <<state, generation, halfOpenInFlight>> /\ state = "closed"
      BY <2>1 DEF AdmitClosed, breaker
    <3>2. gen' = [gen EXCEPT ![c] = generation]
      BY <2>1 DEF AdmitClosed
    <3> QED
      BY <1>0, <3>1, <3>2
         DEF GenerationsReached, ProbeAccounting, OpenHasNoLiveCalls, Typed, TypeOK
  <2>2. CASE AdmitFirstProbe(c)
    <3>1. Live' = {c}
      BY <1>0, <2>2, FirstProbeIsAlone
    <3>2. /\ state' = "halfOpen" /\ halfOpenInFlight' = 1
          /\ generation' = generation + 1
          /\ gen' = [gen EXCEPT ![c] = generation + 1]
      BY <2>2 DEF AdmitFirstProbe, SetState
    <3>3. Cardinality({c}) = 1
      BY FS_Singleton
    <3> QED
      BY <1>0, <3>1, <3>2, <3>3, EffectiveSettings
         DEF GenerationsReached, ProbeAccounting, OpenHasNoLiveCalls, Typed, TypeOK
  <2>3. CASE AdmitProbe(c)
    <3>1. /\ UNCHANGED <<state, generation>> /\ state = "halfOpen"
          /\ halfOpenInFlight' = halfOpenInFlight + 1
          /\ halfOpenInFlight < MaxHalfOpenRequests
          /\ gen' = [gen EXCEPT ![c] = generation]
          /\ pc' = [pc EXCEPT ![c] = "transport"]
          /\ pc[c] = "ready"
      BY <2>3 DEF AdmitProbe, CanStart, ProbeSlotFree
    <3>2. Live' = Live \union {c} /\ c \notin Live
      BY <1>0, <3>1, AdmissionAddsOne, EnteringIsNew
    <3>3. Cardinality(Live') = Cardinality(Live) + 1
      BY <3>2, LiveFinite, FS_AddElement
    <3> QED
      BY <1>0, <3>1, <3>3, EffectiveSettings
         DEF GenerationsReached, ProbeAccounting, OpenHasNoLiveCalls, Typed, TypeOK
  <2>4. ASSUME RejectOpen(c) \/ RejectHalfOpen(c) PROVE Inv'
    <3>1. /\ UNCHANGED <<state, generation, halfOpenInFlight>>
          /\ gen' = [gen EXCEPT ![c] = generation]
          /\ pc' = [pc EXCEPT ![c] = "rejected"]
          /\ pc[c] = "ready"
      BY <2>4 DEF RejectOpen, RejectHalfOpen, CanStart, breaker
    <3>2. Live' = Live
      BY <1>0, <3>1, RejectionAddsNone
    <3> QED
      BY <1>0, <3>1, <3>2
         DEF GenerationsReached, ProbeAccounting, OpenHasNoLiveCalls, Typed, TypeOK
  <2> QED
    BY <1>4, <2>1, <2>2, <2>3, <2>4 DEF TryAdmit
<1>5. ASSUME NEW c \in Calls, Continue(c) PROVE Inv'
  <2>1. CASE PublishAdmission(c)
    <3>1. /\ UNCHANGED <<state, generation, halfOpenInFlight, gen>>
          /\ pc[c] = "publishing" /\ pc' = [pc EXCEPT ![c] = "transport"]
      BY <2>1 DEF PublishAdmission, Publish, breaker
    <3>2. Live' = Live
      BY <1>0, <3>1, MovingKeepsLive DEF Unsettled
    <3> QED
      BY <1>1, <3>1, <3>2
  <2>2. CASE PublishResult(c)
    <3>1. /\ UNCHANGED <<state, generation, halfOpenInFlight, gen>>
          /\ pc[c] = "reporting" /\ pc' = [pc EXCEPT ![c] = "done"]
      BY <2>2 DEF PublishResult, Publish, breaker
    <3>2. Live' = Live
      BY <1>0, <3>1, SettlingRemovesOne DEF Live, Unsettled
    <3> QED
      BY <1>1, <3>1, <3>2
  <2>3. CASE DiscardResult(c)
    <3>1. /\ UNCHANGED <<state, generation, halfOpenInFlight, gen>>
          /\ pc' = [pc EXCEPT ![c] = "done"]
      BY <2>3 DEF DiscardResult, breaker
    <3>2. Live' = Live
      BY <1>0, <2>3, <3>1, SettlingRemovesOne, DiscardIsNotLive
    <3> QED
      BY <1>1, <3>1, <3>2
  <2>4. CASE ClosedSuccess(c)
    BY <1>0, <2>4
       DEF ClosedSuccess, GenerationsReached, ProbeAccounting, OpenHasNoLiveCalls
  <2>5. CASE ClosedFailure(c)
    <3>1. CASE failures + 1 >= FailureThreshold
      <4>1. generation' = generation + 1 /\ state' = "open"
        BY <2>5, <3>1 DEF ClosedFailure, SetState
      <4>2. gen' = gen /\ halfOpenInFlight' = halfOpenInFlight /\ state = "closed"
        BY <2>5 DEF ClosedFailure
      <4>3. halfOpenInFlight' = 0
        BY <1>0, <4>2 DEF ProbeAccounting
      <4> QED
        BY <1>2, <4>1, <4>2, <4>3
    <3>2. CASE ~(failures + 1 >= FailureThreshold)
      <4>1. UNCHANGED <<state, generation>>
        BY <2>5, <3>2 DEF ClosedFailure
      <4>2. gen' = gen /\ halfOpenInFlight' = halfOpenInFlight /\ state = "closed"
        BY <2>5 DEF ClosedFailure
      <4> QED
        BY <1>0, <4>1, <4>2
           DEF GenerationsReached, ProbeAccounting, OpenHasNoLiveCalls
    <3> QED
      BY <3>1, <3>2
  <2>6. CASE HalfOpenFailure(c)
    BY <1>2, <2>6 DEF HalfOpenFailure, SetState
  <2>7. CASE HalfOpenSuccess(c)
    <3>1. CASE halfOpenSuccess + 1 < SuccessThreshold
      <4>1. /\ UNCHANGED <<state, generation, gen>>
            /\ halfOpenInFlight' = SlotReleased
            /\ pc' = [pc EXCEPT ![c] = "done"]
            /\ state = "halfOpen"
        BY <2>7, <3>1 DEF HalfOpenSuccess
      <4>2. c \in Live
        BY <2>7, CountedIsLive DEF HalfOpenSuccess
      <4>3. Live' = Live \ {c}
        BY <1>0, <4>1, SettlingRemovesOne
      <4>4. Cardinality(Live') = Cardinality(Live) - 1
        BY <4>2, <4>3, LiveFinite, FS_RemoveElement
      <4>5. Cardinality(Live) > 0
        BY <4>2, LiveFinite, FS_EmptySet
      <4> QED
        BY <1>0, <4>1, <4>4, <4>5, EffectiveSettings
           DEF SlotReleased, GenerationsReached, ProbeAccounting,
               OpenHasNoLiveCalls, Typed, TypeOK
    <3>2. CASE ~(halfOpenSuccess + 1 < SuccessThreshold)
      <4>1. /\ generation' = generation + 1 /\ state' = "closed"
            /\ halfOpenInFlight' = 0 /\ gen' = gen
        BY <2>7, <3>2 DEF HalfOpenSuccess, SetState
      <4> QED
        BY <1>2, <4>1
    <3> QED
      BY <3>1, <3>2
  <2> QED
    BY <1>5, <2>1, <2>2, <2>3, <2>4, <2>5, <2>6, <2>7 DEF Continue
<1>6. ASSUME NEW c \in Calls,
             Panic(c) \/ \E o \in TransportOutcomes : TransportReturn(c, o)
      PROVE  Inv'
  <2>1. /\ UNCHANGED <<state, generation, halfOpenInFlight, gen>>
        /\ pc[c] \in Unsettled
        /\ \E to \in Unsettled : pc' = [pc EXCEPT ![c] = to]
    BY <1>6 DEF Panic, TransportReturn, Unsettled, breaker
  <2>2. Live' = Live
    BY <1>0, <2>1, MovingKeepsLive
  <2> QED
    BY <1>1, <2>1, <2>2
<1>7. CASE UNCHANGED vars
  BY <1>1, <1>7 DEF vars, breaker, Live
<1> QED
  BY <1>3, <1>4, <1>5, <1>6, <1>7 DEF Next

LEMMA BreakerInvariant == Spec => []BreakerInv
BY InitBreakerInv, NextBreakerInv, PTL DEF Spec

\* However many requests run at once, halfOpenInFlight counts the probes that
\* are out, never more than MaxHalfOpenRequests of them.
THEOREM ProbesAccountedFor == Spec => []ProbeAccounting
<1>1. BreakerInv => ProbeAccounting
  BY DEF BreakerInv
<1> QED
  BY <1>1, BreakerInvariant, PTL

\* The CircuitOpen case of applyResult is unreachable, as its comment claims.
THEOREM OpenCaseUnreachable == Spec => []OpenHasNoLiveCalls
<1>1. BreakerInv => OpenHasNoLiveCalls
  BY DEF BreakerInv
<1> QED
  BY <1>1, BreakerInvariant, PTL

-----------------------------------------------------------------------------
(* The breaker implements BreakerContract.                                 *)

\* The value openSince has in the contract.
OpenSince == IF state = "open" THEN lastFailureTime ELSE ZeroTime

\* A step that moves neither the clock, nor the state, nor the live calls, nor
\* an opening time, is a stutter of the contract.
LEMMA ContractStutter ==
  ASSUME UNCHANGED <<now, state>>, Live' = Live, OpenSince' = OpenSince
  PROVE  UNCHANGED Contract!vars
BY DEF Contract!vars, OpenSince

LEMMA InitContract == Init => Contract!Init
<1> SUFFICES ASSUME Init PROVE Contract!Init
  OBVIOUS
<1>1. Live = {}
  BY DEF Init, Live, Unsettled
<1> QED
  BY <1>1 DEF Init, Contract!Init

LEMMA NextContract ==
  BreakerInv /\ [Next]_vars => [Contract!Next]_(Contract!vars)
<1> SUFFICES ASSUME BreakerInv, [Next]_vars
             PROVE  Contract!Next \/ UNCHANGED Contract!vars
  OBVIOUS
<1>0. Typed /\ GenerationsReached /\ ProbeAccounting /\ OpenHasNoLiveCalls
  BY DEF BreakerInv
<1>1. CASE Tick
  <2>1. Live' = Live /\ now' = now + 1 /\ UNCHANGED <<state, lastFailureTime>>
    BY <1>1 DEF Tick, Live, breaker
  <2> QED
    BY <2>1 DEF Contract!Next, Contract!Tick
<1>2. ASSUME NEW c \in Calls, TryAdmit(c)
      PROVE  Contract!Next \/ UNCHANGED Contract!vars
  <2>1. CASE AdmitClosed(c)
    <3>1. /\ UNCHANGED <<now, state, generation>> /\ state = "closed"
          /\ gen' = [gen EXCEPT ![c] = generation]
          /\ pc' = [pc EXCEPT ![c] = "transport"] /\ pc[c] = "ready"
      BY <2>1 DEF AdmitClosed, CanStart, breaker
    <3>2. Live' = Live \union {c} /\ c \notin Live
      BY <1>0, <3>1, AdmissionAddsOne, EnteringIsNew
    <3>3. Contract!Admit(c)
      BY <3>1, <3>2 DEF Contract!Admit
    <3> QED
      BY <3>3 DEF Contract!Next
  <2>2. CASE AdmitFirstProbe(c)
    <3>1. Live' = {c}
      BY <1>0, <2>2, FirstProbeIsAlone
    <3>2. /\ state = "open" /\ state' = "halfOpen" /\ now' = now
          /\ now - lastFailureTime >= ResetTimeout
      BY <2>2 DEF AdmitFirstProbe, SetState, ResetElapsed
    <3>3. Contract!BeginProbing(c)
      BY <3>1, <3>2 DEF Contract!BeginProbing, ZeroTime
    <3> QED
      BY <3>3 DEF Contract!Next
  <2>3. CASE AdmitProbe(c)
    <3>1. /\ UNCHANGED <<now, state, generation>> /\ state = "halfOpen"
          /\ halfOpenInFlight < MaxHalfOpenRequests
          /\ gen' = [gen EXCEPT ![c] = generation]
          /\ pc' = [pc EXCEPT ![c] = "transport"] /\ pc[c] = "ready"
      BY <2>3 DEF AdmitProbe, CanStart, ProbeSlotFree
    <3>2. Live' = Live \union {c} /\ c \notin Live
      BY <1>0, <3>1, AdmissionAddsOne, EnteringIsNew
    <3>3. Cardinality(Live) < MaxHalfOpenRequests
      BY <1>0, <3>1 DEF ProbeAccounting
    <3>4. Contract!Probe(c)
      BY <3>1, <3>2, <3>3, LiveFinite, EffectiveSettings
         DEF Contract!Probe, Contract!Cardinality, Cardinality
    <3> QED
      BY <3>4 DEF Contract!Next
  <2>4. ASSUME RejectOpen(c) \/ RejectHalfOpen(c) PROVE UNCHANGED Contract!vars
    <3>1. /\ UNCHANGED <<now, state, generation, lastFailureTime>>
          /\ gen' = [gen EXCEPT ![c] = generation]
          /\ pc' = [pc EXCEPT ![c] = "rejected"] /\ pc[c] = "ready"
      BY <2>4 DEF RejectOpen, RejectHalfOpen, CanStart, breaker
    <3>2. Live' = Live
      BY <1>0, <3>1, RejectionAddsNone
    <3> QED
      BY <3>1, <3>2, ContractStutter DEF OpenSince
  <2> QED
    BY <1>2, <2>1, <2>2, <2>3, <2>4 DEF TryAdmit
<1>3. ASSUME NEW c \in Calls, Continue(c)
      PROVE  Contract!Next \/ UNCHANGED Contract!vars
  <2>1. CASE PublishAdmission(c)
    <3>1. /\ UNCHANGED <<now, state, generation, lastFailureTime, gen>>
          /\ pc[c] = "publishing" /\ pc' = [pc EXCEPT ![c] = "transport"]
      BY <2>1 DEF PublishAdmission, Publish, breaker
    <3>2. Live' = Live
      BY <1>0, <3>1, MovingKeepsLive DEF Unsettled
    <3> QED
      BY <3>1, <3>2, ContractStutter DEF OpenSince
  <2>2. CASE PublishResult(c)
    <3>1. /\ UNCHANGED <<now, state, generation, lastFailureTime, gen>>
          /\ pc[c] = "reporting" /\ pc' = [pc EXCEPT ![c] = "done"]
      BY <2>2 DEF PublishResult, Publish, breaker
    <3>2. Live' = Live
      BY <1>0, <3>1, SettlingRemovesOne DEF Live, Unsettled
    <3> QED
      BY <3>1, <3>2, ContractStutter DEF OpenSince
  <2>3. CASE DiscardResult(c)
    <3>1. /\ UNCHANGED <<now, state, generation, lastFailureTime, gen>>
          /\ pc' = [pc EXCEPT ![c] = "done"]
      BY <2>3 DEF DiscardResult, breaker
    <3>2. Live' = Live
      BY <1>0, <2>3, <3>1, SettlingRemovesOne, DiscardIsNotLive
    <3> QED
      BY <3>1, <3>2, ContractStutter DEF OpenSince
  <2>4. CASE ClosedSuccess(c)
    <3>1. /\ UNCHANGED <<now, state, generation, lastFailureTime, gen>>
          /\ pc' = [pc EXCEPT ![c] = "done"]
      BY <2>4 DEF ClosedSuccess
    <3>2. c \in Live /\ Live' = Live \ {c}
      BY <1>0, <2>4, <3>1, CountedIsLive, SettlingRemovesOne DEF ClosedSuccess
    <3>3. Contract!Settle(c)
      BY <3>1, <3>2 DEF Contract!Settle
    <3> QED
      BY <3>3 DEF Contract!Next
  <2>5. CASE ClosedFailure(c)
    <3>1. state = "closed" /\ lastFailureTime' = now /\ now' = now /\ gen' = gen
      BY <2>5 DEF ClosedFailure
    <3>2. c \in Live
      BY <2>5, CountedIsLive DEF ClosedFailure
    <3>3. CASE failures + 1 >= FailureThreshold
      <4>1. generation' = generation + 1 /\ state' = "open"
        BY <2>5, <3>3 DEF ClosedFailure, SetState
      <4>2. Live' = {}
        BY <1>0, <3>1, <4>1, TransitionForgets
      <4>3. Contract!Trip(c)
        BY <3>1, <3>2, <4>1, <4>2 DEF Contract!Trip
      <4> QED
        BY <4>3 DEF Contract!Next
    <3>4. CASE ~(failures + 1 >= FailureThreshold)
      <4>1. UNCHANGED <<state, generation>> /\ pc' = [pc EXCEPT ![c] = "done"]
        BY <2>5, <3>4 DEF ClosedFailure
      <4>2. Live' = Live \ {c}
        BY <1>0, <3>1, <4>1, SettlingRemovesOne
      <4>3. Contract!Settle(c)
        BY <3>1, <3>2, <4>1, <4>2 DEF Contract!Settle
      <4> QED
        BY <4>3 DEF Contract!Next
    <3> QED
      BY <3>3, <3>4
  <2>6. CASE HalfOpenFailure(c)
    <3>1. /\ state = "halfOpen" /\ state' = "open" /\ lastFailureTime' = now
          /\ now' = now /\ gen' = gen /\ generation' = generation + 1
      BY <2>6 DEF HalfOpenFailure, SetState
    <3>2. c \in Live
      BY <2>6, CountedIsLive DEF HalfOpenFailure
    <3>3. Live' = {}
      BY <1>0, <3>1, TransitionForgets
    <3>4. Contract!Trip(c)
      BY <3>1, <3>2, <3>3 DEF Contract!Trip
    <3> QED
      BY <3>4 DEF Contract!Next
  <2>7. CASE HalfOpenSuccess(c)
    <3>1. /\ state = "halfOpen" /\ lastFailureTime' = lastFailureTime
          /\ now' = now /\ gen' = gen
      BY <2>7 DEF HalfOpenSuccess
    <3>2. c \in Live
      BY <2>7, CountedIsLive DEF HalfOpenSuccess
    <3>3. CASE halfOpenSuccess + 1 < SuccessThreshold
      <4>1. UNCHANGED <<state, generation>> /\ pc' = [pc EXCEPT ![c] = "done"]
        BY <2>7, <3>3 DEF HalfOpenSuccess
      <4>2. Live' = Live \ {c}
        BY <1>0, <3>1, <4>1, SettlingRemovesOne
      <4>3. Contract!Settle(c)
        BY <3>1, <3>2, <4>1, <4>2 DEF Contract!Settle
      <4> QED
        BY <4>3 DEF Contract!Next
    <3>4. CASE ~(halfOpenSuccess + 1 < SuccessThreshold)
      <4>1. generation' = generation + 1 /\ state' = "closed"
        BY <2>7, <3>4 DEF HalfOpenSuccess, SetState
      <4>2. Live' = {}
        BY <1>0, <3>1, <4>1, TransitionForgets
      <4>3. Contract!Recover(c)
        BY <3>1, <3>2, <4>1, <4>2 DEF Contract!Recover
      <4> QED
        BY <4>3 DEF Contract!Next
    <3> QED
      BY <3>3, <3>4
  <2> QED
    BY <1>3, <2>1, <2>2, <2>3, <2>4, <2>5, <2>6, <2>7 DEF Continue
<1>4. ASSUME NEW c \in Calls,
             Panic(c) \/ \E o \in TransportOutcomes : TransportReturn(c, o)
      PROVE  UNCHANGED Contract!vars
  <2>1. /\ UNCHANGED <<now, state, generation, lastFailureTime, gen>>
        /\ pc[c] \in Unsettled
        /\ \E to \in Unsettled : pc' = [pc EXCEPT ![c] = to]
    BY <1>4 DEF Panic, TransportReturn, Unsettled, breaker
  <2>2. Live' = Live
    BY <1>0, <2>1, MovingKeepsLive
  <2> QED
    BY <2>1, <2>2, ContractStutter DEF OpenSince
<1>5. CASE UNCHANGED vars
  <2>1. UNCHANGED <<now, state, lastFailureTime>> /\ Live' = Live
    BY <1>5 DEF vars, breaker, Live
  <2> QED
    BY <2>1, ContractStutter DEF OpenSince
<1> QED
  BY <1>1, <1>2, <1>3, <1>4, <1>5 DEF Next

\* The middleware implements BreakerContract: an open circuit admits nobody
\* before ResetTimeout has passed since the failure that opened it, then no more
\* than MaxHalfOpenRequests at once, and only calls of the current episode
\* change its state.
THEOREM BreakerImplementsContract == Spec => ImplementsContract
<1>1. Init => Contract!Init
  BY InitContract
<1>2. BreakerInv /\ [Next]_vars => [Contract!Next]_(Contract!vars)
  BY NextContract
<1> QED
  BY <1>1, <1>2, BreakerInvariant, PTL
     DEF Spec, ImplementsContract, Contract!Spec

-----------------------------------------------------------------------------
(* The history of the results: which were counted, where, and to what end. *)

\* What applyResult adds to the current episode on behalf of c, and the episode
\* that setState begins.
Verdict(c) == [call |-> c, failed |-> IsFailure(outcome[c])]
NewEpisode(to) == [state |-> to, results |-> <<>>]

LEMMA VerdictTyped == ASSUME NEW c \in Calls PROVE Verdict(c) \in Result
BY DEF Verdict, Result, IsFailure

LEMMA ResultsTyped ==
  ASSUME Typed, NEW g \in 0..generation
  PROVE  /\ g + 1 \in 1..Len(episodes)
         /\ episodes[g + 1] \in Episode
         /\ ResultsOf(g) \in Seq(Result)
<1>1. g + 1 \in 1..Len(episodes) /\ episodes \in Seq(Episode)
  BY DEF Typed, TypeOK
<1>2. episodes[g + 1] \in Episode
  BY <1>1, ElementOfSeq
<1> QED
  BY <1>1, <1>2 DEF ResultsOf, Episode

\* Counting a result adds it to the current episode and changes no other.
LEMMA CountedShape ==
  ASSUME Typed, NEW c \in Calls
  PROVE  /\ Counted(c) \in Seq(Episode) /\ Len(Counted(c)) = generation + 1
         /\ \A g \in 0..(generation - 1) : Counted(c)[g + 1] = episodes[g + 1]
         /\ Counted(c)[generation + 1].state = episodes[generation + 1].state
         /\ Counted(c)[generation + 1].results = Append(ResultsOf(generation), Verdict(c))
<1>1. generation \in Nat /\ Len(episodes) = generation + 1
  BY DEF Typed, TypeOK
<1>2. /\ Counted(c) \in Seq(Episode)
      /\ Len(Counted(c)) = Len(episodes)
      /\ \A g \in 1..generation : Counted(c)[g] = episodes[g]
      /\ Counted(c)[generation + 1].state = episodes[generation + 1].state
      /\ Counted(c)[generation + 1].results
           = Append(episodes[generation + 1].results, Verdict(c))
  BY CountedTyped DEF Typed, Verdict
<1>3. \A g \in 0..(generation - 1) : g + 1 \in 1..generation
  BY <1>1
<1> QED
  BY <1>1, <1>2, <1>3 DEF ResultsOf

\* A transition leaves the log behind it as it is and begins an empty episode.
LEMMA TransitionAppends ==
  ASSUME Typed, NEW to \in CircuitStates, NEW log \in Seq(Episode),
         Len(log) = generation + 1, episodes' = Append(log, NewEpisode(to))
  PROVE  /\ \A g \in 0..generation : episodes'[g + 1] = log[g + 1]
         /\ episodes'[generation + 2] = NewEpisode(to)
<1>1. generation \in Nat
  BY DEF Typed, TypeOK
<1>2. NewEpisode(to) \in Episode
  BY DEF NewEpisode, Episode
<1>3. /\ \A i \in 1..Len(log) : episodes'[i] = log[i]
      /\ episodes'[Len(log) + 1] = NewEpisode(to)
  BY <1>2, AppendProperties
<1>4. \A g \in 0..generation : g + 1 \in 1..Len(log)
  BY <1>1
<1>5. Len(log) + 1 = generation + 2
  BY <1>1
<1> QED
  BY <1>3, <1>4, <1>5

\* Each result of s was counted once, in generation g, for a call that was
\* admitted in it and that applyResult is through with.
Settled == {"reporting", "done"}

CountedOnce(s, g, gens, stages) ==
  \A i \in DOMAIN s :
    /\ gens[s[i].call] = g
    /\ stages[s[i].call] \in Settled
    /\ \A j \in DOMAIN s : s[i].call = s[j].call => i = j

\* The inductive invariant behind StaleResultsDiscarded: a call that has not
\* settled has no result in the history yet, so counting it cannot be a repeat.
CountedInv == \A g \in 0..generation : CountedOnce(ResultsOf(g), g, gen, pc)

LEMMA CountedOnceEmpty == \A g, gens, stages : CountedOnce(<<>>, g, gens, stages)
<1>1. DOMAIN <<>> = {}
  OBVIOUS
<1> QED
  BY <1>1 DEF CountedOnce

\* A call that has settled keeps its generation and stays settled.
LEMMA SettledStay ==
  ASSUME Typed, [Next]_vars
  PROVE  \A d \in Calls : pc[d] \in Settled => pc'[d] \in Settled /\ gen'[d] = gen[d]
<1> USE DEF Typed, TypeOK, Settled
<1>1. CASE Tick
  BY <1>1 DEF Tick
<1>2. ASSUME NEW c \in Calls, TryAdmit(c)
      PROVE  \A d \in Calls : pc[d] \in Settled => pc'[d] \in Settled /\ gen'[d] = gen[d]
  <2>1. pc[c] = "ready"
    BY <1>2 DEF TryAdmit, AdmitClosed, AdmitFirstProbe, AdmitProbe, RejectOpen,
                RejectHalfOpen, CanStart
  <2>2. \A d \in Calls \ {c} : pc'[d] = pc[d] /\ gen'[d] = gen[d]
    BY <1>2 DEF TryAdmit, AdmitClosed, AdmitFirstProbe, AdmitProbe, RejectOpen,
                RejectHalfOpen, SetState
  <2> QED
    BY <2>1, <2>2
<1>3. ASSUME NEW c \in Calls, Continue(c)
      PROVE  \A d \in Calls : pc[d] \in Settled => pc'[d] \in Settled /\ gen'[d] = gen[d]
  <2>1. gen' = gen /\ (pc[c] \in Settled => pc'[c] \in Settled)
    BY <1>3 DEF Continue, PublishAdmission, PublishResult, Publish, DiscardResult,
                ClosedSuccess, ClosedFailure, HalfOpenSuccess, HalfOpenFailure
  <2>2. \A d \in Calls \ {c} : pc'[d] = pc[d]
    BY <1>3 DEF Continue, PublishAdmission, PublishResult, Publish, DiscardResult,
                ClosedSuccess, ClosedFailure, HalfOpenSuccess, HalfOpenFailure, SetState
  <2> QED
    BY <2>1, <2>2
<1>4. ASSUME NEW c \in Calls,
             Panic(c) \/ \E o \in TransportOutcomes : TransportReturn(c, o)
      PROVE  \A d \in Calls : pc[d] \in Settled => pc'[d] \in Settled /\ gen'[d] = gen[d]
  BY <1>4 DEF Panic, TransportReturn
<1>5. CASE UNCHANGED vars
  BY <1>5 DEF vars
<1> QED
  BY <1>1, <1>2, <1>3, <1>4, <1>5 DEF Next

\* Results that were counted once remain so while settled calls stay settled ...
LEMMA StillCountedOnce ==
  ASSUME NEW s \in Seq(Result), NEW g, CountedOnce(s, g, gen, pc),
         \A d \in Calls : pc[d] \in Settled => pc'[d] \in Settled /\ gen'[d] = gen[d]
  PROVE  CountedOnce(s, g, gen', pc')
<1>1. \A i \in DOMAIN s : s[i].call \in Calls
  <2>1. \A i \in DOMAIN s : s[i] \in Result
    BY LenProperties, ElementOfSeq
  <2> QED
    BY <2>1 DEF Result
<1> QED
  BY <1>1 DEF CountedOnce

\* ... and so does the result of a call that has just settled, counted last.
LEMMA OneMoreCounted ==
  ASSUME NEW s \in Seq(Result), NEW r \in Result, NEW g,
         CountedOnce(s, g, gen, pc), gen' = gen, gen[r.call] = g,
         pc[r.call] \notin Settled, pc'[r.call] \in Settled,
         \A d \in Calls : pc[d] \in Settled => pc'[d] \in Settled
  PROVE  CountedOnce(Append(s, r), g, gen', pc')
<1> DEFINE n == Len(s)
           t == Append(s, r)
<1>1. /\ n \in Nat /\ DOMAIN s = 1..n
      /\ DOMAIN t = 1..(n + 1)
      /\ \A i \in 1..n : t[i] = s[i]
      /\ t[n + 1] = r
  BY AppendProperties, LenProperties
<1>2. \A i \in 1..n : s[i].call \in Calls /\ pc[s[i].call] \in Settled
  <2>1. \A i \in 1..n : s[i] \in Result
    BY ElementOfSeq
  <2> QED
    BY <1>1, <2>1 DEF CountedOnce, Result
<1> HIDE DEF n, t
<1>3. \A i \in 1..(n + 1) : i \in 1..n \/ i = n + 1
  BY <1>1
<1>4. CountedOnce(t, g, gen', pc')
  BY <1>1, <1>2, <1>3 DEF CountedOnce
<1> QED
  BY <1>4 DEF t

\* A step of applyResult that counts the result of c.
Counts(c) ==
  /\ pc[c] = "returned"
  /\ gen[c] = generation
  /\ state # "open"
  /\ gen' = gen
  /\ pc'[c] \in Settled

\* The ways in which a step can extend the history of episodes: not at all, by a
\* result, by a result and a transition, or by the transition of tryAdmit.
LEMMA HistorySteps ==
  ASSUME Typed, [Next]_vars
  PROVE  \/ UNCHANGED <<state, generation, episodes>>
         \/ \E c \in Calls : /\ Counts(c)
                             /\ UNCHANGED <<state, generation>>
                             /\ episodes' = Counted(c)
         \/ \E c \in Calls, to \in CircuitStates :
              /\ Counts(c)
              /\ state' = to /\ generation' = generation + 1
              /\ episodes' = Append(Counted(c), NewEpisode(to))
         \/ /\ state = "open" /\ state' = "halfOpen" /\ generation' = generation + 1
            /\ episodes' = Append(episodes, NewEpisode("halfOpen"))
<1> DEFINE Goal ==
     \/ UNCHANGED <<state, generation, episodes>>
     \/ \E c \in Calls : /\ Counts(c)
                         /\ UNCHANGED <<state, generation>>
                         /\ episodes' = Counted(c)
     \/ \E c \in Calls, to \in CircuitStates :
          /\ Counts(c)
          /\ state' = to /\ generation' = generation + 1
          /\ episodes' = Append(Counted(c), NewEpisode(to))
     \/ /\ state = "open" /\ state' = "halfOpen" /\ generation' = generation + 1
        /\ episodes' = Append(episodes, NewEpisode("halfOpen"))
<1> SUFFICES Goal
  OBVIOUS
<1>0. pc \in [Calls -> Stages]
  BY DEF Typed, TypeOK
<1>1. CASE Tick
  BY <1>1 DEF Tick, breaker, history
<1>2. ASSUME NEW c \in Calls, TryAdmit(c) PROVE Goal
  BY <1>2 DEF TryAdmit, AdmitClosed, AdmitFirstProbe, AdmitProbe, RejectOpen,
              RejectHalfOpen, SetState, NewEpisode, breaker, history
<1>3. ASSUME NEW c \in Calls, Continue(c) PROVE Goal
  <2> DEFINE Counting == /\ pc[c] = "returned" /\ gen[c] = generation
                         /\ state # "open" /\ gen' = gen
  <2>1. CASE PublishAdmission(c) \/ PublishResult(c) \/ DiscardResult(c)
    BY <2>1 DEF PublishAdmission, PublishResult, Publish, DiscardResult, breaker, history
  <2>2. ASSUME NEW to \in CircuitStates, Counting,
               SetState(c, to, "reporting", "done", Counted(c))
        PROVE  Goal
    <3>1. pc'[c] \in Settled
      BY <1>0, <2>2 DEF SetState, Settled
    <3>2. /\ state' = to /\ generation' = generation + 1
          /\ episodes' = Append(Counted(c), NewEpisode(to))
      BY <2>2 DEF SetState, NewEpisode
    <3> QED
      BY <2>2, <3>1, <3>2 DEF Counts
  <2>3. ASSUME Counting, pc' = [pc EXCEPT ![c] = "done"], episodes' = Counted(c),
               UNCHANGED <<state, generation>>
        PROVE  Goal
    BY <1>0, <2>3 DEF Counts, Settled
  <2>4. CASE ClosedSuccess(c)
    BY <2>3, <2>4 DEF ClosedSuccess, ResultCounts
  <2>5. CASE ClosedFailure(c)
    BY <2>2, <2>3, <2>5 DEF ClosedFailure, ResultCounts, CircuitStates
  <2>6. CASE HalfOpenSuccess(c)
    BY <2>2, <2>3, <2>6 DEF HalfOpenSuccess, ResultCounts, CircuitStates
  <2>7. CASE HalfOpenFailure(c)
    BY <2>2, <2>7 DEF HalfOpenFailure, ResultCounts, CircuitStates
  <2> QED
    BY <1>3, <2>1, <2>4, <2>5, <2>6, <2>7 DEF Continue
<1>4. ASSUME NEW c \in Calls,
             Panic(c) \/ \E o \in TransportOutcomes : TransportReturn(c, o)
      PROVE  Goal
  BY <1>4 DEF Panic, TransportReturn, breaker, history
<1>5. CASE UNCHANGED vars
  BY <1>5 DEF vars, breaker, history
<1> QED
  BY <1>1, <1>2, <1>3, <1>4, <1>5 DEF Next

LEMMA InitCounted == Init => CountedInv
<1> SUFFICES ASSUME Init PROVE CountedInv
  OBVIOUS
<1>1. \A g \in 0..generation : ResultsOf(g) = <<>>
  BY DEF Init, ResultsOf
<1> QED
  BY <1>1, CountedOnceEmpty DEF CountedInv

LEMMA NextCounted == Typed /\ CountedInv /\ [Next]_vars => CountedInv'
<1> SUFFICES ASSUME Typed, CountedInv, [Next]_vars PROVE CountedInv'
  OBVIOUS
<1>1. \A d \in Calls : pc[d] \in Settled => pc'[d] \in Settled /\ gen'[d] = gen[d]
  BY SettledStay
<1>2. \A g \in 0..generation : CountedOnce(ResultsOf(g), g, gen', pc')
  BY <1>1, ResultsTyped, StillCountedOnce DEF CountedInv
<1>3. generation \in Nat
  BY DEF Typed, TypeOK
<1>4. ASSUME NEW c \in Calls, Counts(c)
      PROVE  CountedOnce(Append(ResultsOf(generation), Verdict(c)), generation, gen', pc')
  <2>1. CountedOnce(ResultsOf(generation), generation, gen, pc)
    BY <1>3 DEF CountedInv
  <2>2. ResultsOf(generation) \in Seq(Result)
    BY <1>3, ResultsTyped
  <2>3. Verdict(c) \in Result /\ Verdict(c).call = c
    BY VerdictTyped DEF Verdict
  <2>4. gen' = gen /\ gen[c] = generation /\ pc[c] \notin Settled /\ pc'[c] \in Settled
    BY <1>4 DEF Counts, Settled
  <2> QED
    BY <1>1, <2>1, <2>2, <2>3, <2>4, OneMoreCounted
<1>5. CASE UNCHANGED <<state, generation, episodes>>
  BY <1>2, <1>5 DEF CountedInv, ResultsOf
<1>6. ASSUME NEW c \in Calls, Counts(c), UNCHANGED <<state, generation>>,
             episodes' = Counted(c)
      PROVE  CountedInv'
  <2>1. \A g \in 0..(generation - 1) : ResultsOf(g)' = ResultsOf(g)
    BY <1>6, CountedShape DEF ResultsOf
  <2>2. ResultsOf(generation)' = Append(ResultsOf(generation), Verdict(c))
    BY <1>6, CountedShape DEF ResultsOf
  <2>3. \A g \in 0..generation' : CountedOnce(ResultsOf(g)', g, gen', pc')
    <3> SUFFICES ASSUME NEW g \in 0..generation'
                 PROVE  CountedOnce(ResultsOf(g)', g, gen', pc')
      OBVIOUS
    <3>1. CASE g = generation
      BY <1>4, <1>6, <2>2, <3>1
    <3>2. CASE g \in 0..(generation - 1)
      BY <1>2, <1>3, <2>1, <3>2
    <3> QED
      BY <1>3, <1>6, <3>1, <3>2
  <2> QED
    BY <2>3 DEF CountedInv
<1>7. ASSUME NEW to \in CircuitStates, NEW log \in Seq(Episode), Len(log) = generation + 1,
             generation' = generation + 1, episodes' = Append(log, NewEpisode(to)),
             \A g \in 0..generation : CountedOnce(log[g + 1].results, g, gen', pc')
      PROVE  CountedInv'
  <2>1. /\ \A g \in 0..generation : ResultsOf(g)' = log[g + 1].results
        /\ \A g : g = generation + 1 => ResultsOf(g)' = <<>>
    <3>1. /\ \A g \in 0..generation : episodes'[g + 1] = log[g + 1]
          /\ episodes'[generation + 2] = NewEpisode(to)
      BY <1>7, TransitionAppends
    <3>2. (generation + 1) + 1 = generation + 2
      BY <1>3
    <3> QED
      BY <3>1, <3>2 DEF ResultsOf, NewEpisode
  <2>2. \A g \in 0..generation' : CountedOnce(ResultsOf(g)', g, gen', pc')
    <3> SUFFICES ASSUME NEW g \in 0..generation'
                 PROVE  CountedOnce(ResultsOf(g)', g, gen', pc')
      OBVIOUS
    <3>1. CASE g \in 0..generation
      BY <1>7, <2>1, <3>1
    <3>2. CASE g = generation + 1
      BY <2>1, <3>2, CountedOnceEmpty
    <3> QED
      BY <1>3, <1>7, <3>1, <3>2
  <2> QED
    BY <2>2 DEF CountedInv
<1>8. ASSUME NEW c \in Calls, NEW to \in CircuitStates, Counts(c),
             generation' = generation + 1, episodes' = Append(Counted(c), NewEpisode(to))
      PROVE  CountedInv'
  <2>1. \A g \in 0..generation : CountedOnce(Counted(c)[g + 1].results, g, gen', pc')
    <3> SUFFICES ASSUME NEW g \in 0..generation
                 PROVE  CountedOnce(Counted(c)[g + 1].results, g, gen', pc')
      OBVIOUS
    <3>1. CASE g = generation
      BY <1>4, <1>8, <3>1, CountedShape
    <3>2. CASE g \in 0..(generation - 1)
      BY <1>2, <3>2, CountedShape DEF ResultsOf
    <3> QED
      BY <1>3, <3>1, <3>2
  <2> QED
    BY <1>7, <1>8, <2>1, CountedShape
<1>9. CASE /\ state = "open" /\ state' = "halfOpen" /\ generation' = generation + 1
           /\ episodes' = Append(episodes, NewEpisode("halfOpen"))
  <2>1. episodes \in Seq(Episode) /\ Len(episodes) = generation + 1
    BY DEF Typed, TypeOK
  <2> QED
    BY <1>2, <1>7, <1>9, <2>1 DEF ResultsOf, CircuitStates
<1> QED
  BY <1>5, <1>6, <1>8, <1>9, HistorySteps

\* No late result moves a breaker that has changed state since, and no result is
\* counted twice, for any number of calls, any thresholds and any predicate.
THEOREM LateResultsDiscarded == Spec => []StaleResultsDiscarded
<1>1. Typed /\ CountedInv => StaleResultsDiscarded
  BY ResultsTyped DEF CountedInv, CountedOnce, StaleResultsDiscarded
<1> QED
  BY <1>1, InitTyped, NextTyped, InitCounted, NextCounted, PTL DEF Spec

-----------------------------------------------------------------------------
(* The counters against the history.                                       *)

\* The run of k failures that ends at position n of s.
RunEndsAt(s, n, k) == n >= k /\ \A i \in (n - k + 1)..n : s[i].failed

\* What the counters say of the results s of the current episode: failures is
\* the length of the run of failures at its end, halfOpenSuccess the number of
\* successful probes; and nothing in s was due to end the episode.
TallyClosed(f, s) ==
  /\ f <= Len(s)
  /\ f < FailureThreshold
  /\ \A i \in (Len(s) - f + 1)..Len(s) : s[i].failed
  /\ f < Len(s) => ~s[Len(s) - f].failed
  /\ \A n \in 0..Len(s) : ~RunEndsAt(s, n, FailureThreshold)

TallyHalfOpen(h, s) == h = Len(s) /\ h < SuccessThreshold /\ AllSucceeded(s)

LEMMA AppendedResult ==
  ASSUME NEW s \in Seq(Result), NEW r \in Result
  PROVE  /\ Append(s, r) \in Seq(Result)
         /\ Len(Append(s, r)) = Len(s) + 1
         /\ Len(s) \in Nat
         /\ \A i \in 1..Len(s) : Append(s, r)[i] = s[i]
         /\ Append(s, r)[Len(s) + 1] = r
         /\ DOMAIN s = 1..Len(s)
         /\ DOMAIN Append(s, r) = 1..(Len(s) + 1)
BY AppendProperties, LenProperties

\* EndsInFailures, of a prefix, without the prefix.
LEMMA RunOfPrefix ==
  ASSUME NEW s \in Seq(Result), NEW n \in 0..Len(s), NEW k \in Nat \ {0}
  PROVE  EndsInFailures(SubSeq(s, 1, n), k) <=> RunEndsAt(s, n, k)
<1> DEFINE p == SubSeq(s, 1, n)
<1>1. Len(s) \in Nat /\ n \in Nat
  BY LenProperties
<1>2. \A i \in 1..n : s[i] \in Result
  BY <1>1, ElementOfSeq
<1>3. Len(p) = n /\ \A i \in 1..n : p[i] = s[i]
  <2>1. /\ Len(p) = IF 1 <= n THEN n - 1 + 1 ELSE 0
        /\ \A i \in 1..(n - 1 + 1) : p[i] = s[1 + i - 1]
    BY <1>1, <1>2, SubSeqProperties
  <2> HIDE DEF p
  <2> QED
    BY <1>1, <2>1
<1> HIDE DEF p
<1>4. n >= k => \A i \in (n - k + 1)..n : i \in 1..n
  BY <1>1
<1>5. EndsInFailures(p, k) <=> RunEndsAt(s, n, k)
  BY <1>3, <1>4 DEF EndsInFailures, RunEndsAt
<1> QED
  BY <1>5 DEF p

\* A run that ends before the last result is that of the results before it.
LEMMA RunBeforeLast ==
  ASSUME NEW s \in Seq(Result), NEW r \in Result, NEW n \in 0..Len(s),
         NEW k \in Nat \ {0}
  PROVE  RunEndsAt(Append(s, r), n, k) <=> RunEndsAt(s, n, k)
<1>1. n >= k => \A i \in (n - k + 1)..n : i \in 1..Len(s)
  BY LenProperties
<1> QED
  BY <1>1, AppendedResult DEF RunEndsAt

\* A success ends the run ...
LEMMA ClosedTallySuccess ==
  ASSUME NEW s \in Seq(Result), NEW r \in Result, NEW f \in Nat,
         TallyClosed(f, s), ~r.failed
  PROVE  TallyClosed(0, Append(s, r))
<1> DEFINE t == Append(s, r)
<1>1. Len(s) \in Nat /\ Len(t) = Len(s) + 1 /\ t[Len(s) + 1] = r
  BY AppendedResult
<1>2. \A n \in 0..Len(s) : ~RunEndsAt(t, n, FailureThreshold)
  BY RunBeforeLast, EffectiveSettings DEF TallyClosed
<1> HIDE DEF t
<1>3. ~RunEndsAt(t, Len(t), FailureThreshold)
  BY <1>1, EffectiveSettings DEF RunEndsAt
<1>4. \A n \in 0..Len(t) : n \in 0..Len(s) \/ n = Len(t)
  BY <1>1
<1>5. \A n \in 0..Len(t) : ~RunEndsAt(t, n, FailureThreshold)
  BY <1>2, <1>3, <1>4
<1>6. 0 < Len(t) => ~t[Len(t) - 0].failed
  BY <1>1
<1>7. TallyClosed(0, t)
  BY <1>1, <1>5, <1>6, EffectiveSettings DEF TallyClosed
<1> QED
  BY <1>7 DEF t

\* ... a failure makes it one longer ...
LEMMA RunGrows ==
  ASSUME NEW s \in Seq(Result), NEW r \in Result, NEW f \in Nat,
         TallyClosed(f, s), r.failed
  PROVE  LET t == Append(s, r)
         IN  /\ Len(t) = Len(s) + 1
             /\ \A i \in (Len(t) - (f + 1) + 1)..Len(t) : t[i].failed
             /\ f + 1 <= Len(t)
             /\ f + 1 < Len(t) => ~t[Len(t) - (f + 1)].failed
             /\ \A n \in 0..Len(s) : ~RunEndsAt(t, n, FailureThreshold)
<1> DEFINE t == Append(s, r)
<1>1. /\ Len(s) \in Nat /\ Len(t) = Len(s) + 1 /\ t[Len(s) + 1] = r
      /\ \A i \in 1..Len(s) : t[i] = s[i]
  BY AppendedResult
<1>2. \A n \in 0..Len(s) : ~RunEndsAt(t, n, FailureThreshold)
  BY RunBeforeLast, EffectiveSettings DEF TallyClosed
<1> HIDE DEF t
<1>3. \A i \in (Len(t) - (f + 1) + 1)..Len(t) : t[i].failed
  <2> SUFFICES ASSUME NEW i \in (Len(t) - (f + 1) + 1)..Len(t) PROVE t[i].failed
    OBVIOUS
  <2>1. CASE i = Len(s) + 1
    BY <1>1, <2>1
  <2>2. CASE i # Len(s) + 1
    <3>1. i \in (Len(s) - f + 1)..Len(s) /\ i \in 1..Len(s)
      BY <1>1, <2>2 DEF TallyClosed
    <3> QED
      BY <1>1, <3>1 DEF TallyClosed
  <2> QED
    BY <2>1, <2>2
<1>4. f + 1 < Len(t) => ~t[Len(t) - (f + 1)].failed
  <2> SUFFICES ASSUME f + 1 < Len(t) PROVE ~t[Len(t) - (f + 1)].failed
    OBVIOUS
  <2>1. f < Len(s) /\ Len(t) - (f + 1) = Len(s) - f /\ Len(s) - f \in 1..Len(s)
    BY <1>1
  <2>2. ~s[Len(s) - f].failed
    BY <2>1 DEF TallyClosed
  <2> QED
    BY <1>1, <2>1, <2>2
<1>5. f + 1 <= Len(t)
  BY <1>1 DEF TallyClosed
<1> QED
  BY <1>1, <1>2, <1>3, <1>4, <1>5 DEF t

\* ... below the threshold ...
LEMMA ClosedTallyFailure ==
  ASSUME NEW s \in Seq(Result), NEW r \in Result, NEW f \in Nat,
         TallyClosed(f, s), r.failed, f + 1 < FailureThreshold
  PROVE  TallyClosed(f + 1, Append(s, r))
<1> DEFINE t == Append(s, r)
<1>1. /\ Len(s) \in Nat /\ Len(t) = Len(s) + 1
      /\ \A i \in (Len(t) - (f + 1) + 1)..Len(t) : t[i].failed
      /\ f + 1 <= Len(t)
      /\ f + 1 < Len(t) => ~t[Len(t) - (f + 1)].failed
      /\ \A n \in 0..Len(s) : ~RunEndsAt(t, n, FailureThreshold)
  BY RunGrows, LenProperties
<1> HIDE DEF t
<1>2. ~RunEndsAt(t, Len(t), FailureThreshold)
  <2> SUFFICES ASSUME RunEndsAt(t, Len(t), FailureThreshold) PROVE FALSE
    OBVIOUS
  <2>1. f + 1 < Len(t)
    BY <1>1, EffectiveSettings DEF RunEndsAt
  <2>2. Len(t) - (f + 1) \in (Len(t) - FailureThreshold + 1)..Len(t)
    BY <1>1, EffectiveSettings
  <2> QED
    BY <1>1, <2>1, <2>2 DEF RunEndsAt
<1>3. \A n \in 0..Len(t) : n \in 0..Len(s) \/ n = Len(t)
  BY <1>1
<1>4. TallyClosed(f + 1, t)
  BY <1>1, <1>2, <1>3 DEF TallyClosed
<1> QED
  BY <1>4 DEF t

\* ... or up to it, which trips the breaker at the first moment it could.
LEMMA Trips ==
  ASSUME NEW s \in Seq(Result), NEW r \in Result, NEW f \in Nat,
         TallyClosed(f, s), r.failed, f + 1 >= FailureThreshold
  PROVE  TrippedBy(Append(s, r))
<1> DEFINE t == Append(s, r)
<1>1. /\ Len(s) \in Nat /\ Len(t) = Len(s) + 1
      /\ \A i \in (Len(t) - (f + 1) + 1)..Len(t) : t[i].failed
      /\ f + 1 <= Len(t)
      /\ \A n \in 0..Len(s) : ~RunEndsAt(t, n, FailureThreshold)
  BY RunGrows, LenProperties
<1>2. t \in Seq(Result)
  BY AppendedResult
<1> HIDE DEF t
<1>3. f + 1 = FailureThreshold
  BY EffectiveSettings DEF TallyClosed
<1>4. RunEndsAt(t, Len(t), FailureThreshold)
  BY <1>1, <1>3 DEF RunEndsAt
<1>5. \A n \in 0..Len(t) : RunEndsAt(t, n, FailureThreshold) <=> n = Len(t)
  <2>1. \A n \in 0..Len(t) : (n \in 0..Len(s) /\ n # Len(t)) \/ n = Len(t)
    BY <1>1
  <2> QED
    BY <1>1, <1>4, <2>1
<1>6. \A n \in 0..Len(t) :
        EndsInFailures(SubSeq(t, 1, n), FailureThreshold)
          <=> RunEndsAt(t, n, FailureThreshold)
  BY <1>2, RunOfPrefix, EffectiveSettings
<1>7. TrippedBy(t)
  BY <1>5, <1>6 DEF TrippedBy
<1> QED
  BY <1>7 DEF t

\* The probes of a Half-Open episode: one more success ...
LEMMA AllSucceededGrows ==
  ASSUME NEW s \in Seq(Result), NEW r \in Result, AllSucceeded(s), ~r.failed
  PROVE  AllSucceeded(Append(s, r))
<1>1. \A i \in 1..(Len(s) + 1) : i \in 1..Len(s) \/ i = Len(s) + 1
  BY LenProperties
<1> QED
  BY <1>1, AppendedResult DEF AllSucceeded

\* ... which may be the last one it takes ...
LEMMA Recovers ==
  ASSUME NEW s \in Seq(Result), NEW r \in Result, NEW h \in Nat,
         TallyHalfOpen(h, s), ~r.failed
  PROVE  /\ h + 1 < SuccessThreshold => TallyHalfOpen(h + 1, Append(s, r))
         /\ h + 1 >= SuccessThreshold => RecoveredBy(Append(s, r))
<1>1. AllSucceeded(Append(s, r)) /\ Len(Append(s, r)) = h + 1
  BY AllSucceededGrows, AppendedResult DEF TallyHalfOpen
<1> QED
  BY <1>1, EffectiveSettings DEF TallyHalfOpen, RecoveredBy

\* ... or a failure.
LEMMA Relapses ==
  ASSUME NEW s \in Seq(Result), NEW r \in Result, NEW h \in Nat,
         TallyHalfOpen(h, s), r.failed
  PROVE  RelapsedBy(Append(s, r))
<1> DEFINE t == Append(s, r)
<1>1. Front1(t) = s
  <2>1. t \in Seq(Result) /\ Len(t) = Len(s) + 1 /\ Len(s) \in Nat
        /\ \A i \in 1..Len(s) : t[i] = s[i]
    BY AppendedResult
  <2> HIDE DEF t
  <2>2. \A i \in 1..Len(s) : t[i] \in Result
    BY <2>1, ElementOfSeq
  <2> DEFINE p == SubSeq(t, 1, Len(s))
  <2>3. /\ p \in Seq(Result)
        /\ Len(p) = IF 1 <= Len(s) THEN Len(s) - 1 + 1 ELSE 0
        /\ \A i \in 1..(Len(s) - 1 + 1) : p[i] = t[1 + i - 1]
    BY <2>1, <2>2, SubSeqProperties
  <2>4. Front1(t) = p
    BY <2>1 DEF Front1
  <2> HIDE DEF p
  <2>5. Len(p) = Len(s) /\ \A i \in 1..Len(s) : p[i] = s[i]
    BY <2>1, <2>3
  <2> QED
    BY <2>3, <2>4, <2>5, SeqEqual
<1>2. /\ t # <<>>
      /\ t[Len(t)].failed
      /\ Len(t) <= SuccessThreshold
  BY AppendProperties, AppendedResult, EffectiveSettings DEF TallyHalfOpen
<1>3. AllSucceeded(Front1(t))
  BY <1>1 DEF TallyHalfOpen
<1> QED
  BY <1>2, <1>3 DEF RelapsedBy

\* EveryTransitionJustified in parts: what became of the past episodes, and what
\* the counters say of the current one.
Due(from, to, s) ==
  \/ from = "closed"   /\ to = "open"     /\ TrippedBy(s)
  \/ from = "open"     /\ to = "halfOpen" /\ s = <<>>
  \/ from = "halfOpen" /\ to = "closed"   /\ RecoveredBy(s)
  \/ from = "halfOpen" /\ to = "open"     /\ RelapsedBy(s)

PastDue ==
  /\ episodes[generation + 1].state = state
  /\ \A g \in 0..(generation - 1) :
       Due(episodes[g + 1].state, episodes[g + 2].state, ResultsOf(g))

Tally ==
  /\ state = "closed" => TallyClosed(failures, ResultsOf(generation))
  /\ state = "open" => ResultsOf(generation) = <<>>
  /\ state = "halfOpen" => TallyHalfOpen(halfOpenSuccess, ResultsOf(generation))

LEMMA CountingKeepsPast ==
  ASSUME Typed, PastDue, NEW c \in Calls, UNCHANGED <<state, generation>>,
         episodes' = Counted(c)
  PROVE  PastDue' /\ ResultsOf(generation)' = Append(ResultsOf(generation), Verdict(c))
<1>1. generation \in Nat
  BY DEF Typed, TypeOK
<1>2. /\ \A g \in 0..(generation - 1) : episodes'[g + 1] = episodes[g + 1]
      /\ episodes'[generation + 1].state = episodes[generation + 1].state
      /\ episodes'[generation + 1].results = Append(ResultsOf(generation), Verdict(c))
  BY CountedShape
<1>3. \A g \in 0..(generation - 1) : episodes'[g + 2].state = episodes[g + 2].state
  <2> SUFFICES ASSUME NEW g \in 0..(generation - 1)
               PROVE  episodes'[g + 2].state = episodes[g + 2].state
    OBVIOUS
  <2>1. CASE g = generation - 1
    BY <1>1, <1>2, <2>1
  <2>2. CASE g # generation - 1
    <3>1. g + 1 \in 0..(generation - 1) /\ (g + 1) + 1 = g + 2
      BY <1>1, <2>2
    <3> QED
      BY <1>2, <3>1
  <2> QED
    BY <2>1, <2>2
<1> QED
  BY <1>2, <1>3 DEF PastDue, ResultsOf

LEMMA TransitionKeepsPast ==
  ASSUME Typed, PastDue, NEW to \in CircuitStates, NEW log \in Seq(Episode),
         Len(log) = generation + 1,
         \A g \in 0..(generation - 1) : log[g + 1] = episodes[g + 1],
         log[generation + 1].state = state,
         Due(state, to, log[generation + 1].results),
         state' = to, generation' = generation + 1,
         episodes' = Append(log, NewEpisode(to))
  PROVE  PastDue' /\ ResultsOf(generation)' = <<>>
<1>1. generation \in Nat
  BY DEF Typed, TypeOK
<1>2. /\ \A g \in 0..generation : episodes'[g + 1] = log[g + 1]
      /\ episodes'[generation + 2] = NewEpisode(to)
  BY TransitionAppends
<1>3. generation' + 1 = generation + 2
  BY <1>1
<1>4. \A g \in 0..generation : log[g + 1].state = episodes[g + 1].state
  <2>1. \A g \in 0..generation : g = generation \/ g \in 0..(generation - 1)
    BY <1>1
  <2> QED
    BY <2>1 DEF PastDue
<1>5. \A g \in 0..(generation - 1) :
        Due(episodes'[g + 1].state, episodes'[g + 2].state, episodes'[g + 1].results)
  <2> SUFFICES ASSUME NEW g \in 0..(generation - 1)
               PROVE  Due(episodes'[g + 1].state, episodes'[g + 2].state,
                          episodes'[g + 1].results)
    OBVIOUS
  <2>1. g \in 0..generation /\ g + 1 \in 0..generation /\ (g + 1) + 1 = g + 2
    BY <1>1
  <2>2. /\ episodes'[g + 1] = episodes[g + 1]
        /\ episodes'[g + 2].state = episodes[g + 2].state
    BY <1>2, <1>4, <2>1
  <2> QED
    BY <2>2 DEF PastDue, ResultsOf
<1>6. Due(episodes'[generation + 1].state, episodes'[generation + 2].state,
          episodes'[generation + 1].results)
  BY <1>1, <1>2 DEF NewEpisode
<1>7. \A g \in 0..(generation' - 1) : g \in 0..(generation - 1) \/ g = generation
  BY <1>1
<1>8. \A g \in 0..(generation' - 1) :
        Due(episodes'[g + 1].state, episodes'[g + 2].state, episodes'[g + 1].results)
  BY <1>5, <1>6, <1>7
<1>9. episodes'[generation' + 1] = NewEpisode(to)
  BY <1>2, <1>3
<1> QED
  BY <1>8, <1>9 DEF PastDue, ResultsOf, NewEpisode

LEMMA InitJustified == Init => PastDue /\ Tally
<1> SUFFICES ASSUME Init PROVE PastDue /\ Tally
  OBVIOUS
<1>1. /\ generation = 0 /\ state = "closed" /\ failures = 0
      /\ ResultsOf(generation) = <<>>
      /\ episodes[generation + 1].state = state
  BY DEF Init, ResultsOf
<1>2. TallyClosed(0, <<>>)
  BY EffectiveSettings DEF TallyClosed, RunEndsAt
<1> QED
  BY <1>1, <1>2 DEF PastDue, Tally

LEMMA NextJustified == Typed /\ PastDue /\ Tally /\ [Next]_vars => PastDue' /\ Tally'
<1> SUFFICES ASSUME Typed, PastDue, Tally, [Next]_vars PROVE PastDue' /\ Tally'
  OBVIOUS
<1> DEFINE s == ResultsOf(generation)
<1>0. /\ generation \in Nat /\ failures \in Nat /\ halfOpenSuccess \in Nat
      /\ episodes \in Seq(Episode) /\ Len(episodes) = generation + 1
      /\ s \in Seq(Result)
  BY ResultsTyped DEF Typed, TypeOK
<1>1. ASSUME UNCHANGED <<state, generation, failures, halfOpenSuccess, episodes>>
      PROVE  PastDue' /\ Tally'
  BY <1>1 DEF PastDue, Tally, ResultsOf
<1>2. ASSUME NEW c \in Calls, UNCHANGED <<state, generation>>, episodes' = Counted(c),
             state # "open",
             state = "closed" => TallyClosed(failures', Append(s, Verdict(c))),
             state = "halfOpen" => TallyHalfOpen(halfOpenSuccess', Append(s, Verdict(c)))
      PROVE  PastDue' /\ Tally'
  BY <1>2, CountingKeepsPast DEF Tally
<1>3. ASSUME NEW to \in CircuitStates, NEW log \in Seq(Episode), Len(log) = generation + 1,
             \A g \in 0..(generation - 1) : log[g + 1] = episodes[g + 1],
             log[generation + 1].state = state,
             Due(state, to, log[generation + 1].results),
             state' = to, generation' = generation + 1,
             episodes' = Append(log, NewEpisode(to)),
             to = "closed" => failures' = 0,
             to = "halfOpen" => halfOpenSuccess' = 0
      PROVE  PastDue' /\ Tally'
  <2>1. PastDue' /\ ResultsOf(generation)' = <<>>
    BY <1>3, TransitionKeepsPast
  <2>2. TallyClosed(0, <<>>) /\ TallyHalfOpen(0, <<>>)
    BY EffectiveSettings
       DEF TallyClosed, TallyHalfOpen, RunEndsAt, AllSucceeded
  <2> QED
    BY <1>3, <2>1, <2>2 DEF Tally
<1>4. ASSUME NEW c \in Calls, NEW to \in CircuitStates,
             SetState(c, to, "reporting", "done", Counted(c)),
             Due(state, to, Append(s, Verdict(c))),
             to = "closed" => failures' = 0, to # "halfOpen"
      PROVE  PastDue' /\ Tally'
  <2>1. /\ state' = to /\ generation' = generation + 1
        /\ episodes' = Append(Counted(c), NewEpisode(to))
    BY <1>4 DEF SetState, NewEpisode
  <2>2. /\ Counted(c) \in Seq(Episode) /\ Len(Counted(c)) = generation + 1
        /\ \A g \in 0..(generation - 1) : Counted(c)[g + 1] = episodes[g + 1]
        /\ Counted(c)[generation + 1].state = state
        /\ Counted(c)[generation + 1].results = Append(s, Verdict(c))
    BY CountedShape DEF PastDue
  <2> QED
    BY <1>3, <1>4, <2>1, <2>2
<1>5. CASE Tick
  BY <1>1, <1>5 DEF Tick, breaker, history
<1>6. ASSUME NEW c \in Calls, TryAdmit(c) PROVE PastDue' /\ Tally'
  <2>1. CASE AdmitFirstProbe(c)
    <3>1. /\ state = "open" /\ state' = "halfOpen" /\ generation' = generation + 1
          /\ halfOpenSuccess' = 0
          /\ episodes' = Append(episodes, NewEpisode("halfOpen"))
      BY <2>1 DEF AdmitFirstProbe, SetState, NewEpisode
    <3>2. /\ "halfOpen" \in CircuitStates
          /\ episodes[generation + 1].state = state
          /\ Due(state, "halfOpen", episodes[generation + 1].results)
      BY <3>1 DEF CircuitStates, PastDue, Due, Tally, ResultsOf
    <3> QED
      BY <1>0, <1>3, <3>1, <3>2
  <2>2. CASE AdmitClosed(c) \/ AdmitProbe(c) \/ RejectOpen(c) \/ RejectHalfOpen(c)
    BY <1>1, <2>2 DEF AdmitClosed, AdmitProbe, RejectOpen, RejectHalfOpen, breaker, history
  <2> QED
    BY <1>6, <2>1, <2>2 DEF TryAdmit
<1>7. ASSUME NEW c \in Calls, Continue(c) PROVE PastDue' /\ Tally'
  <2> DEFINE r == Verdict(c)
  <2>0. r \in Result /\ (r.failed <=> IsFailure(outcome[c]))
    BY VerdictTyped DEF Verdict
  <2>1. CASE PublishAdmission(c) \/ PublishResult(c) \/ DiscardResult(c)
    BY <1>1, <2>1
       DEF PublishAdmission, PublishResult, Publish, DiscardResult, breaker, history
  <2>2. CASE ClosedSuccess(c)
    <3>1. /\ state = "closed" /\ ~r.failed /\ failures' = 0
          /\ UNCHANGED <<state, generation>> /\ episodes' = Counted(c)
      BY <2>0, <2>2 DEF ClosedSuccess
    <3>2. TallyClosed(0, Append(s, r))
      BY <1>0, <2>0, <3>1, ClosedTallySuccess DEF Tally
    <3> QED
      BY <1>2, <3>1, <3>2
  <2>3. CASE ClosedFailure(c)
    <3>1. state = "closed" /\ r.failed /\ failures' = failures + 1
      BY <2>0, <2>3 DEF ClosedFailure
    <3>2. CASE failures + 1 >= FailureThreshold
      <4>1. SetState(c, "open", "reporting", "done", Counted(c))
        BY <2>3, <3>2 DEF ClosedFailure
      <4>2. TrippedBy(Append(s, r))
        BY <1>0, <2>0, <3>1, <3>2, Trips DEF Tally
      <4> QED
        BY <1>4, <3>1, <4>1, <4>2 DEF Due, CircuitStates
    <3>3. CASE ~(failures + 1 >= FailureThreshold)
      <4>1. UNCHANGED <<state, generation>> /\ episodes' = Counted(c)
        BY <2>3, <3>3 DEF ClosedFailure
      <4>2. failures + 1 < FailureThreshold
        BY <1>0, <3>3, EffectiveSettings
      <4>3. TallyClosed(failures + 1, Append(s, r))
        BY <1>0, <2>0, <3>1, <4>2, ClosedTallyFailure DEF Tally
      <4> QED
        BY <1>2, <3>1, <4>1, <4>3
    <3> QED
      BY <3>2, <3>3
  <2>4. CASE HalfOpenSuccess(c)
    <3>1. state = "halfOpen" /\ ~r.failed
      BY <2>0, <2>4 DEF HalfOpenSuccess
    <3>2. /\ halfOpenSuccess + 1 < SuccessThreshold =>
               TallyHalfOpen(halfOpenSuccess + 1, Append(s, r))
          /\ halfOpenSuccess + 1 >= SuccessThreshold => RecoveredBy(Append(s, r))
      BY <1>0, <2>0, <3>1, Recovers DEF Tally
    <3>3. CASE halfOpenSuccess + 1 < SuccessThreshold
      <4>1. /\ UNCHANGED <<state, generation>> /\ episodes' = Counted(c)
            /\ halfOpenSuccess' = halfOpenSuccess + 1
        BY <2>4, <3>3 DEF HalfOpenSuccess
      <4> QED
        BY <1>2, <3>1, <3>2, <3>3, <4>1
    <3>4. CASE ~(halfOpenSuccess + 1 < SuccessThreshold)
      <4>1. SetState(c, "closed", "reporting", "done", Counted(c)) /\ failures' = 0
        BY <2>4, <3>4 DEF HalfOpenSuccess
      <4>2. RecoveredBy(Append(s, r))
        BY <1>0, <3>2, <3>4, EffectiveSettings
      <4> QED
        BY <1>4, <3>1, <4>1, <4>2 DEF Due, CircuitStates
    <3> QED
      BY <3>3, <3>4
  <2>5. CASE HalfOpenFailure(c)
    <3>1. /\ state = "halfOpen" /\ r.failed
          /\ SetState(c, "open", "reporting", "done", Counted(c))
      BY <2>0, <2>5 DEF HalfOpenFailure
    <3>2. RelapsedBy(Append(s, r))
      BY <1>0, <2>0, <3>1, Relapses DEF Tally
    <3> QED
      BY <1>4, <3>1, <3>2 DEF Due, CircuitStates
  <2> QED
    BY <1>7, <2>1, <2>2, <2>3, <2>4, <2>5 DEF Continue
<1>8. ASSUME NEW c \in Calls,
             Panic(c) \/ \E o \in TransportOutcomes : TransportReturn(c, o)
      PROVE  PastDue' /\ Tally'
  BY <1>1, <1>8 DEF Panic, TransportReturn, breaker, history
<1>9. CASE UNCHANGED vars
  BY <1>1, <1>9 DEF vars, breaker, history
<1> QED
  BY <1>5, <1>6, <1>7, <1>8, <1>9 DEF Next

\* The parts make EveryTransitionJustified.
LEMMA JustifiedParts ==
  ASSUME Typed, PastDue, Tally
  PROVE  EveryTransitionJustified
<1> DEFINE s == ResultsOf(generation)
<1>1. /\ generation \in Nat /\ Len(episodes) = generation + 1
      /\ state \in CircuitStates
      /\ s \in Seq(Result)
  BY ResultsTyped DEF Typed, TypeOK
<1>2. state = "closed" => \A n \in 0..Len(s) : ~EndsInFailures(SubSeq(s, 1, n), FailureThreshold)
  BY <1>1, RunOfPrefix, EffectiveSettings DEF Tally, TallyClosed
<1>3. state = "open" => s = <<>>
  BY DEF Tally
<1>4. state = "halfOpen" => AllSucceeded(s) /\ Len(s) < SuccessThreshold
  BY DEF Tally, TallyHalfOpen
<1>5. CASE state = "closed"
  BY <1>1, <1>2, <1>5 DEF PastDue, Due, EveryTransitionJustified
<1>6. CASE state = "open"
  BY <1>1, <1>3, <1>6 DEF PastDue, Due, EveryTransitionJustified
<1>7. CASE state = "halfOpen"
  BY <1>1, <1>4, <1>7 DEF PastDue, Due, EveryTransitionJustified
<1> QED
  BY <1>1, <1>5, <1>6, <1>7 DEF CircuitStates

\* Whatever the thresholds and the interleaving, the breaker opens, closes and
\* relapses exactly when the results it has counted call for it.
THEOREM TransitionsJustified == Spec => []EveryTransitionJustified
<1>1. Typed /\ PastDue /\ Tally => EveryTransitionJustified
  BY JustifiedParts
<1> QED
  BY <1>1, InitTyped, NextTyped, InitJustified, NextJustified, PTL DEF Spec

-----------------------------------------------------------------------------
(* The published transitions against the history of episodes.              *)

ToPublish == {c \in Calls : pc[c] \in {"publishing", "reporting"}}

TransitionInto(g) ==
  [from |-> episodes[g].state, to |-> episodes[g + 1].state, opens |-> g]

Happened == {TransitionInto(g) : g \in 1..generation}
Announced == {published[i] : i \in DOMAIN published} \union {pending[c] : c \in ToPublish}

PublishedInv ==
  /\ Announced = Happened
  /\ Len(published) + Cardinality(ToPublish) = generation

LEMMA ToPublishFinite == IsFiniteSet(ToPublish) /\ Cardinality(ToPublish) \in Nat
<1>1. ToPublish \subseteq Calls
  BY DEF ToPublish
<1> QED
  BY <1>1, ConfigAssumption, FS_Subset, FS_CardinalityType

\* No step rewrites what state the breaker was in.
LEMMA StatesKept ==
  ASSUME Typed, [Next]_vars
  PROVE  \A g \in 0..generation : episodes'[g + 1].state = episodes[g + 1].state
<1>1. /\ generation \in Nat /\ episodes \in Seq(Episode)
      /\ Len(episodes) = generation + 1
  BY DEF Typed, TypeOK
<1>2. \A c \in Calls : \A g \in 0..generation :
        Counted(c)[g + 1].state = episodes[g + 1].state
  <2> SUFFICES ASSUME NEW c \in Calls, NEW g \in 0..generation
               PROVE  Counted(c)[g + 1].state = episodes[g + 1].state
    OBVIOUS
  <2>1. g = generation \/ g \in 0..(generation - 1)
    BY <1>1
  <2> QED
    BY <2>1, CountedShape
<1>3. CASE UNCHANGED <<state, generation, episodes>>
  BY <1>3
<1>4. ASSUME NEW c \in Calls, episodes' = Counted(c)
      PROVE  \A g \in 0..generation : episodes'[g + 1].state = episodes[g + 1].state
  BY <1>2, <1>4
<1>5. ASSUME NEW c \in Calls, NEW to \in CircuitStates,
             episodes' = Append(Counted(c), NewEpisode(to))
      PROVE  \A g \in 0..generation : episodes'[g + 1].state = episodes[g + 1].state
  <2>1. \A g \in 0..generation : episodes'[g + 1] = Counted(c)[g + 1]
    BY <1>5, CountedShape, TransitionAppends
  <2> QED
    BY <1>2, <2>1
<1>6. CASE episodes' = Append(episodes, NewEpisode("halfOpen"))
  <2>1. "halfOpen" \in CircuitStates
    BY DEF CircuitStates
  <2> QED
    BY <1>1, <1>6, <2>1, TransitionAppends
<1> QED
  BY <1>3, <1>4, <1>5, <1>6, HistorySteps

\* A step without a transition leaves what has happened as it was ...
LEMMA HappenedKept ==
  ASSUME Typed, [Next]_vars, generation' = generation
  PROVE  Happened' = Happened
<1>1. \A g \in 1..generation :
        /\ episodes'[g].state = episodes[g].state
        /\ episodes'[g + 1].state = episodes[g + 1].state
  <2> SUFFICES ASSUME NEW g \in 1..generation
               PROVE  /\ episodes'[g].state = episodes[g].state
                      /\ episodes'[g + 1].state = episodes[g + 1].state
    OBVIOUS
  <2>1. g \in 0..generation /\ g - 1 \in 0..generation /\ (g - 1) + 1 = g
    BY DEF Typed, TypeOK
  <2>2. /\ episodes'[(g - 1) + 1].state = episodes[(g - 1) + 1].state
        /\ episodes'[g + 1].state = episodes[g + 1].state
    BY <2>1, StatesKept
  <2> QED
    BY <2>1, <2>2
<1> QED
  BY <1>1 DEF Happened, TransitionInto

\* ... and a transition adds itself.
LEMMA HappenedGrows ==
  ASSUME Typed, PastDue, [Next]_vars, NEW to \in CircuitStates, NEW log \in Seq(Episode),
         Len(log) = generation + 1, generation' = generation + 1,
         episodes' = Append(log, NewEpisode(to))
  PROVE  Happened' = Happened
           \union {[from |-> state, to |-> to, opens |-> generation + 1]}
<1>0. generation \in Nat
  BY DEF Typed, TypeOK
<1>1. \A g \in 1..generation :
        /\ episodes'[g].state = episodes[g].state
        /\ episodes'[g + 1].state = episodes[g + 1].state
  <2> SUFFICES ASSUME NEW g \in 1..generation
               PROVE  /\ episodes'[g].state = episodes[g].state
                      /\ episodes'[g + 1].state = episodes[g + 1].state
    OBVIOUS
  <2>1. g \in 0..generation /\ g - 1 \in 0..generation /\ (g - 1) + 1 = g
    BY <1>0
  <2>2. /\ episodes'[(g - 1) + 1].state = episodes[(g - 1) + 1].state
        /\ episodes'[g + 1].state = episodes[g + 1].state
    BY <2>1, StatesKept
  <2> QED
    BY <2>1, <2>2
<1>2. /\ episodes'[generation + 1].state = state
      /\ episodes'[(generation + 1) + 1].state = to
  <2>1. episodes'[generation + 1].state = episodes[generation + 1].state
    BY <1>0, StatesKept
  <2>2. episodes'[generation + 2] = NewEpisode(to)
    BY TransitionAppends
  <2>3. (generation + 1) + 1 = generation + 2
    BY <1>0
  <2>4. episodes[generation + 1].state = state /\ NewEpisode(to).state = to
    BY DEF PastDue, NewEpisode
  <2> QED
    BY <2>1, <2>2, <2>3, <2>4
<1>3. \A g : g \in 1..generation' <=> g \in 1..generation \/ g = generation + 1
  BY <1>0
<1>4. Happened' = {[from |-> episodes'[g].state, to |-> episodes'[g + 1].state,
                    opens |-> g] : g \in 1..generation'}
  BY DEF Happened, TransitionInto
<1>5. Happened = {[from |-> episodes[g].state, to |-> episodes[g + 1].state,
                   opens |-> g] : g \in 1..generation}
  BY DEF Happened, TransitionInto
<1> QED
  BY <1>1, <1>2, <1>3, <1>4, <1>5

LEMMA InitPublished == Init => PublishedInv
<1> SUFFICES ASSUME Init PROVE PublishedInv
  OBVIOUS
<1>1. ToPublish = {} /\ published = <<>> /\ generation = 0
  BY DEF Init, ToPublish
<1>2. Happened = {} /\ Announced = {}
  BY <1>1 DEF Happened, Announced
<1>3. Cardinality(ToPublish) = 0
  BY <1>1, FS_EmptySet
<1> QED
  BY <1>1, <1>2, <1>3 DEF PublishedInv

\* A call with nothing to publish causes a transition.
LEMMA TransitionToPublish ==
  ASSUME Observed, Typed, PastDue, PublishedInv, [Next]_vars, published' = published,
         NEW c \in Calls, c \notin ToPublish, NEW to \in CircuitStates,
         NEW at \in {"publishing", "reporting"}, NEW after \in Stages,
         NEW log \in Seq(Episode), Len(log) = generation + 1,
         SetState(c, to, at, after, log)
  PROVE  PublishedInv'
<1> DEFINE t == [from |-> state, to |-> to, opens |-> generation + 1]
<1>1. /\ pending' = [pending EXCEPT ![c] = t]
      /\ pc' = [pc EXCEPT ![c] = at]
      /\ generation' = generation + 1
      /\ episodes' = Append(log, NewEpisode(to))
  BY DEF SetState, NewEpisode
<1>2. Happened' = Happened \union {t}
  BY <1>1, HappenedGrows
<1>3. ToPublish' = ToPublish \union {c}
  BY <1>1 DEF ToPublish, Typed, TypeOK
<1>4. Cardinality(ToPublish') = Cardinality(ToPublish) + 1
  BY <1>3, ToPublishFinite, FS_AddElement
<1>5. \A d \in ToPublish : pending'[d] = pending[d]
  BY <1>1 DEF ToPublish, Typed, TypeOK
<1>6. pending'[c] = t
  BY <1>1 DEF Typed, TypeOK
<1> HIDE DEF t
<1>7. Announced' = Announced \union {t}
  BY <1>3, <1>5, <1>6 DEF Announced
<1>8. Len(published) \in Nat /\ generation \in Nat
  BY LenProperties DEF Typed, TypeOK
<1> QED
  BY <1>1, <1>2, <1>4, <1>7, <1>8, ToPublishFinite DEF PublishedInv

\* publish moves a transition from the call that caused it to the observer.
LEMMA PublishingPublishes ==
  ASSUME Typed, PublishedInv, [Next]_vars, NEW c \in Calls,
         NEW at \in {"publishing", "reporting"}, NEW after \in {"transport", "done"},
         Publish(c, at, after)
  PROVE  PublishedInv'
<1> DEFINE p == Append(published, pending[c])
<1>1. /\ published' = p
      /\ pending' = [pending EXCEPT ![c] = NoTransition]
      /\ pc' = [pc EXCEPT ![c] = after]
      /\ pc[c] = at
      /\ generation' = generation
  BY DEF Publish, breaker
<1>2. Happened' = Happened
  BY <1>1, HappenedKept
<1>3. ToPublish' = ToPublish \ {c} /\ c \in ToPublish
  BY <1>1 DEF ToPublish, Typed, TypeOK
<1>4. Cardinality(ToPublish') = Cardinality(ToPublish) - 1
  BY <1>3, ToPublishFinite, FS_RemoveElement
<1>5. \A d \in ToPublish' : pending'[d] = pending[d]
  BY <1>1, <1>3 DEF ToPublish, Typed, TypeOK
<1>6. /\ Len(published) \in Nat /\ generation \in Nat
      /\ Len(p) = Len(published) + 1
      /\ DOMAIN published = 1..Len(published)
      /\ DOMAIN p = 1..(Len(published) + 1)
      /\ \A i \in 1..Len(published) : p[i] = published[i]
      /\ p[Len(published) + 1] = pending[c]
  BY AppendProperties, LenProperties DEF Typed, TypeOK
<1> HIDE DEF p
<1>7. {p[i] : i \in DOMAIN p} = {published[i] : i \in DOMAIN published} \union {pending[c]}
  BY <1>6
<1>8. Announced' = Announced
  BY <1>1, <1>3, <1>5, <1>7 DEF Announced
<1> QED
  BY <1>1, <1>2, <1>4, <1>6, <1>8, ToPublishFinite DEF PublishedInv

LEMMA NextPublished ==
  Observed /\ Typed /\ PastDue /\ PublishedInv /\ [Next]_vars => PublishedInv'
<1> SUFFICES ASSUME Observed, Typed, PastDue, PublishedInv, [Next]_vars
             PROVE  PublishedInv'
  OBVIOUS
<1>0. /\ pc \in [Calls -> Stages]
      /\ episodes \in Seq(Episode) /\ Len(episodes) = generation + 1
  BY DEF Typed, TypeOK
<1>1. ASSUME generation' = generation, ToPublish' = ToPublish,
             UNCHANGED <<pending, published>>
      PROVE  PublishedInv'
  BY <1>1, HappenedKept DEF PublishedInv, Announced
<1>2. ASSUME NEW c \in Calls, NEW to \in Stages \ {"publishing", "reporting"},
             pc[c] \notin {"publishing", "reporting"}, pc' = [pc EXCEPT ![c] = to]
      PROVE  ToPublish' = ToPublish
  BY <1>0, <1>2 DEF ToPublish
<1>3. CASE Tick
  BY <1>1, <1>3 DEF Tick, breaker, history, ToPublish
<1>4. ASSUME NEW c \in Calls, TryAdmit(c) PROVE PublishedInv'
  <2>1. CASE AdmitFirstProbe(c)
    <3>1. /\ SetState(c, "halfOpen", "publishing", "transport", episodes)
          /\ published' = published
          /\ c \notin ToPublish
      BY <2>1 DEF AdmitFirstProbe, CanStart, ToPublish
    <3> QED
      BY <1>0, <3>1, TransitionToPublish DEF CircuitStates, Stages
  <2>2. ASSUME AdmitClosed(c) \/ AdmitProbe(c) \/ RejectOpen(c) \/ RejectHalfOpen(c)
        PROVE  PublishedInv'
    <3>1. /\ generation' = generation
          /\ UNCHANGED <<pending, published>>
          /\ pc[c] = "ready"
          /\ \/ pc' = [pc EXCEPT ![c] = "transport"]
             \/ pc' = [pc EXCEPT ![c] = "rejected"]
      BY <2>2 DEF AdmitClosed, AdmitProbe, RejectOpen, RejectHalfOpen, CanStart,
                  breaker, history
    <3>2. ToPublish' = ToPublish
      BY <1>2, <3>1 DEF Stages
    <3> QED
      BY <1>1, <3>1, <3>2
  <2> QED
    BY <1>4, <2>1, <2>2 DEF TryAdmit
<1>5. ASSUME NEW c \in Calls, Continue(c) PROVE PublishedInv'
  <2>1. CASE PublishAdmission(c)
    BY <2>1, PublishingPublishes DEF PublishAdmission
  <2>2. CASE PublishResult(c)
    BY <2>2, PublishingPublishes DEF PublishResult
  <2>3. ASSUME pc[c] = "returned", generation' = generation,
               UNCHANGED <<pending, published>>, pc' = [pc EXCEPT ![c] = "done"]
        PROVE  PublishedInv'
    <3>1. ToPublish' = ToPublish
      BY <1>2, <2>3 DEF Stages
    <3> QED
      BY <1>1, <2>3, <3>1
  <2>4. ASSUME pc[c] = "returned", published' = published, NEW to \in CircuitStates,
               SetState(c, to, "reporting", "done", Counted(c))
        PROVE  PublishedInv'
    <3>1. c \notin ToPublish
      BY <2>4 DEF ToPublish
    <3> QED
      BY <2>4, <3>1, CountedShape, TransitionToPublish DEF Stages
  <2>5. CASE DiscardResult(c)
    BY <2>3, <2>5 DEF DiscardResult, breaker, history
  <2>6. CASE ClosedSuccess(c)
    BY <2>3, <2>6 DEF ClosedSuccess
  <2>7. CASE ClosedFailure(c)
    BY <2>3, <2>4, <2>7 DEF ClosedFailure, CircuitStates
  <2>8. CASE HalfOpenSuccess(c)
    BY <2>3, <2>4, <2>8 DEF HalfOpenSuccess, CircuitStates
  <2>9. CASE HalfOpenFailure(c)
    BY <2>4, <2>9 DEF HalfOpenFailure, CircuitStates
  <2> QED
    BY <1>5, <2>1, <2>2, <2>5, <2>6, <2>7, <2>8, <2>9 DEF Continue
<1>6. ASSUME NEW c \in Calls,
             Panic(c) \/ \E o \in TransportOutcomes : TransportReturn(c, o)
      PROVE  PublishedInv'
  <2>1. /\ generation' = generation
        /\ UNCHANGED <<pending, published>>
        /\ pc[c] \in {"transport", "returned"}
        /\ \/ pc' = [pc EXCEPT ![c] = "panicked"]
           \/ pc' = [pc EXCEPT ![c] = "returned"]
    BY <1>6 DEF Panic, TransportReturn, breaker, history
  <2>2. ToPublish' = ToPublish
    BY <1>2, <2>1 DEF Stages
  <2> QED
    BY <1>1, <2>1, <2>2
<1>7. CASE UNCHANGED vars
  BY <1>1, <1>7 DEF vars, breaker, history, ToPublish
<1> QED
  BY <1>3, <1>4, <1>5, <1>6, <1>7 DEF Next

\* With OnStateChange set, no transition is lost and none is published twice.
THEOREM TransitionsPublishedOnce ==
  ASSUME Observed
  PROVE  Spec => []EachTransitionPublishedOnce
<1>1. PublishedInv => EachTransitionPublishedOnce
  BY DEF PublishedInv, Announced, Happened, ToPublish, TransitionInto,
         EachTransitionPublishedOnce
<1>2. Typed /\ PastDue /\ Tally /\ PublishedInv /\ [Next]_vars => PublishedInv'
  BY NextPublished
<1> QED
  BY <1>1, <1>2, InitTyped, NextTyped, InitJustified, NextJustified, InitPublished,
     PTL DEF Spec
=============================================================================
