----------------------------- MODULE ChainProofs -----------------------------
(***************************************************************************)
(* Theorems about Chain for every set of operations, every number of       *)
(* attempts, every answer of the transport and every setting of the layers.*)
(***************************************************************************)
EXTENDS Chain, CircuitBreakerProofs, ErrorClassProofs

\* What the layers share keeps its type.
ChainTyped ==
  /\ phase \in [Ops -> Phases]
  /\ attempt \in [Ops -> Attempts]
  /\ stage \in [Ops -> RL!LimitStages]
  /\ bodyClosed \in [Ops -> BOOLEAN]
  /\ pc \in [Calls -> Stages]
  /\ openBodies \subseteq Calls

LEMMA AttemptsAreCalls ==
  /\ MaxAttempts \in Nat \ {0}
  /\ 0 \in Attempts
  /\ Calls = Ops \X Attempts
  /\ ChainTyped => \A o \in Ops : CallOf(o) \in Calls
BY ChainAssumption DEF Attempts, CallOf, ChainTyped

-----------------------------------------------------------------------------
(* What a step of the breaker does to the calls.                           *)

LEMMA AdmissionMoves ==
  ASSUME NEW c \in Calls, TryAdmit(c)
  PROVE  /\ pc[c] = "ready"
         /\ \E s \in {"publishing", "transport", "rejected"} : pc' = [pc EXCEPT ![c] = s]
<1>1. CASE AdmitClosed(c)
  BY <1>1 DEF AdmitClosed, CanStart
<1>2. CASE AdmitFirstProbe(c)
  BY <1>2 DEF AdmitFirstProbe, CanStart, SetState
<1>3. CASE AdmitProbe(c)
  BY <1>3 DEF AdmitProbe, CanStart
<1>4. CASE RejectOpen(c)
  BY <1>4 DEF RejectOpen, CanStart
<1>5. CASE RejectHalfOpen(c)
  BY <1>5 DEF RejectHalfOpen, CanStart
<1> QED
  BY <1>1, <1>2, <1>3, <1>4, <1>5 DEF TryAdmit

LEMMA ContinuationMoves ==
  ASSUME NEW c \in Calls, Continue(c)
  PROVE  \/ pc[c] = "publishing" /\ pc' = [pc EXCEPT ![c] = "transport"]
         \/ /\ pc[c] \in {"returned", "reporting"}
            /\ \E s \in {"reporting", "done"} : pc' = [pc EXCEPT ![c] = s]
<1>1. CASE PublishAdmission(c)
  BY <1>1 DEF PublishAdmission, Publish
<1>2. CASE DiscardResult(c)
  BY <1>2 DEF DiscardResult
<1>3. CASE ClosedSuccess(c)
  BY <1>3 DEF ClosedSuccess
<1>4. CASE ClosedFailure(c)
  BY <1>4 DEF ClosedFailure, SetState
<1>5. CASE HalfOpenSuccess(c)
  BY <1>5 DEF HalfOpenSuccess, SetState
<1>6. CASE HalfOpenFailure(c)
  BY <1>6 DEF HalfOpenFailure, SetState
<1>7. CASE PublishResult(c)
  BY <1>7 DEF PublishResult, Publish
<1> QED
  BY <1>1, <1>2, <1>3, <1>4, <1>5, <1>6, <1>7 DEF Continue

-----------------------------------------------------------------------------
(* The steps of the chain, by the layers that they touch.                  *)

\* What an operation does in RateLimit, before it calls Retry or after that.
LEMMA LimitingMoves ==
  ASSUME ChainTyped, NEW o \in Ops, Enter(o) \/ LimitStep(o)
  PROVE  /\ UNCHANGED <<now, breaking, retrying>>
         /\ \E s \in RL!LimitStages :
              /\ stage' = [stage EXCEPT ![o] = s]
              /\ \/ /\ stage[o] \in {"new", "cooling", "limiting"}
                    /\ s \in {"cooling", "limiting"}
                 \/ stage[o] \in {"cooling", "limiting"} /\ s = "failed" /\ bodyClosed'[o]
                 \/ stage[o] = "recording" /\ s = "returned"
         /\ bodyClosed' \in [Ops -> BOOLEAN]
<1>1. CASE Enter(o)
  BY <1>1 DEF Enter, RL!EnterFree, RL!EnterCooling, RL!Enters, RL!TurnToLimiter,
              RL!Call, RL!LimitStages, ChainTyped
<1>2. CASE RL!CoolDownOver(o) /\ LimitStep(o)
  BY <1>2 DEF LimitStep, RL!CoolDownOver, RL!TurnToLimiter, RL!Call,
              RL!LimitStages, ChainTyped, retrying
<1>3. CASE (RL!CoolDownCanceled(o) \/ RL!Refused(o)) /\ LimitStep(o)
  BY <1>3 DEF LimitStep, RL!CoolDownCanceled, RL!Refused, RL!CloseAndFail,
              RL!LimitStages, ChainTyped
<1>4. CASE RL!AskLimiter(o) /\ LimitStep(o)
  <2>1. stage' = stage /\ bodyClosed' = bodyClosed /\ stage[o] = "limiting"
    BY <1>4 DEF RL!AskLimiter, RL!middleware
  <2>2. now' = now
    BY <1>4 DEF RL!AskLimiter, RL!LimiterStep, RL!Acquire, RL!Miss, RL!Wake, RL!GiveUp
  <2>3. stage' = [stage EXCEPT ![o] = "limiting"]
    BY <2>1 DEF ChainTyped
  <2> QED
    BY <1>4, <2>1, <2>2, <2>3 DEF LimitStep, RL!LimitStages, ChainTyped
<1>5. CASE RL!Record(o) /\ LimitStep(o)
  BY <1>5 DEF LimitStep, RL!Record, RL!LimitStages, ChainTyped
<1> QED
  BY <1>1, <1>2, <1>3, <1>4, <1>5 DEF LimitStep

\* What an operation does in Retry, Metrics and Logging once its attempt is over.
Resumes(o) ==
  \/ EnterRetry(o) \/ Return(o) \/ Backoff(o) \/ BackoffOver(o) \/ BackoffCanceled(o)
  \/ Meter(o) \/ Log(o)

LEMMA ResumingLeavesBreaker ==
  ASSUME NEW o \in Ops, Resumes(o)
  PROVE  UNCHANGED <<now, breaking>>
BY DEF Resumes, EnterRetry, Return, Backoff, BackoffOver, BackoffCanceled, Meter, Log,
       LeaveRetry, RL!Send, RL!Answer

\* Every step is one of RateLimit, one of the breaker, one of Retry and the layers
\* that report, or one of the surroundings.
LEMMA ChainSteps ==
  ASSUME ChainNext
  PROVE  \/ Clock
         \/ \E o \in Ops :
              \/ Enter(o) \/ LimitStep(o)
              \/ Admit(o) \/ BreakerStep(o) \/ \E a \in Answers : Transport(o, a)
              \/ Resumes(o)
              \/ EndOfContext(o)
BY DEF ChainNext, OwnStep, Resumes

-----------------------------------------------------------------------------
(* Where an operation is, and what it holds there.                         *)

\* The stage in RateLimit and the phase in Retry and above agree.
Layered ==
  \A o \in Ops :
    /\ phase[o] = "outside" =>
         attempt[o] = 0 /\ stage[o] \in {"new", "cooling", "limiting", "failed"}
    /\ phase[o] \in {"calling", "backoff"} => stage[o] = "sending"
    /\ phase[o] = "left" => stage[o] \in {"recording", "returned"}
    /\ phase[o] \in {"metered", "logged"} => stage[o] \in {"returned", "failed"}

\* The calls of attempts to come have not been made.
Unused ==
  \A o \in Ops : \A k \in Attempts :
    k > attempt[o] \/ (k = attempt[o] /\ phase[o] \in {"outside", "backoff"}) =>
      pc[<<o, k>>] = "ready"

\* An open body is that of the attempt at hand, and the transport has not had it.
OpenIsCurrent ==
  \A o \in Ops : \A k \in Attempts :
    <<o, k>> \in openBodies =>
      /\ k = attempt[o]
      /\ \/ phase[o] = "outside" /\ stage[o] # "failed"
         \/ phase[o] = "calling" /\ pc[<<o, k>>] \in {"ready", "publishing", "transport"}

\* The inductive invariant.
ChainInv == ChainTyped /\ Layered /\ Unused /\ OpenIsCurrent

LEMMA InitChain == ChainInit => ChainInv
<1> SUFFICES ASSUME ChainInit PROVE ChainInv
  OBVIOUS
<1>1. ChainTyped
  BY AttemptsAreCalls
     DEF ChainInit, Init, RL!Init, ChainTyped, Phases, RL!LimitStages, Stages
<1>2. Layered
  BY DEF ChainInit, RL!Init, Layered
<1>3. Unused
  BY AttemptsAreCalls DEF ChainInit, Init, Unused
<1>4. OpenIsCurrent
  BY DEF ChainInit, Init, RL!Init, OpenIsCurrent
<1> QED
  BY <1>1, <1>2, <1>3, <1>4 DEF ChainInv

\* RateLimit's part.
LEMMA LimitingKeepsChain ==
  ASSUME ChainInv, NEW o \in Ops, Enter(o) \/ LimitStep(o)
  PROVE  ChainInv'
<1>0. ChainTyped /\ Layered /\ Unused /\ OpenIsCurrent
  BY DEF ChainInv
<1>1. UNCHANGED <<phase, attempt, pc>>
  BY <1>0, LimitingMoves DEF breaking, retrying
<1>2. PICK s \in RL!LimitStages :
        /\ stage' = [stage EXCEPT ![o] = s]
        /\ \/ /\ stage[o] \in {"new", "cooling", "limiting"}
              /\ s \in {"cooling", "limiting"}
           \/ stage[o] \in {"cooling", "limiting"} /\ s = "failed" /\ bodyClosed'[o]
           \/ stage[o] = "recording" /\ s = "returned"
  BY <1>0, LimitingMoves
<1>3. openBodies' \subseteq openBodies /\ (bodyClosed'[o] => <<o, 0>> \notin openBodies' \/ Enter(o))
  BY DEF Enter, LimitStep
<1>4. ChainTyped'
  BY <1>0, <1>1, <1>2, <1>3, LimitingMoves DEF ChainTyped
<1>5. Layered'
  <2> SUFFICES ASSUME NEW p \in Ops
               PROVE  /\ phase[p] = "outside" =>
                           attempt[p] = 0 /\ stage'[p] \in {"new", "cooling", "limiting", "failed"}
                      /\ phase[p] \in {"calling", "backoff"} => stage'[p] = "sending"
                      /\ phase[p] = "left" => stage'[p] \in {"recording", "returned"}
                      /\ phase[p] \in {"metered", "logged"} => stage'[p] \in {"returned", "failed"}
    BY <1>1 DEF Layered
  <2>1. CASE p = o
    BY <1>0, <1>2, <2>1 DEF Layered, ChainTyped, Phases
  <2>2. CASE p # o
    BY <1>0, <1>2, <2>2 DEF Layered, ChainTyped
  <2> QED
    BY <2>1, <2>2
<1>6. Unused'
  BY <1>0, <1>1 DEF Unused
<1>7. OpenIsCurrent'
  <2> SUFFICES ASSUME NEW p \in Ops, NEW k \in Attempts, <<p, k>> \in openBodies'
               PROVE  /\ k = attempt[p]
                      /\ \/ phase[p] = "outside" /\ stage'[p] # "failed"
                         \/ phase[p] = "calling" /\ pc[<<p, k>>] \in {"ready", "publishing", "transport"}
    BY <1>1 DEF OpenIsCurrent
  <2>1. /\ k = attempt[p]
        /\ \/ phase[p] = "outside" /\ stage[p] # "failed"
           \/ phase[p] = "calling" /\ pc[<<p, k>>] \in {"ready", "publishing", "transport"}
    BY <1>0, <1>3 DEF OpenIsCurrent
  <2>2. CASE p # o \/ s # "failed"
    BY <1>0, <1>2, <2>1, <2>2 DEF ChainTyped
  <2>3. CASE p = o /\ s = "failed"
    <3>1. <<o, 0>> \notin openBodies'
      BY <1>0, <1>2, <1>3, <2>3 DEF Enter, RL!EnterFree, RL!EnterCooling, RL!Enters, RL!TurnToLimiter, ChainTyped
    <3>2. phase[o] = "outside"
      BY <1>0, <1>2, <2>3 DEF Layered, ChainTyped, Phases
    <3>3. attempt[o] = 0
      BY <1>0, <3>2 DEF Layered
    <3> QED
      BY <2>1, <2>3, <3>1, <3>3
  <2> QED
    BY <2>2, <2>3
<1> QED
  BY <1>4, <1>5, <1>6, <1>7 DEF ChainInv

\* The breaker's part: the call of the attempt at hand, and its body.
LEMMA BreakingKeepsChain ==
  ASSUME ChainInv, NEW o \in Ops,
         Admit(o) \/ BreakerStep(o) \/ \E a \in Answers : Transport(o, a)
  PROVE  ChainInv'
<1> DEFINE c == CallOf(o)
<1>0. ChainTyped /\ Layered /\ Unused /\ OpenIsCurrent /\ c \in Calls
  BY AttemptsAreCalls DEF ChainInv
<1>1. phase[o] = "calling" /\ UNCHANGED <<phase, attempt, stage, bodyClosed>>
  BY DEF Admit, BreakerStep, Transport, limiting, retrying
<1>2. PICK s \in Stages :
        /\ pc' = [pc EXCEPT ![c] = s]
        /\ \/ s \in {"publishing", "transport"} /\ openBodies' = openBodies
           \/ openBodies' = openBodies \ {c}
           \/ openBodies' = openBodies /\ pc[c] \in {"returned", "reporting"}
  <2>1. CASE Admit(o)
    <3>1. PICK s \in {"publishing", "transport", "rejected"} : pc' = [pc EXCEPT ![c] = s]
      BY <1>0, <2>1, AdmissionMoves DEF Admit
    <3>2. pc'[c] = s
      BY <1>0, <3>1 DEF ChainTyped
    <3> HIDE DEF c
    <3>3. openBodies' = IF s = "rejected" THEN openBodies \ {c} ELSE openBodies
      BY <2>1, <3>2 DEF Admit, Rejected, c
    <3> QED
      BY <3>1, <3>3 DEF Stages
  <2>2. CASE BreakerStep(o)
    BY <1>0, <2>2, ContinuationMoves DEF BreakerStep, Stages
  <2>3. CASE \E a \in Answers : Transport(o, a)
    BY <2>3 DEF Transport, TransportReturn, Stages
  <2> QED
    BY <2>1, <2>2, <2>3
<1>3. ChainTyped'
  BY <1>0, <1>1, <1>2 DEF ChainTyped
<1>4. Layered'
  BY <1>0, <1>1 DEF Layered
<1>5. Unused'
  <2> SUFFICES ASSUME NEW p \in Ops, NEW k \in Attempts,
                      k > attempt[p] \/ (k = attempt[p] /\ phase[p] \in {"outside", "backoff"})
               PROVE  pc'[<<p, k>>] = "ready"
    BY <1>1 DEF Unused
  <2>1. pc[<<p, k>>] = "ready" /\ <<p, k>> \in Calls
    BY <1>0, AttemptsAreCalls DEF Unused
  <2>2. <<p, k>> # c
    BY <1>0, <1>1, AttemptsAreCalls DEF CallOf, ChainTyped, Attempts
  <2> QED
    BY <1>0, <1>2, <2>1, <2>2 DEF ChainTyped
<1>6. OpenIsCurrent'
  <2> SUFFICES ASSUME NEW p \in Ops, NEW k \in Attempts, <<p, k>> \in openBodies'
               PROVE  /\ k = attempt[p]
                      /\ \/ phase[p] = "outside" /\ stage[p] # "failed"
                         \/ phase[p] = "calling" /\ pc'[<<p, k>>] \in {"ready", "publishing", "transport"}
    BY <1>1 DEF OpenIsCurrent
  <2>1. /\ k = attempt[p]
        /\ \/ phase[p] = "outside" /\ stage[p] # "failed"
           \/ phase[p] = "calling" /\ pc[<<p, k>>] \in {"ready", "publishing", "transport"}
    BY <1>0, <1>2 DEF OpenIsCurrent
  <2>2. <<p, k>> \in Calls
    BY AttemptsAreCalls
  <2>3. CASE <<p, k>> # c
    BY <1>0, <1>2, <2>1, <2>2, <2>3 DEF ChainTyped
  <2>4. CASE <<p, k>> = c
    <3>1. p = o /\ c \in openBodies'
      BY <2>4 DEF CallOf
    <3>2. pc[c] \in {"ready", "publishing", "transport"}
      BY <1>1, <2>1, <2>4, <3>1
    <3> HIDE DEF c
    <3>3. s \in {"publishing", "transport"}
      BY <1>2, <3>1, <3>2
    <3>4. pc'[c] = s
      BY <1>0, <1>2 DEF ChainTyped
    <3> QED
      BY <1>1, <2>1, <2>4, <3>1, <3>3, <3>4
  <2> QED
    BY <2>3, <2>4
<1> QED
  BY <1>3, <1>4, <1>5, <1>6 DEF ChainInv

\* Retry's part, and that of the layers that report: the call of the attempt at
\* hand is over, so no body is open, and the next one is an attempt of its own.
LEMMA ResumingKeepsChain ==
  ASSUME ChainInv, NEW o \in Ops, Resumes(o)
  PROVE  ChainInv'
<1>0. ChainTyped /\ Layered /\ Unused /\ OpenIsCurrent /\ CallOf(o) \in Calls
  BY AttemptsAreCalls DEF ChainInv
<1>1. UNCHANGED <<bodyClosed, pc>>
  BY ResumingLeavesBreaker
     DEF breaking, Resumes, EnterRetry, Return, Backoff, BackoffOver, BackoffCanceled,
         Meter, Log, LeaveRetry, RL!Send, RL!Answer, limiting
<1>2. ChainTyped'
  <2>1. phase' \in [Ops -> Phases]
    BY <1>0 DEF ChainTyped, Resumes, EnterRetry, Return, Backoff, BackoffOver,
                BackoffCanceled, Meter, Log, LeaveRetry, Phases
  <2>2. attempt' \in [Ops -> Attempts]
    <3>1. CASE Backoff(o)
      <4>1. attempt[o] + 1 \in Attempts
        BY <1>0, <3>1, AttemptsAreCalls DEF ChainTyped, Backoff, LastAttempt, Attempts
      <4> QED
        BY <1>0, <3>1, <4>1 DEF ChainTyped, Backoff
    <3>2. CASE ~Backoff(o)
      BY <1>0, <3>2 DEF ChainTyped, Resumes, EnterRetry, Return, BackoffOver,
                        BackoffCanceled, Meter, Log, LeaveRetry
    <3> QED
      BY <3>1, <3>2
  <2>3. stage' \in [Ops -> RL!LimitStages]
    BY <1>0 DEF ChainTyped, Resumes, EnterRetry, Return, Backoff, BackoffOver,
                BackoffCanceled, Meter, Log, LeaveRetry, RL!Send, RL!Answer, limiting,
                RL!LimitStages
  <2>4. openBodies' \subseteq openBodies \union {CallOf(o)'}
    BY DEF Resumes, EnterRetry, Return, Backoff, BackoffOver, BackoffCanceled, Meter,
           Log, LeaveRetry, CallOf
  <2>5. CallOf(o)' \in Calls
    BY <2>2, AttemptsAreCalls DEF CallOf
  <2> QED
    BY <1>0, <1>1, <2>1, <2>2, <2>3, <2>4, <2>5 DEF ChainTyped
<1>3. Layered'
  BY <1>0
     DEF ChainTyped, Layered, Resumes, EnterRetry, Return, Backoff, BackoffOver,
         BackoffCanceled, Meter, Log, Answered, LeaveRetry, RL!Send, RL!Answer, limiting
<1>4. Unused'
  BY <1>0, <1>1, AttemptsAreCalls
     DEF ChainTyped, Unused, Resumes, EnterRetry, Return, Backoff, BackoffOver,
         BackoffCanceled, Meter, Log, LeaveRetry, Attempts
<1>5. OpenIsCurrent'
  <2> SUFFICES ASSUME NEW p \in Ops, NEW k \in Attempts, <<p, k>> \in openBodies'
               PROVE  /\ k = attempt'[p]
                      /\ \/ phase'[p] = "outside" /\ stage'[p] # "failed"
                         \/ phase'[p] = "calling" /\ pc[<<p, k>>] \in {"ready", "publishing", "transport"}
    BY <1>1 DEF OpenIsCurrent
  <2> DEFINE Here == /\ k = attempt[p]
                     /\ \/ phase[p] = "outside" /\ stage[p] # "failed"
                        \/ phase[p] = "calling" /\ pc[<<p, k>>] \in {"ready", "publishing", "transport"}
  <2>1. CASE p # o
    <3>1. UNCHANGED <<attempt[p], phase[p], stage[p]>>
      BY <1>0, <2>1 DEF ChainTyped, Resumes, EnterRetry, Return, Backoff, BackoffOver,
         BackoffCanceled, Meter, Log, LeaveRetry, RL!Send, RL!Answer, limiting
    <3>2. <<p, k>> \in openBodies
      BY <2>1 DEF Resumes, EnterRetry, Return, Backoff, BackoffOver, BackoffCanceled,
                  Meter, Log, LeaveRetry, CallOf
    <3>3. Here
      BY <1>0, <3>2 DEF OpenIsCurrent
    <3> QED
      BY <3>1, <3>3
  <2>2. CASE p = o
    <3>1. <<o, k>> \in openBodies => Here
      BY <1>0, <2>2 DEF OpenIsCurrent
    <3>2. CASE EnterRetry(o)
      BY <1>0, <2>2, <3>1, <3>2 DEF ChainTyped, Layered, Unused, EnterRetry, RL!Send
    <3>3. CASE Return(o) \/ Backoff(o)
      <4>1. <<o, k>> \in openBodies /\ phase[o] = "calling" /\ pc[CallOf(o)] \in Returned
        BY <2>2, <3>3 DEF Return, Backoff
      <4>2. <<o, k>> = CallOf(o) /\ pc[<<o, k>>] \in {"ready", "publishing", "transport"}
        BY <2>2, <3>1, <4>1 DEF CallOf
      <4> QED
        BY <4>1, <4>2 DEF Returned
    <3>4. CASE BackoffOver(o)
      <4>1. phase[o] = "backoff" /\ UNCHANGED attempt /\ phase'[o] = "calling"
        BY <1>0, <3>4 DEF BackoffOver, ChainTyped
      <4>2. <<o, k>> = CallOf(o)
        BY <2>2, <3>1, <3>4, <4>1 DEF BackoffOver
      <4>3. k = attempt[o] /\ pc[<<o, k>>] = "ready"
        BY <1>0, <4>1, <4>2 DEF CallOf, Unused
      <4> QED
        BY <2>2, <4>1, <4>3
    <3>5. CASE BackoffCanceled(o)
      BY <2>2, <3>1, <3>5 DEF BackoffCanceled
    <3>6. CASE Meter(o) \/ Log(o)
      BY <1>0, <2>2, <3>1, <3>6 DEF Meter, Log, Answered, Layered
    <3> QED
      BY <3>2, <3>3, <3>4, <3>5, <3>6 DEF Resumes
  <2> QED
    BY <2>1, <2>2
<1> QED
  BY <1>2, <1>3, <1>4, <1>5 DEF ChainInv

LEMMA NextChain == ChainInv /\ [ChainNext]_chainVars => ChainInv'
<1> SUFFICES ASSUME ChainInv, [ChainNext]_chainVars PROVE ChainInv'
  OBVIOUS
<1>1. ASSUME UNCHANGED <<phase, attempt, stage, bodyClosed, pc, openBodies>> PROVE ChainInv'
  BY <1>1 DEF ChainInv, ChainTyped, Layered, Unused, OpenIsCurrent
<1>2. CASE Clock
  BY <1>1, <1>2 DEF Clock, Tick, limiting, retrying
<1>3. ASSUME NEW o \in Ops, EndOfContext(o) PROVE ChainInv'
  BY <1>1, <1>3 DEF EndOfContext, limiting, retrying, breaking
<1>4. CASE UNCHANGED chainVars
  BY <1>1, <1>4 DEF chainVars, limiting, retrying, breaking
<1> QED
  BY <1>2, <1>3, <1>4, ChainSteps, LimitingKeepsChain, BreakingKeepsChain, ResumingKeepsChain

LEMMA ChainInvariant == ChainSpec => []ChainInv
BY InitChain, NextChain, PTL DEF ChainSpec

\* Whoever ends an operation, a window, the limiter, the breaker, the transport,
\* the last attempt or its context, no body of its attempts is left open.
THEOREM NoBodyLeaks == ChainSpec => []BodiesReleased
<1>1. ChainInv => BodiesReleased
  BY DEF ChainInv, Layered, OpenIsCurrent, BodiesReleased
<1> QED
  BY <1>1, ChainInvariant, PTL

-----------------------------------------------------------------------------
(* The breaker in the chain.                                               *)

\* A step of the chain is one of the breaker or nothing to it.
LEMMA ChainStepIsBreakers ==
  ASSUME ChainInv, [ChainNext]_chainVars
  PROVE  [Next]_vars
<1>1. CASE Clock
  BY <1>1 DEF Clock, Next
<1>2. ASSUME NEW o \in Ops, Enter(o) \/ LimitStep(o) PROVE UNCHANGED vars
  BY <1>2, LimitingMoves DEF ChainInv, breaking, vars
<1>3. ASSUME NEW o \in Ops, Resumes(o) PROVE UNCHANGED vars
  BY <1>3, ResumingLeavesBreaker DEF breaking, vars
<1>4. ASSUME NEW o \in Ops, Admit(o) \/ BreakerStep(o) PROVE Next
  BY <1>4, AttemptsAreCalls DEF ChainInv, Admit, BreakerStep, Next
<1>5. ASSUME NEW o \in Ops, NEW a \in Answers, Transport(o, a) PROVE Next
  <2>1. OutcomeOf(a) \in TransportOutcomes
    BY ChainAssumption DEF OutcomeOf, Outcomes
  <2> QED
    BY <1>5, <2>1, AttemptsAreCalls DEF ChainInv, Transport, Next
<1>6. ASSUME NEW o \in Ops, EndOfContext(o) PROVE UNCHANGED vars
  BY <1>6 DEF EndOfContext, breaking, vars
<1>7. CASE UNCHANGED chainVars
  BY <1>7 DEF chainVars, breaking, vars
<1> QED
  BY <1>1, <1>2, <1>3, <1>4, <1>5, <1>6, <1>7, ChainSteps

\* In the chain the breaker behaves as it does on its own: behind RateLimit and
\* Retry it sees no behaviour that CircuitBreaker does not have, so that every
\* theorem about it holds there, and it keeps the promises of BreakerContract.
THEOREM ChainRunsBreaker == ChainSpec => Spec /\ ImplementsContract
<1>1. ChainInit => Init
  BY DEF ChainInit
<1>2. ChainInv /\ [ChainNext]_chainVars => [Next]_vars
  BY ChainStepIsBreakers
<1>3. ChainSpec => Spec
  BY <1>1, <1>2, ChainInvariant, PTL DEF ChainSpec, Spec
<1> QED
  BY <1>3, BreakerImplementsContract

-----------------------------------------------------------------------------
(* Order of publication.                                                   *)

\* What a call can do with transitions: nothing, make one, or publish its own.
LEMMA PublicationSteps ==
  ASSUME Typed, NEW c \in Calls,
         TryAdmit(c) \/ Continue(c) \/ \E o \in TransportOutcomes : TransportReturn(c, o)
  PROVE  \/ /\ UNCHANGED <<generation, pending, published>>
            /\ ToPublish' = ToPublish
         \/ /\ c \notin ToPublish
            /\ generation' = generation + 1
            /\ published' = published
            /\ IF Observed
                 THEN /\ ToPublish' = ToPublish \union {c}
                      /\ pending'[c].opens = generation + 1
                 ELSE ToPublish' = ToPublish
         \/ /\ c \in ToPublish
            /\ generation' = generation
            /\ published' = Append(published, pending[c])
            /\ ToPublish' = ToPublish \ {c}
<1> DEFINE Still == /\ UNCHANGED <<generation, pending, published>>
                     /\ ToPublish' = ToPublish
           Transits == /\ c \notin ToPublish
                       /\ generation' = generation + 1
                       /\ published' = published
                       /\ IF Observed
                            THEN /\ ToPublish' = ToPublish \union {c}
                                 /\ pending'[c].opens = generation + 1
                            ELSE ToPublish' = ToPublish
           Publishes == /\ c \in ToPublish
                        /\ generation' = generation
                        /\ published' = Append(published, pending[c])
                        /\ ToPublish' = ToPublish \ {c}
<1> SUFFICES Still \/ Transits \/ Publishes
  OBVIOUS
<1>0. pc \in [Calls -> Stages] /\ pending \in [Calls -> Transition]
  BY DEF Typed, TypeOK
<1>1. ASSUME UNCHANGED <<generation, pending, published>>,
             pc[c] \notin {"publishing", "reporting"},
             NEW s \in {"transport", "rejected", "returned", "done"},
             pc' = [pc EXCEPT ![c] = s]
      PROVE  Still
  BY <1>0, <1>1 DEF ToPublish
<1>2. ASSUME NEW to, NEW before \in {"publishing", "reporting"}, NEW log,
             NEW after \in {"transport", "done"}, SetState(c, to, before, after, log),
             pc[c] \notin {"publishing", "reporting"}, published' = published
      PROVE  Transits
  BY <1>0, <1>2 DEF ToPublish, SetState
<1>3. ASSUME NEW before \in {"publishing", "reporting"}, NEW after \in {"transport", "done"},
             Publish(c, before, after)
      PROVE  Publishes
  BY <1>0, <1>3 DEF ToPublish, Publish, breaker
<1>4. CASE TryAdmit(c)
  <2>1. CASE AdmitFirstProbe(c)
    BY <1>2, <2>1 DEF AdmitFirstProbe, CanStart
  <2>2. CASE AdmitClosed(c) \/ AdmitProbe(c)
    BY <1>1, <2>2 DEF AdmitClosed, AdmitProbe, CanStart, breaker, history
  <2>3. CASE RejectOpen(c) \/ RejectHalfOpen(c)
    BY <1>1, <2>3 DEF RejectOpen, RejectHalfOpen, CanStart, breaker, history
  <2> QED
    BY <1>4, <2>1, <2>2, <2>3 DEF TryAdmit
<1>5. CASE Continue(c)
  <2>1. CASE PublishAdmission(c)
    BY <1>3, <2>1 DEF PublishAdmission
  <2>2. CASE PublishResult(c)
    BY <1>3, <2>2 DEF PublishResult
  <2>3. CASE DiscardResult(c)
    BY <1>1, <2>3 DEF DiscardResult, breaker, history
  <2>4. CASE ClosedSuccess(c)
    BY <1>1, <2>4 DEF ClosedSuccess
  <2>5. CASE ClosedFailure(c)
    BY <1>1, <1>2, <2>5 DEF ClosedFailure
  <2>6. CASE HalfOpenSuccess(c)
    BY <1>1, <1>2, <2>6 DEF HalfOpenSuccess
  <2>7. CASE HalfOpenFailure(c)
    BY <1>2, <2>7 DEF HalfOpenFailure
  <2> QED
    BY <1>5, <2>1, <2>2, <2>3, <2>4, <2>5, <2>6, <2>7 DEF Continue
<1>6. CASE \E o \in TransportOutcomes : TransportReturn(c, o)
  BY <1>1, <1>6 DEF TransportReturn, breaker, history
<1> QED
  BY <1>4, <1>5, <1>6

\* As many transitions published as made, but for one that is about to be.
InOrder ==
  /\ PublishedInOrder
  /\ \A c \in ToPublish : pending[c].opens = generation /\ generation = Len(published) + 1
  /\ Observed /\ ToPublish = {} => Len(published) = generation

\* A breaker with one call under way publishes in order.
LEMMA LonelyCallInOrder ==
  ASSUME Typed, InOrder, NEW c \in Calls, ToPublish \subseteq {c},
         TryAdmit(c) \/ Continue(c) \/ \E o \in TransportOutcomes : TransportReturn(c, o)
  PROVE  InOrder'
<1>0. generation \in Nat /\ published \in Seq(Transition) /\ pending[c] \in Transition
  BY DEF Typed, TypeOK
<1>1. CASE UNCHANGED <<generation, pending, published>> /\ ToPublish' = ToPublish
  BY <1>1 DEF InOrder, PublishedInOrder
<1>2. CASE /\ c \notin ToPublish
           /\ generation' = generation + 1
           /\ published' = published
           /\ IF Observed
                THEN /\ ToPublish' = ToPublish \union {c}
                     /\ pending'[c].opens = generation + 1
                ELSE ToPublish' = ToPublish
  <2>1. ToPublish = {}
    BY <1>2
  <2>2. PublishedInOrder'
    BY <1>2 DEF InOrder, PublishedInOrder
  <2> QED
    BY <1>2, <2>1, <2>2 DEF InOrder
<1>3. CASE /\ c \in ToPublish
           /\ generation' = generation
           /\ published' = Append(published, pending[c])
           /\ ToPublish' = ToPublish \ {c}
  <2>1. ToPublish' = {}
    BY <1>3
  <2>2. pending[c].opens = Len(published) + 1 /\ generation = Len(published) + 1
    BY <1>3 DEF InOrder
  <2>3. /\ Len(published') = Len(published) + 1
        /\ DOMAIN published' = 1..(Len(published) + 1)
        /\ \A i \in 1..Len(published) : published'[i] = published[i]
        /\ published'[Len(published) + 1] = pending[c]
        /\ DOMAIN published = 1..Len(published) /\ Len(published) \in Nat
    BY <1>0, <1>3, AppendProperties, LenProperties
  <2>4. PublishedInOrder'
    <3> SUFFICES ASSUME NEW i \in 1..(Len(published) + 1) PROVE published'[i].opens = i
      BY <2>3 DEF PublishedInOrder
    <3>1. CASE i = Len(published) + 1
      BY <2>2, <2>3, <3>1
    <3>2. CASE i \in 1..Len(published)
      BY <2>3, <3>2 DEF InOrder, PublishedInOrder
    <3> QED
      BY <2>3, <3>1, <3>2
  <2> QED
    BY <1>3, <2>1, <2>2, <2>3, <2>4 DEF InOrder
<1> QED
  BY <1>1, <1>2, <1>3, PublicationSteps

-----------------------------------------------------------------------------
(* A stream of operations: no two of them have ever been under way at once.  *)

\* Until the first overlap there is at most one operation under way.
Alone == ~overlapped => \A o, p \in Ops : UnderWay(o) /\ UnderWay(p) => o = p

\* Only Enter begins an operation.
LEMMA WhoIsUnderWay ==
  ASSUME ChainInv, [ChainNext]_chainVars
  PROVE  \/ UNCHANGED overlapped /\ \A p \in Ops : UnderWay(p)' => UnderWay(p)
         \/ \E o \in Ops : /\ Enter(o)
                           /\ overlapped' = (overlapped \/ \E p \in Ops : UnderWay(p))
                           /\ \A p \in Ops \ {o} : UnderWay(p)' => UnderWay(p)
<1>0. ChainTyped /\ Layered
  BY DEF ChainInv
<1>1. ASSUME UNCHANGED <<stage, phase, overlapped>>
      PROVE  UNCHANGED overlapped /\ \A p \in Ops : UnderWay(p)' => UnderWay(p)
  BY <1>1 DEF UnderWay
<1>2. CASE Clock \/ UNCHANGED chainVars
  BY <1>1, <1>2 DEF Clock, chainVars, limiting, retrying
<1>3. ASSUME NEW o \in Ops,
             EndOfContext(o) \/ Admit(o) \/ BreakerStep(o) \/ \E a \in Answers : Transport(o, a)
      PROVE  UNCHANGED <<stage, phase, overlapped>>
  BY <1>3 DEF EndOfContext, Admit, BreakerStep, Transport, limiting, retrying
<1>4. ASSUME NEW o \in Ops, LimitStep(o)
      PROVE  UNCHANGED overlapped /\ \A p \in Ops : UnderWay(p)' => UnderWay(p)
  <2>1. UNCHANGED <<overlapped, phase>> /\ stage[o] # "new"
    BY <1>4 DEF LimitStep, retrying, RL!CoolDownOver, RL!CoolDownCanceled, RL!AskLimiter,
                RL!Refused, RL!Record
  <2>2. \A p \in Ops \ {o} : stage'[p] = stage[p]
    BY <1>0, <1>4, LimitingMoves DEF ChainTyped
  <2> QED
    BY <2>1, <2>2 DEF UnderWay
<1>5. ASSUME NEW o \in Ops, Resumes(o)
      PROVE  UNCHANGED overlapped /\ \A p \in Ops : UnderWay(p)' => UnderWay(p)
  <2>1. UNCHANGED overlapped
    BY <1>5 DEF Resumes, EnterRetry, Return, Backoff, BackoffOver, BackoffCanceled,
                Meter, Log, LeaveRetry
  <2>2. \A p \in Ops \ {o} : stage'[p] = stage[p] /\ phase'[p] = phase[p]
    BY <1>0, <1>5 DEF ChainTyped, Resumes, EnterRetry, Return, Backoff, BackoffOver,
       BackoffCanceled, Meter, Log, LeaveRetry, RL!Send, RL!Answer, limiting
  <2>3. stage[o] # "new" /\ phase[o] # "logged"
    BY <1>0, <1>5 DEF Resumes, EnterRetry, Return, Backoff, BackoffOver,
       BackoffCanceled, Meter, Log, Answered, LeaveRetry, RL!Send, RL!Answer, Layered
  <2> QED
    BY <2>1, <2>2, <2>3 DEF UnderWay
<1>6. ASSUME NEW o \in Ops, Enter(o)
      PROVE  /\ overlapped' = (overlapped \/ \E p \in Ops : UnderWay(p))
             /\ \A p \in Ops \ {o} : UnderWay(p)' => UnderWay(p)
  <2>1. \A p \in Ops \ {o} : stage'[p] = stage[p] /\ phase' = phase
    BY <1>0, <1>6, LimitingMoves DEF ChainTyped, retrying
  <2> QED
    BY <1>6, <2>1 DEF Enter, UnderWay
<1> QED
  BY <1>1, <1>2, <1>3, <1>4, <1>5, <1>6, ChainSteps

LEMMA NextAlone == ChainInv /\ Alone /\ [ChainNext]_chainVars => Alone'
BY WhoIsUnderWay DEF Alone

\* A call that publishes is that of an operation in the middle of an attempt.
PublishersCalling ==
  \A o \in Ops : \A k \in Attempts :
    <<o, k>> \in ToPublish => phase[o] = "calling" /\ k = attempt[o]

LEMMA NextPublishers ==
  ChainInv /\ PublishersCalling /\ [ChainNext]_chainVars => PublishersCalling'
<1> SUFFICES ASSUME ChainInv, PublishersCalling, [ChainNext]_chainVars,
                    NEW p \in Ops, NEW k \in Attempts, <<p, k>> \in ToPublish'
             PROVE  phase'[p] = "calling" /\ k = attempt'[p]
  BY DEF PublishersCalling
<1>0. ChainTyped /\ ChainTyped' /\ <<p, k>> \in Calls
  BY NextChain, AttemptsAreCalls DEF ChainInv
<1> DEFINE Goal == phase'[p] = "calling" /\ k = attempt'[p]
<1>1. ASSUME UNCHANGED <<phase, attempt, pc>> PROVE Goal
  BY <1>1 DEF PublishersCalling, ToPublish
<1>2. CASE Clock \/ UNCHANGED chainVars
  BY <1>1, <1>2 DEF Clock, Tick, chainVars, breaking, retrying
<1>3. ASSUME NEW o \in Ops, EndOfContext(o) \/ Enter(o) \/ LimitStep(o)
      PROVE  Goal
  BY <1>0, <1>1, <1>3, LimitingMoves DEF EndOfContext, breaking, retrying
<1>4. ASSUME NEW o \in Ops,
             Admit(o) \/ BreakerStep(o) \/ \E a \in Answers : Transport(o, a)
      PROVE  Goal
  <2>1. phase[o] = "calling" /\ UNCHANGED <<phase, attempt>>
    BY <1>4 DEF Admit, BreakerStep, Transport, retrying
  <2>2. CASE <<p, k>> = CallOf(o)
    BY <2>1, <2>2 DEF CallOf
  <2>3. CASE <<p, k>> # CallOf(o)
    <3>1. CallOf(o) \in Calls
      BY <1>0, AttemptsAreCalls
    <3>2. pc'[<<p, k>>] = pc[<<p, k>>]
      BY <1>0, <1>4, <2>3, <3>1, AdmissionMoves, ContinuationMoves
         DEF ChainTyped, Admit, BreakerStep, Transport, TransportReturn
    <3> QED
      BY <1>0, <2>1, <3>2 DEF PublishersCalling, ToPublish
  <2> QED
    BY <2>2, <2>3
<1>5. ASSUME NEW o \in Ops, Resumes(o) PROVE Goal
  <2>1. pc' = pc
    BY <1>5, ResumingLeavesBreaker DEF breaking
  <2>2. phase[p] = "calling" /\ k = attempt[p] /\ pc[<<p, k>>] \in {"publishing", "reporting"}
    BY <2>1 DEF PublishersCalling, ToPublish
  <2>3. CASE p # o
    BY <1>0, <1>5, <2>2, <2>3
       DEF ChainTyped, Resumes, EnterRetry, Return, Backoff, BackoffOver,
           BackoffCanceled, Meter, Log, LeaveRetry
  <2>4. CASE p = o
    <3>1. stage[o] = "sending" /\ pc[CallOf(o)] \notin Returned
      BY <2>2, <2>4 DEF ChainInv, Layered, CallOf, Returned
    <3> QED
      BY <1>5, <2>2, <2>4, <3>1
         DEF Resumes, EnterRetry, Return, Backoff, BackoffOver, BackoffCanceled, Meter,
             Log, RL!Send
  <2> QED
    BY <2>3, <2>4
<1> QED
  BY <1>2, <1>3, <1>4, <1>5, ChainSteps

\* The inductive invariant: while there has been no overlap, the only call that
\* may have a transition to publish is the one that is going on.
StreamInv == Alone /\ PublishersCalling /\ (~overlapped => InOrder)

LEMMA InitStream == ChainInit => StreamInv
<1> SUFFICES ASSUME ChainInit PROVE StreamInv
  OBVIOUS
<1>1. ToPublish = {} /\ published = <<>> /\ generation = 0
  BY DEF ChainInit, Init, ToPublish
<1>2. Alone
  BY DEF ChainInit, RL!Init, Alone, UnderWay
<1> QED
  BY <1>1, <1>2 DEF StreamInv, PublishersCalling, InOrder, PublishedInOrder

LEMMA NextStream ==
  Typed /\ ChainInv /\ StreamInv /\ [ChainNext]_chainVars => StreamInv'
<1> SUFFICES ASSUME Typed, ChainInv, StreamInv, [ChainNext]_chainVars, ~overlapped'
             PROVE  InOrder'
  BY NextAlone, NextPublishers DEF StreamInv
<1>0. ~overlapped /\ InOrder
  <2>1. \/ overlapped' = overlapped
        \/ overlapped' = (overlapped \/ \E p \in Ops : UnderWay(p))
    BY WhoIsUnderWay
  <2>2. ~overlapped
    BY <2>1, Zenon
  <2> QED
    BY <2>2 DEF StreamInv
<1>1. ASSUME UNCHANGED <<pc, pending, published, generation>> PROVE InOrder'
  <2>1. ToPublish' = ToPublish
    BY <1>1 DEF ToPublish
  <2>2. PublishedInOrder'
    BY <1>0, <1>1 DEF InOrder, PublishedInOrder
  <2> QED
    BY <1>0, <1>1, <2>1, <2>2 DEF InOrder
<1>2. CASE Clock
  BY <1>1, <1>2 DEF Clock, Tick, breaker, history
<1>3. ASSUME NEW o \in Ops, Enter(o) \/ LimitStep(o) PROVE InOrder'
  BY <1>1, <1>3, LimitingMoves DEF ChainInv, breaking, breaker, history
<1>4. ASSUME NEW o \in Ops, Resumes(o) PROVE InOrder'
  BY <1>1, <1>4, ResumingLeavesBreaker DEF breaking, breaker, history
<1>5. ASSUME NEW o \in Ops,
             Admit(o) \/ BreakerStep(o) \/ \E a \in Answers : Transport(o, a)
      PROVE  InOrder'
  <2>1. phase[o] = "calling" /\ CallOf(o) \in Calls
    BY <1>5, AttemptsAreCalls DEF Admit, BreakerStep, Transport, ChainInv
  <2>2. UnderWay(o)
    BY <2>1 DEF ChainInv, Layered, UnderWay
  <2>3. ToPublish \subseteq {CallOf(o)}
    <3> SUFFICES ASSUME NEW p \in Ops, NEW k \in Attempts, <<p, k>> \in ToPublish
                 PROVE  <<p, k>> = CallOf(o)
      BY AttemptsAreCalls DEF ToPublish
    <3>1. phase[p] = "calling" /\ k = attempt[p]
      BY DEF StreamInv, PublishersCalling
    <3>2. UnderWay(p)
      BY <3>1 DEF ChainInv, Layered, UnderWay
    <3> QED
      BY <1>0, <2>2, <3>1, <3>2 DEF StreamInv, Alone, CallOf
  <2>4. \/ TryAdmit(CallOf(o)) \/ Continue(CallOf(o))
        \/ \E x \in TransportOutcomes : TransportReturn(CallOf(o), x)
    BY <1>5, ChainAssumption DEF Admit, BreakerStep, Transport, OutcomeOf, Outcomes
  <2> QED
    BY <1>0, <2>1, <2>3, <2>4, LonelyCallInOrder
<1>6. ASSUME NEW o \in Ops, EndOfContext(o) PROVE InOrder'
  BY <1>1, <1>6 DEF EndOfContext, breaking, breaker, history
<1>7. CASE UNCHANGED chainVars
  BY <1>1, <1>7 DEF chainVars, breaking, breaker, history
<1> QED
  BY <1>2, <1>3, <1>4, <1>5, <1>6, <1>7, ChainSteps

\* As long as operations do not overlap, the n-th OnStateChange is for the n-th
\* transition, whatever the retries of one operation do to the breaker: an attempt
\* publishes what it caused before the next one is made.
THEOREM StreamOrdered == ChainSpec => []StreamPublishesInOrder
<1>1. ChainInit => Typed
  BY InitTyped DEF ChainInit
<1>2. Typed /\ ChainInv /\ [ChainNext]_chainVars => Typed'
  BY ChainStepIsBreakers, NextTyped
<1>3. StreamInv => StreamPublishesInOrder
  BY DEF StreamInv, InOrder, StreamPublishesInOrder
<1> QED
  BY <1>1, <1>2, <1>3, InitStream, NextStream, ChainInvariant, PTL DEF ChainSpec

-----------------------------------------------------------------------------
(* Retry-After in a stream.                                                *)

\* No hint overflows as a duration.
HintsFit == \A s \in HintSeconds : RL!AsDuration(s) = s * Unit

\* What RateLimit keeps, and what is answered to it.
LimitTyped ==
  /\ retryAt \in Int
  /\ asked \in Int
  /\ coolUntil \in [Ops -> Int]
  /\ reply \in [Ops -> RL!Replies]
  /\ answers \in [Calls -> RoundTrips]

\* What a recorded hint asks for is when the window ends.
LEMMA HintIsWindow ==
  ASSUME HintsFit, NEW r \in RL!Replies, r # RL!NoHint, now \in Int
  PROVE  RL!WindowEnd(r) = RL!AskedUntil(r) /\ RL!AskedUntil(r) \in Int
<1>1. CASE r \in [form : {"seconds"}, value : HintSeconds]
  <2>1. r.form = "seconds" /\ r.value \in HintSeconds /\ r.value \in Int
    BY <1>1, ChainAssumption
  <2>2. RL!AsDuration(r.value) = r.value * Unit /\ r.value * Unit \in Int
    BY <2>1, ChainAssumption DEF HintsFit
  <2> QED
    BY <2>1, <2>2 DEF RL!WindowEnd, RL!AskedUntil
<1>2. CASE r \in [form : {"date"}, value : HintDates]
  <2>1. r.form = "date" /\ r.value \in HintDates
    BY <1>2
  <2>2. \A v \in HintDates : v \in Int
    <3>1. HintDates \subseteq Nat
      BY ChainAssumption
    <3> QED
      BY <3>1
  <2>3. r.value \in Int
    BY <2>1, <2>2
  <2>4. RL!WindowEnd(r) = r.value
    BY <2>1 DEF RL!WindowEnd
  <2>5. RL!AskedUntil(r) = r.value
    BY <2>1 DEF RL!AskedUntil
  <2> QED
    BY <2>3, <2>4, <2>5
<1> QED
  BY <1>1, <1>2 DEF RL!Replies

LEMMA FailureTyped ==
  ASSUME NEW e \in Seq(Layers)
  PROVE  Failure(e) \in RoundTrips
<1>1. RL!NoHint \in RL!Replies
  BY DEF RL!Replies
<1> QED
  BY <1>1 DEF Failure, RoundTrips

LEMMA ShortCircuitErrors ==
  /\ <<>> \in Seq(Layers)
  /\ <<"circuitOpen">> \in Seq(Layers)
  /\ <<"canceled">> \in Seq(Layers)
  /\ <<"rateLimited">> \in Seq(Layers)
BY DEF Layers, Roots, Refusals, Permanent

\* A round trip that is recording has a hint, and all hints are RateLimit's.
Recording == \A o \in Ops : stage[o] = "recording" => reply[o] # RL!NoHint

LEMMA InitLimits == ChainInit => LimitTyped /\ Recording
<1> SUFFICES ASSUME ChainInit PROVE LimitTyped /\ Recording
  OBVIOUS
<1>1. RL!NoHint \in RL!Replies
  BY DEF RL!Replies
<1>2. NoAnswer \in RoundTrips
  BY ShortCircuitErrors, FailureTyped DEF NoAnswer
<1> QED
  BY <1>1, <1>2 DEF ChainInit, RL!Init, LimitTyped, Recording

\* Whoever leaves Retry hands RateLimit an answer.
LEMMA LeavingLimits ==
  ASSUME ChainTyped, LimitTyped, Recording, NEW o \in Ops, NEW a \in RoundTrips,
         LeaveRetry(o, a)
  PROVE  LimitTyped' /\ Recording'
<1>1. a.hint \in RL!Replies
  BY DEF RoundTrips
<1>2. /\ reply' = [reply EXCEPT ![o] = a.hint]
      /\ UNCHANGED <<retryAt, asked, coolUntil, answers>>
      /\ stage' = [stage EXCEPT ![o] =
           IF RespectRetryAfter /\ a.hint # RL!NoHint THEN "recording" ELSE "returned"]
  BY DEF LeaveRetry, RL!Answer
<1>3. LimitTyped'
  BY <1>1, <1>2 DEF LimitTyped
<1>4. Recording'
  BY <1>2 DEF ChainTyped, LimitTyped, Recording
<1> QED
  BY <1>3, <1>4

LEMMA NextLimits ==
  ASSUME HintsFit, now \in Int, ChainInv, LimitTyped, Recording, [ChainNext]_chainVars
  PROVE  LimitTyped' /\ Recording'
<1>0. ChainTyped
  BY DEF ChainInv
<1>1. ASSUME UNCHANGED <<retryAt, asked, coolUntil, reply, answers, stage>>
      PROVE  LimitTyped' /\ Recording'
  BY <1>1 DEF LimitTyped, Recording
<1>2. CASE Clock \/ UNCHANGED chainVars
  BY <1>1, <1>2 DEF Clock, chainVars, limiting, retrying
<1>3. ASSUME NEW o \in Ops, EndOfContext(o) \/ BreakerStep(o) PROVE LimitTyped' /\ Recording'
  BY <1>1, <1>3 DEF EndOfContext, BreakerStep, limiting, retrying
<1>4. ASSUME NEW o \in Ops, Enter(o) \/ (LimitStep(o) /\ ~RL!Record(o))
      PROVE  LimitTyped' /\ Recording'
  <2>1. /\ UNCHANGED <<retryAt, asked, reply, answers>>
        /\ stage' = stage \/ \E s \in RL!LimitStages \ {"recording"} : stage' = [stage EXCEPT ![o] = s]
        /\ coolUntil' = coolUntil \/ coolUntil' = [coolUntil EXCEPT ![o] = retryAt]
    BY <1>4 DEF Enter, LimitStep, RL!EnterFree, RL!EnterCooling, RL!CoolDownOver,
                RL!TurnToLimiter, RL!CoolDownCanceled, RL!Refused, RL!CloseAndFail,
                RL!AskLimiter, RL!middleware, RL!LimitStages, retrying
  <2>2. LimitTyped'
    BY <2>1 DEF LimitTyped
  <2>3. Recording'
    BY <1>0, <2>1 DEF ChainTyped, Recording
  <2> QED
    BY <2>2, <2>3
<1>5. ASSUME NEW o \in Ops, LimitStep(o), RL!Record(o) PROVE LimitTyped' /\ Recording'
  <2>1. reply[o] \in RL!Replies /\ reply[o] # RL!NoHint
    BY <1>5 DEF LimitTyped, Recording, RL!Record
  <2>2. RL!WindowEnd(reply[o]) \in Int /\ RL!AskedUntil(reply[o]) \in Int
    BY <2>1, HintIsWindow
  <2>3. retryAt' \in Int /\ asked' \in Int
    BY <1>5, <2>2 DEF RL!Record, RL!Later, LimitTyped
  <2>4. /\ UNCHANGED <<coolUntil, reply, answers>>
        /\ stage' = [stage EXCEPT ![o] = "returned"]
    BY <1>5 DEF RL!Record, LimitStep, retrying
  <2> QED
    BY <1>0, <2>3, <2>4 DEF ChainTyped, LimitTyped, Recording
<1>6. ASSUME NEW o \in Ops, Admit(o) \/ \E a \in Answers : Transport(o, a)
      PROVE  LimitTyped' /\ Recording'
  <2>1. /\ UNCHANGED <<retryAt, asked, coolUntil, reply, stage>>
        /\ \/ answers' = answers
           \/ \E a \in RoundTrips : answers' = [answers EXCEPT ![CallOf(o)] = a]
    <3>1. CASE Admit(o)
      <4>1. Failure(<<"circuitOpen">>) \in RoundTrips
        BY ShortCircuitErrors, FailureTyped
      <4>2. answers[CallOf(o)] \in RoundTrips
        BY <1>0, AttemptsAreCalls DEF LimitTyped
      <4> QED
        BY <3>1, <4>1, <4>2 DEF Admit, limiting
    <3>2. CASE \E a \in Answers : Transport(o, a)
      BY <3>2, AnswerAssumption DEF Transport, limiting
    <3> QED
      BY <1>6, <3>1, <3>2
  <2> QED
    BY <2>1 DEF LimitTyped, Recording
<1>7. ASSUME NEW o \in Ops, Resumes(o) PROVE LimitTyped' /\ Recording'
  <2>1. CASE Return(o)
    <3>1. answers[CallOf(o)] \in RoundTrips
      BY <1>0, AttemptsAreCalls DEF LimitTyped
    <3> QED
      BY <1>0, <2>1, <3>1, LeavingLimits DEF Return
  <2>2. CASE BackoffCanceled(o)
    <3>1. Failure(<<"canceled">>) \in RoundTrips
      BY ShortCircuitErrors, FailureTyped
    <3> QED
      BY <1>0, <2>2, <3>1, LeavingLimits DEF BackoffCanceled
  <2>3. CASE EnterRetry(o)
    BY <1>0, <2>3 DEF EnterRetry, RL!Send, ChainTyped, LimitTyped, Recording
  <2>4. CASE Backoff(o) \/ BackoffOver(o) \/ Meter(o) \/ Log(o)
    BY <1>1, <2>4 DEF Backoff, BackoffOver, Meter, Log, limiting
  <2> QED
    BY <1>7, <2>1, <2>2, <2>3, <2>4 DEF Resumes
<1> QED
  BY <1>2, <1>3, <1>4, <1>5, <1>6, <1>7, ChainSteps DEF LimitStep

\* The inductive invariant: as long as there is no overlap, what the servers
\* have asked for is over or lies in the window, and is over for an operation
\* that is past the window.
RespectInv ==
  ~overlapped =>
    /\ asked <= now \/ asked <= retryAt
    /\ \A o \in Ops :
         /\ stage[o] = "cooling" => asked <= now \/ asked <= coolUntil[o]
         /\ stage[o] \in {"limiting", "sending", "recording"} => asked <= now

LEMMA CallsTakeNoTime ==
  ASSUME NEW c, TryAdmit(c) \/ Continue(c) \/ \E o : TransportReturn(c, o)
  PROVE  now' = now
BY DEF TryAdmit, AdmitClosed, AdmitFirstProbe, AdmitProbe, RejectOpen, RejectHalfOpen,
       Continue, PublishAdmission, PublishResult, Publish, DiscardResult, ClosedSuccess,
       ClosedFailure, HalfOpenSuccess, HalfOpenFailure, TransportReturn

LEMMA NextRespect ==
  ASSUME RespectRetryAfter, HintsFit, now \in Int, ChainInv, LimitTyped, Recording,
         Alone, RespectInv, [ChainNext]_chainVars
  PROVE  RespectInv'
<1> SUFFICES ASSUME ~overlapped' PROVE RespectInv'
  BY DEF RespectInv
<1>0. ChainTyped /\ Layered
  BY DEF ChainInv
<1>1. ~overlapped
  <2>1. \/ overlapped' = overlapped
        \/ overlapped' = (overlapped \/ \E p \in Ops : UnderWay(p))
    BY WhoIsUnderWay
  <2> QED
    BY <2>1, Zenon
<1> DEFINE Past(s, u, a, t) == /\ s = "cooling" => a <= t \/ a <= u
                               /\ s \in {"limiting", "sending", "recording"} => a <= t
<1>2. /\ asked <= now \/ asked <= retryAt
      /\ \A o \in Ops : Past(stage[o], coolUntil[o], asked, now)
  BY <1>1 DEF RespectInv
<1>3. SUFFICES /\ asked' <= now' \/ asked' <= retryAt'
               /\ \A o \in Ops : Past(stage'[o], coolUntil'[o], asked', now')
  BY DEF RespectInv
<1> DEFINE Goal == /\ asked' <= now' \/ asked' <= retryAt'
                   /\ \A o \in Ops : Past(stage'[o], coolUntil'[o], asked', now')
<1>4. ASSUME UNCHANGED <<retryAt, asked, coolUntil, stage>>, now' = now \/ now' = now + 1
      PROVE  Goal
  BY <1>2, <1>4 DEF LimitTyped
<1>5. CASE Clock \/ UNCHANGED chainVars
  BY <1>4, <1>5 DEF Clock, Tick, chainVars, limiting
<1>6. ASSUME NEW o \in Ops,
             EndOfContext(o) \/ Admit(o) \/ BreakerStep(o) \/ \E a \in Answers : Transport(o, a)
      PROVE  Goal
  <2>1. UNCHANGED <<retryAt, asked, coolUntil, stage>>
    BY <1>6 DEF EndOfContext, Admit, BreakerStep, Transport, limiting
  <2>2. now' = now
    BY <1>6, CallsTakeNoTime DEF EndOfContext, Admit, BreakerStep, Transport
  <2> QED
    BY <1>4, <2>1, <2>2
<1>7. ASSUME NEW o \in Ops, Enter(o) PROVE Goal
  <2>1. /\ UNCHANGED <<retryAt, asked, now>>
        /\ \/ /\ ~RL!Cooling
              /\ stage' = [stage EXCEPT ![o] = "limiting"]
              /\ UNCHANGED coolUntil
           \/ /\ stage' = [stage EXCEPT ![o] = "cooling"]
              /\ coolUntil' = [coolUntil EXCEPT ![o] = retryAt]
    BY <1>7 DEF Enter, RL!EnterFree, RL!EnterCooling, RL!TurnToLimiter, RL!Call
  <2>2. ~RL!Cooling => asked <= now
    BY <1>2 DEF RL!Cooling, LimitTyped
  <2> QED
    BY <1>0, <1>2, <2>1, <2>2 DEF ChainTyped, LimitTyped
<1>8. ASSUME NEW o \in Ops, LimitStep(o), ~RL!Record(o) PROVE Goal
  <2>1. /\ UNCHANGED <<retryAt, asked, coolUntil, now>>
        /\ \/ stage' = stage
           \/ stage' = [stage EXCEPT ![o] = "failed"]
           \/ /\ stage[o] = "cooling" /\ now >= coolUntil[o]
              /\ stage' = [stage EXCEPT ![o] = "limiting"]
    BY <1>8 DEF LimitStep, RL!CoolDownOver, RL!TurnToLimiter, RL!Call,
                RL!CoolDownCanceled, RL!Refused, RL!CloseAndFail, RL!AskLimiter,
                RL!LimiterStep, RL!Acquire, RL!Miss, RL!Wake, RL!GiveUp, RL!middleware
  <2> QED
    BY <1>0, <1>2, <2>1 DEF ChainTyped, LimitTyped
<1>9. ASSUME NEW o \in Ops, RL!Record(o) PROVE Goal
  <2>1. stage[o] = "recording" /\ UnderWay(o)
    BY <1>0, <1>9 DEF RL!Record, Layered, UnderWay
  <2>2. \A p \in Ops \ {o} : stage[p] \notin {"cooling", "limiting", "sending", "recording"}
    BY <1>0, <1>1, <2>1 DEF Alone, UnderWay, Layered
  <2>3. reply[o] \in RL!Replies /\ reply[o] # RL!NoHint
    BY <2>1 DEF LimitTyped, Recording
  <2>4. retryAt' = RL!AskedUntil(reply[o]) /\ retryAt' \in Int
    BY <1>9, <2>3, HintIsWindow DEF RL!Record
  <2>5. /\ asked' = IF asked >= retryAt' THEN asked ELSE retryAt'
        /\ stage' = [stage EXCEPT ![o] = "returned"]
        /\ now' = now
    BY <1>9, <2>4 DEF RL!Record, RL!Later
  <2>6. asked <= now
    BY <1>2, <2>1
  <2>7. asked' <= now' \/ asked' <= retryAt'
    BY <2>4, <2>5, <2>6 DEF LimitTyped
  <2>8. \A p \in Ops : stage'[p] \notin {"cooling", "limiting", "sending", "recording"}
    BY <1>0, <2>2, <2>5 DEF ChainTyped
  <2> QED
    BY <2>7, <2>8
<1>10. ASSUME NEW o \in Ops, Resumes(o) PROVE Goal
  <2>1. UNCHANGED <<now, retryAt, asked, coolUntil>>
    BY <1>10 DEF Resumes, EnterRetry, Return, Backoff, BackoffOver, BackoffCanceled,
       Meter, Log, LeaveRetry, RL!Send, RL!Answer, limiting
  <2>2. \/ stage' = stage
        \/ /\ stage[o] \in {"limiting", "sending"}
           /\ \E s \in {"sending", "recording", "returned"} : stage' = [stage EXCEPT ![o] = s]
    BY <1>10 DEF Resumes, EnterRetry, Return, Backoff, BackoffOver, BackoffCanceled,
       Meter, Log, LeaveRetry, RL!Send, RL!Answer, limiting
  <2> QED
    BY <1>0, <1>2, <2>1, <2>2 DEF ChainTyped, LimitTyped
<1> QED
  BY <1>5, <1>6, <1>7, <1>8, <1>9, <1>10, ChainSteps

\* A client that runs one operation at a time, and whose servers send no hint
\* that overflows, never sends a request before the moment until which a server
\* it has heard asked it to wait.
THEOREM StreamWaits ==
  ASSUME RespectRetryAfter, HintsFit
  PROVE  ChainSpec => StreamRespectsRetryAfter
<1>1. ChainInit => Typed /\ RespectInv
  BY InitTyped DEF ChainInit, RL!Init, RespectInv
<1>2. Typed /\ ChainInv /\ [ChainNext]_chainVars => Typed'
  BY ChainStepIsBreakers, NextTyped
<1>3. Typed => now \in Int
  BY ConfigAssumption DEF Typed, TypeOK
<1>4. Typed /\ ChainInv /\ StreamInv /\ LimitTyped /\ Recording /\ RespectInv
        /\ [ChainNext]_chainVars
      => LimitTyped' /\ Recording' /\ RespectInv'
  BY <1>3, NextLimits, NextRespect DEF StreamInv
<1>5. RespectInv => (~overlapped => \A o \in Ops : RL!Leaves(o) => now >= asked)
  BY DEF RespectInv, RL!Leaves
<1> QED
  BY <1>1, <1>2, <1>4, <1>5, InitStream, NextStream, InitLimits, ChainInvariant, PTL
     DEF ChainSpec, StreamRespectsRetryAfter
-----------------------------------------------------------------------------
(* What comes back through the layers.                                     *)

\* What a round trip may return: a response, or an error that is well-formed.
GoodAnswers == {a \in RoundTrips : a.err # <<>> => WellFormed(a.err)}

\* The answers of the layers themselves are.
LEMMA FailuresAreGood ==
  {NoAnswer, Failure(<<"circuitOpen">>), Failure(<<"canceled">>), Failure(<<"rateLimited">>)}
    \subseteq GoodAnswers
<1>1. \A l \in {"circuitOpen", "canceled", "rateLimited"} : WellFormed(<<l>>)
  BY DEF WellFormed, Root, Roots, Refusals, Permanent
<1>2. \A e \in Seq(Layers) : (e # <<>> => WellFormed(e)) => Failure(e) \in GoodAnswers
  <2>1. \A e \in Seq(Layers) : Failure(e) \in RoundTrips /\ Failure(e).err = e
    BY FailureTyped DEF Failure
  <2> QED
    BY <2>1 DEF GoodAnswers
<1>3. /\ Failure(<<>>) \in GoodAnswers
      /\ \A l \in {"circuitOpen", "canceled", "rateLimited"} : Failure(<<l>>) \in GoodAnswers
  BY <1>1, <1>2, ShortCircuitErrors
<1> QED
  BY <1>3 DEF NoAnswer

\* The refusals are classified as what they are.
LEMMA RefusalKinds ==
  Kind[<<"circuitOpen">>] = "circuit_open" /\ Kind[<<"rateLimited">>] = "rate_limited"
<1>1. ASSUME NEW l \in Refusals PROVE Kind[<<l>>] = KindOfRoot(<<l>>)
  <2>1. <<l>> \in Errors /\ WellFormed(<<l>>)
    BY DEF Errors, WellFormed, Root, Roots, Layers
  <2> QED
    BY <2>1, ClassifiedByRoot
<1>2. /\ KindOfRoot(<<"circuitOpen">>) = "circuit_open"
      /\ KindOfRoot(<<"rateLimited">>) = "rate_limited"
  BY DEF KindOfRoot, Root, TimedOut
<1> QED
  BY <1>1, <1>2 DEF Refusals

\* The breaker was told of an answer what its predicate makes of it, and a
\* rejection is answered as such.
Told(c) ==
  /\ pc[c] = "rejected" => answers[c] = Failure(<<"circuitOpen">>)
  /\ pc[c] \in {"returned", "reporting", "done"} => outcome[c] = OutcomeOf(answers[c])

AnswersKept ==
  /\ answers \in [Calls -> GoodAnswers]
  /\ outcome \in [Calls -> Outcomes]
  /\ \A c \in Calls : Told(c)

LEMMA InitAnswers == ChainInit => AnswersKept
<1> SUFFICES ASSUME ChainInit PROVE AnswersKept
  OBVIOUS
<1>1. answers \in [Calls -> GoodAnswers] /\ outcome \in [Calls -> Outcomes]
  BY FailuresAreGood DEF ChainInit, Init, Outcomes
<1>2. \A c \in Calls : pc[c] = "ready"
  BY DEF ChainInit, Init
<1> QED
  BY <1>1, <1>2 DEF AnswersKept, Told

\* Only the transport's return gives a call its outcome.
LEMMA OutcomesStay ==
  ASSUME NEW c, TryAdmit(c) \/ Continue(c)
  PROVE  outcome' = outcome
BY DEF TryAdmit, AdmitClosed, AdmitFirstProbe, AdmitProbe, RejectOpen, RejectHalfOpen,
       Continue, PublishAdmission, PublishResult, Publish, DiscardResult, ClosedSuccess,
       ClosedFailure, HalfOpenSuccess, HalfOpenFailure

\* What an attempt does to its call, and to no other.
LEMMA AttemptMoves ==
  ASSUME ChainInv, AnswersKept, NEW o \in Ops,
         Admit(o) \/ BreakerStep(o) \/ \E a \in Answers : Transport(o, a)
  PROVE  /\ phase[o] = "calling" /\ UNCHANGED <<limiting, phase, attempt, reporting>>
         /\ \E s \in Stages, a \in GoodAnswers, r \in Outcomes :
              /\ pc' = [pc EXCEPT ![CallOf(o)] = s]
              /\ answers' = [answers EXCEPT ![CallOf(o)] = a]
              /\ outcome' = [outcome EXCEPT ![CallOf(o)] = r]
              /\ \/ s \in {"publishing", "transport"}
                 \/ s = "rejected" /\ a = Failure(<<"circuitOpen">>)
                 \/ s \in {"returned", "reporting", "done"} /\ r = OutcomeOf(a)
<1> DEFINE c == CallOf(o)
<1>0. ChainTyped /\ c \in Calls
  BY AttemptsAreCalls DEF ChainInv
<1>1. phase[o] = "calling" /\ UNCHANGED <<limiting, phase, attempt, reporting>>
  BY DEF Admit, BreakerStep, Transport, retrying
<1>2. answers[c] \in GoodAnswers /\ outcome[c] \in Outcomes /\ Told(c)
  BY <1>0 DEF AnswersKept
<1>3. answers = [answers EXCEPT ![c] = answers[c]] /\ outcome = [outcome EXCEPT ![c] = outcome[c]]
  BY <1>0 DEF AnswersKept
<1> DEFINE Move(s, a, r) ==
      /\ pc' = [pc EXCEPT ![c] = s]
      /\ answers' = [answers EXCEPT ![c] = a]
      /\ outcome' = [outcome EXCEPT ![c] = r]
      /\ \/ s \in {"publishing", "transport"}
         \/ s = "rejected" /\ a = Failure(<<"circuitOpen">>)
         \/ s \in {"returned", "reporting", "done"} /\ r = OutcomeOf(a)
<1>4. CASE Admit(o)
  <2>1. PICK s \in {"publishing", "transport", "rejected"} : pc' = [pc EXCEPT ![c] = s]
    BY <1>0, <1>4, AdmissionMoves DEF Admit
  <2>2. pc'[c] = s
    BY <1>0, <2>1 DEF ChainTyped
  <2>3. outcome' = outcome
    BY <1>4, OutcomesStay DEF Admit
  <2>4. answers' = [answers EXCEPT ![c] =
                      IF pc'[c] = "rejected" THEN Failure(<<"circuitOpen">>) ELSE @]
    BY <1>4 DEF Admit
  <2> HIDE DEF c
  <2>5. CASE s = "rejected"
    <3>1. Move("rejected", Failure(<<"circuitOpen">>), outcome[c])
      BY <1>3, <2>1, <2>2, <2>3, <2>4, <2>5
    <3> QED
      BY <1>1, <1>2, <3>1, FailuresAreGood DEF c, Stages
  <2>6. CASE s # "rejected"
    <3>1. Move(s, answers[c], outcome[c])
      BY <1>3, <2>1, <2>2, <2>3, <2>4, <2>6
    <3> QED
      BY <1>1, <1>2, <3>1 DEF c, Stages
  <2> QED
    BY <2>5, <2>6
<1>5. CASE BreakerStep(o)
  <2>1. \/ pc[c] = "publishing" /\ pc' = [pc EXCEPT ![c] = "transport"]
        \/ /\ pc[c] \in {"returned", "reporting"}
           /\ \E s \in {"reporting", "done"} : pc' = [pc EXCEPT ![c] = s]
    BY <1>0, <1>5, ContinuationMoves DEF BreakerStep
  <2>2. outcome' = outcome /\ answers' = answers
    BY <1>5, OutcomesStay DEF BreakerStep, retrying
  <2> HIDE DEF c
  <2>3. \E s \in Stages : Move(s, answers[c], outcome[c])
    BY <1>2, <1>3, <2>1, <2>2 DEF Told, Stages
  <2> QED
    BY <1>1, <1>2, <2>3 DEF c
<1>6. CASE \E a \in Answers : Transport(o, a)
  <2>1. PICK a \in Answers : Transport(o, a)
    BY <1>6
  <2>2. a \in GoodAnswers
    BY AnswerAssumption DEF GoodAnswers
  <2>3. OutcomeOf(a) \in Outcomes
    BY DEF OutcomeOf, Outcomes
  <2>4. Move("returned", a, OutcomeOf(a))
    BY <2>1 DEF Transport, TransportReturn
  <2> QED
    BY <1>1, <2>2, <2>3, <2>4 DEF Stages
<1> QED
  BY <1>4, <1>5, <1>6

\* What is no attempt touches no call of the breaker.
LEMMA OthersLeaveAnswers ==
  ASSUME ChainInv, ChainNext,
         ~\E o \in Ops : Admit(o) \/ BreakerStep(o) \/ \E a \in Answers : Transport(o, a)
  PROVE  UNCHANGED <<pc, outcome, answers>>
<1>1. CASE Clock
  BY <1>1 DEF Clock, Tick, retrying
<1>2. ASSUME NEW o \in Ops, Enter(o) \/ LimitStep(o) PROVE UNCHANGED <<pc, outcome, answers>>
  BY <1>2 DEF Enter, LimitStep, breaking, retrying
<1>3. ASSUME NEW o \in Ops, Resumes(o) PROVE UNCHANGED <<pc, outcome, answers>>
  BY <1>3, ResumingLeavesBreaker
     DEF breaking, Resumes, EnterRetry, Return, Backoff, BackoffOver, BackoffCanceled,
         Meter, Log, LeaveRetry
<1>4. ASSUME NEW o \in Ops, EndOfContext(o) PROVE UNCHANGED <<pc, outcome, answers>>
  BY <1>4 DEF EndOfContext, breaking, retrying
<1> QED
  BY <1>1, <1>2, <1>3, <1>4, ChainSteps

LEMMA NextAnswers == ChainInv /\ AnswersKept /\ [ChainNext]_chainVars => AnswersKept'
<1> SUFFICES ASSUME ChainInv, AnswersKept, [ChainNext]_chainVars PROVE AnswersKept'
  OBVIOUS
<1>1. ASSUME UNCHANGED <<pc, outcome, answers>> PROVE AnswersKept'
  BY <1>1 DEF AnswersKept, Told
<1>2. ASSUME NEW o \in Ops,
             Admit(o) \/ BreakerStep(o) \/ \E a \in Answers : Transport(o, a)
      PROVE  AnswersKept'
  <2> DEFINE c == CallOf(o)
  <2>1. PICK s \in Stages, a \in GoodAnswers, r \in Outcomes :
          /\ pc' = [pc EXCEPT ![c] = s]
          /\ answers' = [answers EXCEPT ![c] = a]
          /\ outcome' = [outcome EXCEPT ![c] = r]
          /\ \/ s \in {"publishing", "transport"}
             \/ s = "rejected" /\ a = Failure(<<"circuitOpen">>)
             \/ s \in {"returned", "reporting", "done"} /\ r = OutcomeOf(a)
    BY <1>2, AttemptMoves
  <2>2. ChainTyped /\ c \in Calls
    BY AttemptsAreCalls DEF ChainInv
  <2> HIDE DEF c
  <2>3. answers' \in [Calls -> GoodAnswers] /\ outcome' \in [Calls -> Outcomes]
    BY <2>1 DEF AnswersKept
  <2>4. ASSUME NEW d \in Calls PROVE Told(d)'
    <3>1. CASE d = c
      BY <2>1, <2>2, <3>1 DEF AnswersKept, Told, ChainTyped
    <3>2. CASE d # c
      <4>1. pc'[d] = pc[d] /\ answers'[d] = answers[d] /\ outcome'[d] = outcome[d]
        BY <2>1, <2>2, <3>2 DEF AnswersKept, ChainTyped
      <4>2. Told(d)
        BY DEF AnswersKept
      <4> QED
        BY <4>1, <4>2 DEF Told
    <3> QED
      BY <3>1, <3>2
  <2> QED
    BY <2>3, <2>4 DEF AnswersKept
<1>3. CASE UNCHANGED chainVars
  BY <1>1, <1>3 DEF chainVars, breaking, retrying
<1> QED
  BY <1>1, <1>2, <1>3, OthersLeaveAnswers

-----------------------------------------------------------------------------
(* Which attempts are followed by another one.                             *)

\* What Retry takes for transient.
Passing(a) ==
  IF a.err = <<>> THEN a.status \in {429, 502, 503, 504}
                  ELSE \/ Root(a.err) \in Transient
                       \/ Root(a.err) = "opaque" /\ Has(a.err, {"opConnect"})

\* The default predicate.
LEMMA RetryableIsPassing ==
  ASSUME NEW a \in GoodAnswers, DefaultIsRetryable(a.status, a.err)
  PROVE  Passing(a)
<1>1. CASE a.err = <<>>
  BY <1>1 DEF DefaultIsRetryable, RetryableStatus, Passing
<1>2. CASE a.err # <<>>
  <2>1. a.err \in Errors /\ WellFormed(a.err) /\ "IsRetryable" \in Says(a.err)
    BY <1>2 DEF GoodAnswers, RoundTrips, Errors, DefaultIsRetryable
  <2>2. CASE Root(a.err) # "opaque"
    BY <1>2, <2>1, <2>2, OnlyTransientRetryable DEF Passing
  <2>3. CASE Root(a.err) = "opaque"
    <3>1. Kind[a.err] \in {"timeout", "connection", "dns"}
      BY <2>1 DEF Says, HelperKinds
    <3>2. Kind[a.err] = KindOfRoot(a.err)
      BY <2>1, ClassifiedByRoot
    <3>3. KindOfRoot(a.err) = ConnectionKind(a.err)
      BY <2>3 DEF KindOfRoot, TimedOut
    <3>4. ConnectionKind(a.err) = "connection"
      BY <3>1, <3>2, <3>3 DEF ConnectionKind
    <3>5. ~Has(a.err, {"refused"})
      <4>1. {"refused"} \subseteq Roots
        BY DEF Roots, Transient
      <4> QED
        BY <2>1, <2>3, <4>1, HasRoot
    <3>6. Has(a.err, {"opConnect"})
      BY <3>4, <3>5 DEF ConnectionKind, Has
    <3> QED
      BY <1>2, <2>3, <3>6 DEF Passing
  <2> QED
    BY <2>2, <2>3
<1> QED
  BY <1>1, <1>2

\* The inductive invariant is the property itself, as all answers are known to be
\* good and a call is answered no more once another attempt has begun.
TriedPassing == \A o \in Ops : \A k \in 0..(attempt[o] - 1) : Passing(answers[<<o, k>>])

LEMMA NextTried ==
  ChainInv /\ AnswersKept /\ TriedPassing /\ [ChainNext]_chainVars => TriedPassing'
<1> SUFFICES ASSUME ChainInv, AnswersKept, TriedPassing, [ChainNext]_chainVars
             PROVE  TriedPassing'
  OBVIOUS
<1>0. ChainTyped /\ \A o \in Ops : attempt[o] \in Nat /\ CallOf(o) \in Calls
  BY AttemptsAreCalls DEF ChainInv, ChainTyped, Attempts
<1>1. ASSUME UNCHANGED <<attempt, answers>> PROVE TriedPassing'
  BY <1>1 DEF TriedPassing
<1>2. ASSUME NEW o \in Ops,
             Admit(o) \/ BreakerStep(o) \/ \E a \in Answers : Transport(o, a)
      PROVE  TriedPassing'
  <2>1. attempt' = attempt /\ \E a \in GoodAnswers : answers' = [answers EXCEPT ![CallOf(o)] = a]
    BY <1>2, AttemptMoves
  <2> SUFFICES ASSUME NEW p \in Ops, NEW k \in 0..(attempt[p] - 1)
               PROVE  Passing(answers'[<<p, k>>])
    BY <2>1 DEF TriedPassing
  <2>2. <<p, k>> \in Calls /\ <<p, k>> # CallOf(o)
    <3>1. attempt[p] \in Attempts /\ k \in Attempts /\ k # attempt[p]
      BY <1>0, AttemptsAreCalls DEF ChainTyped, Attempts
    <3> QED
      BY <3>1, AttemptsAreCalls DEF CallOf
  <2>3. answers'[<<p, k>>] = answers[<<p, k>>]
    BY <2>1, <2>2 DEF AnswersKept
  <2> QED
    BY <2>3 DEF TriedPassing
<1>3. ASSUME NEW o \in Ops, Backoff(o) PROVE TriedPassing'
  <2>1. /\ answers' = answers /\ attempt' = [attempt EXCEPT ![o] = @ + 1]
        /\ DefaultIsRetryable(answers[CallOf(o)].status, answers[CallOf(o)].err)
    BY <1>3 DEF Backoff, TryAgain
  <2>2. Passing(answers[<<o, attempt[o]>>])
    BY <1>0, <2>1, RetryableIsPassing DEF AnswersKept, CallOf
  <2> SUFFICES ASSUME NEW p \in Ops, NEW k \in 0..(attempt'[p] - 1)
               PROVE  Passing(answers[<<p, k>>])
    BY <2>1 DEF TriedPassing
  <2>3. attempt'[p] = IF p = o THEN attempt[o] + 1 ELSE attempt[p]
    BY <1>0, <2>1 DEF ChainTyped
  <2>4. k \in 0..(attempt[p] - 1) \/ (p = o /\ k = attempt[o])
    BY <1>0, <2>3
  <2> QED
    BY <2>2, <2>4 DEF TriedPassing
<1>4. ASSUME NEW o \in Ops, Enter(o) \/ LimitStep(o) \/ EndOfContext(o) \/ (Resumes(o) /\ ~Backoff(o))
      PROVE  UNCHANGED <<attempt, answers>>
  BY <1>4 DEF Enter, LimitStep, EndOfContext, retrying, Resumes, EnterRetry, Return,
              BackoffOver, BackoffCanceled, Meter, Log, LeaveRetry
<1>5. CASE Clock \/ UNCHANGED chainVars
  BY <1>1, <1>5 DEF Clock, chainVars, retrying
<1> QED
  BY <1>1, <1>2, <1>3, <1>4, <1>5, ChainSteps

\* Whatever the transport answers, every attempt but the last failed in a way that
\* may pass: with one of four statuses, or with an error whose root cause is.
THEOREM RetriesAreTransient == ChainSpec => []OnlyTransientRetried
<1>1. ChainInit => TriedPassing
  BY DEF ChainInit, TriedPassing
<1>2. TriedPassing => OnlyTransientRetried
  BY DEF TriedPassing, Passing, OnlyTransientRetried
<1> QED
  BY <1>1, <1>2, InitAnswers, NextAnswers, NextTried, ChainInvariant, PTL DEF ChainSpec

-----------------------------------------------------------------------------
(* What is reported.                                                       *)

\* Where the result of o comes from: the window or the limiter, the end of a
\* backoff, before the call of the next attempt, or the last attempt.
ResultExplained(o) ==
  /\ stage[o] = "failed" => result[o] = Failure(LimitError(o)) /\ pc[CallOf(o)] = "ready"
  /\ phase[o] \in {"left", "metered", "logged"} /\ stage[o] # "failed" =>
       \/ pc[CallOf(o)] = "ready" /\ result[o] = Failure(<<"canceled">>)
       \/ pc[CallOf(o)] \in Returned /\ result[o] = answers[CallOf(o)]

\* What the outermost layers have written of o.
Written(o) ==
  /\ metered[o] = IF phase[o] \in {"metered", "logged"} THEN <<Event(result[o])>> ELSE <<>>
  /\ logged[o] = IF phase[o] = "logged" /\ result[o] \notin Quiet THEN <<result[o]>> ELSE <<>>

ReportTyped ==
  /\ DOMAIN at = Ops /\ DOMAIN metered = Ops /\ DOMAIN logged = Ops
  /\ result \in [Ops -> GoodAnswers]

\* The inductive invariant.
ReportInv == ReportTyped /\ \A o \in Ops : ResultExplained(o) /\ Written(o)

LEMMA InitReports == ChainInit => ReportInv
<1> SUFFICES ASSUME ChainInit PROVE ReportInv
  OBVIOUS
<1>1. ReportTyped
  BY FailuresAreGood DEF ChainInit, RL!Init, RL!BucketInit, ReportTyped
<1>2. ASSUME NEW o \in Ops PROVE ResultExplained(o) /\ Written(o)
  BY <1>2 DEF ChainInit, RL!Init, ResultExplained, Written
<1> QED
  BY <1>1, <1>2 DEF ReportInv

\* What o does is nothing to the report of another operation.
LEMMA ReportsApart ==
  ASSUME ReportTyped, NEW p \in Ops, ResultExplained(p), Written(p),
         UNCHANGED <<stage[p], phase[p], attempt[p], at[p], result[p], metered[p], logged[p],
                     pc[CallOf(p)], answers[CallOf(p)]>>
  PROVE  (ResultExplained(p) /\ Written(p))'
BY DEF ResultExplained, Written, LimitError, CallOf

\* RateLimit asks the limiter only for o, and no more once it has failed.
LEMMA LimitMovesAt ==
  ASSUME ChainTyped, NEW o \in Ops, Enter(o) \/ LimitStep(o)
  PROVE  /\ at' = at \/ \E s : at' = [at EXCEPT ![o] = s]
         /\ stage'[o] = "failed" /\ stage[o] # "failed" => at' = at
<1>1. CASE Enter(o)
  BY <1>1 DEF Enter, RL!EnterFree, RL!EnterCooling, RL!TurnToLimiter, RL!Call, RL!limiter,
              ChainTyped
<1>2. CASE RL!CoolDownOver(o)
  BY <1>2 DEF RL!CoolDownOver, RL!TurnToLimiter, RL!Call, ChainTyped
<1>3. CASE RL!CoolDownCanceled(o) \/ RL!Refused(o) \/ RL!Record(o)
  BY <1>3 DEF RL!CoolDownCanceled, RL!Refused, RL!CloseAndFail, RL!Record, RL!limiter
<1>4. CASE RL!AskLimiter(o)
  <2>1. stage' = stage
    BY <1>4 DEF RL!AskLimiter, RL!middleware
  <2>2. at' = at \/ \E s : at' = [at EXCEPT ![o] = s]
    BY <1>4 DEF RL!AskLimiter, RL!LimiterStep, RL!Acquire, RL!Miss, RL!Wake, RL!GiveUp
  <2> QED
    BY <2>1, <2>2
<1> QED
  BY <1>1, <1>2, <1>3, <1>4 DEF LimitStep

\* RateLimit's part: the result of a short circuit.
LEMMA LimitReports ==
  ASSUME ChainInv, ReportInv, NEW o \in Ops, Enter(o) \/ LimitStep(o)
  PROVE  ReportInv'
<1>0. ChainTyped /\ Layered /\ Unused /\ ReportTyped
  BY DEF ChainInv, ReportInv
<1>1. UNCHANGED <<breaking, retrying, metered, logged>>
  BY DEF Enter, LimitStep, reporting
<1>2. PICK s \in RL!LimitStages :
        /\ stage' = [stage EXCEPT ![o] = s]
        /\ \/ /\ stage[o] \in {"new", "cooling", "limiting"}
              /\ s \in {"cooling", "limiting"}
           \/ stage[o] \in {"cooling", "limiting"} /\ s = "failed" /\ bodyClosed'[o]
           \/ stage[o] = "recording" /\ s = "returned"
  BY <1>0, LimitingMoves
<1>3. stage'[o] = s
  BY <1>0, <1>2 DEF ChainTyped
<1>4. result' = IF s = "failed" THEN [result EXCEPT ![o] = Failure(LimitError(o))] ELSE result
  <2>1. CASE Enter(o)
    <3>1. s # "failed"
      BY <1>3, <2>1, <1>0 DEF Enter, RL!EnterFree, RL!EnterCooling, RL!TurnToLimiter, ChainTyped
    <3> QED
      BY <2>1, <3>1 DEF Enter, reporting
  <2>2. CASE LimitStep(o)
    BY <1>3, <2>2 DEF LimitStep
  <2> QED
    BY <2>1, <2>2
<1>5. at' = at \/ \E t : at' = [at EXCEPT ![o] = t]
  BY <1>0, LimitMovesAt
<1>6. ReportTyped'
  <2>1. Failure(LimitError(o)) \in GoodAnswers
    BY FailuresAreGood DEF LimitError
  <2> QED
    BY <1>0, <1>1, <1>4, <1>5, <2>1 DEF ReportTyped
<1>7. ASSUME NEW p \in Ops, p # o PROVE (ResultExplained(p) /\ Written(p))'
  <2>1. UNCHANGED <<stage[p], phase[p], attempt[p], at[p], result[p], metered[p], logged[p],
                    pc[CallOf(p)], answers[CallOf(p)]>>
    BY <1>0, <1>1, <1>2, <1>4, <1>5, <1>7 DEF ChainTyped, ReportTyped, breaking, retrying, CallOf
  <2> QED
    BY <1>0, <2>1, ReportsApart DEF ReportInv
<1>8. (ResultExplained(o) /\ Written(o))'
  <2>0. ResultExplained(o) /\ Written(o) /\ UNCHANGED <<phase, attempt, pc, answers>>
    BY <1>1 DEF ReportInv, breaking, retrying
  <2>1. CASE s = "failed"
    <3>1. /\ phase[o] = "outside" /\ stage[o] # "failed"
      BY <1>0, <1>2, <2>1 DEF Layered, ChainTyped, Phases
    <3>2. pc[CallOf(o)] = "ready"
      BY <1>0, <3>1 DEF Unused, CallOf, ChainTyped
    <3>3. at' = at
      BY <1>0, <1>3, <2>1, <3>1, LimitMovesAt
    <3>4. result'[o] = Failure(LimitError(o))
      BY <1>0, <1>4, <2>1 DEF ReportTyped
    <3> QED
      BY <1>1, <1>3, <2>0, <2>1, <3>1, <3>2, <3>3, <3>4
         DEF ResultExplained, Written, CallOf, LimitError
  <2>2. CASE s # "failed"
    <3>1. result' = result
      BY <1>4, <2>2
    <3>2. phase[o] \in {"left", "metered", "logged"} => stage[o] # "failed"
      BY <1>0, <1>2, <2>2 DEF Layered
    <3> QED
      BY <1>1, <1>3, <2>0, <2>2, <3>1, <3>2 DEF ResultExplained, Written, CallOf
  <2> QED
    BY <2>1, <2>2
<1> QED
  BY <1>6, <1>7, <1>8 DEF ReportInv

\* The breaker's part: no attempt is reported.
LEMMA AttemptReports ==
  ASSUME ChainInv, AnswersKept, ReportInv, NEW o \in Ops,
         Admit(o) \/ BreakerStep(o) \/ \E a \in Answers : Transport(o, a)
  PROVE  ReportInv'
<1>0. ChainTyped /\ Layered /\ ReportTyped
  BY DEF ChainInv, ReportInv
<1>1. /\ phase[o] = "calling" /\ UNCHANGED <<limiting, phase, attempt, reporting>>
      /\ \E s : pc' = [pc EXCEPT ![CallOf(o)] = s]
      /\ \E a : answers' = [answers EXCEPT ![CallOf(o)] = a]
  BY AttemptMoves
<1>2. ReportTyped'
  BY <1>0, <1>1 DEF ReportTyped, limiting, reporting
<1>3. ASSUME NEW p \in Ops, p # o PROVE (ResultExplained(p) /\ Written(p))'
  <2>1. CallOf(p) # CallOf(o) /\ CallOf(p) \in Calls
    BY <1>0, <1>3, AttemptsAreCalls DEF CallOf
  <2>2. pc'[CallOf(p)] = pc[CallOf(p)] /\ answers'[CallOf(p)] = answers[CallOf(p)]
    BY <1>0, <1>1, <2>1 DEF ChainTyped, AnswersKept
  <2>3. UNCHANGED <<stage[p], phase[p], attempt[p], at[p], result[p], metered[p], logged[p],
                    pc[CallOf(p)], answers[CallOf(p)]>>
    BY <1>1, <2>2 DEF limiting, reporting, CallOf
  <2> QED
    BY <1>0, <2>3, ReportsApart DEF ReportInv
<1>4. (ResultExplained(o) /\ Written(o))'
  <2>1. stage[o] = "sending"
    BY <1>0, <1>1 DEF Layered
  <2> QED
    BY <1>1, <2>1 DEF ReportInv, ResultExplained, Written, limiting, reporting
<1> QED
  BY <1>2, <1>3, <1>4 DEF ReportInv

\* The first entry of a log.
LEMMA AppendToEmpty == \A x : Append(<<>>, x) = <<x>>
OBVIOUS

\* Retry's part, the results, and that of the layers that report them.
LEMMA ResumeReports ==
  ASSUME ChainInv, AnswersKept, ReportInv, NEW o \in Ops, Resumes(o)
  PROVE  ReportInv'
<1>0. /\ ChainTyped /\ Layered /\ Unused /\ ReportTyped
      /\ ResultExplained(o) /\ Written(o) /\ CallOf(o) \in Calls
  BY AttemptsAreCalls DEF ChainInv, ReportInv
<1>1. UNCHANGED <<at, answers, pc>>
  BY ResumingLeavesBreaker
     DEF breaking, Resumes, EnterRetry, Return, Backoff, BackoffOver, BackoffCanceled,
         Meter, Log, LeaveRetry, RL!Send, RL!Answer, RL!limiter, limiting
<1>2. \/ result' = result
      \/ \E a \in GoodAnswers : result' = [result EXCEPT ![o] = a]
  <2>1. answers[CallOf(o)] \in GoodAnswers /\ Failure(<<"canceled">>) \in GoodAnswers
    BY <1>0, FailuresAreGood DEF AnswersKept
  <2> QED
    BY <2>1 DEF Resumes, EnterRetry, Return, Backoff, BackoffOver, BackoffCanceled,
                Meter, Log, LeaveRetry, reporting
<1>3. /\ metered' = metered \/ \E m : metered' = [metered EXCEPT ![o] = m]
      /\ logged' = logged \/ \E m : logged' = [logged EXCEPT ![o] = m]
  BY DEF Resumes, EnterRetry, Return, Backoff, BackoffOver, BackoffCanceled, Meter, Log,
         LeaveRetry, reporting
<1>4. ReportTyped'
  BY <1>0, <1>1, <1>2, <1>3 DEF ReportTyped
<1>5. ASSUME NEW p \in Ops, p # o PROVE (ResultExplained(p) /\ Written(p))'
  <2>1. UNCHANGED <<stage[p], phase[p], attempt[p]>>
    BY <1>0, <1>5 DEF ChainTyped, Resumes, EnterRetry, Return, Backoff, BackoffOver,
       BackoffCanceled, Meter, Log, LeaveRetry, RL!Send, RL!Answer, limiting
  <2>2. UNCHANGED <<at[p], result[p], metered[p], logged[p], pc[CallOf(p)], answers[CallOf(p)]>>
    BY <1>0, <1>1, <1>2, <1>3, <1>5, <2>1 DEF ReportTyped, CallOf
  <2> QED
    BY <1>0, <2>1, <2>2, ReportsApart DEF ReportInv
<1>6. (ResultExplained(o) /\ Written(o))'
  <2>1. CASE EnterRetry(o)
    <3>1. /\ phase'[o] = "calling" /\ stage'[o] = "sending" /\ phase[o] = "outside"
          /\ UNCHANGED <<metered, logged>>
      BY <1>0, <2>1 DEF EnterRetry, RL!Send, ChainTyped, Layered, Phases, reporting
    <3> QED
      BY <1>0, <3>1 DEF ResultExplained, Written
  <2>2. CASE Backoff(o) \/ BackoffOver(o)
    <3>1. /\ phase[o] \in {"calling", "backoff"} /\ phase'[o] \in {"calling", "backoff"}
          /\ stage'[o] = "sending" /\ UNCHANGED <<metered, logged>>
      BY <1>0, <2>2 DEF Backoff, BackoffOver, ChainTyped, Layered, limiting, reporting
    <3> QED
      BY <1>0, <3>1 DEF ResultExplained, Written
  <2>3. CASE Return(o) \/ BackoffCanceled(o)
    <3>1. /\ phase[o] \in {"calling", "backoff"} /\ phase'[o] = "left"
          /\ stage'[o] \in {"recording", "returned"}
          /\ UNCHANGED <<metered, logged, attempt>>
      BY <1>0, <2>3
         DEF Return, BackoffCanceled, LeaveRetry, RL!Answer, ChainTyped
    <3>2. \/ pc[CallOf(o)] = "ready" /\ result'[o] = Failure(<<"canceled">>)
          \/ pc[CallOf(o)] \in Returned /\ result'[o] = answers[CallOf(o)]
      <4>1. CASE Return(o)
        BY <1>0, <4>1 DEF Return, LeaveRetry, ReportTyped
      <4>2. CASE BackoffCanceled(o)
        BY <1>0, <4>2 DEF BackoffCanceled, LeaveRetry, ReportTyped, Unused, CallOf, ChainTyped
      <4> QED
        BY <2>3, <4>1, <4>2
    <3> QED
      BY <1>0, <1>1, <3>1, <3>2 DEF ResultExplained, Written, CallOf
  <2>4. CASE Meter(o)
    <3>1. /\ phase[o] \in {"outside", "left"} /\ phase'[o] = "metered"
          /\ phase[o] = "outside" => stage[o] = "failed"
          /\ UNCHANGED <<stage, attempt, result, logged>>
          /\ metered'[o] = Append(metered[o], Event(result[o]))
      BY <1>0, <2>4 DEF Meter, Answered, ChainTyped, Layered, limiting, ReportTyped
    <3>2. metered'[o] = <<Event(result[o])>>
      <4>1. metered[o] = <<>>
        BY <1>0, <3>1 DEF Written
      <4> QED
        BY <3>1, <4>1, AppendToEmpty, Zenon
    <3> QED
      BY <1>0, <1>1, <3>1, <3>2 DEF ResultExplained, Written, CallOf, LimitError, Event
  <2>5. CASE Log(o)
    <3>1. /\ phase[o] = "metered" /\ phase'[o] = "logged"
          /\ UNCHANGED <<stage, attempt, result, metered>>
          /\ logged'[o] = IF result[o] \in Quiet THEN logged[o] ELSE Append(logged[o], result[o])
      BY <1>0, <2>5 DEF Log, ChainTyped, limiting, ReportTyped
    <3>2. logged'[o] = IF result[o] \in Quiet THEN <<>> ELSE <<result[o]>>
      <4>1. logged[o] = <<>>
        BY <1>0, <3>1 DEF Written
      <4> QED
        BY <3>1, <4>1, AppendToEmpty, Zenon
    <3> QED
      BY <1>0, <1>1, <3>1, <3>2 DEF ResultExplained, Written, CallOf, LimitError, Event
  <2> QED
    BY <2>1, <2>2, <2>3, <2>4, <2>5 DEF Resumes
<1> QED
  BY <1>4, <1>5, <1>6 DEF ReportInv

LEMMA NextReports ==
  ChainInv /\ AnswersKept /\ ReportInv /\ [ChainNext]_chainVars => ReportInv'
<1> SUFFICES ASSUME ChainInv, AnswersKept, ReportInv, [ChainNext]_chainVars PROVE ReportInv'
  OBVIOUS
<1>1. ASSUME UNCHANGED <<limiting, pc, retrying, reporting>> PROVE ReportInv'
  <2>1. ReportTyped'
    BY <1>1 DEF ReportInv, ReportTyped, limiting, reporting
  <2>2. ASSUME NEW p \in Ops PROVE (ResultExplained(p) /\ Written(p))'
    <3>1. UNCHANGED <<stage[p], phase[p], attempt[p], at[p], result[p], metered[p], logged[p],
                      pc[CallOf(p)], answers[CallOf(p)]>>
      BY <1>1 DEF limiting, retrying, reporting, CallOf
    <3> QED
      BY <3>1, ReportsApart DEF ReportInv
  <2> QED
    BY <2>1, <2>2 DEF ReportInv
<1>2. CASE Clock
  BY <1>1, <1>2 DEF Clock, Tick
<1>3. ASSUME NEW o \in Ops, EndOfContext(o) PROVE ReportInv'
  BY <1>1, <1>3 DEF EndOfContext, breaking
<1>4. CASE UNCHANGED chainVars
  BY <1>1, <1>4 DEF chainVars, breaking
<1> QED
  BY <1>2, <1>3, <1>4, ChainSteps, LimitReports, AttemptReports, ResumeReports

\* The event of an operation names the layer that decided it.
LEMMA KindReported ==
  ASSUME AnswersKept, ReportInv, ChainInv, NEW o \in Ops, phase[o] \in {"metered", "logged"}
  PROVE  Kind[result[o].err] =
           CASE stage[o] = "failed" /\ at[o] = "refused" -> "rate_limited"
             [] pc[CallOf(o)] = "rejected" -> "circuit_open"
             [] OTHER -> Kind[result[o].err]
<1>0. ResultExplained(o) /\ CallOf(o) \in Calls
  BY AttemptsAreCalls DEF ReportInv, ChainInv
<1>1. CASE stage[o] = "failed" /\ at[o] = "refused"
  <2>1. result[o].err = <<"rateLimited">>
    BY <1>0, <1>1 DEF ResultExplained, LimitError, Failure
  <2>2. Kind[result[o].err] = "rate_limited"
    BY <2>1, RefusalKinds, Zenon
  <2>3. pc[CallOf(o)] # "rejected"
    BY <1>0, <1>1 DEF ResultExplained
  <2> QED
    BY <1>1, <2>2, <2>3
<1>2. CASE ~(stage[o] = "failed" /\ at[o] = "refused") /\ pc[CallOf(o)] = "rejected"
  <2>1. result[o] = answers[CallOf(o)]
    BY <1>0, <1>2 DEF ResultExplained
  <2>2. answers[CallOf(o)] = Failure(<<"circuitOpen">>)
    BY <1>0, <1>2 DEF AnswersKept, Told
  <2>3. result[o].err = <<"circuitOpen">>
    BY <2>1, <2>2 DEF Failure
  <2>4. Kind[result[o].err] = "circuit_open"
    BY <2>3, RefusalKinds, Zenon
  <2> QED
    BY <1>2, <2>4
<1>3. CASE ~(stage[o] = "failed" /\ at[o] = "refused") /\ pc[CallOf(o)] # "rejected"
  BY <1>3
<1> QED
  BY <1>1, <1>2, <1>3

\* What the layers return instead of an answer is an error.
LEMMA FailuresFail ==
  \A l \in {"circuitOpen", "canceled", "rateLimited"} : Failure(<<l>>).err # <<>>
BY DEF Failure

\* A success that is reported is one that the breaker saw.
LEMMA SuccessReported ==
  ASSUME AnswersKept, ReportInv, ChainInv, NEW o \in Ops, phase[o] \in {"metered", "logged"},
         result[o].err = <<>>, result[o].status < 500
  PROVE  pc[CallOf(o)] = "done" /\ outcome[CallOf(o)] = "response"
<1>0. ResultExplained(o) /\ CallOf(o) \in Calls /\ result[o].status \in Nat
  BY AttemptsAreCalls DEF ReportInv, ReportTyped, ChainInv, GoodAnswers, RoundTrips
<1>1. stage[o] # "failed"
  BY <1>0, FailuresFail DEF ResultExplained, LimitError
<1>2. pc[CallOf(o)] \in Returned /\ result[o] = answers[CallOf(o)]
  <2>1. result[o] # Failure(<<"canceled">>)
    BY FailuresFail
  <2> QED
    BY <1>0, <1>1, <2>1 DEF ResultExplained
<1>3. Told(CallOf(o))
  BY <1>0 DEF AnswersKept
<1>4. pc[CallOf(o)] = "done"
  BY <1>2, <1>3, FailuresFail DEF Told, Returned
<1>5. outcome[CallOf(o)] = OutcomeOf(result[o])
  BY <1>2, <1>3, <1>4 DEF Told
<1>6. OutcomeOf(result[o]) = "response"
  BY <1>0 DEF OutcomeOf
<1> QED
  BY <1>4, <1>5, <1>6

\* Each operation is reported as one event and at most one entry, once it is over,
\* and the event says of it what the layer that decided it did.
THEOREM OneReportEach == ChainSpec => []ReportedOnce
<1>1. ChainInv /\ AnswersKept /\ ReportInv => ReportedOnce
  <2> SUFFICES ASSUME ChainInv, AnswersKept, ReportInv, NEW o \in Ops
      PROVE  LET kind == CASE stage[o] = "failed" /\ at[o] = "refused" -> "rate_limited"
                           [] pc[CallOf(o)] = "rejected" -> "circuit_open"
                           [] OTHER -> Kind[result[o].err]
             IN  /\ Len(metered[o]) = IF phase[o] \in {"metered", "logged"} THEN 1 ELSE 0
                 /\ metered[o] # <<>> =>
                      /\ metered[o][1].kind = kind
                      /\ metered[o][1].success =>
                           pc[CallOf(o)] = "done" /\ outcome[CallOf(o)] = "response"
                 /\ phase[o] = "logged" /\ result[o] \notin Quiet => logged[o] = <<result[o]>>
                 /\ phase[o] # "logged" \/ result[o] \in Quiet => logged[o] = <<>>
    BY DEF ReportedOnce
  <2>1. Written(o)
    BY DEF ReportInv
  <2>2. CASE phase[o] \notin {"metered", "logged"}
    BY <2>1, <2>2 DEF Written
  <2>3. CASE phase[o] \in {"metered", "logged"}
    <3>1. /\ metered[o] = <<Event(result[o])>> /\ metered[o][1] = Event(result[o])
          /\ Len(metered[o]) = 1
      BY <2>1, <2>3 DEF Written
    <3>2. /\ Event(result[o]).kind = Kind[result[o].err]
          /\ Event(result[o]).success <=> result[o].err = <<>> /\ result[o].status < 500
      BY DEF Event
    <3>3. metered[o][1].success =>
            pc[CallOf(o)] = "done" /\ outcome[CallOf(o)] = "response"
      BY <2>3, <3>1, <3>2, SuccessReported, Zenon
    <3>4. metered[o][1].kind = CASE stage[o] = "failed" /\ at[o] = "refused" -> "rate_limited"
                                 [] pc[CallOf(o)] = "rejected" -> "circuit_open"
                                 [] OTHER -> Kind[result[o].err]
      BY <2>3, <3>1, <3>2, KindReported
    <3>5. /\ phase[o] = "logged" /\ result[o] \notin Quiet => logged[o] = <<result[o]>>
          /\ phase[o] # "logged" \/ result[o] \in Quiet => logged[o] = <<>>
      BY <2>1 DEF Written
    <3> QED
      BY <2>3, <3>1, <3>3, <3>4, <3>5
  <2> QED
    BY <2>2, <2>3
<1> QED
  BY <1>1, InitAnswers, NextAnswers, InitReports, NextReports, ChainInvariant, PTL
     DEF ChainSpec
=============================================================================
