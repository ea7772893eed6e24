-------------------------- MODULE BreakerContract --------------------------
(***************************************************************************)
(* What a circuit breaker promises its callers, whatever it counts.        *)
(*                                                                         *)
(* It knows the calls whose results it still waits for, and only those: a  *)
(* change of mode forgets every call admitted before it.  While open it    *)
(* admits nobody until Cooldown has passed; then one call at a time may    *)
(* probe, up to MaxProbes at once; and it changes its mind only on a       *)
(* result it was waiting for.                                              *)
(***************************************************************************)
EXTENDS Integers, FiniteSets

CONSTANTS Calls, Cooldown, MaxProbes, Never

VARIABLES
  now,        \* the clock
  mode,       \* "closed", "open" or "halfOpen"
  live,       \* the calls whose results may still count
  openSince   \* when the breaker opened; Never unless it is open

vars == <<now, mode, live, openSince>>

Init ==
  /\ now = 0
  /\ mode = "closed"
  /\ live = {}
  /\ openSince = Never

Tick ==
  /\ now' = now + 1
  /\ UNCHANGED <<mode, live, openSince>>

\* A closed breaker lets everyone through.
Admit(c) ==
  /\ mode = "closed"
  /\ c \notin live
  /\ live' = live \union {c}
  /\ UNCHANGED <<now, mode, openSince>>

BeginProbing(c) ==
  /\ mode = "open"
  /\ now - openSince >= Cooldown
  /\ mode' = "halfOpen"
  /\ live' = {c}
  /\ openSince' = Never
  /\ UNCHANGED now

Probe(c) ==
  /\ mode = "halfOpen"
  /\ c \notin live
  /\ Cardinality(live) < MaxProbes
  /\ live' = live \union {c}
  /\ UNCHANGED <<now, mode, openSince>>

\* A result is taken into account and changes nothing yet.
Settle(c) ==
  /\ c \in live
  /\ live' = live \ {c}
  /\ UNCHANGED <<now, mode, openSince>>

Trip(c) ==
  /\ c \in live
  /\ mode # "open"
  /\ mode' = "open"
  /\ live' = {}
  /\ openSince' = now
  /\ UNCHANGED now

Recover(c) ==
  /\ c \in live
  /\ mode = "halfOpen"
  /\ mode' = "closed"
  /\ live' = {}
  /\ UNCHANGED <<now, openSince>>

Next ==
  \/ Tick
  \/ \E c \in Calls :
       \/ Admit(c)
       \/ BeginProbing(c)
       \/ Probe(c)
       \/ Settle(c)
       \/ Trip(c)
       \/ Recover(c)

Spec == Init /\ [][Next]_vars
=============================================================================
