----------------------------- MODULE EagerBucket -----------------------------
(***************************************************************************)
(* A token bucket as its users think of it: tokens drip in as time passes, *)
(* up to a capacity, and are taken out one at a time.  Tokens come in      *)
(* fractions of 1/Unit; Rate of those drip in on every tick.               *)
(***************************************************************************)
EXTENDS Integers

CONSTANTS Unit, Rate, Capacity

VARIABLES now, level, taken

vars == <<now, level, taken>>

Init ==
  /\ now = 0
  /\ level = Capacity
  /\ taken = 0

Drip ==
  /\ now' = now + 1
  /\ level' = IF level + Rate > Capacity THEN Capacity ELSE level + Rate
  /\ UNCHANGED taken

Take ==
  /\ level >= Unit
  /\ level' = level - Unit
  /\ taken' = taken + 1
  /\ UNCHANGED now

Next == Drip \/ Take

Spec == Init /\ [][Next]_vars
=============================================================================
