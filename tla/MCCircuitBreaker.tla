------------------------- MODULE MCCircuitBreaker -------------------------
(***************************************************************************)
(* CircuitBreaker on small instances.                                      *)
(***************************************************************************)
EXTENDS CircuitBreaker, TLC

\* Calls differ in nothing but their name.  Sound for the safety runs only.
CallSymmetry == Permutations(Calls)
=============================================================================
