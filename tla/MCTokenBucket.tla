---------------------------- MODULE MCTokenBucket ----------------------------
(***************************************************************************)
(* TokenBucket on small instances.                                         *)
(***************************************************************************)
EXTENDS TokenBucket, TLC

\* The callers of each kind differ in nothing but their name.
CallerSymmetry == Permutations(Blocking) \union Permutations(Calls \ Blocking)
=============================================================================
