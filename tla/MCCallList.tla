----------------------------- MODULE MCCallList -----------------------------
(* Calls are interchangeable: each set of calls is looked at once.          *)
EXTENDS CallList, TLC

CallSymmetry == Permutations(Calls)
=============================================================================
