----------------------------- MODULE Selections -----------------------------
(***************************************************************************)
(* Choosing some elements of a sequence by their places, their order kept.  *)
(* SelectSeq chooses by a test; a set of places can be reasoned about.      *)
(***************************************************************************)
EXTENDS Naturals, Sequences, FiniteSets

\* How many places of P come before p, and the n-th place of P.
Before(P, p) == Cardinality({q \in P : q < p})
Nth(P, n)    == CHOOSE p \in P : Before(P, p) = n - 1

\* The elements of s at the places P.
Picked(s, P) == [n \in 1..Cardinality(P) |-> s[Nth(P, n)]]
=============================================================================
