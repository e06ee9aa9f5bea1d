------------------------------- MODULE Orders -------------------------------
(***************************************************************************)
(* Sorting a set by a strict order of it, and the part of a sequence that  *)
(* stands at some places.                                                  *)
(***************************************************************************)
EXTENDS Naturals, Sequences, FiniteSets

\* The n-th of a finite set in a strict order of it.
Nth(S, Before(_, _), n) ==
    CHOOSE x \in S : Cardinality({y \in S : Before(y, x)}) = n - 1

\* The elements of a finite set in a strict order of it.
Ordered(S, Before(_, _)) == [n \in 1 .. Cardinality(S) |-> Nth(S, Before, n)]

\* The elements of a sequence at these places, in their order.
At(seq, places) == [n \in 1 .. Cardinality(places) |-> seq[Nth(places, <, n)]]
=============================================================================
