----------------------------- MODULE Subsequences -----------------------------
(***************************************************************************)
(* What JavaScript's filter returns, and the loops that take over the first *)
(* of several entries: a sequence with the elements at some positions of    *)
(* another, in their order.  The positions are a set, so that what is kept  *)
(* can be said of an element and of those before it, and reasoned about.    *)
(***************************************************************************)
EXTENDS Integers, FiniteSets, Sequences

(* The n-th of the positions P. *)
Nth(P, n) == CHOOSE p \in P : Cardinality({q \in P : q <= p}) = n

(* The elements of s at the positions P. *)
SubSeqAt(s, P) == [n \in 1..Cardinality(P) |-> s[Nth(P, n)]]

=============================================================================
