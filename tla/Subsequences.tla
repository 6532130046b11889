---------------------------- MODULE Subsequences ----------------------------
(***************************************************************************)
(* std::remove_if and copy loops over a std::vector: the elements at some  *)
(* of the positions, in the order they had.  It is the SelectSeq of the    *)
(* Sequences module, by positions and without recursion.                   *)
(***************************************************************************)
EXTENDS Integers, Sequences, FiniteSets

(* The number of positions of I up to i. *)
Rank(I, i) == Cardinality({j \in I : j <= i})

(* The k-th position of I. *)
Position(I, k) == CHOOSE i \in I : Rank(I, i) = k

Picked(s, I) == [k \in 1..Cardinality(I) |-> s[Position(I, k)]]

(* A sequence, whatever its elements. *)
IsSeq(s) == s \in Seq({s[i] : i \in DOMAIN s})
=============================================================================
