------------------------------- MODULE Ordering -------------------------------
(***************************************************************************)
(* The elements of a finite set in order, as Array.prototype.sort leaves     *)
(* them.  The order is a set of pairs, so that lemmas about it can be stated *)
(* for every order: TLC's SortSeq, under SetToSortSeq, is built in and has   *)
(* no definition that a proof could expand.                                  *)
(***************************************************************************)
EXTENDS Integers, FiniteSets

\* Each element stands behind those that come before it.
InOrder(S, before) ==
  LET rank == [u \in S |-> Cardinality({v \in S : <<v, u>> \in before})] IN
  [i \in 1 .. Cardinality(S) |-> CHOOSE u \in S : rank[u] = i - 1]
=============================================================================
