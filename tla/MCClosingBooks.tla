---- MODULE MCClosingBooks ----
(* The month of one unit inside the month of everyone: two periods whose
   locks differ and whose people are shared. *)
EXTENDS ClosingPeriod, TLC

CONSTANTS ann, unit, everyone, unitMonth, globalMonth

MCUnitOf == [x \in {ann} |-> unit]
MCScope == [p \in {unitMonth, globalMonth} |-> IF p = unitMonth THEN unit ELSE everyone]
MCRank == [p \in {unitMonth, globalMonth} |-> IF p = unitMonth THEN 1 ELSE 2]
RequestsAlike == Permutations(Request)
====
