---- MODULE MCRosterPlanning ----
(* Ann has an appointment in each of two units and Bob in one of them; a
   closing period of his unit covers the second half of the rosters. *)
EXTENDS RosterPlanning, TLC

CONSTANTS ann, bob, unitA, unitB, month

I(a, b) == [from |-> a, to |-> b]
MCSpan == {I(0, 1), I(2, 3), I(0, 3)}
MCShiftSpan == {I(0, 1), I(2, 3)}
MCRosterSpan == {I(0, 3)}
MCPeriodSpan == [p \in {month} |-> I(2, 3)]
MCScope == [p \in {month} |-> unitA]
MCAppointed == {<<ann, unitA>>, <<ann, unitB>>, <<bob, unitA>>}
MCBoundary == [a \in MCAppointed |-> IF a = <<ann, unitA>> THEN {1} ELSE {}]
Alike == Permutations(Request) \cup Permutations(Roster) \cup Permutations(Shift)
====
