---- MODULE MCWorkRecords ----
(* Ann is appointed in unit A, whose month is the second of four instants, may
   change to unit B for the third, and is a member of a project. *)
EXTENDS WorkRecords, TLC

CONSTANTS ann, unitA, unitB, a1, month, old, new

I(a, b) == [from |-> a, to |-> b]
MCSpan == {I(0, 1), I(0, 2), I(1, 2)}
MCDutySpan == {I(0, 1), I(1, 2)}
MCWebBooking == {[person |-> ann, appointment |-> None, span |-> I(0, 2)]}
MCNextTerm == {[unit |-> unitB, from |-> 2, to |-> 3]}
MCPeriodSpan == [p \in {month} |-> I(2, 3)]
MCScope == [p \in {month} |-> unitA]
MCFirstTerms == {[appointment |-> a1, person |-> ann, start |-> 0, end |-> Never, unit |-> unitA,
                  from |-> 0, to |-> Never, legacy |-> FALSE]}
MCNewRotation == {[person |-> ann, appointment |-> a1, unit |-> unitA, from |-> 0, to |-> 2]}
MCWindow == {[from |-> None, to |-> 1], [from |-> 1, to |-> 3]}
M(p, i) == [project |-> p, person |-> ann, appointment |-> a1, from |-> i.from, to |-> i.to]
MCNewMember == {M(old, I(0, Never)), M(new, I(0, 2)), M(new, I(1, Never))}
MCFirstMember == {M(old, I(0, Never))}
Alike == Permutations(Request)
====
