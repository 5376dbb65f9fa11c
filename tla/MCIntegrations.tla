---- MODULE MCIntegrations ----
(* Days have two instants.  Ann is appointed in unit A, whose month is the third
   day, and has asked for leave on the first two; her name is that of source hr.
   She may change to unit B, whose month is before that of A, for a while and back,
   and get a second, short appointment.  An import appoints Bob, whom it
   knows, or brings Cem, who leaves after the second day. *)
EXTENDS Integrations, TLC

CONSTANTS ann, bob, cem, unitA, unitB, a1, a2, a3, monthA, monthB, hr, pay, n1, n2

I(a, b) == [from |-> a, to |-> b]
Morning == I(0, 1)
Open == I(1, Never)
Long == I(3, 7)
MCSpan == {Morning, Open, Long}
MCWebBooking == {[person |-> ann, appointment |-> None, span |-> i] : i \in {Morning, Long}}
MCNewTerm == {[person |-> ann, start |-> 0, end |-> 2, unit |-> unitB, from |-> 0, to |-> 1]}
MCNextTerm == {[unit |-> unitB, from |-> 3, to |-> 6], [unit |-> unitA, from |-> 4, to |-> Never]}
MCPeriodSpan == [p \in {monthA, monthB} |-> IF p = monthA THEN I(7, 8) ELSE I(5, 6)]
MCScope == [p \in {monthA, monthB} |-> IF p = monthA THEN unitA ELSE unitB]
MCLeave == {[person |-> ann, appointment |-> a1, from |-> 0, to |-> 2]}
MCFirstTerms == {[appointment |-> a1, person |-> ann, start |-> 0, end |-> Never, unit |-> unitA,
                  from |-> 0, to |-> Never, legacy |-> TRUE]}

R(x, a, i, known) == [person |-> x, appointment |-> a, span |-> i, known |-> known]
MCBatch == {<<R(ann, None, Morning, TRUE), R(ann, None, Open, TRUE), R(ann, None, Long, TRUE)>>,
            <<R(bob, None, Morning, TRUE), R(ann, a1, Long, TRUE), R(bob, None, Long, FALSE)>>}

Member(x, u, n, i) == [person |-> x, unit |-> u, name |-> n, start |-> i.from, end |-> i.to]
MCRow == {{Member(bob, unitA, n1, I(0, Never))},
          {Member(ann, unitA, n1, I(0, Never)), Member(cem, unitA, n1, I(0, 4))}}
D(src, x, rev, expected, v) == [source |-> src, record |-> x, person |-> x, revision |-> rev,
                                expected |-> expected, value |-> v]
MCDelivery == {D(hr, ann, 1, 0, n2), D(hr, ann, 2, 1, n1), D(pay, ann, 1, 0, n1)}
MCBefore == {{D(hr, ann, 1, 0, n2)}}
MCWish == {[person |-> ann, value |-> n1]}
MCFirstHome == [x \in Person |-> CASE x = ann -> unitA [] x = bob -> unitB [] OTHER -> None]
MCFirstName == [x \in Person |-> IF x = cem THEN None ELSE n1]
Alike == Permutations(Request) \cup Permutations(Terminal) \cup Permutations(Change)
====
