----------------------------- MODULE PlanVsActual -----------------------------
(***************************************************************************)
(* Planned against actual staffing: how many people worked at least half of  *)
(* a shift, found through an index over the bookings.                        *)
(*                                                                          *)
(* A booking is [person, from, to]; a shift [from, to, min, assigned] has    *)
(* the people assigned to it, and is never empty.                            *)
(***************************************************************************)
EXTENDS Integers, SequencesExt, FiniteSetsExt, Ordering

\* buildBookingIntervalIndex: bookings by their starts, then as they came, with the latest
\* end so far; those without length are kept apart.
Index(bookings) ==
  LET proper == {k \in DOMAIN bookings : bookings[k].from < bookings[k].to}
      order == InOrder(proper, {p \in proper \X proper :
                                  \/ bookings[p[1]].from < bookings[p[2]].from
                                  \/ bookings[p[1]].from = bookings[p[2]].from /\ p[1] < p[2]}) IN
  [order |-> order,
   latest |-> [n \in DOMAIN order |-> Max({bookings[order[m]].to : m \in 1 .. n})],
   rest |-> DOMAIN bookings \ proper]

\* Mutant: the search ends at the first booking that ends before the shift.
Reached_Own(bookings, index, shift) ==
  LET before == {n \in DOMAIN index.order : bookings[index.order[n]].from < shift.to} IN
  {n \in before : \A m \in before : m >= n => bookings[index.order[m]].to > shift.from}

\* The search goes down from the last booking that starts before the end of the shift
\* until all further ones end before its start.
Reached(bookings, index, shift) ==
  LET before == {n \in DOMAIN index.order : bookings[index.order[n]].from < shift.to} IN
  {n \in before : \A m \in before : m >= n => index.latest[m] > shift.from}

\* queryBookingIntervalIndex
Query(bookings, index, shift) ==
  {index.order[n] : n \in {m \in Reached(bookings, index, shift) :
                             bookings[index.order[m]].to > shift.from}}
  \cup {k \in index.rest : shift.from < bookings[k].to /\ bookings[k].from < shift.to}

\* mergeMinuteRanges: the length of a union of ranges; ranges that touch are joined.
Length(ranges) ==
  LET sorted == InOrder(ranges, {p \in ranges \X ranges :
                                   \/ p[1].from < p[2].from
                                   \/ p[1].from = p[2].from /\ p[1].to < p[2].to})
      joined == FoldLeft(LAMBDA done, r :
                           IF done # <<>> /\ r.from <= Last(done).to
                           THEN [done EXCEPT ![Len(done)].to = Max({@, r.to})]
                           ELSE Append(done, r), <<>>, sorted) IN
  FoldLeft(LAMBDA sum, r : sum + r.to - r.from, 0, joined)

\* evaluateCoverageSlot, with the threshold of one half.
Staffing(bookings, index, shift) ==
  LET mine == Query(bookings, index, shift)
      ranges(x) == {[from |-> Max({bookings[k].from, shift.from}), to |-> Min({bookings[k].to, shift.to})] :
                      k \in {j \in mine : bookings[j].person = x}}
      covered == [x \in {bookings[k].person : k \in mine} |-> Length(ranges(x))]
      present == {x \in DOMAIN covered : 2 * covered[x] >= shift.to - shift.from} IN
  [planned |-> Max({shift.min, Cardinality(shift.assigned)}),
   actual |-> Cardinality(present),
   covered |-> MapThenSumSet(LAMBDA x : covered[x], present)]

\* evaluatePlanVsActualCoverage, by shift; a mismatch is any difference of headcounts.
Coverage(bookings, shifts) ==
  LET index == Index(bookings) IN [s \in shifts |-> Staffing(bookings, index, s)]
Mismatched(coverage) == {s \in DOMAIN coverage : coverage[s].planned # coverage[s].actual}
Understaffed(coverage) == {s \in DOMAIN coverage : coverage[s].actual < s.min}
=============================================================================
