---- MODULE MCCalculations ----
(* What is calculated whenever somebody asks, in three scenes; what the other scenes are
   about rests.  Leave: three years of two months of three days, with weeks of three days.
   Month: a month that begins a minute after a day does, with a day around it on both
   sides, hours of three minutes and days of three hours; two people are reviewed, one of
   them with two appointments and a change of units, and a lead works with them.  Sheet: up
   to three intervals, in every order. *)
EXTENDS LeaveHistory, MonthReview

CONSTANTS ann, ben, lea, unitA, unitB, a1, b1, b2, c1

VARIABLE scene

-----------------------------------------------------------------------------
(* Leave.                                                                   *)

Days(a, b) == [from |-> a, to |-> b]
Kept == [annual |-> 4, prorated |-> TRUE, carries |-> TRUE, maxCarried |-> 2, deadline |-> 2]
Lost == [annual |-> 5, prorated |-> FALSE, carries |-> FALSE, maxCarried |-> 1, deadline |-> 1]
ByHours == [basis |-> "WEEKLY_HOURS", at |-> "YEAR_START"]
ByDays == [basis |-> "WORKING_DAYS", at |-> "AS_OF"]
Says(unit, hours, days, rule, policy) ==
  [unit |-> unit, hours |-> hours, days |-> days, holidays |-> {8}, rule |-> rule, policy |-> policy]
Lasts(from, to, says) == [from |-> from, to |-> to, is |-> says]
MCWhole == Lasts(6, 36, Says(unitA, 4, {1, 2}, Kept, ByHours))
MCFirstTerm == {MCWhole, [MCWhole EXCEPT !.from = 8, !.to = 24]}
MCNextTerm ==
  {Lasts(10, 36, Says(unitB, 4, {1, 2}, Kept, ByHours)), Lasts(13, 36, Says(unitA, 2, {1}, Kept, ByHours)),
   Lasts(14, 33, Says(unitA, 2, {1}, Lost, Nothing)), Lasts(16, 36, Says(unitB, 2, {1}, Lost, Nothing)),
   Lasts(20, 36, Says(unitA, 4, {1, 2}, Lost, ByDays))}
MCLeave == {Days(3, 4), Days(5, 7), Days(6, 6), Days(7, 10), Days(9, 9), Days(12, 15)}
MCDelta == {100, -50}
MCEmployed == Days(3, 17)
MCFirstLeave == {Days(3, 4)}

-----------------------------------------------------------------------------
(* The month and the sheets.                                                *)

TermOf(a, x, u, from, to) == [appointment |-> a, person |-> x, unit |-> u, from |-> from, to |-> to]
MCTerm ==
  {TermOf(a1, ann, unitA, 0, 72), TermOf(b1, ben, unitA, 0, 36), TermOf(b1, ben, unitB, 36, 72),
   TermOf(b2, ben, unitB, 18, 72), TermOf(c1, lea, unitA, 0, 72)}
Entry(a, kind, from, to) == [appointment |-> a, kind |-> kind, from |-> from, to |-> to]
MCBooking ==
  {Entry(a1, "WORK", 18, 24), Entry(a1, "PAUSE", 24, 25), Entry(a1, "DEPLOYMENT", 26, 31),
   Entry(a1, "WORK", 40, 72), Entry(a1, "WORK", 40, 46), Entry(a1, "WORK", 51, 57),
   Entry(b1, "WORK", 14, 20), Entry(b1, "ON_CALL", 22, 72), Entry(b2, "WORK", 32, 34),
   Entry(b2, "WORK", 38, 43), Entry(c1, "WORK", 17, 50)}
MCCorrection ==
  {[of |-> Entry(a1, "WORK", 40, 72), as |-> Entry(a1, "WORK", 40, 46)],
   [of |-> Entry(b2, "WORK", 32, 34), as |-> Entry(b2, "WORK", 38, 43)]}
MCAbsence == {[appointment |-> a1, from |-> 36, to |-> 53], [appointment |-> b1, from |-> 18, to |-> 35]}
MCMonth == {[unit |-> unitA, from |-> 20, to |-> 55], [unit |-> Everyone, from |-> 20, to |-> 55]}
Shift(from, to, min, assigned) == [from |-> from, to |-> to, min |-> min, assigned |-> assigned]
MCRoster ==
  {[unit |-> unitA, from |-> 18, to |-> 54,
    shifts |-> {Shift(20, 28, 1, {ann}), Shift(30, 46, 1, {ann, lea})}],
   [unit |-> unitB, from |-> 36, to |-> 72, shifts |-> {Shift(38, 46, 1, {ben})}]}
Limit(day, rest) == [day |-> day, rest |-> rest, week |-> 300]
MCBreaks == {[hours |-> 1, minutes |-> 1], [hours |-> 2, minutes |-> 2]}
MCSurcharges == [HOLIDAY |-> 3, WEEKEND |-> 2]
MCNight == [from |-> 7, to |-> 2]
Span(from, to, kind) == [from |-> from, to |-> to, kind |-> kind]
MCSpan ==
  {Span(2, 11, "WORK"), Span(3, 8, "WORK"), Span(8, 11, "DEPLOYMENT"), Span(14, 20, "WORK"),
   Span(3, 6, "PAUSE"), Span(8, 8, "WORK"), Span(24, 30, "WORK"), Span(16, 42, "WORK")}
MCAsked == UNION {[1 .. n -> MCSpan] : n \in 1 .. 3}
MCLimits == {Limit(5, 4), Limit(4, 5)}
MCFirstLimits == Limit(5, 4)

-----------------------------------------------------------------------------
(* Scenes.                                                                  *)

SceneInit ==
  /\ HistoryInit /\ Init /\ scene \in {"leave", "month", "sheet"}
  /\ scene = "leave" \/ terms = {MCWhole}

SceneNext ==
  /\ UNCHANGED scene
  /\ \/ scene = "leave" /\ HistoryNext /\ UNCHANGED monthVars
     \/ scene = "month" /\ Operation /\ UNCHANGED <<accountVars, before>>
     \/ /\ scene = "sheet" /\ asked = <<>> /\ UNCHANGED <<accountVars, before>>
        /\ \E sheet \in MCAsked : Ask(sheet)

SceneSpec == SceneInit /\ [][SceneNext]_<<accountVars, before, monthVars, scene>>
====
