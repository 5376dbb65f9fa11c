------------------------------ MODULE MonthReview ------------------------------
(***************************************************************************)
(* The review of a month before it is closed: the checklist, calculated from *)
(* the bookings, the leave, the corrections and the rosters of the month,    *)
(* and the sheets that are evaluated by the same rules when somebody asks.   *)
(*                                                                          *)
(* Each operation holds the lock of the person; closing periods that are     *)
(* locked, and who decides, are the matter of ClosingPeriod and              *)
(* WorkflowApproval, and time accounts that of ClosingPeriod.                *)
(***************************************************************************)
EXTENDS TimeRules, PlanVsActual

CONSTANTS
  Person, Unit,
  Staff,       \* the people with the role EMPLOYEE or SHIFT_PLANNER
  Term,        \* the rows of employment_terms: appointment, person, unit, interval
  Booking,     \* what may be booked: appointment, kind, interval; an open one ends Never
  Correction,  \* what may be corrected: a booking, and what it should be
  Absence,     \* what leave may be asked for: appointment, first and last instant
  Month,       \* closing periods: unit or Everyone, first and last instant
  Roster,      \* rosters: unit, interval, shifts
  Limits,      \* policies of limits
  FirstLimits, \* those of the time engine, and while there is no policy
  Gap,         \* the longest gap between bookings without a warning, in instants
  Asked,       \* the sheets that are sent to the time engine
  Instant,     \* when corrections are asked for
  MaxOpen,     \* bound: corrections that are undecided at once
  MaxWrites,   \* bound: operations that are committed
  Everyone, Never

Appointment == {t.appointment : t \in Term}

\* The terms of an appointment follow each other without an overlap.
ASSUME TermsFollow ==
  /\ IsFiniteSet(Term) /\ Never \in Nat
  /\ \A t \in Term : /\ t.from \in Int /\ t.to \in Int /\ t.from < t.to /\ t.to <= Never
                    /\ t.person \in Person /\ t.unit \in Unit
  /\ \A t, u \in Term : t # u /\ t.appointment = u.appointment => t.to <= u.from \/ u.to <= t.from
\* A booking belongs to an appointment, and what ends, ends behind its start.
ASSUME BookingsAreProper ==
  /\ Booking \subseteq [appointment : Appointment, kind : STRING, from : Nat, to : Nat]
  /\ \A b \in Booking : b.from < b.to /\ b.to <= Never
ASSUME AbsencesAreProper ==
  Absence \subseteq [appointment : Appointment, from : Nat, to : Nat] /\ \A l \in Absence : l.from <= l.to
ASSUME LimitsAreLimits ==
  Limits \subseteq [day : Nat, rest : Nat, week : Nat] /\ FirstLimits \in Limits
ASSUME CorrectionsKeepTheAppointment ==
  \A k \in Correction : {k.of, k.as} \subseteq Booking /\ k.of.appointment = k.as.appointment
ASSUME SheetsAreSheets == Asked \subseteq Seq([from : Int, to : Int, kind : STRING])
\* No shift is empty, and the shifts of a roster lie in it.
ASSUME ShiftsAreProper ==
  \A r \in Roster : /\ r.from \in Int /\ r.to \in Int
                    /\ \A s \in r.shifts : /\ s.from \in Int /\ s.to \in Int
                                           /\ r.from <= s.from /\ s.from < s.to /\ s.to <= r.to
ASSUME BoundsAreSmall == MaxOpen \in Nat /\ MaxWrites \in Nat

VARIABLES
  booked,      \* the rows of bookings
  absence,     \* the status of each leave
  corrections, \* undecided corrections: booking, what it becomes, when it was asked for
  limits,      \* the active policy of limits
  asked,       \* the sheet the time engine was asked about
  written      \* how many operations were committed

monthVars == <<booked, absence, corrections, limits, asked, written>>

TermsOf(a) == {t \in Term : t.appointment = a}
Owner(a) == (CHOOSE t \in TermsOf(a) : TRUE).person

TypeOK ==
  /\ booked \subseteq Booking
  /\ absence \in [Absence -> {"NONE", "REQUESTED", "APPROVED", "REJECTED", "CANCELLED"}]
  /\ corrections \subseteq [of : Booking, as : Booking, at : Instant]
  /\ limits \in Limits
  /\ asked \in Asked \cup {<<>>}
  /\ written \in 0 .. MaxWrites

Init ==
  /\ booked = {}
  /\ absence = [l \in Absence |-> "NONE"]
  /\ corrections = {}
  /\ limits = FirstLimits
  /\ asked = <<>>
  /\ written = 0

-----------------------------------------------------------------------------
(* Operations.                                                              *)

Writes == written < MaxWrites /\ written' = written + 1

Open(b) == b.to = Never
Meets(i, j) == i.from < j.to /\ i.to > j.from
\* An open booking is known by its first instant; the last instant of leave counts.
Known(i) == IF i.to = Never THEN [i EXCEPT !.to = i.from + 1] ELSE i
Whole(l) == [l EXCEPT !.to = l.to + 1]

\* resolveInterval: terms of one configuration throughout the interval.
TermsOver(i) == {t \in TermsOf(i.appointment) : Meets(t, i)}
UnitsOver(i) == {t.unit : t \in TermsOver(i)}
Resolves(i) ==
  /\ Cardinality(UnitsOver(i)) = 1
  /\ \A n \in i.from .. i.to - 1 : \E t \in TermsOver(i) : n \in t.from .. t.to - 1
UnitOf(i) == CHOOSE u \in UnitsOver(i) : TRUE

\* bookingOverlapWhere
FreeOf(b, others) == \A o \in others : Owner(o.appointment) = Owner(b.appointment) => ~ Meets(o, b)

Book(b) ==
  /\ Writes /\ Resolves(Known(b)) /\ FreeOf(b, booked)
  /\ booked' = booked \cup {b}
  /\ UNCHANGED <<absence, corrections, limits, asked>>

\* createBookingCorrection; nothing is compared with other bookings yet.
AskForCorrection(k, at) ==
  /\ Writes /\ k.of \in booked /\ Resolves(Known(k.as))
  /\ Cardinality(corrections) < MaxOpen
  /\ corrections' = corrections \cup {[of |-> k.of, as |-> k.as, at |-> at]}
  /\ UNCHANGED <<booked, absence, limits, asked>>

\* applyBookingCorrection, or a rejection.
DecideCorrection(k, approve) ==
  /\ Writes /\ k \in corrections
  /\ approve => k.of \in booked /\ FreeOf(k.as, booked \ {k.of})
  /\ corrections' = corrections \ {k}
  /\ booked' = IF approve THEN (booked \ {k.of}) \cup {k.as} ELSE booked
  /\ UNCHANGED <<absence, limits, asked>>

\* createAbsence, the decision of its workflow, and cancelAbsence.
AskForAbsence(l) ==
  /\ Writes /\ absence[l] \in {"NONE", "REJECTED", "CANCELLED"} /\ Resolves(Whole(l))
  /\ \A o \in Absence : absence[o] \in {"REQUESTED", "APPROVED"} /\ o.appointment = l.appointment
                      => ~ Meets(Whole(o), Whole(l))
  /\ absence' = [absence EXCEPT ![l] = "REQUESTED"]
  /\ UNCHANGED <<booked, corrections, limits, asked>>

DecideAbsence(l, status) ==
  /\ Writes /\ absence[l] = "REQUESTED"
  /\ absence' = [absence EXCEPT ![l] = status]
  /\ UNCHANGED <<booked, corrections, limits, asked>>

CancelAbsence(l) ==
  /\ Writes /\ Resolves(Whole(l)) /\ absence[l] \in {"REQUESTED", "APPROVED"}
  /\ absence' = [absence EXCEPT ![l] = "CANCELLED"]
  /\ UNCHANGED <<booked, corrections, limits, asked>>

\* upsertThresholds
SetLimits(new) ==
  /\ Writes /\ limits' = new
  /\ UNCHANGED <<booked, absence, corrections, asked>>

\* timeEngineEvaluate
Ask(sheet) ==
  /\ asked' = sheet
  /\ UNCHANGED <<booked, absence, corrections, limits, written>>

Operation ==
  \/ \E b \in Booking : Book(b)
  \/ \E k \in Correction, at \in Instant : AskForCorrection(k, at)
  \/ \E k \in corrections, approve \in BOOLEAN : DecideCorrection(k, approve)
  \/ \E l \in Absence : AskForAbsence(l) \/ CancelAbsence(l)
  \/ \E l \in Absence, status \in {"APPROVED", "REJECTED"} : DecideAbsence(l, status)
  \/ \E new \in Limits : SetLimits(new)

Next == Operation \/ \E sheet \in Asked : Ask(sheet)

Spec == Init /\ [][Next]_monthVars

-----------------------------------------------------------------------------
(* The checklist of a month.  Both ends of a month are inside.               *)

InScope(m, u) == m.unit \in {Everyone, u}
During(m, i) == i.from <= m.to /\ i.to >= m.from

\* closingPopulation.  Its conditions on the dates of employment follow from those on
\* the terms: create and appendTerm accept no term outside its appointment.
Population(m) ==
  {t.appointment : t \in {u \in Term : /\ u.person \in Staff /\ InScope(m, u.unit)
                                      /\ u.from <= m.to /\ u.to > m.from}}
People(m) == {Owner(a) : a \in Population(m)}

\* Every booking of these people, of whichever appointment and unit.
RuleBookings(m) == {b \in booked : Owner(b.appointment) \in People(m) /\ During(m, b)}

\* Mutant: leave that is asked for counts as leave.
LeaveOf_Requested(m) ==
  {l \in Absence : /\ l.appointment \in Population(m) /\ absence[l] \in {"REQUESTED", "APPROVED"}
                   /\ During(m, l) /\ InScope(m, UnitOf(Whole(l)))}

LeaveOf(m) ==
  {l \in Absence : /\ l.appointment \in Population(m) /\ absence[l] = "APPROVED"
                   /\ During(m, l) /\ InScope(m, UnitOf(Whole(l)))}

\* Appointments without a completed work booking or approved leave in the unit.
MissingBookings(m) ==
  Population(m) \ ({b.appointment : b \in {c \in RuleBookings(m) : /\ ~ Open(c) /\ c.kind \in WorkKinds
                                                                  /\ InScope(m, UnitOf(c))}}
                   \cup {l.appointment : l \in LeaveOf(m)})

\* ruleBookingsByPerson: what the time engine is asked about a person.
Entries(m, x) ==
  LET mine == {b \in RuleBookings(m) : /\ Owner(b.appointment) = x /\ ~ Open(b)
                                        /\ b.kind \in WorkKinds \cup {"PAUSE"}} IN
  InOrder(mine, {p \in mine \X mine : p[1].from < p[2].from})

RuleViolations(m) ==
  Cardinality({b \in RuleBookings(m) : Open(b)})
  + MapThenSumSet(LAMBDA x : Cardinality(Evaluate(Entries(m, x), [limits EXCEPT !.week = 100 * Never]).violations),
                  People(m))

BookingGaps(m) ==
  MapThenSumSet(LAMBDA x : LET e == Entries(m, x) IN
                           Cardinality({k \in 2 .. Len(e) : e[k].from - e[k - 1].to > Gap}),
                People(m))

\* Corrections that were asked for in the month, whichever month they are about.
OpenCorrections(m) ==
  {k \in corrections : k.of.appointment \in Population(m) /\ k.at \in m.from .. m.to}

OpenLeave(m) ==
  {l \in Absence : /\ l.appointment \in Population(m) /\ absence[l] = "REQUESTED"
                   /\ During(m, l) /\ InScope(m, UnitOf(Whole(l)))}

\* The bookings a roster is compared with: on its own page, where one that is open has no
\* length, and in the checklist.
Work(b, r) == b.kind \in WorkKinds /\ UnitsOver(Known(b)) = {r.unit} /\ b.from < r.to
RosterBookings(r) ==
  {[person |-> Owner(b.appointment), from |-> b.from, to |-> IF Open(b) THEN b.from ELSE b.to] :
     b \in {c \in booked : Work(c, r) /\ IF Open(c) THEN c.from >= r.from ELSE c.to > r.from}}
ChecklistBookings(r) ==
  {[person |-> Owner(b.appointment), from |-> b.from, to |-> b.to] :
     b \in {c \in booked : Work(c, r) /\ ~ Open(c) /\ c.to > r.from}}
CoverageOf(bookings, r) == Coverage(SetToSeq(bookings), r.shifts)

RosterMismatches(m) ==
  MapThenSumSet(LAMBDA r : Cardinality(Mismatched(CoverageOf(ChecklistBookings(r), r))),
                {r \in Roster : InScope(m, r.unit) /\ r.from <= m.to /\ r.to >= m.from})

\* generateClosingChecklist: the counts that are errors, and those that are warnings.
Checklist(m) ==
  [errors |-> [missingBookings |-> Cardinality(MissingBookings(m)),
               openCorrections |-> Cardinality(OpenCorrections(m)),
               ruleViolations |-> RuleViolations(m)],
   warnings |-> [bookingGaps |-> BookingGaps(m), openLeave |-> Cardinality(OpenLeave(m)),
                 rosterMismatches |-> RosterMismatches(m)]]
HasErrors(m) == LET e == Checklist(m).errors IN \E c \in DOMAIN e : e[c] > 0

-----------------------------------------------------------------------------
(* Properties.                                                              *)

MinutesCountOnce == CountsOnce(asked, FirstLimits)

\* The instants a person spends on a kind of booking.
Spent(x, kinds, bs) ==
  UNION {b.from .. b.to - 1 : b \in {c \in bs : ~ Open(c) /\ c.kind \in kinds /\ Owner(c.appointment) = x}}

\* A month without errors is one in which every appointment of the unit worked there or was
\* on approved leave, nothing of its people is open, and no correction of it that was asked
\* for in the month.  Nobody worked longer on a day than the limit, without the break of the
\* hours worked, or began on another day without the rest, as far as the bookings that touch
\* the month tell, to less than a minute (closing-checklist-metrics.ts, -rules.ts).
CleanMonth ==
  \A m \in Month : ~ HasErrors(m) =>
    LET seen == {b \in booked : During(m, b)}
        dayOf(d) == d * DayHours * Hour .. (d + 1) * DayHours * Hour - 1
        unitAt(a, n) == {t.unit : t \in {u \in TermsOf(a) : n \in u.from .. u.to - 1}} IN
    /\ \A a \in Population(m) :
         \/ \E b \in seen : /\ b.appointment = a /\ ~ Open(b) /\ b.kind \in WorkKinds
                            /\ m.unit = Everyone \/ unitAt(a, b.from) = {m.unit}
         \/ \E l \in Absence : /\ l.appointment = a /\ absence[l] = "APPROVED" /\ During(m, l)
                               /\ m.unit = Everyone \/ unitAt(a, l.from) = {m.unit}
    /\ \A b \in seen : Open(b) => Owner(b.appointment) \notin People(m)
    /\ \A k \in corrections : k.at \in m.from .. m.to => k.of.appointment \notin Population(m)
    /\ \A x \in People(m) :
         LET work == Spent(x, WorkKinds, seen)
             pauses == {b \in seen : b.kind = "PAUSE"}
             worked(d) == Cardinality(work \cap dayOf(d))
             paused(d) == Cardinality(Spent(x, {"PAUSE"}, seen) \cap dayOf(d)) IN
         /\ \A d \in 0 .. Day(Never) :
              /\ worked(d) < (limits.day + 1) * Minute
              /\ \A r \in Breaks : worked(d) >= r.hours * Hour + Minute - 1 =>
                   paused(d) + (Minute - 1) * Cardinality(pauses) >= r.minutes * Minute
         /\ \A b, c \in seen :
              /\ Owner(b.appointment) = x /\ Owner(c.appointment) = x
              /\ {b.kind, c.kind} \subseteq WorkKinds /\ Day(b.from) < Day(c.from)
              => c.from - b.to > (limits.rest - 1) * Minute

\* Who is counted for a shift is who worked at least half of it in the unit of the roster,
\* whatever other bookings lie before and around it, and the page of the roster and the
\* checklist of the month count the same (plan-vs-actual.ts, plan-vs-actual-coverage.ts).
CoverageIsExact ==
  \A r \in Roster :
    LET page == CoverageOf(RosterBookings(r), r)
        mine == {b \in booked : UnitsOver(Known(b)) = {r.unit}} IN
    /\ Mismatched(CoverageOf(ChecklistBookings(r), r)) = Mismatched(page)
    /\ \A s \in r.shifts :
         LET there(x) == Cardinality(Spent(x, WorkKinds, mine) \cap (s.from .. s.to - 1))
             present == {x \in Person : 2 * there(x) >= s.to - s.from} IN
         /\ page[s].actual = Cardinality(present)
         /\ page[s].covered = MapThenSumSet(there, present)
=============================================================================
