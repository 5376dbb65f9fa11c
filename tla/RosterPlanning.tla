---------------------------- MODULE RosterPlanning ----------------------------
(***************************************************************************)
(* Rosters of cueq: planners create rosters, their shifts and the people on *)
(* them, and publish them; people swap published shifts, book their work to *)
(* a shift and change to other terms of employment; closing periods lock    *)
(* the past.                                                                *)
(*                                                                          *)
(* A planner's request reads the shift outside of its transaction, which    *)
(* then takes the closing barrier and the roster's lock, reads again, takes *)
(* the locks of people, checks and writes.  Advisory locks are tried, never *)
(* waited for, and are dropped when the transaction ends; a statement reads *)
(* what is committed when it runs, and writes appear at the commit.         *)
(***************************************************************************)
EXTENDS Naturals, FiniteSets

CONSTANTS
  Person, Unit, Roster, Shift, Period,
  Appointed,    \* pairs of a person and the unit of one of their appointments
  Span,         \* the intervals of shifts, rosters, bookings and periods
  RosterSpan,   \* the intervals rosters are created for
  ShiftSpan,    \* the intervals of shifts and bookings
  PeriodSpan,   \* the interval of each closing period
  Scope,        \* the unit of each closing period, or Everyone
  Everyone,
  None,         \* a null column
  MinStaffing,  \* the staffing shifts ask for
  Boundary,     \* the instants at which new terms of each appointment start
  Never,        \* later than every instant
  MaxRecords,   \* bound: shifts, bookings and requests for a swap, together
  Request       \* slots for HTTP requests in flight

\* The lock of a unit stops a second roster for it from being created.
LockKey == Period \cup Roster \cup Unit \cup Person

ASSUME SpansAreIntervals ==
  /\ \A i \in Span : i.from \in Nat /\ i.to \in Nat /\ i.from < i.to /\ i.to <= Never
  /\ RosterSpan \cup ShiftSpan \subseteq Span
  /\ PeriodSpan \in [Period -> Span]
  /\ Never \in Nat /\ Boundary \in [Appointed -> SUBSET (0 .. Never)]
ASSUME ScopesAreUnits ==
  /\ Scope \in [Period -> Unit \cup {Everyone}] /\ Everyone \notin Unit
  /\ Appointed \subseteq Person \X Unit
ASSUME KeysDiffer ==
  /\ Period \cap Roster = {} /\ Period \cap Unit = {} /\ Period \cap Person = {}
  /\ Roster \cap Unit = {} /\ Roster \cap Person = {} /\ Unit \cap Person = {}
  /\ None \notin LockKey \cup Shift \cup Span
ASSUME NumbersAreSmall == MinStaffing \subseteq Nat \ {0} /\ MaxRecords \in Nat

VARIABLES
  roster,   \* the rows of rosters
  shift,    \* the rows of shifts
  on,       \* shift_assignments: pairs of a shift and a person
  swap,     \* a pending SHIFT_SWAP workflow
  booking,  \* bookings, the ones that name a shift and others
  until,    \* when the terms in the unit of each appointment end
  locked,   \* closing periods that are not OPEN
  tx        \* the transaction of each request

plan == <<roster, shift, on>>
vars == <<plan, swap, booking, until, locked, tx>>

-----------------------------------------------------------------------------
(* Data.                                                                    *)

Overlap(i, j) == i.from < j.to /\ i.to > j.from
Inside(i, j)  == i.from >= j.from /\ i.to <= j.to

NoRoster == [status |-> "NONE", unit |-> None, span |-> None]
\* Identifiers of deleted shifts are not used again.
NoShift  == [row |-> "UNUSED", roster |-> None, span |-> None, min |-> 0]
NoSwap   == [id |-> 0, shift |-> None, source |-> None, target |-> None]

Rosters    == {r \in Roster : roster[r].status # "NONE"}
Shifts     == {k \in Shift : shift[k].row = "PRESENT"}
ShiftsOf(r) == {k \in Shifts : shift[k].roster = r}
UnitOf(k)  == roster[shift[k].roster].unit
Staff(k)   == {x \in Person : <<k, x>> \in on}

MoreRecords ==
  Cardinality({k \in Shift : shift[k].row # "UNUSED"}) + Cardinality(booking) + swap.id < MaxRecords

\* resolveInterval: the appointment in the unit covers the interval.
Covers(x, u, i) == <<x, u>> \in Appointed /\ i.to <= until[<<x, u>>]

\* Another shift of the person at the time.
Conflicting(x, i, others) == \E k \in others : <<k, x>> \in on /\ Overlap(shift[k].span, i)

\* Closing periods that touch an interval of a unit; ends count as inside.
Touches(p, i)     == PeriodSpan[p].from <= i.to /\ PeriodSpan[p].to >= i.from
Overlapping(u, I) == {p \in Period : Scope[p] \in {u, Everyone} /\ \E i \in I : Touches(p, i)}
Unlocked(u, I)    == Overlapping(u, I) \cap locked = {}

Swap == [id : 0 .. MaxRecords, shift : Shift \cup {None}, source : Person \cup {None},
         target : Person \cup {None}]

Op    == {"NONE", "ROSTER_CREATE", "ROSTER_PUBLISH", "SHIFT_CREATE", "SHIFT_UPDATE",
          "SHIFT_DELETE", "SHIFT_ASSIGN", "SHIFT_UNASSIGN", "BOOK", "SWAP"}
Stage == {"read", "locked", "checked"}

Tx == [op : Op, stage : Stage, roster : Roster \cup {None}, shift : Shift \cup {None},
       person : Person \cup {None}, unit : Unit \cup {None}, span : Span \cup {None},
       min : MinStaffing \cup {0}, seen : Span \cup {None},
       swap : Swap, holds : SUBSET LockKey]
Idle == [op |-> "NONE", stage |-> "read", roster |-> None, shift |-> None, person |-> None,
         unit |-> None, span |-> None, min |-> 0, seen |-> None, swap |-> NoSwap, holds |-> {}]

TypeOK ==
  /\ roster \in [Roster -> {NoRoster} \cup
       [status : {"DRAFT", "PUBLISHED"}, unit : Unit, span : RosterSpan]]
  /\ shift \in [Shift -> {NoShift, [NoShift EXCEPT !.row = "DELETED"]} \cup
       [row : {"PRESENT"}, roster : Roster, span : ShiftSpan, min : MinStaffing]]
  /\ on \subseteq Shift \X Person
  /\ swap \in Swap
  /\ booking \subseteq [person : Person, unit : Unit, span : ShiftSpan, shift : Shift \cup {None}]
  /\ until \in [Appointed -> 0 .. Never]
  /\ locked \subseteq Period
  /\ tx \in [Request -> Tx]

Init ==
  /\ roster = [r \in Roster |-> NoRoster]
  /\ shift = [k \in Shift |-> NoShift]
  /\ on = {}
  /\ swap = NoSwap
  /\ booking = {}
  /\ until = [a \in Appointed |-> Never]
  /\ locked = {}
  /\ tx = [s \in Request |-> Idle]

-----------------------------------------------------------------------------
(* Transactions.                                                            *)

At(s, op, stage) == tx[s].op = op /\ tx[s].stage = stage
Free(keys) == \A s \in Request : tx[s].holds \cap keys = {}
Ends(s)    == tx' = [tx EXCEPT ![s] = Idle]
Asks(s, request) ==
  /\ tx[s].op = "NONE" /\ tx' = [tx EXCEPT ![s] = request]
  /\ UNCHANGED <<plan, swap, booking, until, locked>>

\* The transaction of s, which is t so far, takes more locks and goes on.
Enters(s, t, keys, stage) ==
  /\ Free(keys)
  /\ tx' = [tx EXCEPT ![s] = [t EXCEPT !.holds = t.holds \cup keys, !.stage = stage]]
  /\ UNCHANGED <<plan, swap, booking, until, locked>>
Takes(s, keys, stage) == Enters(s, tx[s], keys, stage)

\* A lock is busy, a check fails, the transaction times out or its process
\* stops: nothing is written.
Rollback(s) ==
  /\ tx[s].op # "NONE" /\ Ends(s)
  /\ UNCHANGED <<plan, swap, booking, until, locked>>

-----------------------------------------------------------------------------
(* Requests of planners, with what they read outside of a transaction.      *)

\* The roster is editable and the range of the change is not locked.
Asked(s, op, k, x, i, min) ==
  LET r == shift[k].roster
      range == {shift[k].span, i} \ {None} IN
  /\ roster[r].status = "DRAFT" /\ Unlocked(roster[r].unit, range)
  /\ Asks(s, [Idle EXCEPT !.op = op, !.roster = r, !.shift = k, !.person = x, !.span = i,
                          !.min = min, !.seen = shift[k].span])

\* A request that changes nothing is left out.
AskUpdate(s, k, i, min) ==
  /\ i # shift[k].span \/ min # shift[k].min
  /\ Inside(i, roster[shift[k].roster].span)
  /\ Asked(s, "SHIFT_UPDATE", k, None, i, min)

AskDelete(s, k) == Asked(s, "SHIFT_DELETE", k, None, None, 0)

AskAssign(s, k, x) ==
  /\ Covers(x, UnitOf(k), shift[k].span)
  /\ Asked(s, "SHIFT_ASSIGN", k, x, None, 0)

AskUnassign(s, k, x) ==
  /\ <<k, x>> \in on /\ Covers(x, UnitOf(k), shift[k].span)
  /\ Asked(s, "SHIFT_UNASSIGN", k, x, None, 0)

-----------------------------------------------------------------------------
(* The transactions of planners.                                            *)

CheckRoster(s, u, i) ==
  /\ tx[s].op = "NONE" /\ Unlocked(u, {i})
  /\ \A r \in Rosters : roster[r].unit = u => ~ Overlap(roster[r].span, i)
  /\ Enters(s, [Idle EXCEPT !.op = "ROSTER_CREATE", !.unit = u, !.span = i],
             Overlapping(u, {i}) \cup {u}, "checked")

CreateRoster(s) ==
  /\ At(s, "ROSTER_CREATE", "checked")
  /\ \E r \in Roster \ Rosters :
       roster' = [roster EXCEPT ![r] = [status |-> "DRAFT", unit |-> tx[s].unit,
                                        span |-> tx[s].span]]
  /\ Ends(s)
  /\ UNCHANGED <<shift, on, swap, booking, until, locked>>

\* Mutant: the roster is read again but not locked.
Edits_Unlocked(s, t, range, people, stage) ==
  LET u == roster[t.roster].unit IN
  /\ Unlocked(u, range) /\ roster[t.roster].status = "DRAFT"
  /\ Enters(s, t, Overlapping(u, range) \cup people, stage)

\* A planner's transaction takes the barrier, the roster's lock, under which the
\* roster must be a draft, and the locks of people.  What it reads under the
\* roster's lock stays as it is until it ends, bookings excepted.
Edits(s, t, range, people, stage) ==
  LET u == roster[t.roster].unit IN
  /\ Unlocked(u, range) /\ roster[t.roster].status = "DRAFT"
  /\ Enters(s, t, Overlapping(u, range) \cup {t.roster} \cup people, stage)

\* The unit and the period of a roster never change, so that nothing this request
\* and the next read before their transaction can be stale in it.
CheckPublish(s, r) ==
  /\ tx[s].op = "NONE"
  /\ \A k \in ShiftsOf(r) :
       /\ \A x \in Staff(k) : Covers(x, roster[r].unit, shift[k].span)
       /\ Cardinality(Staff(k)) >= shift[k].min
  /\ Edits(s, [Idle EXCEPT !.op = "ROSTER_PUBLISH", !.roster = r], {roster[r].span},
           UNION {Staff(k) : k \in ShiftsOf(r)}, "checked")

CheckCreate(s, r, i, min) ==
  /\ tx[s].op = "NONE" /\ MoreRecords /\ Inside(i, roster[r].span)
  /\ Edits(s, [Idle EXCEPT !.op = "SHIFT_CREATE", !.roster = r, !.span = i, !.min = min],
           {i}, {}, "checked")

\* Mutant: the range that was guarded is not compared with the shift's.
Current_Exists(t) == t.shift \in Shifts

\* The shift is still there, and where it was when it was read.
Current(t) == t.shift \in Shifts /\ shift[t.shift].span = t.seen

\* Mutant: the other shifts of the staff of a shift that moves are not looked at.
CheckUpdate_Alone(s) ==
  LET t == tx[s] IN
  /\ At(s, "SHIFT_UPDATE", "read") /\ Current(t)
  /\ \A x \in Staff(t.shift) : Covers(x, UnitOf(t.shift), t.span)
  /\ Edits(s, t, {t.seen, t.span}, Staff(t.shift), "checked")

CheckUpdate(s) ==
  LET t == tx[s] IN
  /\ At(s, "SHIFT_UPDATE", "read") /\ Current(t)
  /\ \A x \in Staff(t.shift) :
       Covers(x, UnitOf(t.shift), t.span) /\ ~ Conflicting(x, t.span, Shifts \ {t.shift})
  /\ Edits(s, t, {t.seen, t.span}, Staff(t.shift), "checked")

CheckAssign(s) ==
  LET t == tx[s] IN
  /\ At(s, "SHIFT_ASSIGN", "read") /\ Current(t)
  /\ Covers(t.person, UnitOf(t.shift), t.seen) /\ <<t.shift, t.person>> \notin on
  /\ ~ Conflicting(t.person, t.seen, Shifts \ {t.shift})
  /\ Edits(s, t, {t.seen}, {t.person}, "checked")

\* Mutant: the person who leaves the shift is not locked.
CheckUnassign_Unfenced(s) ==
  LET t == tx[s] IN
  /\ At(s, "SHIFT_UNASSIGN", "read") /\ Current(t)
  /\ <<t.shift, t.person>> \in on /\ Covers(t.person, UnitOf(t.shift), t.seen)
  /\ Edits(s, t, {t.seen}, {}, "checked")

CheckUnassign(s) ==
  LET t == tx[s] IN
  /\ At(s, "SHIFT_UNASSIGN", "read") /\ Current(t)
  /\ <<t.shift, t.person>> \in on /\ Covers(t.person, UnitOf(t.shift), t.seen)
  /\ Edits(s, t, {t.seen}, Staff(t.shift), "checked")

\* The bookings of the shift are counted before its people are locked.
LockDelete(s) ==
  LET t == tx[s] IN
  /\ At(s, "SHIFT_DELETE", "read") /\ Current(t)
  /\ \A b \in booking : b.shift # t.shift
  /\ Edits(s, t, {t.seen}, {}, "locked")

CheckDelete(s) == At(s, "SHIFT_DELETE", "locked") /\ Takes(s, Staff(tx[s].shift), "checked")

Publish(s) ==
  /\ At(s, "ROSTER_PUBLISH", "checked")
  /\ roster' = [roster EXCEPT ![tx[s].roster].status = "PUBLISHED"]
  /\ Ends(s)
  /\ UNCHANGED <<shift, on, swap, booking, until, locked>>

CreateShift(s) ==
  /\ At(s, "SHIFT_CREATE", "checked") /\ MoreRecords
  /\ \E k \in Shift :
       /\ shift[k].row = "UNUSED"
       /\ shift' = [shift EXCEPT ![k] = [row |-> "PRESENT", roster |-> tx[s].roster,
                                         span |-> tx[s].span, min |-> tx[s].min]]
  /\ Ends(s)
  /\ UNCHANGED <<roster, on, swap, booking, until, locked>>

UpdateShift(s) ==
  /\ At(s, "SHIFT_UPDATE", "checked")
  /\ shift' = [shift EXCEPT ![tx[s].shift].span = tx[s].span, ![tx[s].shift].min = tx[s].min]
  /\ Ends(s)
  /\ UNCHANGED <<roster, on, swap, booking, until, locked>>

\* The bookings of a deleted shift lose it.
DeleteShift(s) ==
  LET k == tx[s].shift IN
  /\ At(s, "SHIFT_DELETE", "checked")
  /\ shift' = [shift EXCEPT ![k] = [NoShift EXCEPT !.row = "DELETED"]]
  /\ on' = {a \in on : a[1] # k}
  /\ booking' = {IF b.shift = k THEN [b EXCEPT !.shift = None] ELSE b : b \in booking}
  /\ Ends(s)
  /\ UNCHANGED <<roster, swap, until, locked>>

AssignShift(s) ==
  /\ At(s, "SHIFT_ASSIGN", "checked")
  /\ on' = on \cup {<<tx[s].shift, tx[s].person>>}
  /\ Ends(s)
  /\ UNCHANGED <<roster, shift, swap, booking, until, locked>>

UnassignShift(s) ==
  /\ At(s, "SHIFT_UNASSIGN", "checked")
  /\ on' = on \ {<<tx[s].shift, tx[s].person>>}
  /\ Ends(s)
  /\ UNCHANGED <<roster, shift, swap, booking, until, locked>>

-----------------------------------------------------------------------------
(* Swaps.  The workflow around them is that of WorkflowApproval.            *)

Pending == swap.shift # None

\* All that the request reads is behind the locks it takes.
AskSwap(k, x, y) ==
  /\ ~ Pending /\ MoreRecords /\ Free({shift[k].roster, x, y})
  /\ <<k, x>> \in on /\ <<k, y>> \notin on
  /\ Covers(x, UnitOf(k), shift[k].span) /\ Covers(y, UnitOf(k), shift[k].span)
  /\ swap' = [id |-> swap.id + 1, shift |-> k, source |-> x, target |-> y]
  /\ UNCHANGED <<plan, booking, until, locked, tx>>

\* The request is rejected or cancelled.
CloseSwap ==
  /\ Pending /\ swap' = [NoSwap EXCEPT !.id = swap.id]
  /\ UNCHANGED <<plan, booking, until, locked, tx>>

\* The guard of an approval reads the interval of the shift before it locks
\* anything, and not again.
ReadSwap(s) ==
  LET k == swap.shift IN
  /\ Pending /\ k \in Shifts
  /\ Asks(s, [Idle EXCEPT !.op = "SWAP", !.roster = shift[k].roster, !.swap = swap,
                          !.seen = shift[k].span])

LockSwap(s) ==
  LET w == tx[s].swap
      i == tx[s].seen
      u == roster[tx[s].roster].unit IN
  /\ At(s, "SWAP", "read") /\ Unlocked(u, {i})
  /\ <<w.shift, w.source>> \in on
  /\ Covers(w.source, u, i) /\ Covers(w.target, u, i)
  /\ Takes(s, Overlapping(u, {i}) \cup {tx[s].roster, w.source, w.target}, "locked")

\* The decision is written if nobody else has written one; its effect reads the
\* shift of now.
ApplySwap(s) ==
  LET w == tx[s].swap
      k == w.shift IN
  /\ At(s, "SWAP", "locked") /\ swap = w
  /\ <<k, w.source>> \in on /\ <<k, w.target>> \notin on
  /\ Covers(w.target, UnitOf(k), shift[k].span)
  /\ ~ Conflicting(w.target, shift[k].span, Shifts \ {k})
  /\ on' = (on \ {<<k, w.source>>}) \cup {<<k, w.target>>}
  /\ swap' = [NoSwap EXCEPT !.id = swap.id]
  /\ Ends(s)
  /\ UNCHANGED <<roster, shift, booking, until, locked>>

-----------------------------------------------------------------------------
(* Bookings, terms of employment and closing periods.                       *)

\* A booking that names a shift.  Its range need not be that of the shift, but
\* under the person's lock no booking overlaps it, and the person is on the shift
\* with the appointment of the booking.
CheckBooking(s, k, x, i) ==
  LET u == UnitOf(k) IN
  /\ tx[s].op = "NONE" /\ MoreRecords
  /\ Covers(x, u, i) /\ Unlocked(u, {i}) /\ <<k, x>> \in on
  /\ \A b \in booking : b.person = x => ~ Overlap(b.span, i)
  /\ Enters(s, [Idle EXCEPT !.op = "BOOK", !.shift = k, !.person = x, !.unit = u, !.span = i],
             Overlapping(u, {i}) \cup {x}, "checked")

WriteBooking(s) ==
  LET t == tx[s] IN
  /\ At(s, "BOOK", "checked") /\ MoreRecords
  /\ t.shift \in Shifts
  /\ booking' = booking \cup {[person |-> t.person, unit |-> t.unit, span |-> t.span,
                               shift |-> t.shift]}
  /\ Ends(s)
  /\ UNCHANGED <<plan, swap, until, locked>>

\* New terms move an appointment out of the unit.  Nothing recorded or planned
\* may reach them.
AppendTerm(x, u, at) ==
  /\ <<x, u>> \in Appointed /\ until[<<x, u>>] = Never
  /\ Free({x} \cup Overlapping(u, {[from |-> at, to |-> Never]}))
  /\ Unlocked(u, {[from |-> at, to |-> Never]})
  /\ \A b \in booking : b.person = x /\ b.unit = u => b.span.to <= at
  /\ \A k \in Shifts : <<k, x>> \in on /\ UnitOf(k) = u => shift[k].span.to <= at
  /\ until' = [until EXCEPT ![<<x, u>>] = at]
  /\ UNCHANGED <<plan, swap, booking, locked, tx>>

\* A closing period leaves OPEN, or is reopened (see ClosingPeriod).
MovePeriod(p) ==
  /\ Free({p})
  /\ locked' = IF p \in locked THEN locked \ {p} ELSE locked \cup {p}
  /\ UNCHANGED <<plan, swap, booking, until, tx>>

-----------------------------------------------------------------------------
Next ==
  \/ \E s \in Request :
       \/ \E u \in Unit, i \in RosterSpan : CheckRoster(s, u, i)
       \/ \E r \in Rosters : CheckPublish(s, r)
       \/ \E r \in Rosters, i \in ShiftSpan, min \in MinStaffing : CheckCreate(s, r, i, min)
       \/ \E k \in Shifts, i \in ShiftSpan, min \in MinStaffing : AskUpdate(s, k, i, min)
       \/ \E k \in Shifts : AskDelete(s, k)
       \/ \E k \in Shifts, x \in Person :
            \/ AskAssign(s, k, x) \/ AskUnassign(s, k, x)
            \/ \E i \in ShiftSpan : CheckBooking(s, k, x, i)
       \/ CheckUpdate(s) \/ CheckAssign(s) \/ CheckUnassign(s) \/ LockDelete(s) \/ CheckDelete(s)
       \/ CreateRoster(s) \/ Publish(s) \/ CreateShift(s) \/ UpdateShift(s) \/ DeleteShift(s)
       \/ AssignShift(s) \/ UnassignShift(s) \/ WriteBooking(s)
       \/ ReadSwap(s) \/ LockSwap(s) \/ ApplySwap(s) \/ Rollback(s)
  \/ \E k \in Shifts, x, y \in Person : AskSwap(k, x, y)
  \/ CloseSwap
  \/ \E a \in Appointed : \E at \in Boundary[a] : AppendTerm(a[1], a[2], at)
  \/ \E p \in Period : MovePeriod(p)

Spec == Init /\ [][Next]_vars

-----------------------------------------------------------------------------
(* Safety.                                                                  *)

\* Nobody is planned for two shifts at once, although their rosters may be of
\* two units and the two changes share no roster's lock
\* (ensureNoOverlappingAssignedShift under lockPersonWrites); nor do the DRAFT
\* and PUBLISHED rosters of a unit plan the same time twice.
NobodyTwiceAtOnce ==
  /\ \A x \in Person : \A k, l \in Shifts :
       k # l /\ {<<k, x>>, <<l, x>>} \subseteq on => ~ Overlap(shift[k].span, shift[l].span)
  /\ \A q, r \in Rosters :
       q # r /\ roster[q].unit = roster[r].unit => ~ Overlap(roster[q].span, roster[r].span)

\* Whoever is planned for a shift is employed in the roster's unit throughout
\* it, whatever shifts, people and terms move at the same time.
PlannedAreEmployed ==
  \A a \in on : a[1] \in Shifts /\ Covers(a[2], UnitOf(a[1]), shift[a[1]].span)

\* What is planned can be done: both of the above, for planners of different units, swaps
\* and new terms at a time (roster-shift.helper.ts, employment-management.service.ts).
PlansAreFeasible == NobodyTwiceAtOnce /\ PlannedAreEmployed

\* A published roster stays fully staffed: no change of a draft that began
\* before the publication is committed after it.
PublishedIsStaffed ==
  \A r \in Rosters : roster[r].status = "PUBLISHED" =>
    \A k \in ShiftsOf(r) : Cardinality(Staff(k)) >= shift[k].min

\* A booking names a shift only if its person is on it when it is committed.
BookedWhilePlanned ==
  [][\A b \in booking' \ booking : b.shift # None => <<b.shift, b.person>> \in on]_vars

\* What is planned in a locked period, with the people on it.
PlannedIn(p) ==
  {<<k, shift[k].span, Staff(k)>> : k \in {l \in Shifts : p \in Overlapping(UnitOf(l), {shift[l].span})}}
\* A swap whose shift was moved while it was being approved.
Outdated(s) == At(s, "SWAP", "locked") /\ tx[s].swap.shift \in Shifts
                 /\ shift[tx[s].swap.shift].span # tx[s].seen

\* The plan of a locked period stays as it is.  The one exception is a swap
\* whose shift was moved into the period between the guard's read and its locks.
LockedPlanStays ==
  [][\A p \in locked :
       PlannedIn(p)' # PlannedIn(p) =>
         \E s \in Request : Outdated(s) /\ tx'[s] = Idle /\ shift' = shift]_vars
=============================================================================
