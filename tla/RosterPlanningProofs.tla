------------------------- MODULE RosterPlanningProofs -------------------------
(***************************************************************************)
(* Proofs about rosters, for any people, units, rosters, shifts and closing  *)
(* periods and any number of requests at once.  A transaction that holds a   *)
(* roster knows its shifts and who is on them; one that holds a person knows *)
(* all shifts and the terms of the person, in whichever unit; one that holds *)
(* the closing periods of an interval knows that they stay open.             *)
(***************************************************************************)
EXTENDS RosterPlanning, FiniteSetTheorems, TLAPS

Exclusive == \A s, r \in Request : s # r => tx[s].holds \cap tx[r].holds = {}

(* The closing periods of the unit that touch I are open and held.          *)
Fenced(s, u, I) == Overlapping(u, I) \subseteq tx[s].holds /\ Unlocked(u, I)

(* The shift was read in the roster; it may be gone, but not elsewhere.     *)
Traced(k, r) ==
  /\ k \in Shift /\ r \in Rosters /\ shift[k].row # "UNUSED"
  /\ k \in Shifts => shift[k].roster = r

(* Under the lock of its roster, which is a draft.                          *)
Editing(s, I) ==
  LET r == tx[s].roster IN
  /\ r \in Rosters /\ r \in tx[s].holds /\ roster[r].status = "DRAFT"
  /\ Fenced(s, roster[r].unit, I)

Fits(x, u, i, others) == Covers(x, u, i) /\ ~ Conflicting(x, i, others)

RosterKnows(s) ==
  LET t == tx[s] IN
  /\ t.unit \in Unit /\ t.unit \in t.holds /\ t.span \in RosterSpan
  /\ \A r \in Rosters : roster[r].unit = t.unit => ~ Overlap(roster[r].span, t.span)

PublicationKnows(s) ==
  /\ Editing(s, {roster[tx[s].roster].span})
  /\ \A k \in ShiftsOf(tx[s].roster) : Cardinality(Staff(k)) >= shift[k].min

CreationKnows(s) ==
  tx[s].span \in ShiftSpan /\ tx[s].min \in MinStaffing /\ Editing(s, {tx[s].span})

UpdateKnows(s) ==
  LET t == tx[s] IN
  /\ t.span \in ShiftSpan /\ t.min \in MinStaffing /\ Traced(t.shift, t.roster)
  /\ t.stage = "checked" =>
       /\ Editing(s, {t.seen, t.span}) /\ Current(t) /\ Staff(t.shift) \subseteq t.holds
       /\ \A x \in Staff(t.shift) : Fits(x, UnitOf(t.shift), t.span, Shifts \ {t.shift})

AssignmentKnows(s) ==
  LET t == tx[s] IN
  /\ t.person \in Person /\ Traced(t.shift, t.roster)
  /\ t.stage = "checked" =>
       /\ Editing(s, {t.seen}) /\ Current(t) /\ t.person \in t.holds
       /\ Fits(t.person, UnitOf(t.shift), t.seen, Shifts \ {t.shift})

UnassignmentKnows(s) ==
  LET t == tx[s] IN
  /\ t.person \in Person /\ Traced(t.shift, t.roster)
  /\ t.stage = "checked" =>
       Editing(s, {t.seen}) /\ Current(t) /\ Staff(t.shift) \subseteq t.holds
         /\ t.person \in Staff(t.shift)

DeletionKnows(s) ==
  LET t == tx[s] IN
  /\ Traced(t.shift, t.roster)
  /\ t.stage # "read" => Editing(s, {t.seen}) /\ Current(t)
  /\ t.stage = "checked" => Staff(t.shift) \subseteq t.holds

SwapKnows(s) ==
  LET t == tx[s] IN
  /\ t.swap.source \in Person /\ t.swap.target \in Person
  /\ Traced(t.swap.shift, t.roster)
  /\ t.stage = "locked" =>
       /\ {t.roster, t.swap.source, t.swap.target} \subseteq t.holds
       /\ Fenced(s, roster[t.roster].unit, {t.seen})

BookingKnows(s) ==
  LET t == tx[s] IN
  /\ t.shift \in Shift /\ t.person \in Person /\ t.unit \in Unit /\ t.span \in ShiftSpan
  /\ t.person \in t.holds /\ <<t.shift, t.person>> \in on

Sound(s) ==
  /\ tx[s].op = "NONE" => tx[s].holds = {}
  /\ tx[s].op = "ROSTER_CREATE"  => RosterKnows(s)
  /\ tx[s].op = "ROSTER_PUBLISH" => PublicationKnows(s)
  /\ tx[s].op = "SHIFT_CREATE"   => CreationKnows(s)
  /\ tx[s].op = "SHIFT_UPDATE"   => UpdateKnows(s)
  /\ tx[s].op = "SHIFT_ASSIGN"   => AssignmentKnows(s)
  /\ tx[s].op = "SHIFT_UNASSIGN" => UnassignmentKnows(s)
  /\ tx[s].op = "SHIFT_DELETE"   => DeletionKnows(s)
  /\ tx[s].op = "SWAP"           => SwapKnows(s)
  /\ tx[s].op = "BOOK"           => BookingKnows(s)

Used == {k \in Shift : shift[k].row # "UNUSED"}

PlanSound ==
  /\ \A k \in Shifts : shift[k].roster \in Rosters
  /\ \A k \in Shift : IsFiniteSet(Staff(k))
  /\ IsFiniteSet(Used) /\ IsFiniteSet(booking)
  /\ Pending => {swap.source, swap.target} \subseteq Person
  /\ NobodyTwiceAtOnce /\ PlannedAreEmployed /\ PublishedIsStaffed

IInv == TypeOK /\ Exclusive /\ (\A s \in Request : Sound(s)) /\ PlanSound

-----------------------------------------------------------------------------
(* What a step that holds the keys of h may change.                         *)

Changes(h) ==
  /\ \A r \in Rosters : /\ r \in Rosters' /\ roster'[r].unit = roster[r].unit
                        /\ roster'[r].span = roster[r].span
                        /\ r \notin h => roster'[r] = roster[r]
  /\ \A r \in Rosters' : r \notin Rosters => roster'[r].unit \in h
  /\ \A k \in Used : k \in Used' /\ (k \in Shifts' => k \in Shifts /\ shift'[k].roster = shift[k].roster)
  /\ \A k \in Shifts : shift[k].roster \notin h => shift'[k] = shift[k] /\ Staff(k)' = Staff(k)
  /\ \A k \in Shifts' : k \notin Shifts => shift'[k].roster \in h
  /\ \A x \in Person, k \in Shift : x \notin h =>
       /\ <<k, x>> \in on' <=> <<k, x>> \in on
       /\ <<k, x>> \in on => shift'[k].span = shift[k].span
  /\ \A a \in Appointed : a[1] \notin h => until'[a] = until[a]
  /\ \A p \in Period : p \notin h => (p \in locked' <=> p \in locked)

Undisturbed(s, h) == tx'[s] = tx[s] /\ tx[s].holds \cap h = {} /\ Changes(h)

LEMMA UsedAre == Shifts \subseteq Used /\ Used \subseteq Shift /\ Rosters \subseteq Roster
  BY DEF Shifts, Used, Rosters

LEMMA FenceStays ==
  ASSUME NEW s, NEW h, NEW u, NEW I, Fenced(s, u, I), Undisturbed(s, h)
  PROVE  Fenced(s, u, I)'
  BY DEF Fenced, Undisturbed, Changes, Overlapping, Unlocked

LEMMA EditingStays ==
  ASSUME NEW s, NEW h, NEW I, Editing(s, I), Undisturbed(s, h)
  PROVE  Editing(s, I)' /\ roster'[tx[s].roster] = roster[tx[s].roster]
  <1>1. /\ tx[s].roster \in Rosters /\ tx[s].roster \in tx[s].holds /\ tx[s].roster \notin h
        /\ tx'[s] = tx[s]
    BY DEF Editing, Undisturbed
  <1>2. /\ roster'[tx[s].roster] = roster[tx[s].roster] /\ tx[s].roster \in Rosters'
    BY <1>1 DEF Undisturbed, Changes
  <1>3. Fenced(s, roster[tx[s].roster].unit, I)'
    BY <1>2, FenceStays DEF Editing, Fenced, Undisturbed, Changes, Overlapping, Unlocked
  <1> QED
    BY <1>1, <1>2, <1>3 DEF Editing, Fenced

LEMMA TraceStays ==
  ASSUME NEW k, NEW r, NEW h, Traced(k, r), Changes(h)
  PROVE  Traced(k, r)'
  BY DEF Traced, Changes, Used

(* A shift of a roster that is held.                                        *)
LEMMA ShiftStays ==
  ASSUME NEW s, NEW h, Undisturbed(s, h), NEW k \in Shifts, shift[k].roster \in tx[s].holds
  PROVE  k \in Shifts' /\ shift'[k] = shift[k] /\ Staff(k)' = Staff(k)
  BY DEF Undisturbed, Changes, Shifts

(* What is planned for a person who is held.                                *)
LEMMA FreeStays ==
  ASSUME PlannedAreEmployed, NEW h, Changes(h), NEW x \in Person \ h, NEW k, NEW i,
         ~ Conflicting(x, i, Shifts \ {k})
  PROVE  ~ Conflicting(x, i, Shifts \ {k})'
  <1>1. SUFFICES ASSUME NEW l \in Shifts', l # k, <<l, x>> \in on', Overlap(shift'[l].span, i)
        PROVE  FALSE
    BY DEF Conflicting
  <1>2. l \in Shift /\ <<l, x>> \in on /\ shift'[l].span = shift[l].span
    BY <1>1 DEF Changes, Shifts
  <1>3. l \in Shifts
    BY <1>2 DEF PlannedAreEmployed
  <1> QED
    BY <1>1, <1>2, <1>3 DEF Conflicting

LEMMA CoverStays ==
  ASSUME NEW h, Changes(h), NEW x, x \notin h, NEW u, NEW i, Covers(x, u, i)
  PROVE  Covers(x, u, i)'
  BY DEF Changes, Covers

LEMMA FitStays ==
  ASSUME PlannedAreEmployed, NEW h, Changes(h), NEW x \in Person \ h, NEW u, NEW k, NEW i,
         Fits(x, u, i, Shifts \ {k})
  PROVE  Fits(x, u, i, Shifts \ {k})'
  BY FreeStays, CoverStays DEF Fits, Covers, Conflicting

LEMMA RosterUndisturbed ==
  ASSUME NEW s, NEW h, RosterKnows(s), Undisturbed(s, h)
  PROVE  RosterKnows(s)'
  <1>1. tx'[s] = tx[s] /\ tx[s].unit \notin h
    BY DEF RosterKnows, Undisturbed
  <1>2. ASSUME NEW r \in Rosters', roster'[r].unit = tx[s].unit
        PROVE  ~ Overlap(roster'[r].span, tx[s].span)
    <2>1. r \in Rosters /\ roster[r].unit = roster'[r].unit /\ roster'[r].span = roster[r].span
      BY <1>1, <1>2 DEF Undisturbed, Changes
    <2> QED
      BY <1>2, <2>1 DEF RosterKnows
  <1> QED
    BY <1>1, <1>2 DEF RosterKnows

LEMMA PublicationUndisturbed ==
  ASSUME NEW s, NEW h, PublicationKnows(s), Undisturbed(s, h)
  PROVE  PublicationKnows(s)'
  <1>1. PICK r : r = tx[s].roster
    OBVIOUS
  <1>2. PICK i : i = roster[r].span
    OBVIOUS
  <1>3. tx'[s] = tx[s] /\ Editing(s, {i})
    BY <1>1, <1>2 DEF PublicationKnows, Undisturbed
  <1>4. Editing(s, {i})' /\ roster'[r] = roster[r] /\ r \in tx[s].holds /\ r \notin h
    BY <1>1, <1>3, EditingStays DEF Editing, Undisturbed
  <1>5. ASSUME NEW k \in ShiftsOf(r)' PROVE Cardinality(Staff(k)') >= shift'[k].min
    <2>1. k \in Shifts /\ shift[k].roster = r
      BY <1>4, <1>5, UsedAre DEF ShiftsOf, Undisturbed, Changes, Used, Shifts
    <2>2. shift'[k] = shift[k] /\ Staff(k)' = Staff(k)
      BY <1>4, <2>1, ShiftStays
    <2> QED
      BY <1>1, <2>1, <2>2 DEF PublicationKnows, ShiftsOf
  <1>6. Editing(s, {roster[tx[s].roster].span})'
    BY <1>1, <1>2, <1>3, <1>4 DEF Editing, Fenced
  <1>7. \A k \in ShiftsOf(tx[s].roster)' : Cardinality(Staff(k)') >= shift'[k].min
    BY <1>1, <1>3, <1>5 DEF ShiftsOf
  <1> QED
    BY <1>6, <1>7 DEF PublicationKnows

LEMMA CreationUndisturbed ==
  ASSUME NEW s, NEW h, CreationKnows(s), Undisturbed(s, h)
  PROVE  CreationKnows(s)'
  <1>1. tx'[s] = tx[s] /\ Editing(s, {tx[s].span})
    BY DEF CreationKnows, Undisturbed
  <1>2. Editing(s, {tx[s].span})'
    BY <1>1, EditingStays DEF Editing, Fenced
  <1> QED
    BY <1>1, <1>2 DEF CreationKnows

(* What the changes of a shift have in common.                              *)
LEMMA CurrentStays ==
  ASSUME NEW s, NEW h, NEW I, Editing(s, I), Current(tx[s]), Traced(tx[s].shift, tx[s].roster),
         Undisturbed(s, h)
  PROVE  /\ Current(tx[s])' /\ tx'[s] = tx[s]
         /\ tx[s].shift \in Shifts /\ Staff(tx[s].shift)' = Staff(tx[s].shift)
         /\ shift'[tx[s].shift] = shift[tx[s].shift]
         /\ UnitOf(tx[s].shift)' = UnitOf(tx[s].shift)
  <1>1. PICK k : k = tx[s].shift
    OBVIOUS
  <1>2. tx'[s] = tx[s] /\ k \in Shifts /\ shift[k].roster = tx[s].roster
    BY <1>1 DEF Undisturbed, Current, Traced
  <1>3. shift[k].roster \in tx[s].holds
    BY <1>2 DEF Editing
  <1>4. k \in Shifts' /\ shift'[k] = shift[k] /\ Staff(k)' = Staff(k)
    BY <1>2, <1>3, ShiftStays
  <1>5. roster'[tx[s].roster] = roster[tx[s].roster]
    BY EditingStays
  <1> QED
    BY <1>1, <1>2, <1>4, <1>5 DEF Current, UnitOf, Staff

LEMMA UpdateUndisturbed ==
  ASSUME PlannedAreEmployed, NEW s, NEW h, UpdateKnows(s), Undisturbed(s, h)
  PROVE  UpdateKnows(s)'
  <1>1. /\ tx'[s] = tx[s] /\ tx[s].span \in ShiftSpan /\ tx[s].min \in MinStaffing
        /\ Traced(tx[s].shift, tx[s].roster) /\ Changes(h)
    BY DEF UpdateKnows, Undisturbed
  <1>2. Traced(tx[s].shift, tx[s].roster)'
    BY <1>1, TraceStays DEF Traced
  <1>3. ASSUME tx[s].stage = "checked"
        PROVE  /\ Editing(s, {tx[s].seen, tx[s].span})' /\ Current(tx[s])'
               /\ Staff(tx[s].shift)' \subseteq tx[s].holds
               /\ \A x \in Staff(tx[s].shift)' :
                    Fits(x, UnitOf(tx[s].shift), tx[s].span, Shifts \ {tx[s].shift})'
    <2>1. PICK k, i, u : k = tx[s].shift /\ i = tx[s].span /\ u = UnitOf(tx[s].shift)
      OBVIOUS
    <2>2. /\ Editing(s, {tx[s].seen, tx[s].span}) /\ Current(tx[s]) /\ Staff(k) \subseteq tx[s].holds
          /\ \A x \in Staff(k) : Fits(x, u, i, Shifts \ {k})
      BY <1>3, <2>1 DEF UpdateKnows
    <2>3. Editing(s, {tx[s].seen, tx[s].span})'
      BY <1>1, <2>2, EditingStays DEF Editing, Fenced
    <2>4. /\ Current(tx[s])' /\ Staff(k)' = Staff(k) /\ UnitOf(k)' = u
      BY <1>1, <2>1, <2>2, CurrentStays DEF Staff, UnitOf
    <2>5. ASSUME NEW x \in Staff(k) PROVE Fits(x, u, i, Shifts \ {k})'
      BY <2>2, <1>1, FitStays DEF Staff, Undisturbed
    <2> QED
      BY <1>1, <2>1, <2>2, <2>3, <2>4, <2>5 DEF Fits, Covers, Conflicting, Staff, UnitOf
  <1> QED
    BY <1>1, <1>2, <1>3 DEF UpdateKnows

LEMMA AssignmentUndisturbed ==
  ASSUME PlannedAreEmployed, NEW s, NEW h, AssignmentKnows(s), Undisturbed(s, h)
  PROVE  AssignmentKnows(s)'
  <1>1. /\ tx'[s] = tx[s] /\ tx[s].person \in Person
        /\ Traced(tx[s].shift, tx[s].roster) /\ Changes(h)
    BY DEF AssignmentKnows, Undisturbed
  <1>2. Traced(tx[s].shift, tx[s].roster)'
    BY <1>1, TraceStays DEF Traced
  <1>3. ASSUME tx[s].stage = "checked"
        PROVE  /\ Editing(s, {tx[s].seen})' /\ Current(tx[s])' /\ tx[s].person \in tx[s].holds
               /\ Fits(tx[s].person, UnitOf(tx[s].shift), tx[s].seen, Shifts \ {tx[s].shift})'
    <2>1. PICK k, i, u, x : k = tx[s].shift /\ i = tx[s].seen /\ u = UnitOf(tx[s].shift)
                              /\ x = tx[s].person
      OBVIOUS
    <2>2. /\ Editing(s, {tx[s].seen}) /\ Current(tx[s]) /\ x \in tx[s].holds
          /\ Fits(x, u, i, Shifts \ {k})
      BY <1>3, <2>1 DEF AssignmentKnows
    <2>3. Editing(s, {tx[s].seen})'
      BY <1>1, <2>2, EditingStays DEF Editing, Fenced
    <2>4. /\ Current(tx[s])' /\ UnitOf(k)' = u
      BY <1>1, <2>1, <2>2, CurrentStays DEF UnitOf
    <2>5. Fits(x, u, i, Shifts \ {k})'
      BY <1>1, <2>1, <2>2, FitStays DEF Undisturbed
    <2> QED
      BY <1>1, <2>1, <2>2, <2>3, <2>4, <2>5 DEF Fits, Covers, Conflicting, UnitOf
  <1> QED
    BY <1>1, <1>2, <1>3 DEF AssignmentKnows

LEMMA UnassignmentUndisturbed ==
  ASSUME NEW s, NEW h, UnassignmentKnows(s), Undisturbed(s, h)
  PROVE  UnassignmentKnows(s)'
  <1>1. /\ tx'[s] = tx[s] /\ tx[s].person \in Person
        /\ Traced(tx[s].shift, tx[s].roster) /\ Changes(h)
    BY DEF UnassignmentKnows, Undisturbed
  <1>2. Traced(tx[s].shift, tx[s].roster)'
    BY <1>1, TraceStays DEF Traced
  <1>3. ASSUME tx[s].stage = "checked"
        PROVE  /\ Editing(s, {tx[s].seen})' /\ Current(tx[s])'
               /\ Staff(tx[s].shift)' \subseteq tx[s].holds /\ tx[s].person \in Staff(tx[s].shift)'
    <2>1. /\ Editing(s, {tx[s].seen}) /\ Current(tx[s])
          /\ Staff(tx[s].shift) \subseteq tx[s].holds /\ tx[s].person \in Staff(tx[s].shift)
      BY <1>3 DEF UnassignmentKnows
    <2>2. Editing(s, {tx[s].seen})'
      BY <1>1, <2>1, EditingStays DEF Editing, Fenced
    <2>3. Current(tx[s])' /\ Staff(tx[s].shift)' = Staff(tx[s].shift)
      BY <1>1, <2>1, CurrentStays
    <2> QED
      BY <2>1, <2>2, <2>3
  <1> QED
    BY <1>1, <1>2, <1>3 DEF UnassignmentKnows

LEMMA DeletionUndisturbed ==
  ASSUME NEW s, NEW h, DeletionKnows(s), Undisturbed(s, h)
  PROVE  DeletionKnows(s)'
  <1>1. tx'[s] = tx[s] /\ Traced(tx[s].shift, tx[s].roster) /\ Changes(h)
    BY DEF DeletionKnows, Undisturbed
  <1>2. Traced(tx[s].shift, tx[s].roster)'
    BY <1>1, TraceStays DEF Traced
  <1>3. ASSUME tx[s].stage # "read"
        PROVE  Editing(s, {tx[s].seen})' /\ Current(tx[s])' /\ Staff(tx[s].shift)' = Staff(tx[s].shift)
    <2>1. Editing(s, {tx[s].seen}) /\ Current(tx[s])
      BY <1>3 DEF DeletionKnows
    <2>2. Editing(s, {tx[s].seen})'
      BY <1>1, <2>1, EditingStays DEF Editing, Fenced
    <2> QED
      BY <1>1, <2>1, <2>2, CurrentStays
  <1> QED
    BY <1>1, <1>2, <1>3 DEF DeletionKnows

LEMMA SwapUndisturbed ==
  ASSUME NEW s, NEW h, SwapKnows(s), Undisturbed(s, h)
  PROVE  SwapKnows(s)'
  <1>1. /\ tx'[s] = tx[s] /\ Traced(tx[s].swap.shift, tx[s].roster) /\ Changes(h)
        /\ tx[s].swap.source \in Person /\ tx[s].swap.target \in Person
    BY DEF SwapKnows, Undisturbed
  <1>2. Traced(tx[s].swap.shift, tx[s].roster)'
    BY <1>1, TraceStays DEF Traced
  <1>3. roster'[tx[s].roster].unit = roster[tx[s].roster].unit
    BY <1>1 DEF Traced, Changes
  <1>4. ASSUME tx[s].stage = "locked"
        PROVE  Fenced(s, roster[tx[s].roster].unit, {tx[s].seen})'
    <2>1. PICK u, i : u = roster[tx[s].roster].unit /\ i = tx[s].seen
      OBVIOUS
    <2>2. Fenced(s, u, {i})
      BY <1>4, <2>1 DEF SwapKnows
    <2>3. Fenced(s, u, {i})'
      BY <2>2, FenceStays
    <2> QED
      BY <1>1, <1>3, <2>1, <2>3 DEF Fenced, Overlapping, Unlocked
  <1> QED
    BY <1>1, <1>2, <1>4 DEF SwapKnows

LEMMA BookingUndisturbed ==
  ASSUME NEW s, NEW h, BookingKnows(s), Undisturbed(s, h)
  PROVE  BookingKnows(s)'
  BY DEF BookingKnows, Undisturbed, Changes

LEMMA OthersUndisturbed ==
  ASSUME PlannedAreEmployed, NEW s, NEW h, Sound(s), Undisturbed(s, h)
  PROVE  Sound(s)'
  <1>1. tx'[s] = tx[s]
    BY DEF Undisturbed
  <1> QED
    BY <1>1, RosterUndisturbed, PublicationUndisturbed, CreationUndisturbed, UpdateUndisturbed,
       AssignmentUndisturbed, UnassignmentUndisturbed, DeletionUndisturbed, SwapUndisturbed,
       BookingUndisturbed DEF Sound

-----------------------------------------------------------------------------
(* Steps that write no data.                                                *)

OthersWait(s) == \A r \in Request \ {s} : tx'[r] = tx[r]
Still == UNCHANGED <<plan, swap, booking, until, locked>>

LEMMA StillIs ==
  ASSUME Still
  PROVE  /\ roster' = roster /\ shift' = shift /\ on' = on /\ swap' = swap
         /\ booking' = booking /\ until' = until /\ locked' = locked
         /\ \A h : Changes(h)
         /\ Rosters' = Rosters /\ Shifts' = Shifts
         /\ \A r : ShiftsOf(r)' = ShiftsOf(r)
         /\ \A k : Staff(k)' = Staff(k) /\ UnitOf(k)' = UnitOf(k)
         /\ \A k, r : Traced(k, r)' <=> Traced(k, r)
         /\ \A x, u, i : Covers(x, u, i)' <=> Covers(x, u, i)
         /\ \A x, i, others : Conflicting(x, i, others)' <=> Conflicting(x, i, others)
         /\ \A u, i, I : Unlocked(u, I)' <=> Unlocked(u, I)
  <1>1. /\ roster' = roster /\ shift' = shift /\ on' = on /\ swap' = swap
        /\ booking' = booking /\ until' = until /\ locked' = locked
    BY DEF Still, plan
  <1>2. Rosters' = Rosters /\ Shifts' = Shifts /\ Used' = Used
    BY <1>1 DEF Rosters, Shifts, Used
  <1>3. \A k : Staff(k)' = Staff(k)
    BY <1>1 DEF Staff
  <1>4. \A h : Changes(h)
    BY <1>1, <1>2, <1>3 DEF Changes, Shifts
  <1>5. \A x, i, others : Conflicting(x, i, others)' <=> Conflicting(x, i, others)
    BY <1>1 DEF Conflicting
  <1>6. \A x, u, i : Covers(x, u, i)' <=> Covers(x, u, i)
    BY <1>1 DEF Covers
  <1>7. \A k, r : Traced(k, r)' <=> Traced(k, r)
    BY <1>1, <1>2 DEF Traced
  <1>8. \A u, i, I : Unlocked(u, I)' <=> Unlocked(u, I)
    BY <1>1 DEF Unlocked
  <1> QED
    BY <1>1, <1>2, <1>3, <1>4, <1>5, <1>6, <1>7, <1>8 DEF ShiftsOf, UnitOf

DataTyped ==
  /\ roster' \in [Roster -> {NoRoster} \cup
       [status : {"DRAFT", "PUBLISHED"}, unit : Unit, span : RosterSpan]]
  /\ shift' \in [Shift -> {NoShift, [NoShift EXCEPT !.row = "DELETED"]} \cup
       [row : {"PRESENT"}, roster : Roster, span : ShiftSpan, min : MinStaffing]]
  /\ on' \subseteq Shift \X Person
  /\ swap' \in Swap
  /\ booking' \subseteq [person : Person, unit : Unit, span : ShiftSpan, shift : Shift \cup {None}]
  /\ until' \in [Appointed -> 0 .. Never]
  /\ locked' \subseteq Period

LEMMA StillSound ==
  ASSUME IInv, Still
  PROVE  PlanSound' /\ DataTyped
  <1>1. DataTyped
    BY StillIs DEF IInv, TypeOK, DataTyped
  <1>2. NobodyTwiceAtOnce' /\ PlannedAreEmployed' /\ PublishedIsStaffed'
    BY StillIs DEF IInv, PlanSound, NobodyTwiceAtOnce, PlannedAreEmployed, PublishedIsStaffed
  <1>3. /\ \A k \in Shifts' : shift'[k].roster \in Rosters'
        /\ \A k \in Shift : IsFiniteSet(Staff(k)')
        /\ IsFiniteSet(Used') /\ IsFiniteSet(booking')
        /\ Pending' => {swap'.source, swap'.target} \subseteq Person
    BY StillIs DEF IInv, PlanSound, Used, Pending
  <1> QED
    BY <1>1, <1>2, <1>3 DEF PlanSound

(* A transaction goes on: what it knows is all there is to show.            *)
LEMMA ReadingKeeps ==
  ASSUME IInv, NEW s \in Request, tx' \in [Request -> Tx], OthersWait(s), Still,
         \A r \in Request \ {s} : tx[r].holds \cap tx'[s].holds = {}, Sound(s)'
  PROVE  IInv'
  <1>1. \A r \in Request \ {s} : Sound(r)'
    <2>1. TAKE r \in Request \ {s}
    <2>2. Undisturbed(r, {})
      BY StillIs DEF Undisturbed, OthersWait
    <2> QED
      BY <2>2, OthersUndisturbed DEF IInv, PlanSound
  <1>2. Exclusive'
    BY DEF Exclusive, OthersWait, IInv
  <1> QED
    BY <1>1, <1>2, StillSound DEF IInv, TypeOK, DataTyped

Carries(s, t) ==
  /\ tx'[s].op = t.op /\ tx'[s].roster = t.roster /\ tx'[s].shift = t.shift
  /\ tx'[s].person = t.person /\ tx'[s].unit = t.unit /\ tx'[s].span = t.span
  /\ tx'[s].min = t.min /\ tx'[s].seen = t.seen /\ tx'[s].swap = t.swap

LEMMA EntersIs ==
  ASSUME IInv, NEW s \in Request, NEW t \in Tx, NEW keys \in SUBSET LockKey, NEW stage \in Stage,
         t = tx[s] \/ t.holds = {}, Enters(s, t, keys, stage)
  PROVE  /\ tx' \in [Request -> Tx] /\ OthersWait(s) /\ Still /\ Carries(s, t)
         /\ tx'[s].holds = t.holds \cup keys /\ tx'[s].stage = stage
         /\ \A r \in Request \ {s} : tx[r].holds \cap tx'[s].holds = {}
  <1>1. PICK holds \in SUBSET LockKey : holds = t.holds \cup keys
    BY DEF Tx
  <1> DEFINE n == [t EXCEPT !.holds = holds, !.stage = stage]
  <1>2. tx' = [tx EXCEPT ![s] = n] /\ Free(keys) /\ Still
    BY <1>1 DEF Enters, Still
  <1>3. /\ n \in Tx /\ n.op = t.op /\ n.roster = t.roster /\ n.shift = t.shift
        /\ n.person = t.person /\ n.unit = t.unit /\ n.span = t.span
        /\ n.min = t.min /\ n.seen = t.seen /\ n.swap = t.swap
        /\ n.holds = holds /\ n.stage = stage
    BY DEF Tx
  <1> HIDE DEF n
  <1>4. tx' \in [Request -> Tx] /\ OthersWait(s) /\ tx'[s] = n
    BY <1>2, <1>3 DEF IInv, TypeOK, OthersWait
  <1>5. \A r \in Request \ {s} : tx[r].holds \cap holds = {}
    BY <1>1, <1>2 DEF Free, IInv, Exclusive
  <1> QED
    BY <1>1, <1>2, <1>3, <1>4, <1>5 DEF Carries

LEMMA AsksIs ==
  ASSUME IInv, NEW s \in Request, NEW t \in Tx, t.holds = {}, Asks(s, t)
  PROVE  /\ tx' \in [Request -> Tx] /\ OthersWait(s) /\ Still /\ tx'[s] = t
         /\ \A r \in Request \ {s} : tx[r].holds \cap tx'[s].holds = {}
  BY DEF Asks, Still, IInv, TypeOK, OthersWait

LEMMA KeysAre ==
  ASSUME NEW u, NEW I
  PROVE  Overlapping(u, I) \in SUBSET LockKey
  BY DEF Overlapping, LockKey

LEMMA EditsIs ==
  ASSUME IInv, NEW s \in Request, NEW t \in Tx, t = tx[s] \/ t.holds = {}, t.roster \in Rosters,
         NEW range, NEW people \in SUBSET Person, NEW stage \in Stage,
         Edits(s, t, range, people, stage)
  PROVE  /\ tx' \in [Request -> Tx] /\ OthersWait(s) /\ Still /\ Carries(s, t)
         /\ people \subseteq tx'[s].holds /\ tx'[s].stage = stage
         /\ \A r \in Request \ {s} : tx[r].holds \cap tx'[s].holds = {}
         /\ Editing(s, range)'
  <1>1. PICK u : u = roster[t.roster].unit
    OBVIOUS
  <1>2. PICK keys : keys = Overlapping(u, range) \cup {t.roster} \cup people
    OBVIOUS
  <1>3. keys \in SUBSET LockKey
    BY <1>2, KeysAre DEF LockKey, Rosters
  <1>4. /\ Enters(s, t, keys, stage) /\ Unlocked(u, range) /\ roster[t.roster].status = "DRAFT"
    BY <1>1, <1>2 DEF Edits
  <1>5. /\ tx' \in [Request -> Tx] /\ OthersWait(s) /\ Still /\ Carries(s, t)
        /\ tx'[s].holds = t.holds \cup keys /\ tx'[s].stage = stage
        /\ \A r \in Request \ {s} : tx[r].holds \cap tx'[s].holds = {}
    BY <1>3, <1>4, EntersIs
  <1>6. Editing(s, range)'
    BY <1>1, <1>2, <1>4, <1>5, StillIs DEF Editing, Fenced, Carries
  <1> QED
    BY <1>2, <1>5, <1>6

-----------------------------------------------------------------------------
(* What planners ask.                                                       *)

LEMMA IdleIs ==
  Idle \in Tx /\ Idle.op = "NONE" /\ Idle.holds = {} /\ Idle.swap = NoSwap /\ NoSwap \in Swap
  BY NumbersAreSmall DEF Idle, Tx, Op, Stage, NoSwap, Swap

LEMMA ShiftIs ==
  ASSUME IInv, NEW k \in Shifts
  PROVE  /\ k \in Shift /\ shift[k].roster \in Rosters /\ shift[k].span \in ShiftSpan \cap Span
         /\ shift[k].min \in MinStaffing /\ Traced(k, shift[k].roster)
         /\ UnitOf(k) = roster[shift[k].roster].unit
  BY SpansAreIntervals DEF Shifts, IInv, TypeOK, PlanSound, Traced, NoShift, UnitOf

LEMMA RosterIs ==
  ASSUME IInv, NEW r \in Rosters
  PROVE  /\ r \in Roster /\ roster[r].unit \in Unit /\ roster[r].span \in RosterSpan \cap Span
         /\ roster[r].status \in {"DRAFT", "PUBLISHED"}
  BY SpansAreIntervals DEF Rosters, IInv, TypeOK, NoRoster

LEMMA AskedKeeps ==
  ASSUME IInv, NEW s \in Request, NEW op \in Op, NEW k \in Shifts, NEW x \in Person \cup {None},
         NEW i \in ShiftSpan \cup {None}, NEW min \in MinStaffing \cup {0},
         Asked(s, op, k, x, i, min),
         \/ op = "SHIFT_UPDATE" /\ i \in ShiftSpan /\ min \in MinStaffing
         \/ op \in {"SHIFT_ASSIGN", "SHIFT_UNASSIGN"} /\ x \in Person
         \/ op = "SHIFT_DELETE"
  PROVE  IInv'
  <1>1. PICK r, seen : r = shift[k].roster /\ seen = shift[k].span
    OBVIOUS
  <1>2. k \in Shift /\ r \in Rosters /\ r \in Roster /\ seen \in Span /\ Traced(k, r)
    BY <1>1, ShiftIs DEF Rosters
  <1> DEFINE t == [Idle EXCEPT !.op = op, !.roster = r, !.shift = k, !.person = x, !.span = i,
                               !.min = min, !.seen = seen]
  <1>3. Asks(s, t)
    BY <1>1 DEF Asked
  <1>4. i \in Span \cup {None}
    BY SpansAreIntervals
  <1>5. /\ t \in Tx /\ t.op = op /\ t.stage = "read" /\ t.roster = r /\ t.shift = k
        /\ t.person = x /\ t.span = i /\ t.min = min /\ t.seen = seen /\ t.holds = {}
    BY <1>2, <1>4, IdleIs DEF Tx, Idle
  <1> HIDE DEF t
  <1>6. /\ tx' \in [Request -> Tx] /\ OthersWait(s) /\ Still /\ tx'[s] = t
        /\ \A q \in Request \ {s} : tx[q].holds \cap tx'[s].holds = {}
    BY <1>3, <1>5, AsksIs
  <1>7. Traced(k, r)'
    BY <1>2, <1>6, StillIs
  <1>8. Traced(tx[s].shift, tx[s].roster)'
    BY <1>5, <1>6, <1>7 DEF Traced
  <1>9. Sound(s)'
    <2>1. CASE op = "SHIFT_UPDATE" /\ i \in ShiftSpan /\ min \in MinStaffing
      BY <1>5, <1>6, <1>8, <2>1 DEF Sound, UpdateKnows
    <2>2. CASE op \in {"SHIFT_ASSIGN", "SHIFT_UNASSIGN"} /\ x \in Person
      BY <1>5, <1>6, <1>8, <2>2 DEF Sound, AssignmentKnows, UnassignmentKnows
    <2>3. CASE op = "SHIFT_DELETE"
      BY <1>5, <1>6, <1>8, <2>3 DEF Sound, DeletionKnows
    <2> QED
      BY <2>1, <2>2, <2>3
  <1> QED
    BY <1>6, <1>9, ReadingKeeps

LEMMA AskingKeeps ==
  ASSUME IInv, NEW s \in Request, NEW k \in Shifts,
         \/ AskDelete(s, k)
         \/ \E i \in ShiftSpan, min \in MinStaffing : AskUpdate(s, k, i, min)
         \/ \E x \in Person : AskAssign(s, k, x) \/ AskUnassign(s, k, x)
  PROVE  IInv'
  <1>1. CASE AskDelete(s, k)
    BY <1>1, AskedKeeps DEF AskDelete, Op
  <1>2. ASSUME NEW i \in ShiftSpan, NEW min \in MinStaffing, AskUpdate(s, k, i, min)
        PROVE  IInv'
    BY <1>2, AskedKeeps DEF AskUpdate, Op
  <1>3. ASSUME NEW x \in Person, AskAssign(s, k, x) \/ AskUnassign(s, k, x)
        PROVE  IInv'
    BY <1>3, AskedKeeps DEF AskAssign, AskUnassign, Op
  <1> QED
    BY <1>1, <1>2, <1>3

LEMMA CheckRosterKeeps ==
  ASSUME IInv, NEW s \in Request, NEW u \in Unit, NEW i \in RosterSpan, CheckRoster(s, u, i)
  PROVE  IInv'
  <1> DEFINE t == [Idle EXCEPT !.op = "ROSTER_CREATE", !.unit = u, !.span = i]
             keys == Overlapping(u, {i}) \cup {u}
  <1>1. /\ Enters(s, t, keys, "checked")
        /\ \A r \in Rosters : roster[r].unit = u => ~ Overlap(roster[r].span, i)
    BY DEF CheckRoster
  <1>2. keys \in SUBSET LockKey /\ u \in keys
    BY KeysAre DEF LockKey
  <1> HIDE DEF keys
  <1>3. i \in Span
    BY SpansAreIntervals
  <1>4. t \in Tx /\ t.op = "ROSTER_CREATE" /\ t.unit = u /\ t.span = i /\ t.holds = {}
    BY <1>3, IdleIs DEF Tx, Op
  <1> HIDE DEF t
  <1>5. /\ tx' \in [Request -> Tx] /\ OthersWait(s) /\ Still /\ Carries(s, t)
        /\ tx'[s].holds = t.holds \cup keys
        /\ \A q \in Request \ {s} : tx[q].holds \cap tx'[s].holds = {}
    BY <1>1, <1>2, <1>4, EntersIs DEF Stage
  <1>6. RosterKnows(s)'
    BY <1>1, <1>2, <1>4, <1>5, StillIs DEF RosterKnows, Carries
  <1>7. Sound(s)'
    BY <1>4, <1>5, <1>6 DEF Sound, Carries
  <1> QED
    BY <1>5, <1>7, ReadingKeeps

LEMMA CheckPublishKeeps ==
  ASSUME IInv, NEW s \in Request, NEW r \in Rosters, CheckPublish(s, r)
  PROVE  IInv'
  <1> DEFINE t == [Idle EXCEPT !.op = "ROSTER_PUBLISH", !.roster = r]
  <1>1. PICK people : people = UNION {Staff(k) : k \in ShiftsOf(r)}
    OBVIOUS
  <1>2. PICK i : i = roster[r].span
    OBVIOUS
  <1>3. /\ Edits(s, t, {i}, people, "checked")
        /\ \A k \in ShiftsOf(r) : Cardinality(Staff(k)) >= shift[k].min
    BY <1>1, <1>2 DEF CheckPublish
  <1>4. people \in SUBSET Person
    BY <1>1 DEF Staff
  <1>5. t \in Tx /\ t.op = "ROSTER_PUBLISH" /\ t.roster = r /\ t.holds = {}
    BY RosterIs, IdleIs DEF Tx, Op
  <1> HIDE DEF t
  <1>6. /\ tx' \in [Request -> Tx] /\ OthersWait(s) /\ Still /\ Carries(s, t)
        /\ \A q \in Request \ {s} : tx[q].holds \cap tx'[s].holds = {}
        /\ Editing(s, {i})'
    BY <1>3, <1>4, <1>5, EditsIs DEF Stage
  <1>7. PublicationKnows(s)'
    <2>1. Editing(s, {roster[tx[s].roster].span})'
      BY <1>2, <1>5, <1>6, StillIs DEF Editing, Fenced, Carries
    <2>2. \A k \in ShiftsOf(tx[s].roster)' : Cardinality(Staff(k)') >= shift'[k].min
      BY <1>3, <1>5, <1>6, StillIs DEF ShiftsOf, Carries
    <2> QED
      BY <2>1, <2>2 DEF PublicationKnows
  <1>8. Sound(s)'
    BY <1>5, <1>6, <1>7 DEF Sound, Carries
  <1> QED
    BY <1>6, <1>8, ReadingKeeps

LEMMA CheckCreateKeeps ==
  ASSUME IInv, NEW s \in Request, NEW r \in Rosters, NEW i \in ShiftSpan, NEW min \in MinStaffing,
         CheckCreate(s, r, i, min)
  PROVE  IInv'
  <1> DEFINE t == [Idle EXCEPT !.op = "SHIFT_CREATE", !.roster = r, !.span = i, !.min = min]
  <1>1. Edits(s, t, {i}, {}, "checked")
    BY DEF CheckCreate
  <1>2. i \in Span
    BY SpansAreIntervals
  <1>3. t \in Tx /\ t.op = "SHIFT_CREATE" /\ t.roster = r /\ t.span = i /\ t.min = min /\ t.holds = {}
    BY <1>2, RosterIs, IdleIs DEF Tx, Op
  <1> HIDE DEF t
  <1>4. {} \in SUBSET Person
    OBVIOUS
  <1>5. /\ tx' \in [Request -> Tx] /\ OthersWait(s) /\ Still /\ Carries(s, t)
        /\ \A q \in Request \ {s} : tx[q].holds \cap tx'[s].holds = {}
        /\ Editing(s, {i})'
    BY <1>1, <1>3, <1>4, EditsIs DEF Stage
  <1>6. CreationKnows(s)'
    BY <1>3, <1>5 DEF CreationKnows, Carries, Editing, Fenced
  <1>7. Sound(s)'
    BY <1>3, <1>5, <1>6 DEF Sound, Carries
  <1> QED
    BY <1>5, <1>7, ReadingKeeps

-----------------------------------------------------------------------------
(* What their transactions check.                                           *)

LEMMA OwnTx ==
  ASSUME IInv, NEW s \in Request
  PROVE  tx[s] \in Tx /\ Sound(s)
  BY DEF IInv, TypeOK

LEMMA CurrentIs ==
  ASSUME Still, NEW s, Carries(s, tx[s])
  PROVE  /\ Current(tx[s])' <=> Current(tx[s])
         /\ Traced(tx[s].shift, tx[s].roster)' <=> Traced(tx[s].shift, tx[s].roster)
         /\ Staff(tx[s].shift)' = Staff(tx[s].shift)
         /\ UnitOf(tx[s].shift)' = UnitOf(tx[s].shift)
  BY StillIs DEF Carries, Current, Traced, Staff, UnitOf, Shifts, Rosters

LEMMA CheckUpdateKeeps ==
  ASSUME IInv, NEW s \in Request, CheckUpdate(s)
  PROVE  IInv'
  <1>1. PICK t \in Tx : t = tx[s]
    BY OwnTx
  <1>2. PICK people, u : people \in SUBSET Person /\ people = Staff(t.shift) /\ u = UnitOf(t.shift)
    BY DEF Staff
  <1>3. /\ Edits(s, t, {t.seen, t.span}, people, "checked") /\ t.op = "SHIFT_UPDATE"
        /\ Current(t) /\ \A x \in people : Fits(x, u, t.span, Shifts \ {t.shift})
    BY <1>1, <1>2 DEF CheckUpdate, At, Fits
  <1>4. /\ t.span \in ShiftSpan /\ t.min \in MinStaffing /\ Traced(t.shift, t.roster)
        /\ t.roster \in Rosters
    BY <1>1, <1>3, OwnTx DEF Sound, UpdateKnows, Traced
  <1>5. /\ tx' \in [Request -> Tx] /\ OthersWait(s) /\ Still /\ Carries(s, t)
        /\ people \subseteq tx'[s].holds /\ tx'[s].stage = "checked"
        /\ \A q \in Request \ {s} : tx[q].holds \cap tx'[s].holds = {}
        /\ Editing(s, {t.seen, t.span})'
    BY <1>1, <1>2, <1>3, <1>4, EditsIs DEF Stage
  <1>6. Editing(s, {tx[s].seen, tx[s].span})'
    BY <1>5 DEF Editing, Fenced, Carries
  <1>7. \A x \in Staff(tx[s].shift)' : Fits(x, UnitOf(tx[s].shift), tx[s].span, Shifts \ {tx[s].shift})'
    BY <1>1, <1>2, <1>3, <1>5, StillIs DEF Fits, Carries, Conflicting, Covers, Staff, UnitOf
  <1>8. UpdateKnows(s)'
    BY <1>1, <1>2, <1>3, <1>4, <1>5, <1>6, <1>7, CurrentIs DEF UpdateKnows, Carries
  <1>9. Sound(s)'
    BY <1>3, <1>5, <1>8 DEF Sound, Carries
  <1> QED
    BY <1>5, <1>9, ReadingKeeps

LEMMA CheckAssignKeeps ==
  ASSUME IInv, NEW s \in Request, CheckAssign(s)
  PROVE  IInv'
  <1>1. PICK t \in Tx : t = tx[s]
    BY OwnTx
  <1>2. t.op = "SHIFT_ASSIGN"
    BY <1>1 DEF CheckAssign, At
  <1>3. t.person \in Person /\ Traced(t.shift, t.roster) /\ t.roster \in Rosters
    BY <1>1, <1>2, OwnTx DEF Sound, AssignmentKnows, Traced
  <1>4. PICK people, u : people \in SUBSET Person /\ people = {t.person} /\ u = UnitOf(t.shift)
    BY <1>3
  <1>5. /\ Edits(s, t, {t.seen}, people, "checked") /\ Current(t)
        /\ Fits(t.person, u, t.seen, Shifts \ {t.shift})
    BY <1>1, <1>4 DEF CheckAssign, Fits
  <1>6. /\ tx' \in [Request -> Tx] /\ OthersWait(s) /\ Still /\ Carries(s, t)
        /\ people \subseteq tx'[s].holds /\ tx'[s].stage = "checked"
        /\ \A q \in Request \ {s} : tx[q].holds \cap tx'[s].holds = {}
        /\ Editing(s, {t.seen})'
    BY <1>1, <1>3, <1>4, <1>5, EditsIs DEF Stage
  <1>7. Editing(s, {tx[s].seen})'
    BY <1>6 DEF Editing, Fenced, Carries
  <1>8. Fits(tx[s].person, UnitOf(tx[s].shift), tx[s].seen, Shifts \ {tx[s].shift})'
    BY <1>1, <1>4, <1>5, <1>6, StillIs DEF Fits, Carries, Conflicting, Covers, UnitOf
  <1>9. AssignmentKnows(s)'
    BY <1>1, <1>3, <1>4, <1>5, <1>6, <1>7, <1>8, CurrentIs DEF AssignmentKnows, Carries
  <1>10. Sound(s)'
    BY <1>2, <1>6, <1>9 DEF Sound, Carries
  <1> QED
    BY <1>6, <1>10, ReadingKeeps

LEMMA CheckUnassignKeeps ==
  ASSUME IInv, NEW s \in Request, CheckUnassign(s)
  PROVE  IInv'
  <1>1. PICK t \in Tx : t = tx[s]
    BY OwnTx
  <1>2. t.op = "SHIFT_UNASSIGN"
    BY <1>1 DEF CheckUnassign, At
  <1>3. t.person \in Person /\ Traced(t.shift, t.roster) /\ t.roster \in Rosters
    BY <1>1, <1>2, OwnTx DEF Sound, UnassignmentKnows, Traced
  <1>4. PICK people \in SUBSET Person : people = Staff(t.shift)
    BY DEF Staff
  <1>5. /\ Edits(s, t, {t.seen}, people, "checked") /\ Current(t) /\ t.person \in people
    BY <1>1, <1>3, <1>4 DEF CheckUnassign, Staff
  <1>6. /\ tx' \in [Request -> Tx] /\ OthersWait(s) /\ Still /\ Carries(s, t)
        /\ people \subseteq tx'[s].holds /\ tx'[s].stage = "checked"
        /\ \A q \in Request \ {s} : tx[q].holds \cap tx'[s].holds = {}
        /\ Editing(s, {t.seen})'
    BY <1>1, <1>3, <1>5, EditsIs DEF Stage
  <1>7. Editing(s, {tx[s].seen})'
    BY <1>6 DEF Editing, Fenced, Carries
  <1>8. UnassignmentKnows(s)'
    BY <1>1, <1>3, <1>4, <1>5, <1>6, <1>7, CurrentIs DEF UnassignmentKnows, Carries
  <1>9. Sound(s)'
    BY <1>2, <1>6, <1>8 DEF Sound, Carries
  <1> QED
    BY <1>6, <1>9, ReadingKeeps

LEMMA LockDeleteKeeps ==
  ASSUME IInv, NEW s \in Request, LockDelete(s)
  PROVE  IInv'
  <1>1. PICK t \in Tx : t = tx[s]
    BY OwnTx
  <1>2. t.op = "SHIFT_DELETE" /\ Edits(s, t, {t.seen}, {}, "locked") /\ Current(t)
    BY <1>1 DEF LockDelete, At
  <1>3. Traced(t.shift, t.roster) /\ t.roster \in Rosters /\ {} \in SUBSET Person
    BY <1>1, <1>2, OwnTx DEF Sound, DeletionKnows, Traced
  <1>4. /\ tx' \in [Request -> Tx] /\ OthersWait(s) /\ Still /\ Carries(s, t)
        /\ tx'[s].stage = "locked"
        /\ \A q \in Request \ {s} : tx[q].holds \cap tx'[s].holds = {}
        /\ Editing(s, {t.seen})'
    BY <1>1, <1>2, <1>3, EditsIs DEF Stage
  <1>5. Editing(s, {tx[s].seen})'
    BY <1>4 DEF Editing, Fenced, Carries
  <1>6. DeletionKnows(s)'
    BY <1>1, <1>2, <1>3, <1>4, <1>5, CurrentIs DEF DeletionKnows
  <1>7. Sound(s)'
    BY <1>2, <1>4, <1>6 DEF Sound, Carries
  <1> QED
    BY <1>4, <1>7, ReadingKeeps

LEMMA CheckDeleteKeeps ==
  ASSUME IInv, NEW s \in Request, CheckDelete(s)
  PROVE  IInv'
  <1>1. PICK t \in Tx : t = tx[s]
    BY OwnTx
  <1>2. PICK people \in SUBSET Person : people = Staff(t.shift)
    BY DEF Staff
  <1>3. t.op = "SHIFT_DELETE" /\ t.stage = "locked" /\ Enters(s, t, people, "checked")
    BY <1>1, <1>2 DEF CheckDelete, At, Takes
  <1>4. Traced(t.shift, t.roster) /\ Editing(s, {t.seen}) /\ Current(t)
    BY <1>1, <1>3, OwnTx DEF Sound, DeletionKnows
  <1>5. people \in SUBSET LockKey
    BY DEF LockKey
  <1>6. /\ tx' \in [Request -> Tx] /\ OthersWait(s) /\ Still /\ Carries(s, t)
        /\ tx'[s].stage = "checked" /\ tx'[s].holds = t.holds \cup people
        /\ \A q \in Request \ {s} : tx[q].holds \cap tx'[s].holds = {}
    BY <1>1, <1>3, <1>5, EntersIs DEF Stage
  <1>7. Editing(s, {tx[s].seen})'
    BY <1>1, <1>4, <1>6, StillIs DEF Editing, Fenced, Carries
  <1>8. DeletionKnows(s)'
    BY <1>1, <1>2, <1>4, <1>6, <1>7, CurrentIs DEF DeletionKnows
  <1>9. Sound(s)'
    BY <1>3, <1>6, <1>8 DEF Sound, Carries
  <1> QED
    BY <1>6, <1>9, ReadingKeeps

LEMMA ReadSwapKeeps ==
  ASSUME IInv, NEW s \in Request, ReadSwap(s)
  PROVE  IInv'
  <1>1. PICK w \in Swap, k \in Shifts : w = swap /\ k = swap.shift
    BY DEF ReadSwap, IInv, TypeOK
  <1>2. PICK r, seen : r = shift[k].roster /\ seen = shift[k].span
    OBVIOUS
  <1>3. k \in Shift /\ r \in Rosters /\ r \in Roster /\ seen \in Span /\ Traced(k, r)
    BY <1>1, <1>2, ShiftIs DEF Rosters
  <1> DEFINE t == [Idle EXCEPT !.op = "SWAP", !.roster = r, !.swap = w, !.seen = seen]
  <1>4. Asks(s, t) /\ w.source \in Person /\ w.target \in Person /\ w.shift = k
    BY <1>1, <1>2 DEF ReadSwap, IInv, PlanSound
  <1>5. /\ t \in Tx /\ t.op = "SWAP" /\ t.stage = "read" /\ t.roster = r /\ t.swap = w
        /\ t.seen = seen /\ t.holds = {}
    BY <1>3, IdleIs DEF Tx, Idle, Op
  <1> HIDE DEF t
  <1>6. /\ tx' \in [Request -> Tx] /\ OthersWait(s) /\ Still /\ tx'[s] = t
        /\ \A q \in Request \ {s} : tx[q].holds \cap tx'[s].holds = {}
    BY <1>4, <1>5, AsksIs
  <1>7. Traced(k, r)'
    BY <1>3, <1>6, StillIs
  <1>8. Traced(tx[s].swap.shift, tx[s].roster)'
    BY <1>4, <1>5, <1>6, <1>7 DEF Traced
  <1>9. SwapKnows(s)'
    BY <1>4, <1>5, <1>6, <1>8 DEF SwapKnows
  <1>10. Sound(s)'
    BY <1>5, <1>6, <1>9 DEF Sound
  <1> QED
    BY <1>6, <1>10, ReadingKeeps

LEMMA LockSwapKeeps ==
  ASSUME IInv, NEW s \in Request, LockSwap(s)
  PROVE  IInv'
  <1>1. PICK t \in Tx : t = tx[s]
    BY OwnTx
  <1>2. t.op = "SWAP"
    BY <1>1 DEF LockSwap, At
  <1>3. /\ Traced(t.swap.shift, t.roster) /\ t.swap.source \in Person /\ t.swap.target \in Person
        /\ t.roster \in Rosters
    BY <1>1, <1>2, OwnTx DEF Sound, SwapKnows, Traced
  <1>4. PICK u : u = roster[t.roster].unit
    OBVIOUS
  <1>5. PICK keys : keys = Overlapping(u, {t.seen}) \cup {t.roster, t.swap.source, t.swap.target}
    OBVIOUS
  <1>6. keys \in SUBSET LockKey
    BY <1>3, <1>5, KeysAre DEF LockKey, Rosters
  <1>7. Enters(s, t, keys, "locked") /\ Unlocked(u, {t.seen})
    BY <1>1, <1>4, <1>5 DEF LockSwap, Takes
  <1>8. /\ tx' \in [Request -> Tx] /\ OthersWait(s) /\ Still /\ Carries(s, t)
        /\ tx'[s].holds = t.holds \cup keys /\ tx'[s].stage = "locked"
        /\ \A q \in Request \ {s} : tx[q].holds \cap tx'[s].holds = {}
    BY <1>1, <1>6, <1>7, EntersIs DEF Stage
  <1>9. Traced(tx[s].swap.shift, tx[s].roster)'
    BY <1>3, <1>8, StillIs DEF Carries, Traced
  <1>10. Fenced(s, roster[tx[s].roster].unit, {tx[s].seen})'
    BY <1>4, <1>5, <1>7, <1>8, StillIs DEF Carries, Fenced
  <1>11. SwapKnows(s)'
    BY <1>3, <1>5, <1>8, <1>9, <1>10 DEF SwapKnows, Carries
  <1>12. Sound(s)'
    BY <1>2, <1>8, <1>11 DEF Sound, Carries
  <1> QED
    BY <1>8, <1>12, ReadingKeeps

LEMMA CheckBookingKeeps ==
  ASSUME IInv, NEW s \in Request, NEW k \in Shifts, NEW x \in Person, NEW i \in ShiftSpan,
         CheckBooking(s, k, x, i)
  PROVE  IInv'
  <1>1. PICK u \in Unit : u = UnitOf(k)
    BY ShiftIs, RosterIs
  <1> DEFINE t == [Idle EXCEPT !.op = "BOOK", !.shift = k, !.person = x, !.unit = u, !.span = i]
             keys == Overlapping(u, {i}) \cup {x}
  <1>2. Enters(s, t, keys, "checked") /\ <<k, x>> \in on
    BY <1>1 DEF CheckBooking
  <1>3. keys \in SUBSET LockKey /\ x \in keys
    BY KeysAre DEF LockKey
  <1> HIDE DEF keys
  <1>4. k \in Shift /\ i \in Span
    BY ShiftIs, SpansAreIntervals
  <1>5. /\ t \in Tx /\ t.op = "BOOK" /\ t.shift = k /\ t.person = x /\ t.unit = u /\ t.span = i
        /\ t.holds = {}
    BY <1>4, IdleIs DEF Tx, Op
  <1> HIDE DEF t
  <1>6. /\ tx' \in [Request -> Tx] /\ OthersWait(s) /\ Still /\ Carries(s, t)
        /\ tx'[s].holds = t.holds \cup keys
        /\ \A q \in Request \ {s} : tx[q].holds \cap tx'[s].holds = {}
    BY <1>2, <1>3, <1>5, EntersIs DEF Stage
  <1>7. BookingKnows(s)'
    BY <1>2, <1>3, <1>4, <1>5, <1>6, StillIs DEF BookingKnows, Carries
  <1>8. Sound(s)'
    BY <1>5, <1>6, <1>7 DEF Sound, Carries
  <1> QED
    BY <1>6, <1>8, ReadingKeeps

-----------------------------------------------------------------------------
(* Steps that write.                                                        *)

LEMMA WritingKeeps ==
  ASSUME IInv, NEW s \in Request, Ends(s), Changes(tx[s].holds), DataTyped, PlanSound'
  PROVE  IInv'
  <1>1. /\ tx' \in [Request -> Tx] /\ tx'[s] = Idle /\ OthersWait(s)
        /\ \A r \in Request \ {s} : tx[r].holds \cap tx[s].holds = {}
    BY IdleIs DEF Ends, IInv, TypeOK, OthersWait, Exclusive
  <1>2. \A r \in Request \ {s} : Sound(r)'
    <2>1. TAKE r \in Request \ {s}
    <2>2. Undisturbed(r, tx[s].holds)
      BY <1>1 DEF Undisturbed, OthersWait
    <2> QED
      BY <2>2, OthersUndisturbed DEF IInv, PlanSound
  <1>3. Sound(s)'
    BY <1>1, IdleIs DEF Sound
  <1>4. Exclusive'
    BY <1>1, IdleIs DEF Exclusive, OthersWait, IInv
  <1> QED
    BY <1>1, <1>2, <1>3, <1>4 DEF IInv, TypeOK, DataTyped

LEMMA OutsideKeeps ==
  ASSUME IInv, UNCHANGED tx, NEW h, Free(h), Changes(h), DataTyped, PlanSound'
  PROVE  IInv'
  <1>1. \A r \in Request : Sound(r)'
    <2>1. TAKE r \in Request
    <2>2. Undisturbed(r, h)
      BY DEF Undisturbed, Free
    <2> QED
      BY <2>2, OthersUndisturbed DEF IInv, PlanSound
  <1> QED
    BY <1>1 DEF IInv, TypeOK, DataTyped, Exclusive

LEMMA RollbackKeeps ==
  ASSUME IInv, NEW s \in Request, Rollback(s)
  PROVE  IInv'
  <1>1. Ends(s) /\ Still
    BY DEF Rollback, Still
  <1> QED
    BY <1>1, StillIs, StillSound, WritingKeeps

LEMMA OverlapIsMutual ==
  ASSUME NEW i \in Span, NEW j \in Span
  PROVE  Overlap(i, j) <=> Overlap(j, i)
  BY SpansAreIntervals DEF Overlap

(* The plan and the terms are as they were.                                 *)
LEMMA PlanStays ==
  ASSUME IInv, UNCHANGED <<plan, until>>, IsFiniteSet(booking'),
         Pending' => {swap'.source, swap'.target} \subseteq Person
  PROVE  PlanSound'
  <1>1. NobodyTwiceAtOnce' /\ PlannedAreEmployed' /\ PublishedIsStaffed'
    BY DEF plan, IInv, PlanSound, NobodyTwiceAtOnce, PlannedAreEmployed, PublishedIsStaffed,
           Rosters, Shifts, ShiftsOf, Staff, UnitOf, Covers
  <1>2. /\ \A k \in Shifts' : shift'[k].roster \in Rosters'
        /\ \A k \in Shift : IsFiniteSet(Staff(k)')
        /\ IsFiniteSet(Used')
    BY DEF plan, IInv, PlanSound, Rosters, Shifts, Staff, Used
  <1> QED
    BY <1>1, <1>2 DEF PlanSound

LEMMA PlanChangesNothing ==
  ASSUME UNCHANGED plan, NEW h, \A a \in Appointed : a[1] \notin h => until'[a] = until[a],
         \A p \in Period : p \notin h => (p \in locked' <=> p \in locked)
  PROVE  Changes(h)
  BY DEF plan, Changes, Rosters, Used, Shifts, Staff

LEMMA WriteBookingKeeps ==
  ASSUME IInv, NEW s \in Request, WriteBooking(s)
  PROVE  IInv'
  <1>1. PICK t \in Tx : t = tx[s]
    BY OwnTx
  <1>2. t.op = "BOOK" /\ Ends(s) /\ UNCHANGED <<plan, swap, until, locked>>
    BY <1>1 DEF WriteBooking, At
  <1>3. PICK b : b = [person |-> t.person, unit |-> t.unit, span |-> t.span, shift |-> t.shift]
    OBVIOUS
  <1>4. booking' = booking \cup {b}
    BY <1>1, <1>3 DEF WriteBooking
  <1>5. b \in [person : Person, unit : Unit, span : ShiftSpan, shift : Shift \cup {None}]
    BY <1>1, <1>2, <1>3, OwnTx DEF Sound, BookingKnows
  <1>6. DataTyped
    BY <1>2, <1>4, <1>5 DEF DataTyped, plan, IInv, TypeOK
  <1>7. IsFiniteSet(booking')
    BY <1>4, FS_AddElement DEF IInv, PlanSound
  <1>8. PlanSound'
    BY <1>2, <1>7, PlanStays DEF plan, IInv, PlanSound, Pending
  <1> QED
    BY <1>2, <1>6, <1>8, PlanChangesNothing, WritingKeeps

LEMMA CreateRosterKeeps ==
  ASSUME IInv, NEW s \in Request, CreateRoster(s)
  PROVE  IInv'
  <1>1. PICK t \in Tx : t = tx[s]
    BY OwnTx
  <1>2. t.op = "ROSTER_CREATE" /\ Ends(s) /\ UNCHANGED <<shift, on, swap, booking, until, locked>>
    BY <1>1 DEF CreateRoster, At
  <1>3. /\ t.unit \in Unit /\ t.unit \in t.holds /\ t.span \in RosterSpan
        /\ \A r \in Rosters : roster[r].unit = t.unit => ~ Overlap(roster[r].span, t.span)
    BY <1>1, <1>2, OwnTx DEF Sound, RosterKnows
  <1>4. PICK n : n = [status |-> "DRAFT", unit |-> t.unit, span |-> t.span]
    OBVIOUS
  <1>5. PICK r \in Roster \ Rosters : roster' = [roster EXCEPT ![r] = n]
    BY <1>1, <1>4 DEF CreateRoster
  <1>6. /\ n \in [status : {"DRAFT", "PUBLISHED"}, unit : Unit, span : RosterSpan]
        /\ n.status = "DRAFT" /\ n.unit = t.unit /\ n.span = t.span
    BY <1>3, <1>4
  <1>7. /\ roster'[r] = n /\ \A q \in Rosters : q # r /\ roster'[q] = roster[q]
        /\ Rosters' = Rosters \cup {r} /\ Shifts' = Shifts
    BY <1>2, <1>5, <1>6 DEF IInv, TypeOK, Rosters, Shifts
  <1>8. \A k \in Shifts : shift[k].roster \in Rosters /\ UnitOf(k)' = UnitOf(k) /\ Staff(k)' = Staff(k)
    BY <1>2, <1>7 DEF IInv, PlanSound, UnitOf, Staff
  <1>9. Changes(t.holds)
    BY <1>2, <1>3, <1>6, <1>7 DEF Changes, Used, Staff
  <1>10. DataTyped
    BY <1>2, <1>5, <1>6 DEF DataTyped, IInv, TypeOK
  <1>11. NobodyTwiceAtOnce'
    <2>1. ASSUME NEW q \in Rosters', NEW p \in Rosters', q # p, roster'[q].unit = roster'[p].unit
          PROVE  ~ Overlap(roster'[q].span, roster'[p].span)
      <3>1. CASE q # r /\ p # r
        BY <1>7, <2>1, <3>1 DEF IInv, PlanSound, NobodyTwiceAtOnce
      <3>2. CASE p = r
        BY <1>3, <1>6, <1>7, <2>1, <3>2
      <3>3. CASE q = r
        <4>1. p \in Rosters /\ ~ Overlap(roster'[p].span, t.span)
          BY <1>3, <1>6, <1>7, <2>1, <3>3
        <4>2. roster'[p].span \in Span /\ t.span \in Span
          BY <1>3, <1>7, <4>1, RosterIs, SpansAreIntervals
        <4> QED
          BY <1>6, <1>7, <3>3, <4>1, <4>2, OverlapIsMutual
      <3> QED
        BY <3>1, <3>2, <3>3
    <2>2. \A x \in Person : \A k, l \in Shifts' : k # l /\ {<<k, x>>, <<l, x>>} \subseteq on' =>
            ~ Overlap(shift'[k].span, shift'[l].span)
      BY <1>2, <1>7 DEF IInv, PlanSound, NobodyTwiceAtOnce
    <2> QED
      BY <2>1, <2>2 DEF NobodyTwiceAtOnce
  <1>12. PlannedAreEmployed'
    BY <1>2, <1>7, <1>8 DEF IInv, PlanSound, PlannedAreEmployed, Covers
  <1>13. PublishedIsStaffed'
    BY <1>2, <1>6, <1>7, <1>8 DEF IInv, PlanSound, PublishedIsStaffed, ShiftsOf
  <1>14. PlanSound'
    BY <1>2, <1>7, <1>11, <1>12, <1>13 DEF IInv, PlanSound, Staff, Used, Pending
  <1> QED
    BY <1>1, <1>2, <1>9, <1>10, <1>14, WritingKeeps

LEMMA PublishKeeps ==
  ASSUME IInv, NEW s \in Request, Publish(s)
  PROVE  IInv'
  <1>1. PICK r, i : r = tx[s].roster /\ i = roster[r].span
    OBVIOUS
  <1>2. tx[s].op = "ROSTER_PUBLISH" /\ Ends(s) /\ UNCHANGED <<shift, on, swap, booking, until, locked>>
    BY DEF Publish, At
  <1>3. /\ r \in Rosters /\ r \in tx[s].holds /\ roster[r].status = "DRAFT"
        /\ \A k \in ShiftsOf(r) : Cardinality(Staff(k)) >= shift[k].min
    BY <1>1, <1>2, OwnTx DEF Sound, PublicationKnows, Editing
  <1>4. PICK n : n = [roster[r] EXCEPT !.status = "PUBLISHED"]
    OBVIOUS
  <1>5. /\ n \in [status : {"DRAFT", "PUBLISHED"}, unit : Unit, span : RosterSpan]
        /\ n.status = "PUBLISHED" /\ n.unit = roster[r].unit /\ n.span = roster[r].span
    BY <1>3, <1>4 DEF IInv, TypeOK, NoRoster, Rosters
  <1>6. r \in Roster /\ roster' = [roster EXCEPT ![r] = n]
    BY <1>1, <1>3, <1>4 DEF Publish, Rosters
  <1>7. /\ roster'[r] = n /\ \A q \in Roster \ {r} : roster'[q] = roster[q]
        /\ Rosters' = Rosters /\ Shifts' = Shifts
        /\ \A q \in Rosters : roster'[q].unit = roster[q].unit /\ roster'[q].span = roster[q].span
    BY <1>2, <1>3, <1>5, <1>6 DEF IInv, TypeOK, Rosters, Shifts
  <1>8. \A k \in Shifts : UnitOf(k)' = UnitOf(k)
    BY <1>2, <1>7 DEF IInv, PlanSound, UnitOf
  <1>9. Changes(tx[s].holds)
    BY <1>2, <1>3, <1>7, UsedAre DEF Changes, Used, Staff
  <1>10. DataTyped
    BY <1>2, <1>5, <1>6 DEF DataTyped, IInv, TypeOK
  <1>11. NobodyTwiceAtOnce'
    BY <1>2, <1>7 DEF IInv, PlanSound, NobodyTwiceAtOnce
  <1>12. PlannedAreEmployed'
    BY <1>2, <1>7, <1>8 DEF IInv, PlanSound, PlannedAreEmployed, Covers
  <1>13. PublishedIsStaffed'
    BY <1>2, <1>3, <1>7, UsedAre DEF IInv, PlanSound, PublishedIsStaffed, ShiftsOf, Staff
  <1>14. PlanSound'
    BY <1>2, <1>7, <1>11, <1>12, <1>13 DEF IInv, PlanSound, Staff, Used, Pending
  <1> QED
    BY <1>2, <1>9, <1>10, <1>14, WritingKeeps

LEMMA PlannedIs ==
  ASSUME IInv, NEW a \in on
  PROVE  /\ a[1] \in Shifts /\ a[2] \in Person /\ a = <<a[1], a[2]>>
         /\ Covers(a[2], UnitOf(a[1]), shift[a[1]].span)
  BY DEF IInv, PlanSound, PlannedAreEmployed, TypeOK

(* Steps that leave rosters, terms and closing periods alone.               *)
LEMMA RostersStay ==
  ASSUME IInv, UNCHANGED roster
  PROVE  /\ Rosters' = Rosters
         /\ \A q, r \in Rosters' : q # r /\ roster'[q].unit = roster'[r].unit =>
              ~ Overlap(roster'[q].span, roster'[r].span)
  BY DEF Rosters, IInv, PlanSound, NobodyTwiceAtOnce

LEMMA CreateShiftKeeps ==
  ASSUME IInv, NEW s \in Request, CreateShift(s)
  PROVE  IInv'
  <1>1. PICK t \in Tx : t = tx[s]
    BY OwnTx
  <1>2. t.op = "SHIFT_CREATE" /\ Ends(s) /\ UNCHANGED <<roster, on, swap, booking, until, locked>>
    BY <1>1 DEF CreateShift, At
  <1>3. /\ t.span \in ShiftSpan /\ t.min \in MinStaffing /\ t.roster \in Rosters
        /\ t.roster \in t.holds /\ roster[t.roster].status = "DRAFT"
    BY <1>1, <1>2, OwnTx DEF Sound, CreationKnows, Editing
  <1>4. PICK n : n = [row |-> "PRESENT", roster |-> t.roster, span |-> t.span, min |-> t.min]
    OBVIOUS
  <1>5. PICK k \in Shift : shift[k].row = "UNUSED" /\ shift' = [shift EXCEPT ![k] = n]
    BY <1>1, <1>4 DEF CreateShift
  <1>6. /\ n \in [row : {"PRESENT"}, roster : Roster, span : ShiftSpan, min : MinStaffing]
        /\ n.row = "PRESENT" /\ n.roster = t.roster
    BY <1>3, <1>4 DEF Rosters
  <1>7. /\ shift'[k] = n /\ \A l \in Shift \ {k} : shift'[l] = shift[l]
        /\ k \notin Used /\ k \notin Shifts /\ Shifts' = Shifts \cup {k} /\ Used' = Used \cup {k}
    BY <1>5, <1>6 DEF IInv, TypeOK, Shifts, Used
  <1>8. on' = on /\ \A a \in on : a[1] # k
    BY <1>2, <1>7, PlannedIs
  <1>9. /\ \A l \in Shift : Staff(l)' = Staff(l)
        /\ \A l \in Shifts : UnitOf(l)' = UnitOf(l) /\ shift'[l] = shift[l] /\ l # k
    BY <1>2, <1>7, UsedAre DEF Staff, UnitOf
  <1>10. Changes(t.holds)
    <2>1. \A x \in Person, l \in Shift : <<l, x>> \in on => shift'[l] = shift[l]
      BY <1>7, <1>8
    <2> QED
      BY <1>2, <1>3, <1>6, <1>7, <1>9, <2>1, UsedAre, RostersStay DEF Changes
  <1>11. DataTyped
    BY <1>2, <1>5, <1>6 DEF DataTyped, IInv, TypeOK
  <1>12. NobodyTwiceAtOnce'
    <2>1. \A x \in Person : \A l, m \in Shifts' : l # m /\ {<<l, x>>, <<m, x>>} \subseteq on' =>
            ~ Overlap(shift'[l].span, shift'[m].span)
      BY <1>7, <1>8, <1>9 DEF IInv, PlanSound, NobodyTwiceAtOnce
    <2> QED
      BY <1>2, <2>1, RostersStay DEF NobodyTwiceAtOnce
  <1>13. PlannedAreEmployed'
    BY <1>2, <1>7, <1>8, <1>9, PlannedIs DEF PlannedAreEmployed, Covers
  <1>14. PublishedIsStaffed'
    BY <1>2, <1>3, <1>6, <1>7, <1>9, RostersStay, UsedAre DEF IInv, PlanSound, PublishedIsStaffed, ShiftsOf
  <1>15. IsFiniteSet(Used')
    BY <1>7, FS_AddElement DEF IInv, PlanSound
  <1>16. PlanSound'
    BY <1>2, <1>3, <1>6, <1>7, <1>9, <1>12, <1>13, <1>14, <1>15, RostersStay DEF IInv, PlanSound, Pending
  <1> QED
    BY <1>1, <1>2, <1>10, <1>11, <1>16, WritingKeeps

LEMMA UpdateShiftKeeps ==
  ASSUME IInv, NEW s \in Request, UpdateShift(s)
  PROVE  IInv'
  <1>1. PICK t, k : t \in Tx /\ t = tx[s] /\ k = t.shift
    BY OwnTx
  <1>2. t.op = "SHIFT_UPDATE" /\ Ends(s) /\ UNCHANGED <<roster, on, swap, booking, until, locked>>
        /\ t.stage = "checked"
    BY <1>1 DEF UpdateShift, At
  <1>3. /\ t.span \in ShiftSpan /\ t.min \in MinStaffing /\ Traced(k, t.roster) /\ k \in Shifts
        /\ t.roster \in t.holds /\ roster[t.roster].status = "DRAFT"
        /\ Staff(k) \subseteq t.holds
        /\ \A x \in Staff(k) : Fits(x, UnitOf(k), t.span, Shifts \ {k})
    BY <1>1, <1>2, OwnTx DEF Sound, UpdateKnows, Editing, Current
  <1>4. k \in Shift /\ shift[k].roster = t.roster /\ t.roster \in Rosters
    BY <1>3 DEF Traced
  <1>5. PICK n : n = [shift[k] EXCEPT !.span = t.span, !.min = t.min]
    OBVIOUS
  <1>6. shift[k] \in [row : {"PRESENT"}, roster : Roster, span : ShiftSpan, min : MinStaffing]
    BY <1>3, <1>4 DEF IInv, TypeOK, Shifts, NoShift
  <1>7. /\ n \in [row : {"PRESENT"}, roster : Roster, span : ShiftSpan, min : MinStaffing]
        /\ n.row = "PRESENT" /\ n.roster = t.roster /\ n.span = t.span
    BY <1>3, <1>4, <1>5, <1>6
  <1>8. shift' = [shift EXCEPT ![k] = n]
    BY <1>1, <1>4, <1>5, <1>6 DEF UpdateShift, IInv, TypeOK
  <1>9. /\ shift'[k] = n /\ \A l \in Shift \ {k} : shift'[l] = shift[l]
        /\ Shifts' = Shifts /\ Used' = Used
    BY <1>3, <1>4, <1>6, <1>7, <1>8 DEF IInv, TypeOK, Shifts, Used
  <1>10. /\ \A l \in Shift : Staff(l)' = Staff(l)
         /\ \A l \in Shifts : UnitOf(l)' = UnitOf(l) /\ shift'[l].roster = shift[l].roster
    BY <1>2, <1>4, <1>7, <1>9, UsedAre DEF Staff, UnitOf
  <1>11. Changes(t.holds)
    <2>1. \A x \in Person \ t.holds, l \in Shift : <<l, x>> \in on => shift'[l] = shift[l]
      BY <1>3, <1>9 DEF Staff
    <2> QED
      BY <1>2, <1>3, <1>4, <1>9, <1>10, <2>1, UsedAre, RostersStay DEF Changes
  <1>12. DataTyped
    BY <1>2, <1>4, <1>7, <1>8 DEF DataTyped, IInv, TypeOK
  <1>13. ASSUME NEW x \in Person, NEW l \in Shifts, l # k, <<l, x>> \in on, <<k, x>> \in on
         PROVE  ~ Overlap(shift[l].span, t.span) /\ ~ Overlap(t.span, shift[l].span)
    <2>1. ~ Overlap(shift[l].span, t.span)
      BY <1>3, <1>13 DEF Fits, Conflicting, Staff
    <2>2. shift[l].span \in Span /\ t.span \in Span
      BY <1>3, ShiftIs, SpansAreIntervals
    <2> QED
      BY <2>1, <2>2, OverlapIsMutual
  <1>14. NobodyTwiceAtOnce'
    <2>1. ASSUME NEW x \in Person, NEW l \in Shifts, NEW m \in Shifts, l # m, <<l, x>> \in on,
                 <<m, x>> \in on
          PROVE  ~ Overlap(shift'[l].span, shift'[m].span)
      <3>1. CASE l # k /\ m # k
        BY <1>9, <2>1, <3>1, UsedAre DEF IInv, PlanSound, NobodyTwiceAtOnce
      <3>2. CASE l = k \/ m = k
        BY <1>7, <1>9, <1>13, <2>1, <3>2, UsedAre
      <3> QED
        BY <3>1, <3>2
    <2> QED
      BY <1>2, <1>9, <2>1, RostersStay DEF NobodyTwiceAtOnce
  <1>15. PlannedAreEmployed'
    <2>1. ASSUME NEW a \in on PROVE Covers(a[2], UnitOf(a[1]), shift'[a[1]].span)
      <3>1. CASE a[1] = k
        BY <1>3, <1>7, <1>9, <2>1, <3>1, PlannedIs DEF Staff, Fits
      <3>2. CASE a[1] # k
        BY <1>9, <2>1, <3>2, PlannedIs, UsedAre
      <3> QED
        BY <3>1, <3>2
    <2> QED
      BY <1>2, <1>9, <1>10, <2>1, PlannedIs DEF PlannedAreEmployed, Covers
  <1>16. PublishedIsStaffed'
    BY <1>2, <1>3, <1>4, <1>7, <1>9, <1>10, RostersStay, UsedAre
    DEF IInv, PlanSound, PublishedIsStaffed, ShiftsOf
  <1>17. PlanSound'
    BY <1>2, <1>9, <1>10, <1>14, <1>15, <1>16, RostersStay DEF IInv, PlanSound, Pending
  <1> QED
    BY <1>1, <1>2, <1>11, <1>12, <1>17, WritingKeeps

(* Who is on a shift with one person more, one less, or one for another.    *)
LEMMA StaffCounts ==
  ASSUME NEW people, IsFiniteSet(people), NEW x, NEW y
  PROVE  /\ IsFiniteSet(people \cup {x}) /\ Cardinality(people \cup {x}) >= Cardinality(people)
         /\ IsFiniteSet(people \ {x})
         /\ x \in people /\ y \notin people =>
              /\ IsFiniteSet((people \ {x}) \cup {y})
              /\ Cardinality((people \ {x}) \cup {y}) = Cardinality(people)
  <1>1. /\ Cardinality(people) \in Nat /\ IsFiniteSet(people \cup {x})
        /\ Cardinality(people \cup {x}) \in {Cardinality(people), Cardinality(people) + 1}
    BY FS_AddElement, FS_CardinalityType
  <1>2. /\ IsFiniteSet(people \ {x})
        /\ x \in people => Cardinality(people \ {x}) = Cardinality(people) - 1
    BY FS_RemoveElement
  <1>3. PICK rest : rest = people \ {x}
    OBVIOUS
  <1>4. ASSUME x \in people, y \notin people
        PROVE  /\ IsFiniteSet((people \ {x}) \cup {y})
               /\ Cardinality((people \ {x}) \cup {y}) = Cardinality(people)
    <2>1. /\ IsFiniteSet(rest \cup {y}) /\ Cardinality(rest \cup {y}) = Cardinality(rest) + 1
      BY <1>2, <1>3, <1>4, FS_AddElement
    <2> QED
      BY <1>1, <1>2, <1>3, <1>4, <2>1
  <1> QED
    BY <1>1, <1>2, <1>4

LEMMA DeleteShiftKeeps ==
  ASSUME IInv, NEW s \in Request, DeleteShift(s)
  PROVE  IInv'
  <1>1. PICK t, k : t \in Tx /\ t = tx[s] /\ k = t.shift
    BY OwnTx
  <1>2. /\ t.op = "SHIFT_DELETE" /\ t.stage = "checked" /\ Ends(s)
        /\ UNCHANGED <<roster, swap, until, locked>>
        /\ on' = {a \in on : a[1] # k}
        /\ booking' = {IF b.shift = k THEN [b EXCEPT !.shift = None] ELSE b : b \in booking}
    BY <1>1 DEF DeleteShift, At
  <1>3. /\ Traced(k, t.roster) /\ k \in Shifts /\ k \in Shift /\ shift[k].roster = t.roster
        /\ t.roster \in t.holds /\ Staff(k) \subseteq t.holds
    BY <1>1, <1>2, OwnTx DEF Sound, DeletionKnows, Editing, Current, Traced
  <1>4. PICK n : n = [NoShift EXCEPT !.row = "DELETED"]
    OBVIOUS
  <1>5. n.row = "DELETED" /\ shift' = [shift EXCEPT ![k] = n]
    BY <1>1, <1>4 DEF DeleteShift, NoShift
  <1>6. /\ shift'[k] = n /\ \A l \in Shift \ {k} : shift'[l] = shift[l]
        /\ Shifts' = Shifts \ {k} /\ Used' = Used
    BY <1>3, <1>5 DEF IInv, TypeOK, Shifts, Used
  <1>7. /\ \A l \in Shift \ {k} : Staff(l)' = Staff(l)
        /\ Staff(k)' = {}
        /\ \A l \in Shifts \ {k} : UnitOf(l)' = UnitOf(l) /\ shift'[l] = shift[l]
    BY <1>2, <1>6, UsedAre DEF Staff, UnitOf
  <1>8. Changes(t.holds)
    <2>1. \A x \in Person \ t.holds, l \in Shift : (<<l, x>> \in on' <=> <<l, x>> \in on)
                                                     /\ (<<l, x>> \in on => shift'[l] = shift[l])
      BY <1>2, <1>3, <1>6 DEF Staff
    <2> QED
      BY <1>2, <1>3, <1>6, <1>7, <2>1, UsedAre, RostersStay DEF Changes
  <1>9. booking' \subseteq [person : Person, unit : Unit, span : ShiftSpan, shift : Shift \cup {None}]
    BY <1>2 DEF IInv, TypeOK
  <1>10. DataTyped
    BY <1>2, <1>4, <1>5, <1>9 DEF DataTyped, IInv, TypeOK
  <1>11. NobodyTwiceAtOnce'
    <2>1. \A x \in Person : \A l, m \in Shifts' : l # m /\ {<<l, x>>, <<m, x>>} \subseteq on' =>
            ~ Overlap(shift'[l].span, shift'[m].span)
      BY <1>2, <1>6, <1>7 DEF IInv, PlanSound, NobodyTwiceAtOnce
    <2> QED
      BY <1>2, <2>1, RostersStay DEF NobodyTwiceAtOnce
  <1>12. PlannedAreEmployed'
    BY <1>2, <1>6, <1>7, PlannedIs DEF PlannedAreEmployed, Covers
  <1>13. PublishedIsStaffed'
    BY <1>2, <1>6, <1>7, RostersStay, UsedAre DEF IInv, PlanSound, PublishedIsStaffed, ShiftsOf
  <1>14. IsFiniteSet(booking')
    <2> DEFINE f == [b \in booking |-> IF b.shift = k THEN [b EXCEPT !.shift = None] ELSE b]
    <2>1. f \in Surjection(booking, booking')
      BY <1>2 DEF Surjection
    <2> HIDE DEF f
    <2> QED
      BY <2>1, FS_Surjection DEF IInv, PlanSound
  <1>15. \A l \in Shift : IsFiniteSet(Staff(l)')
    BY <1>7, FS_EmptySet DEF IInv, PlanSound
  <1>16. PlanSound'
    BY <1>2, <1>6, <1>7, <1>11, <1>12, <1>13, <1>14, <1>15, RostersStay DEF IInv, PlanSound, Pending
  <1> QED
    BY <1>1, <1>2, <1>8, <1>10, <1>16, WritingKeeps

(* Steps that change who is on one shift.                                   *)
LEMMA StaffChanges ==
  ASSUME IInv, UNCHANGED <<roster, shift, until, locked>>, NEW k \in Shifts, NEW h,
         shift[k].roster \in h, NEW people \in SUBSET Person,
         on' \subseteq Shift \X Person,
         \A l \in Shift : Staff(l)' = (IF l = k THEN people ELSE Staff(l)),
         \A x \in Person \ h : x \in people <=> x \in Staff(k)
  PROVE  Changes(h)
  <1>1. Rosters' = Rosters /\ Shifts' = Shifts /\ Used' = Used
    BY DEF Rosters, Shifts, Used
  <1>2. \A x \in Person, l \in Shift : (<<l, x>> \in on <=> x \in Staff(l))
                                         /\ (<<l, x>> \in on' <=> x \in Staff(l)')
    BY DEF Staff
  <1>3. \A x \in Person \ h, l \in Shift : (<<l, x>> \in on' <=> <<l, x>> \in on)
    BY <1>2
  <1> QED
    BY <1>1, <1>3, UsedAre DEF Changes

(* A person joins a shift whom it fits.                                     *)
LEMMA JoiningFits ==
  ASSUME IInv, UNCHANGED <<roster, shift, until>>, NEW k \in Shifts, NEW y \in Person,
         Fits(y, UnitOf(k), shift[k].span, Shifts \ {k}), on' \subseteq on \cup {<<k, y>>}
  PROVE  NobodyTwiceAtOnce' /\ PlannedAreEmployed'
  <1>1. Rosters' = Rosters /\ Shifts' = Shifts /\ \A l : UnitOf(l)' = UnitOf(l)
    BY DEF Rosters, Shifts, UnitOf
  <1>2. ASSUME NEW l \in Shifts, l # k, <<l, y>> \in on'
        PROVE  ~ Overlap(shift[l].span, shift[k].span) /\ ~ Overlap(shift[k].span, shift[l].span)
    <2>1. ~ Overlap(shift[l].span, shift[k].span)
      BY <1>2 DEF Fits, Conflicting
    <2>2. shift[l].span \in Span /\ shift[k].span \in Span
      BY ShiftIs
    <2> QED
      BY <2>1, <2>2, OverlapIsMutual
  <1>3. ASSUME NEW x \in Person, NEW l \in Shifts, NEW m \in Shifts, l # m, <<l, x>> \in on',
               <<m, x>> \in on'
        PROVE  ~ Overlap(shift[l].span, shift[m].span)
    <2>1. CASE <<l, x>> \in on /\ <<m, x>> \in on
      BY <1>3, <2>1 DEF IInv, PlanSound, NobodyTwiceAtOnce
    <2>2. CASE x = y /\ (l = k \/ m = k)
      BY <1>2, <1>3, <2>2
    <2> QED
      BY <1>3, <2>1, <2>2
  <1>4. NobodyTwiceAtOnce'
    BY <1>1, <1>3, RostersStay DEF NobodyTwiceAtOnce
  <1>5. PlannedAreEmployed'
    <2>1. ASSUME NEW a \in on'
          PROVE  a[1] \in Shifts /\ Covers(a[2], UnitOf(a[1]), shift[a[1]].span)
      BY <2>1, PlannedIs DEF Fits
    <2> QED
      BY <1>1, <2>1 DEF PlannedAreEmployed, Covers
  <1> QED
    BY <1>4, <1>5

(* Nobody joins.                                                            *)
LEMMA LeavingFits ==
  ASSUME IInv, UNCHANGED <<roster, shift, until>>, on' \subseteq on
  PROVE  NobodyTwiceAtOnce' /\ PlannedAreEmployed'
  <1>1. Rosters' = Rosters /\ Shifts' = Shifts /\ \A l : UnitOf(l)' = UnitOf(l)
    BY DEF Rosters, Shifts, UnitOf
  <1>2. NobodyTwiceAtOnce'
    BY <1>1, RostersStay DEF IInv, PlanSound, NobodyTwiceAtOnce
  <1> QED
    BY <1>1, <1>2, PlannedIs DEF PlannedAreEmployed, Covers

LEMMA StaffedStays ==
  ASSUME IInv, UNCHANGED <<roster, shift>>,
         \A l \in Shift : IsFiniteSet(Staff(l)') /\ Cardinality(Staff(l)') >= Cardinality(Staff(l))
  PROVE  /\ \A l \in Shifts' : shift'[l].roster \in Rosters'
         /\ \A l \in Shift : IsFiniteSet(Staff(l)')
         /\ IsFiniteSet(Used') /\ PublishedIsStaffed'
  <1>1. Rosters' = Rosters /\ Shifts' = Shifts /\ Used' = Used /\ \A r : ShiftsOf(r)' = ShiftsOf(r)
    BY DEF Rosters, Shifts, Used, ShiftsOf
  <1>2. ASSUME NEW r \in Rosters, roster[r].status = "PUBLISHED", NEW l \in ShiftsOf(r)
        PROVE  Cardinality(Staff(l)') >= shift[l].min
    <2>1. l \in Shift /\ l \in Shifts /\ Cardinality(Staff(l)) >= shift[l].min
      BY <1>2, UsedAre DEF ShiftsOf, IInv, PlanSound, PublishedIsStaffed
    <2>2. shift[l].min \in Nat
      BY <2>1, ShiftIs, NumbersAreSmall
    <2>3. IsFiniteSet(Staff(l)) /\ IsFiniteSet(Staff(l)')
      BY <2>1 DEF IInv, PlanSound
    <2>4. Cardinality(Staff(l)) \in Nat /\ Cardinality(Staff(l)') \in Nat
      BY <2>3, FS_CardinalityType
    <2>5. PICK c \in Nat, d \in Nat : c = Cardinality(Staff(l)) /\ d = Cardinality(Staff(l)')
      BY <2>4
    <2> QED
      BY <2>1, <2>2, <2>5
  <1> QED
    BY <1>1, <1>2 DEF IInv, PlanSound, PublishedIsStaffed

LEMMA AssignShiftKeeps ==
  ASSUME IInv, NEW s \in Request, AssignShift(s)
  PROVE  IInv'
  <1>1. PICK t, k, y : t \in Tx /\ t = tx[s] /\ k = t.shift /\ y = t.person
    BY OwnTx
  <1>2. /\ t.op = "SHIFT_ASSIGN" /\ t.stage = "checked" /\ Ends(s) /\ on' = on \cup {<<k, y>>}
        /\ UNCHANGED <<roster, shift, swap, booking, until, locked>>
    BY <1>1 DEF AssignShift, At
  <1>3. /\ Traced(k, t.roster) /\ k \in Shifts /\ shift[k].span = t.seen /\ t.roster \in t.holds
        /\ y \in Person /\ y \in t.holds /\ Fits(y, UnitOf(k), t.seen, Shifts \ {k})
    BY <1>1, <1>2, OwnTx DEF Sound, AssignmentKnows, Editing, Current
  <1>4. k \in Shift /\ shift[k].roster \in t.holds
    BY <1>3 DEF Traced
  <1>5. PICK people \in SUBSET Person : people = Staff(k) \cup {y}
    BY <1>3 DEF Staff
  <1>6. \A l \in Shift : Staff(l)' = (IF l = k THEN people ELSE Staff(l))
    BY <1>2, <1>3, <1>5 DEF Staff
  <1>7. on' \subseteq Shift \X Person
    BY <1>2, <1>3, <1>4 DEF IInv, TypeOK
  <1>8. Changes(t.holds)
    BY <1>2, <1>3, <1>4, <1>5, <1>6, <1>7, StaffChanges
  <1>9. DataTyped
    BY <1>2, <1>7 DEF DataTyped, IInv, TypeOK
  <1>10. NobodyTwiceAtOnce' /\ PlannedAreEmployed'
    BY <1>2, <1>3, JoiningFits
  <1>11. PICK here : here = Staff(k)
    OBVIOUS
  <1>12. IsFiniteSet(here) /\ IsFiniteSet(people) /\ Cardinality(people) >= Cardinality(here)
    BY <1>4, <1>5, <1>11, StaffCounts DEF IInv, PlanSound
  <1>13. \A l \in Shift : IsFiniteSet(Staff(l)') /\ Cardinality(Staff(l)') >= Cardinality(Staff(l))
    <2>1. \A l \in Shift : IsFiniteSet(Staff(l))
      BY DEF IInv, PlanSound
    <2>2. \A l \in Shift : Cardinality(Staff(l)) \in Nat
      BY <2>1, FS_CardinalityType
    <2> QED
      BY <1>6, <1>11, <1>12, <2>1, <2>2
  <1>14. PlanSound'
    BY <1>2, <1>10, <1>13, StaffedStays DEF IInv, PlanSound, Pending
  <1> QED
    BY <1>1, <1>2, <1>8, <1>9, <1>14, WritingKeeps

LEMMA UnassignShiftKeeps ==
  ASSUME IInv, NEW s \in Request, UnassignShift(s)
  PROVE  IInv'
  <1>1. PICK t, k, y : t \in Tx /\ t = tx[s] /\ k = t.shift /\ y = t.person
    BY OwnTx
  <1>2. /\ t.op = "SHIFT_UNASSIGN" /\ t.stage = "checked" /\ Ends(s) /\ on' = on \ {<<k, y>>}
        /\ UNCHANGED <<roster, shift, swap, booking, until, locked>>
    BY <1>1 DEF UnassignShift, At
  <1>3. /\ Traced(k, t.roster) /\ k \in Shifts /\ t.roster \in t.holds
        /\ t.roster \in Rosters /\ roster[t.roster].status = "DRAFT"
        /\ y \in Staff(k) /\ Staff(k) \subseteq t.holds
    BY <1>1, <1>2, OwnTx DEF Sound, UnassignmentKnows, Editing, Current
  <1>4. k \in Shift /\ shift[k].roster = t.roster
    BY <1>3 DEF Traced
  <1>5. PICK people \in SUBSET Person : people = Staff(k) \ {y}
    BY DEF Staff
  <1>6. \A l \in Shift : Staff(l)' = (IF l = k THEN people ELSE Staff(l))
    BY <1>2, <1>5 DEF Staff
  <1>7. on' \subseteq Shift \X Person
    BY <1>2 DEF IInv, TypeOK
  <1>8. Changes(t.holds)
    BY <1>2, <1>3, <1>4, <1>5, <1>6, <1>7, StaffChanges
  <1>9. DataTyped
    BY <1>2, <1>7 DEF DataTyped, IInv, TypeOK
  <1>10. NobodyTwiceAtOnce' /\ PlannedAreEmployed'
    BY <1>2, LeavingFits
  <1>11. PICK here : here = Staff(k)
    OBVIOUS
  <1>12. IsFiniteSet(people)
    BY <1>4, <1>5, <1>11, StaffCounts DEF IInv, PlanSound
  <1>13. \A l \in Shift : IsFiniteSet(Staff(l)')
    BY <1>6, <1>12 DEF IInv, PlanSound
  <1>14. PublishedIsStaffed'
    <2>1. Rosters' = Rosters /\ Shifts' = Shifts /\ \A r : ShiftsOf(r)' = ShiftsOf(r)
      BY <1>2 DEF Rosters, Shifts, ShiftsOf
    <2>2. \A l \in Shifts \ {k} : Staff(l)' = Staff(l)
      BY <1>6, UsedAre
    <2> QED
      BY <1>2, <1>3, <1>4, <2>1, <2>2 DEF IInv, PlanSound, PublishedIsStaffed, ShiftsOf
  <1>15. PlanSound'
    <2>1. Rosters' = Rosters /\ Shifts' = Shifts /\ Used' = Used
      BY <1>2 DEF Rosters, Shifts, Used
    <2> QED
      BY <1>2, <1>10, <1>13, <1>14, <2>1 DEF IInv, PlanSound, Pending
  <1> QED
    BY <1>1, <1>2, <1>8, <1>9, <1>15, WritingKeeps

LEMMA ApplySwapKeeps ==
  ASSUME IInv, NEW s \in Request, ApplySwap(s)
  PROVE  IInv'
  <1>1. PICK t, w, k, x, y : t \in Tx /\ t = tx[s] /\ w = t.swap /\ k = w.shift /\ x = w.source
                                      /\ y = w.target
    BY OwnTx
  <1>2. /\ t.op = "SWAP" /\ t.stage = "locked" /\ Ends(s)
        /\ <<k, x>> \in on /\ <<k, y>> \notin on
        /\ Fits(y, UnitOf(k), shift[k].span, Shifts \ {k})
        /\ on' = (on \ {<<k, x>>}) \cup {<<k, y>>}
        /\ swap' = [NoSwap EXCEPT !.id = swap.id]
        /\ UNCHANGED <<roster, shift, booking, until, locked>>
    BY <1>1 DEF ApplySwap, At, Fits
  <1>3. /\ x \in Person /\ y \in Person /\ Traced(k, t.roster) /\ {t.roster, x, y} \subseteq t.holds
    BY <1>1, <1>2, OwnTx DEF Sound, SwapKnows
  <1>4. k \in Shifts /\ k \in Shift /\ shift[k].roster \in t.holds
    BY <1>2, <1>3, PlannedIs DEF Traced
  <1>5. PICK here : here = Staff(k)
    OBVIOUS
  <1>6. PICK people \in SUBSET Person : people = (here \ {x}) \cup {y}
    BY <1>3, <1>5 DEF Staff
  <1>7. x \in here /\ y \notin here
    BY <1>2, <1>3, <1>5 DEF Staff
  <1>8. \A l \in Shift : Staff(l)' = (IF l = k THEN people ELSE Staff(l))
    BY <1>2, <1>3, <1>5, <1>6 DEF Staff
  <1>9. on' \subseteq Shift \X Person
    BY <1>2, <1>3, <1>4 DEF IInv, TypeOK
  <1>10. Changes(t.holds)
    BY <1>2, <1>3, <1>4, <1>5, <1>6, <1>8, <1>9, StaffChanges
  <1>11. swap' \in Swap /\ swap'.shift = None
    BY <1>2 DEF IInv, TypeOK, Swap, NoSwap
  <1>12. DataTyped
    BY <1>2, <1>9, <1>11 DEF DataTyped, IInv, TypeOK
  <1>13. NobodyTwiceAtOnce' /\ PlannedAreEmployed'
    BY <1>2, <1>3, <1>4, JoiningFits
  <1>14. IsFiniteSet(people) /\ Cardinality(people) = Cardinality(here)
    BY <1>4, <1>5, <1>6, <1>7, StaffCounts DEF IInv, PlanSound
  <1>15. \A l \in Shift : IsFiniteSet(Staff(l)') /\ Cardinality(Staff(l)') >= Cardinality(Staff(l))
    <2>1. \A l \in Shift : IsFiniteSet(Staff(l))
      BY DEF IInv, PlanSound
    <2>2. \A l \in Shift : Cardinality(Staff(l)) \in Nat
      BY <2>1, FS_CardinalityType
    <2> QED
      BY <1>5, <1>8, <1>14, <2>1, <2>2
  <1>16. PlanSound'
    BY <1>2, <1>11, <1>13, <1>15, StaffedStays DEF IInv, PlanSound, Pending
  <1> QED
    BY <1>1, <1>2, <1>10, <1>12, <1>16, WritingKeeps

-----------------------------------------------------------------------------
(* Steps outside of the transactions.                                       *)

LEMMA AskSwapKeeps ==
  ASSUME IInv, NEW k \in Shifts, NEW x \in Person, NEW y \in Person, AskSwap(k, x, y)
  PROVE  IInv'
  <1>1. PICK w : w = [id |-> swap.id + 1, shift |-> k, source |-> x, target |-> y]
    OBVIOUS
  <1>2. swap' = w /\ MoreRecords /\ UNCHANGED <<plan, booking, until, locked, tx>>
    BY <1>1 DEF AskSwap
  <1>3. swap.id + 1 \in 0 .. MaxRecords
    <2>1. Cardinality(Used) \in Nat /\ Cardinality(booking) \in Nat
      BY FS_CardinalityType DEF IInv, PlanSound
    <2>2. Cardinality(Used) + Cardinality(booking) + swap.id < MaxRecords /\ swap.id \in Nat
      BY <1>2 DEF MoreRecords, Used, IInv, TypeOK, Swap
    <2> QED
      BY <2>1, <2>2, NumbersAreSmall
  <1>4. w \in Swap /\ w.source = x /\ w.target = y
    BY <1>1, <1>3, ShiftIs DEF Swap
  <1>5. DataTyped
    BY <1>2, <1>4 DEF DataTyped, plan, IInv, TypeOK
  <1>6. PlanSound'
    BY <1>2, <1>4, PlanStays DEF plan, IInv, PlanSound
  <1>7. Free({})
    BY DEF Free
  <1> QED
    BY <1>2, <1>5, <1>6, <1>7, PlanChangesNothing, OutsideKeeps

LEMMA CloseSwapKeeps ==
  ASSUME IInv, CloseSwap
  PROVE  IInv'
  <1>1. swap' = [NoSwap EXCEPT !.id = swap.id] /\ UNCHANGED <<plan, booking, until, locked, tx>>
    BY DEF CloseSwap
  <1>2. swap' \in Swap /\ swap'.shift = None
    BY <1>1 DEF IInv, TypeOK, Swap, NoSwap
  <1>3. DataTyped
    BY <1>1, <1>2 DEF DataTyped, plan, IInv, TypeOK
  <1>4. PlanSound'
    BY <1>1, <1>2, PlanStays DEF plan, IInv, PlanSound, Pending
  <1>5. Free({})
    BY DEF Free
  <1> QED
    BY <1>1, <1>3, <1>4, <1>5, PlanChangesNothing, OutsideKeeps

LEMMA AppendTermKeeps ==
  ASSUME IInv, NEW a \in Appointed, NEW at \in Boundary[a], AppendTerm(a[1], a[2], at)
  PROVE  IInv'
  <1>1. PICK x \in Person, u \in Unit : a = <<x, u>>
    BY ScopesAreUnits
  <1>2. /\ Free({x}) /\ until' = [until EXCEPT ![a] = at]
        /\ \A k \in Shifts : <<k, x>> \in on /\ UnitOf(k) = u => shift[k].span.to <= at
        /\ UNCHANGED <<plan, swap, booking, locked, tx>>
    BY <1>1 DEF AppendTerm, Free
  <1>3. \A b \in Appointed : until'[b] = (IF b = a THEN at ELSE until[b])
    BY <1>2 DEF IInv, TypeOK
  <1>4. Changes({x})
    BY <1>1, <1>2, <1>3, PlanChangesNothing
  <1>5. at \in 0 .. Never
    BY SpansAreIntervals
  <1>6. DataTyped
    BY <1>2, <1>5 DEF DataTyped, plan, IInv, TypeOK
  <1>7. UNCHANGED <<roster, shift, on, swap, booking>>
    BY <1>2 DEF plan
  <1>8. Rosters' = Rosters /\ Shifts' = Shifts /\ \A k : UnitOf(k)' = UnitOf(k) /\ Staff(k)' = Staff(k)
    BY <1>7 DEF Rosters, Shifts, UnitOf, Staff
  <1>9. PlannedAreEmployed'
    <2>1. ASSUME NEW e \in on
          PROVE  /\ e[1] \in Shifts
                 /\ <<e[2], UnitOf(e[1])>> \in Appointed
                 /\ shift[e[1]].span.to <= until'[<<e[2], UnitOf(e[1])>>]
      <3>1. /\ e[1] \in Shifts /\ e = <<e[1], e[2]>> /\ <<e[2], UnitOf(e[1])>> \in Appointed
            /\ shift[e[1]].span.to <= until[<<e[2], UnitOf(e[1])>>]
        BY <2>1, PlannedIs DEF Covers
      <3>2. CASE <<e[2], UnitOf(e[1])>> = a
        BY <1>1, <1>2, <1>3, <2>1, <3>1, <3>2
      <3>3. CASE <<e[2], UnitOf(e[1])>> # a
        BY <1>3, <3>1, <3>3
      <3> QED
        BY <3>1, <3>2, <3>3
    <2> QED
      BY <1>7, <1>8, <2>1 DEF PlannedAreEmployed, Covers
  <1>10. PlanSound'
    BY <1>7, <1>8, <1>9
    DEF IInv, PlanSound, NobodyTwiceAtOnce, PublishedIsStaffed, ShiftsOf, Used, Pending
  <1> QED
    BY <1>2, <1>4, <1>6, <1>10, OutsideKeeps

LEMMA MovePeriodKeeps ==
  ASSUME IInv, NEW p \in Period, MovePeriod(p)
  PROVE  IInv'
  <1>1. /\ Free({p}) /\ locked' = IF p \in locked THEN locked \ {p} ELSE locked \cup {p}
        /\ UNCHANGED <<plan, swap, booking, until, tx>>
    BY DEF MovePeriod
  <1>2. Changes({p})
    BY <1>1, PlanChangesNothing
  <1>3. DataTyped
    BY <1>1 DEF DataTyped, plan, IInv, TypeOK
  <1>4. PlanSound'
    BY <1>1, PlanStays DEF plan, IInv, PlanSound, Pending
  <1> QED
    BY <1>1, <1>2, <1>3, <1>4, OutsideKeeps

-----------------------------------------------------------------------------
(* The invariant.                                                           *)

LEMMA RequestKeeps ==
  ASSUME IInv, NEW s \in Request,
       \/ \E u \in Unit, i \in RosterSpan : CheckRoster(s, u, i)
       \/ \E r \in Rosters : CheckPublish(s, r)
       \/ \E r \in Rosters, i \in ShiftSpan, min \in MinStaffing : CheckCreate(s, r, i, min)
       \/ \E k \in Shifts, i \in ShiftSpan, min \in MinStaffing : AskUpdate(s, k, i, min)
       \/ \E k \in Shifts : AskDelete(s, k)
       \/ \E k \in Shifts, x \in Person :
            \/ AskAssign(s, k, x) \/ AskUnassign(s, k, x)
            \/ \E i \in ShiftSpan : CheckBooking(s, k, x, i)
       \/ CheckUpdate(s) \/ CheckAssign(s) \/ CheckUnassign(s) \/ LockDelete(s) \/ CheckDelete(s)
       \/ ReadSwap(s) \/ LockSwap(s) \/ Rollback(s)
  PROVE  IInv'
  BY CheckRosterKeeps, CheckPublishKeeps, CheckCreateKeeps, AskingKeeps, CheckBookingKeeps,
     CheckUpdateKeeps, CheckAssignKeeps, CheckUnassignKeeps, LockDeleteKeeps, CheckDeleteKeeps,
     ReadSwapKeeps, LockSwapKeeps, RollbackKeeps

LEMMA WriteKeeps ==
  ASSUME IInv, NEW s \in Request,
       \/ CreateRoster(s) \/ Publish(s) \/ CreateShift(s) \/ UpdateShift(s) \/ DeleteShift(s)
       \/ AssignShift(s) \/ UnassignShift(s) \/ WriteBooking(s) \/ ApplySwap(s)
  PROVE  IInv'
  BY CreateRosterKeeps, PublishKeeps, CreateShiftKeeps, UpdateShiftKeeps, DeleteShiftKeeps,
     AssignShiftKeeps, UnassignShiftKeeps, WriteBookingKeeps, ApplySwapKeeps

LEMMA StepKeeps ==
  ASSUME IInv, [Next]_vars
  PROVE  IInv'
  <1>1. CASE UNCHANGED vars
    <2>1. UNCHANGED tx /\ UNCHANGED <<plan, until>> /\ UNCHANGED <<swap, booking, locked>>
      BY <1>1 DEF vars, plan
    <2>2. Still /\ Free({})
      BY <2>1 DEF Still, Free, plan
    <2> QED
      BY <2>1, <2>2, StillIs, StillSound, OutsideKeeps
  <1>2. CASE Next
    BY <1>2, RequestKeeps, WriteKeeps, AskSwapKeeps, CloseSwapKeeps, AppendTermKeeps, MovePeriodKeeps
    DEF Next
  <1> QED
    BY <1>1, <1>2

LEMMA InitSound == Init => IInv
  <1>1. SUFFICES ASSUME Init PROVE IInv
    OBVIOUS
  <1>2. /\ Rosters = {} /\ Shifts = {} /\ Used = {} /\ \A k : Staff(k) = {}
    BY <1>1 DEF Init, Rosters, Shifts, Used, NoRoster, NoShift, Staff
  <1>3. TypeOK
    BY <1>1, IdleIs, SpansAreIntervals DEF Init, TypeOK
  <1>4. Exclusive /\ \A s \in Request : Sound(s)
    BY <1>1, IdleIs DEF Init, Exclusive, Sound
  <1>5. PlanSound
    BY <1>1, <1>2, FS_EmptySet DEF Init, PlanSound, Pending, NoSwap, NobodyTwiceAtOnce,
       PlannedAreEmployed, PublishedIsStaffed
  <1> QED
    BY <1>3, <1>4, <1>5 DEF IInv

LEMMA AlwaysSound == Spec => []IInv
  BY InitSound, StepKeeps, PTL DEF Spec

-----------------------------------------------------------------------------
(* What a step writes.                                                      *)

Reads(s) ==
  \/ \E u \in Unit, i \in RosterSpan : CheckRoster(s, u, i)
  \/ \E r \in Rosters : CheckPublish(s, r)
  \/ \E r \in Rosters, i \in ShiftSpan, min \in MinStaffing : CheckCreate(s, r, i, min)
  \/ \E k \in Shifts, i \in ShiftSpan, min \in MinStaffing : AskUpdate(s, k, i, min)
  \/ \E k \in Shifts : AskDelete(s, k)
  \/ \E k \in Shifts, x \in Person :
       \/ AskAssign(s, k, x) \/ AskUnassign(s, k, x)
       \/ \E i \in ShiftSpan : CheckBooking(s, k, x, i)
  \/ CheckUpdate(s) \/ CheckAssign(s) \/ CheckUnassign(s) \/ LockDelete(s) \/ CheckDelete(s)
  \/ ReadSwap(s) \/ LockSwap(s) \/ Rollback(s)

LEMMA ReadsStill ==
  ASSUME NEW s \in Request, Reads(s)
  PROVE  Still
  <1>1. ASSUME NEW t, NEW range, NEW people, NEW stage, Edits(s, t, range, people, stage)
        PROVE  Still
    BY <1>1 DEF Edits, Enters, Still
  <1>2. ASSUME NEW t, NEW keys, NEW stage, Enters(s, t, keys, stage)
        PROVE  Still
    BY <1>2 DEF Enters, Still
  <1>3. ASSUME NEW t, Asks(s, t) PROVE Still
    BY <1>3 DEF Asks, Still
  <1>4. ASSUME \/ \E k \in Shifts, i \in ShiftSpan, min \in MinStaffing : AskUpdate(s, k, i, min)
               \/ \E k \in Shifts : AskDelete(s, k)
               \/ \E k \in Shifts, x \in Person : AskAssign(s, k, x) \/ AskUnassign(s, k, x)
               \/ ReadSwap(s)
        PROVE  Still
    BY <1>3, <1>4 DEF AskUpdate, AskDelete, AskAssign, AskUnassign, Asked, ReadSwap
  <1>5. ASSUME \/ \E u \in Unit, i \in RosterSpan : CheckRoster(s, u, i)
               \/ \E k \in Shifts, x \in Person : \E i \in ShiftSpan : CheckBooking(s, k, x, i)
               \/ CheckDelete(s) \/ LockSwap(s)
        PROVE  Still
    BY <1>2, <1>5 DEF CheckRoster, CheckBooking, CheckDelete, LockSwap, Takes
  <1>6. ASSUME \/ \E r \in Rosters : CheckPublish(s, r)
               \/ \E r \in Rosters, i \in ShiftSpan, min \in MinStaffing : CheckCreate(s, r, i, min)
               \/ CheckUpdate(s) \/ CheckAssign(s) \/ CheckUnassign(s) \/ LockDelete(s)
        PROVE  Still
    BY <1>1, <1>6 DEF CheckPublish, CheckCreate, CheckUpdate, CheckAssign, CheckUnassign, LockDelete
  <1>7. Rollback(s) => Still
    BY DEF Rollback, Still
  <1> QED
    BY <1>4, <1>5, <1>6, <1>7 DEF Reads

Writes(s) ==
  \/ CreateRoster(s) \/ Publish(s) \/ CreateShift(s) \/ UpdateShift(s) \/ DeleteShift(s)
  \/ AssignShift(s) \/ UnassignShift(s) \/ WriteBooking(s) \/ ApplySwap(s)

LEMMA StepIs ==
  ASSUME [Next]_vars
  PROVE  \/ UNCHANGED plan /\ UNCHANGED booking
         \/ \E s \in Request : Writes(s)
  <1>1. ASSUME Next
        PROVE  \/ \E s \in Request : Reads(s) \/ Writes(s)
               \/ UNCHANGED plan /\ UNCHANGED booking
    BY <1>1 DEF Next, Reads, Writes, AskSwap, CloseSwap, AppendTerm, MovePeriod
  <1>2. (\E s \in Request : Reads(s)) => UNCHANGED plan /\ UNCHANGED booking
    BY ReadsStill DEF Still
  <1> QED
    BY <1>1, <1>2 DEF vars

LEMMA BookingWritten ==
  ASSUME IInv, NEW s \in Request, Writes(s), NEW b \in booking' \ booking, b.shift # None
  PROVE  <<b.shift, b.person>> \in on
  <1>1. CASE WriteBooking(s)
    <2>1. PICK t \in Tx : t = tx[s]
      BY OwnTx
    <2>2. /\ t.op = "BOOK"
          /\ b = [person |-> t.person, unit |-> t.unit, span |-> t.span, shift |-> t.shift]
      BY <1>1, <2>1 DEF WriteBooking, At
    <2>3. <<t.shift, t.person>> \in on
      BY <2>1, <2>2, OwnTx DEF Sound, BookingKnows
    <2> QED
      BY <2>2, <2>3
  <1>2. CASE DeleteShift(s)
    <2>1. PICK c \in booking : b = IF c.shift = tx[s].shift THEN [c EXCEPT !.shift = None] ELSE c
      BY <1>2 DEF DeleteShift
    <2>2. c \in [person : Person, unit : Unit, span : ShiftSpan, shift : Shift \cup {None}]
      BY <2>1 DEF IInv, TypeOK
    <2> QED
      BY <2>1, <2>2
  <1>3. ASSUME ~ WriteBooking(s), ~ DeleteShift(s) PROVE booking' = booking
    BY <1>3 DEF Writes, CreateRoster, Publish, CreateShift, UpdateShift, AssignShift, UnassignShift,
                ApplySwap
  <1> QED
    BY <1>1, <1>2, <1>3

(* A step that touches one shift, which is in no locked period before or    *)
(* after.                                                                   *)
LEMMA LockedStays ==
  ASSUME NEW k, NEW p \in Period, Shifts' \ {k} = Shifts \ {k},
         \A l \in Shifts \ {k} : /\ shift'[l].span = shift[l].span /\ UnitOf(l)' = UnitOf(l)
                                 /\ Staff(l)' = Staff(l),
         k \in Shifts => p \notin Overlapping(UnitOf(k), {shift[k].span}),
         k \in Shifts' => p \notin Overlapping(UnitOf(k)', {shift'[k].span})
  PROVE  PlannedIn(p)' = PlannedIn(p)
  <1>1. \A l \in Shifts \ {k} :
          (p \in Overlapping(UnitOf(l)', {shift'[l].span}) <=> p \in Overlapping(UnitOf(l), {shift[l].span}))
    BY DEF Overlapping
  <1>2. \A l : (/\ l \in Shifts' /\ p \in Overlapping(UnitOf(l)', {shift'[l].span}))
               <=> (/\ l \in Shifts /\ p \in Overlapping(UnitOf(l), {shift[l].span}))
    BY <1>1
  <1>3. \A l : l \in Shifts /\ p \in Overlapping(UnitOf(l), {shift[l].span}) =>
          <<l, shift'[l].span, Staff(l)'>> = <<l, shift[l].span, Staff(l)>>
    OBVIOUS
  <1>4. PICK now : now = {l \in Shifts : p \in Overlapping(UnitOf(l), {shift[l].span})}
    OBVIOUS
  <1>5. {l \in Shifts' : p \in Overlapping(UnitOf(l)', {shift'[l].span})} = now
    BY <1>2, <1>4
  <1>6. \A l \in now : <<l, shift'[l].span, Staff(l)'>> = <<l, shift[l].span, Staff(l)>>
    BY <1>3, <1>4
  <1>7. PlannedIn(p) = {<<l, shift[l].span, Staff(l)>> : l \in now}
    BY <1>4 DEF PlannedIn
  <1>8. PlannedIn(p)' = {<<l, shift'[l].span, Staff(l)'>> : l \in now}
    BY <1>5 DEF PlannedIn
  <1> QED
    BY <1>6, <1>7, <1>8

LEMMA FencedOff ==
  ASSUME NEW s, NEW u, NEW I, Fenced(s, u, I), NEW p \in locked, NEW i \in I
  PROVE  p \notin Overlapping(u, {i})
  BY DEF Fenced, Unlocked, Overlapping

LEMMA PlanUnchanged ==
  ASSUME UNCHANGED plan, NEW p
  PROVE  PlannedIn(p)' = PlannedIn(p)
  BY DEF plan, PlannedIn, Shifts, UnitOf, Staff, Overlapping

(* Under a roster's lock with its range fenced: nothing locked is touched.  *)
LEMMA LockedUntouched ==
  ASSUME IInv, NEW s \in Request, Writes(s), ~ ApplySwap(s), NEW p \in locked
  PROVE  PlannedIn(p)' = PlannedIn(p)
  <1>1. p \in Period
    BY DEF IInv, TypeOK
  <1>2. PICK t, k : t \in Tx /\ t = tx[s] /\ k = t.shift
    BY OwnTx
  <1>3. CASE CreateRoster(s)
    <2>1. PICK r \in Roster \ Rosters : \A q \in Roster \ {r} : roster'[q] = roster[q]
      BY <1>3 DEF CreateRoster, IInv, TypeOK
    <2>2. Shifts' = Shifts /\ shift' = shift /\ on' = on
      BY <1>3 DEF CreateRoster, Shifts
    <2>3. \A l \in Shifts : UnitOf(l)' = UnitOf(l) /\ Staff(l)' = Staff(l)
      BY <2>1, <2>2, UsedAre DEF UnitOf, Staff, IInv, PlanSound
    <2>4. None \notin Shifts
      BY KeysDiffer, UsedAre
    <2> QED
      BY <1>1, <2>2, <2>3, <2>4, LockedStays
  <1>4. CASE Publish(s)
    <2>1. PICK r : r = tx[s].roster
      OBVIOUS
    <2>2. r \in Rosters
      BY <1>4, <2>1, OwnTx DEF Publish, At, Sound, PublicationKnows, Editing
    <2>3. \A q \in Rosters : roster'[q].unit = roster[q].unit
      BY <1>4, <2>1, <2>2, UsedAre DEF Publish, IInv, TypeOK, NoRoster, Rosters
    <2>4. Shifts' = Shifts /\ shift' = shift /\ on' = on
      BY <1>4 DEF Publish, Shifts
    <2>5. \A l \in Shifts : UnitOf(l)' = UnitOf(l) /\ Staff(l)' = Staff(l)
      BY <2>3, <2>4 DEF UnitOf, Staff, IInv, PlanSound
    <2>6. None \notin Shifts
      BY KeysDiffer, UsedAre
    <2> QED
      BY <1>1, <2>4, <2>5, <2>6, LockedStays
  <1>5. CASE CreateShift(s)
    <2>1. /\ t.op = "SHIFT_CREATE" /\ UNCHANGED <<roster, on>>
          /\ t.roster \in Rosters /\ Fenced(s, roster[t.roster].unit, {t.span})
      BY <1>2, <1>5, OwnTx DEF CreateShift, At, Sound, CreationKnows, Editing
    <2>2. PICK n : n = [row |-> "PRESENT", roster |-> t.roster, span |-> t.span, min |-> t.min]
      OBVIOUS
    <2>3. PICK l \in Shift : shift[l].row = "UNUSED" /\ shift' = [shift EXCEPT ![l] = n]
      BY <1>2, <1>5, <2>2 DEF CreateShift
    <2>4. /\ shift'[l].roster = t.roster /\ shift'[l].span = t.span
          /\ l \notin Shifts /\ \A m \in Shift \ {l} : shift'[m] = shift[m]
      BY <2>2, <2>3 DEF IInv, TypeOK, Shifts
    <2>5. /\ Shifts' \ {l} = Shifts \ {l}
          /\ \A m \in Shifts \ {l} : /\ shift'[m] = shift[m] /\ UnitOf(m)' = UnitOf(m)
                                     /\ Staff(m)' = Staff(m)
      BY <2>1, <2>4, UsedAre DEF Shifts, UnitOf, Staff
    <2>6. p \notin Overlapping(UnitOf(l)', {shift'[l].span})
      BY <2>1, <2>4, FencedOff DEF UnitOf
    <2> QED
      BY <1>1, <2>4, <2>5, <2>6, LockedStays
  <1>6. CASE UpdateShift(s)
    <2>1. /\ t.op = "SHIFT_UPDATE" /\ t.stage = "checked" /\ UNCHANGED <<roster, on>>
          /\ k \in Shifts /\ k \in Shift /\ shift[k].roster = t.roster /\ shift[k].span = t.seen
          /\ Fenced(s, roster[t.roster].unit, {t.seen, t.span})
      BY <1>2, <1>6, OwnTx, UsedAre DEF UpdateShift, At, Sound, UpdateKnows, Editing, Traced, Current
    <2>2. shift' = [shift EXCEPT ![k].span = t.span, ![k].min = t.min]
      BY <1>2, <1>6 DEF UpdateShift
    <2>3. shift[k] \in [row : {"PRESENT"}, roster : Roster, span : ShiftSpan, min : MinStaffing]
      BY <2>1 DEF IInv, TypeOK, Shifts, NoShift
    <2>4. /\ shift'[k].roster = t.roster /\ shift'[k].span = t.span /\ shift'[k].row = "PRESENT"
          /\ \A m \in Shift \ {k} : shift'[m] = shift[m]
      BY <2>1, <2>2, <2>3 DEF IInv, TypeOK
    <2>5. /\ Shifts' \ {k} = Shifts \ {k}
          /\ \A m \in Shifts \ {k} : /\ shift'[m] = shift[m] /\ UnitOf(m)' = UnitOf(m)
                                     /\ Staff(m)' = Staff(m)
      BY <2>1, <2>4, UsedAre DEF Shifts, UnitOf, Staff
    <2>6. /\ p \notin Overlapping(UnitOf(k), {shift[k].span})
          /\ p \notin Overlapping(UnitOf(k)', {shift'[k].span})
      BY <2>1, <2>4, FencedOff DEF UnitOf
    <2> QED
      BY <1>1, <2>5, <2>6, LockedStays
  <1>7. CASE DeleteShift(s)
    <2>1. /\ t.op = "SHIFT_DELETE" /\ t.stage = "checked" /\ UNCHANGED roster
          /\ k \in Shifts /\ k \in Shift /\ shift[k].roster = t.roster /\ shift[k].span = t.seen
          /\ Fenced(s, roster[t.roster].unit, {t.seen})
      BY <1>2, <1>7, OwnTx, UsedAre DEF DeleteShift, At, Sound, DeletionKnows, Editing, Traced, Current
    <2>2. /\ shift' = [shift EXCEPT ![k] = [NoShift EXCEPT !.row = "DELETED"]]
          /\ on' = {a \in on : a[1] # k}
      BY <1>2, <1>7 DEF DeleteShift
    <2>3. shift'[k].row = "DELETED" /\ \A m \in Shift \ {k} : shift'[m] = shift[m]
      BY <2>1, <2>2 DEF IInv, TypeOK, NoShift
    <2>4. /\ Shifts' \ {k} = Shifts \ {k} /\ k \notin Shifts'
          /\ \A m \in Shifts \ {k} : /\ shift'[m] = shift[m] /\ UnitOf(m)' = UnitOf(m)
                                     /\ Staff(m)' = Staff(m)
      BY <2>1, <2>2, <2>3, UsedAre DEF Shifts, UnitOf, Staff
    <2>5. p \notin Overlapping(UnitOf(k), {shift[k].span})
      BY <2>1, FencedOff DEF UnitOf
    <2> QED
      BY <1>1, <2>4, <2>5, LockedStays
  <1>8. CASE AssignShift(s) \/ UnassignShift(s)
    <2>1. /\ t.op \in {"SHIFT_ASSIGN", "SHIFT_UNASSIGN"} /\ t.stage = "checked"
          /\ UNCHANGED <<roster, shift>>
          /\ on' \in {on \cup {<<k, t.person>>}, on \ {<<k, t.person>>}}
      BY <1>2, <1>8 DEF AssignShift, UnassignShift, At
    <2>2. /\ k \in Shifts /\ shift[k].roster = t.roster /\ shift[k].span = t.seen
          /\ Fenced(s, roster[t.roster].unit, {t.seen})
      BY <1>2, <2>1, OwnTx DEF Sound, AssignmentKnows, UnassignmentKnows, Editing, Traced, Current
    <2>3. /\ Shifts' = Shifts
          /\ \A m \in Shifts : shift'[m] = shift[m] /\ UnitOf(m)' = UnitOf(m)
          /\ \A m \in Shifts \ {k} : Staff(m)' = Staff(m)
      BY <2>1 DEF Shifts, UnitOf, Staff
    <2>4. p \notin Overlapping(UnitOf(k), {shift[k].span})
      BY <2>2, FencedOff DEF UnitOf
    <2> QED
      BY <1>1, <2>2, <2>3, <2>4, LockedStays
  <1>9. CASE WriteBooking(s)
    BY <1>9, PlanUnchanged DEF WriteBooking
  <1> QED
    BY <1>3, <1>4, <1>5, <1>6, <1>7, <1>8, <1>9 DEF Writes

LEMMA SwapTouches ==
  ASSUME IInv, NEW s \in Request, ApplySwap(s), NEW p \in locked, ~ Outdated(s)
  PROVE  PlannedIn(p)' = PlannedIn(p)
  <1>1. PICK t, k, r, u : t \in Tx /\ t = tx[s] /\ k = t.swap.shift /\ r = t.roster /\ u = roster[r].unit
    BY OwnTx
  <1>2. /\ t.op = "SWAP" /\ t.stage = "locked" /\ UNCHANGED <<roster, shift>>
        /\ <<k, t.swap.source>> \in on
        /\ on' = (on \ {<<k, t.swap.source>>}) \cup {<<k, t.swap.target>>}
    BY <1>1 DEF ApplySwap, At
  <1>3. /\ k \in Shifts /\ shift[k].roster = r /\ Fenced(s, u, {t.seen})
    BY <1>1, <1>2, OwnTx, PlannedIs DEF Sound, SwapKnows, Traced
  <1>4. shift[k].span = t.seen
    BY <1>1, <1>2, <1>3 DEF Outdated, At
  <1>5. /\ Shifts' = Shifts
        /\ \A m \in Shifts : shift'[m] = shift[m] /\ UnitOf(m)' = UnitOf(m)
        /\ \A m \in Shifts \ {k} : Staff(m)' = Staff(m)
    BY <1>2 DEF Shifts, UnitOf, Staff
  <1>6. p \notin Overlapping(UnitOf(k), {shift[k].span})
    BY <1>1, <1>3, <1>4, FencedOff DEF UnitOf
  <1>7. p \in Period
    BY DEF IInv, TypeOK
  <1> QED
    BY <1>3, <1>5, <1>6, <1>7, LockedStays

-----------------------------------------------------------------------------
(* The theorems.                                                            *)

(* Every row, and what every transaction carries, is of its type, and every *)
(* lock is one of the keys there are (schema.prisma).                       *)
THEOREM RosterTyped == Spec => []TypeOK
  <1>1. IInv => TypeOK
    BY DEF IInv
  <1> QED
    BY <1>1, AlwaysSound, PTL

(* Nobody is planned for two shifts at once, no two rosters of a unit plan  *)
(* the same time, and whoever is planned is employed there throughout,      *)
(* whatever planners, swaps and new terms do at the same time: each holds   *)
(* the person, or the roster, whose plan it read                            *)
(* (roster-assignment.helper.ts, employment-management.service.ts).         *)
THEOREM PlansStayFeasible == Spec => []PlansAreFeasible
  <1>1. IInv => PlansAreFeasible
    BY DEF IInv, PlanSound, PlansAreFeasible
  <1> QED
    BY <1>1, AlwaysSound, PTL

(* A published roster has the staff its shifts ask for, at any time after   *)
(* its publication: no change of the draft is committed later, and a swap   *)
(* replaces one person by one other (roster-domain.service.ts).             *)
THEOREM PublishedStaysStaffed == Spec => []PublishedIsStaffed
  <1>1. IInv => PublishedIsStaffed
    BY DEF IInv, PlanSound
  <1> QED
    BY <1>1, AlwaysSound, PTL

(* When a booking that names a shift is committed its person is on the      *)
(* shift: whoever takes the person off holds the person's lock, as the      *)
(* booking does (booking-create.writer.ts).                                 *)
THEOREM BookersArePlanned == Spec => BookedWhilePlanned
  <1>1. ASSUME IInv, [Next]_vars, NEW b \in booking' \ booking, b.shift # None
        PROVE  <<b.shift, b.person>> \in on
    BY <1>1, StepIs, BookingWritten
  <1>2. IInv /\ [Next]_vars =>
          [\A b \in booking' \ booking : b.shift # None => <<b.shift, b.person>> \in on]_vars
    BY <1>1
  <1> QED
    BY <1>2, AlwaysSound, PTL DEF Spec, BookedWhilePlanned

(* What is planned in a locked period changes in one way only: by a swap    *)
(* whose shift was moved into it after the guard of the approval had read   *)
(* the shift and before it locked the roster                                *)
(* (workflow-decision-guards.helper.ts).                                    *)
THEOREM LockedPlansHold == Spec => LockedPlanStays
  <1>1. ASSUME IInv, [Next]_vars, NEW p \in locked, PlannedIn(p)' # PlannedIn(p)
        PROVE  \E s \in Request : Outdated(s) /\ tx'[s] = Idle /\ shift' = shift
    <2>1. PICK s \in Request : Writes(s)
      BY <1>1, StepIs, PlanUnchanged
    <2>2. ApplySwap(s) /\ Outdated(s)
      BY <1>1, <2>1, LockedUntouched, SwapTouches
    <2>3. tx'[s] = Idle /\ shift' = shift
      BY <1>1, <2>2 DEF ApplySwap, Ends, IInv, TypeOK
    <2> QED
      BY <2>2, <2>3
  <1>2. IInv /\ [Next]_vars =>
          [\A p \in locked :
             PlannedIn(p)' # PlannedIn(p) =>
               \E s \in Request : Outdated(s) /\ tx'[s] = Idle /\ shift' = shift]_vars
    BY <1>1
  <1> QED
    BY <1>2, AlwaysSound, PTL DEF Spec, LockedPlanStays
=============================================================================
