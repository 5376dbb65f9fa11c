SPECIFICATION Spec
CONSTANTS
  ann = ann
  bob = bob
  unitA = unitA
  unitB = unitB
  month = month
  Person = {ann, bob}
  Unit = {unitA, unitB}
  Roster = {r1, r2}
  Shift = {k1, k2}
  Period = {month}
  Appointed <- MCAppointed
  Span <- MCSpan
  RosterSpan <- MCRosterSpan
  ShiftSpan <- MCShiftSpan
  PeriodSpan <- MCPeriodSpan
  Scope <- MCScope
  Everyone = everyone
  None = none
  MinStaffing = {1}
  Boundary <- MCBoundary
  Never = 9
  MaxRecords = 2
  Request = {s1, s2}
SYMMETRY Alike
INVARIANTS PlansAreFeasible PublishedIsStaffed
PROPERTIES BookedWhilePlanned LockedPlanStays
