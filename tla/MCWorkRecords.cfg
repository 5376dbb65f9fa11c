SPECIFICATION Spec
CONSTANTS
  ann = ann
  unitA = unitA
  unitB = unitB
  a1 = a1
  month = month
  old = old
  new = new
  Person = {ann}
  Unit = {unitA, unitB}
  Appointment = {a1}
  Period = {month}
  Span <- MCSpan
  WebBooking <- MCWebBooking
  NewTerm = {}
  NextTerm <- MCNextTerm
  PeriodSpan <- MCPeriodSpan
  Scope <- MCScope
  Everyone = everyone
  Leave = {}
  Day = 2
  FirstTerms <- MCFirstTerms
  None = none
  Never = 9
  Population = population
  MaxWrites = 6
  Request = {s1, s2}
  Rotation = {d1}
  NewRotation <- MCNewRotation
  Window <- MCWindow
  DutySpan <- MCDutySpan
  Project = {old, new}
  NewMember <- MCNewMember
  FirstMember <- MCFirstMember
  Amount = {1, 2}
  MaxNow = 3
SYMMETRY Alike
INVARIANTS WorkAndEffortFit
PROPERTIES ClosedTakesNothing
