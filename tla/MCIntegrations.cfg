SPECIFICATION Spec
CONSTANTS
  ann = ann
  bob = bob
  unitA = unitA
  unitB = unitB
  a1 = a1
  a2 = a2
  monthA = monthA
  monthB = monthB
  hr = hr
  pay = pay
  n1 = n1
  n2 = n2
  cem = cem
  a3 = a3
  Person = {ann, bob, cem}
  Unit = {unitA, unitB}
  Appointment = {a1, a2, a3}
  Period = {monthA, monthB}
  Span <- MCSpan
  WebBooking <- MCWebBooking
  NewTerm <- MCNewTerm
  NextTerm <- MCNextTerm
  PeriodSpan <- MCPeriodSpan
  Scope <- MCScope
  Everyone = everyone
  Leave <- MCLeave
  Day = 2
  FirstTerms <- MCFirstTerms
  None = none
  Never = 9
  Population = population
  MaxWrites = 3
  Request = {s1, s2}
  Terminal = {t1, t2}
  Batch <- MCBatch
  Name = {n1, n2}
  Row <- MCRow
  Wish <- MCWish
  Source = {hr, pay}
  Owner = {hr, pay}
  Delivery <- MCDelivery
  Before <- MCBefore
  Change = {c1, c2}
  FirstHome <- MCFirstHome
  FirstName <- MCFirstName
  Importing = importing
SYMMETRY Alike
INVARIANTS BookedWhereEmployed ProfilesAgree
PROPERTIES BookedOnFreeTime LockedRecordsStay ReviewedIsWhatWasSeen
