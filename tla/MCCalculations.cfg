SPECIFICATION SceneSpec
CONSTANTS
  ann = ann
  ben = ben
  lea = lea
  unitA = unitA
  unitB = unitB
  a1 = a1
  b1 = b1
  b2 = b2
  c1 = c1
  Months = 2
  MonthDays = 3
  WeekDays = 3
  FullTime = 4
  PerWeek = 2
  Refused = refused
  NumYears = 3
  Parts = 2
  Employed <- MCEmployed
  FirstTerm <- MCFirstTerm
  NextTerm <- MCNextTerm
  Leave <- MCLeave
  FirstLeave <- MCFirstLeave
  Delta <- MCDelta
  Nothing = nothing
  MaxAccountWrites = 4
  Minute = 2
  HourMinutes = 3
  DayHours = 3
  WorkKinds = {"WORK", "DEPLOYMENT"}
  Breaks <- MCBreaks
  StandardDay = 1
  Surcharges <- MCSurcharges
  Night <- MCNight
  Holidays = {1}
  Weekends = {1, 2}
  Person = {ann, ben, lea}
  Unit = {unitA, unitB}
  Staff = {ann, ben}
  Term <- MCTerm
  Booking <- MCBooking
  Correction <- MCCorrection
  Absence <- MCAbsence
  Month <- MCMonth
  Roster <- MCRoster
  Limits <- MCLimits
  FirstLimits <- MCFirstLimits
  Gap = 6
  Asked <- MCAsked
  Instant = {10, 55}
  MaxOpen = 1
  MaxWrites = 5
  Everyone = everyone
  Never = 72
CHECK_DEADLOCK FALSE
INVARIANTS LedgerIsExact BalanceMoves MinutesCountOnce CleanMonth CoverageIsExact
