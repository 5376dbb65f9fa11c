SPECIFICATION CountedSpec
CONSTANTS
  ann = ann
  bob = bob
  unit = unit
  elsewhere = elsewhere
  first = first
  second = second
  Assignment = {1, 2}
  PersonOf <- MCPersonOf
  BaseOf <- MCBaseOf
  Unit = {unit, elsewhere}
  RuleUnit = unit
  Offset = 0
  Definition <- MCDefinition
  Key = {first, second}
  Event = {"RULE"}
  IdOf <- MCIdOf
  PageSize = 1
  Process = {p1}
  Request = {r1, r2}
  MaxDay = 1
  MaxHistory = 2
  MaxFaults = 1
  None = none
  MaxArrivals = 2
INVARIANTS CasesAreSound
PROPERTIES ScansCatchUp
