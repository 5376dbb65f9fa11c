SPECIFICATION Spec
CONSTANTS
  ann = ann
  unit = unit
  everyone = everyone
  unitMonth = unitMonth
  globalMonth = globalMonth
  Person = {ann}
  Unit = {unit}
  Period = {unitMonth, globalMonth}
  Everyone = everyone
  UnitOf <- MCUnitOf
  Scope <- MCScope
  Rank <- MCRank
  Population = population
  Request = {r1, r2}
  Scanner = {}
  Due = {unitMonth, globalMonth}
  Hired = {}
  Minutes = {20}
  MaxMinutes = 40
  Format = {csv}
SYMMETRY RequestsAlike
INVARIANTS ClosedIsComplete
PROPERTIES LockedBooksMoveByCorrection ExportShowsTheBooks KeepsPromise
