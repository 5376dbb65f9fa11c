SPECIFICATION CountedSpec
CONSTANTS
  ann = ann
  lea = lea
  unitA = unitA
  unitB = unitB
  everyone = everyone
  monthA = monthA
  monthB = monthB
  monday = monday
  tuesday = tuesday
  none = none
  csv = csv
  population = population
  routing = routing
  Request = {r1}
  Scanner = {scan1, scan2}
  MaxArrivals = 3
PROPERTIES DueIsLocked OverdueIsHandled
