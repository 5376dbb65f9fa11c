SPECIFICATION Spec
CONSTANTS
  ann = ann
  lea = lea
  hr = hr
  unit = unit
  b1 = b1
  b2 = b2
  monday = monday
  Person = {ann, lea, hr}
  RoleOf <- MCRoleOf
  UnitOf <- MCUnitOf
  Supervisor <- MCSupervisor
  Joined <- MCJoined
  None = none
  NumWorkflows = 2
  Type = {"LEAVE_REQUEST", "BOOKING_CORRECTION", "OVERTIME_APPROVAL", "POST_CLOSE_CORRECTION"}
  Delegator = {lea, hr}
  Day = {monday, tuesday}
  Booking = {b1, b2}
  BookedBy <- MCBookedBy
  EscalationRole = "HR"
  MaxDepth = 3
  Routing = routing
  Request = {r1, r2}
  Scanner = {scan1, scan2}
SYMMETRY ProcessesAlike
CONSTRAINT Scenes
INVARIANTS EffectsFollowWorkflow NoOwnApproval NothingOverlaps
PROPERTIES DecidedByItsApprover
CHECK_DEADLOCK FALSE
