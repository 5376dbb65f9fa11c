---- MODULE MCHourlyScans ----
(* The two hourly scans, each in a scene of its own and with two API processes that
   run it.  Cut-off: two units' months, both past their cut-off.  Escalation: two
   requests for leave that nobody decides in time.  Either scan meets a bounded
   number of other requests; what the other scene is about rests. *)
EXTENDS Naturals, Sequences, FiniteSets

CONSTANTS ann, lea, unitA, unitB, everyone, monthA, monthB, monday, tuesday, none, csv,
  population, routing,
  Request, Scanner,
  MaxArrivals  \* bound: requests that arrive, and scans that fail

VARIABLES
  status, leadApproved, hrApproved, corrections, employed, booked, account, added,
  exportRuns, closingTx, closingQueue,
  workflow, absence, bookedAt, overtime, rule, late, workflowTx, workflowQueue,
  scene, arrivals

closingVars == <<status, leadApproved, hrApproved, corrections, employed, booked, account, added,
                 exportRuns, closingTx, closingQueue>>
approvalVars == <<workflow, absence, bookedAt, overtime, rule, late, workflowTx, workflowQueue>>
vars == <<closingVars, approvalVars, scene, arrivals>>

MCUnitOf == [x \in {ann, lea} |-> IF x = ann THEN unitA ELSE unitB]
MCScope == [p \in {monthA, monthB} |-> IF p = monthA THEN unitA ELSE unitB]
MCRank == [p \in {monthA, monthB} |-> IF p = monthA THEN 1 ELSE 2]
MCRoleOf == [x \in {ann, lea} |-> IF x = ann THEN "EMPLOYEE" ELSE "TEAM_LEAD"]
MCSupervisor == [x \in {ann, lea} |-> IF x = ann THEN lea ELSE none]

Closing == INSTANCE ClosingPeriod WITH
  Person <- {ann, lea}, Unit <- {unitA, unitB}, Period <- {monthA, monthB},
  Everyone <- everyone, UnitOf <- MCUnitOf, Scope <- MCScope, Rank <- MCRank,
  Population <- population, Due <- {monthA, monthB}, Hired <- {ann}, Minutes <- {60},
  MaxMinutes <- 60, Format <- {csv},
  workflow <- corrections, tx <- closingTx, queue <- closingQueue

Approval == INSTANCE WorkflowApproval WITH
  Person <- {ann, lea}, RoleOf <- MCRoleOf, UnitOf <- [x \in {ann, lea} |-> unitA],
  Supervisor <- MCSupervisor, Joined <- <<lea, ann>>, None <- none, NumWorkflows <- 2,
  Type <- {"LEAVE_REQUEST"}, Delegator <- {}, Day <- {monday, tuesday}, Booking <- {},
  BookedBy <- [b \in {} |-> none], EscalationRole <- "HR", MaxDepth <- 3, Routing <- routing,
  tx <- workflowTx, queue <- workflowQueue

Init == Closing!Init /\ Approval!Init /\ scene \in {"cutoff", "escalation"} /\ arrivals = 0

InCutoff == scene = "cutoff" /\ UNCHANGED <<scene, approvalVars>>
InEscalation == scene = "escalation" /\ UNCHANGED <<scene, closingVars>>

Disturb ==
  /\ arrivals < MaxArrivals /\ arrivals' = arrivals + 1
  /\ \/ InCutoff /\ \E s \in Request : Closing!Arrival(s)
     \/ InCutoff /\ \E c \in Scanner : Closing!ScanFails(c)
     \/ InEscalation /\ \E s \in Request : Approval!Arrival(s)
     \/ InEscalation /\ \E c \in Scanner : Approval!ScanFails(c)

RequestSteps(s) ==
  /\ UNCHANGED arrivals
  /\ \/ InCutoff /\ (Closing!Progress(s) \/ Closing!Rollback(s))
     \/ InEscalation /\ (Approval!Progress(s) \/ Approval!Rollback(s))

ScanSteps(c) ==
  /\ UNCHANGED arrivals
  /\ \/ InCutoff /\ Closing!ScanStep(c)
     \/ InEscalation /\ Approval!ScanStep(c)

Others ==
  /\ UNCHANGED arrivals
  /\ \/ InCutoff /\ \E p \in {monthA, monthB}, approved \in BOOLEAN :
                      Closing!DecideWorkflow(p, approved)
     \/ InEscalation /\ \E w \in 1 .. 2 : Approval!Overdue(w)

Next ==
  \/ Disturb \/ Others
  \/ \E s \in Request : RequestSteps(s)
  \/ \E c \in Scanner : ScanSteps(c)

\* The two specifications, with what arrives counted.
CountedSpec ==
  /\ Init /\ [][Next]_vars
  /\ \A s \in Request : WF_vars(RequestSteps(s))
  /\ \A c \in Scanner : WF_vars(ScanSteps(c))

\* A period that is OPEN after its cut-off instant is locked eventually, however often
\* the scan finds a lock busy (runCutoffLock).
DueIsLocked == scene = "cutoff" => Closing!DueIsLocked

\* A request that stays PENDING beyond its due date is decided or escalated, although a
\* busy routing ends the scan (escalateOverdueWorkflows).
OverdueIsHandled == scene = "escalation" => Approval!OverdueIsHandled
====
