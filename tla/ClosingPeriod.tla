---------------------------- MODULE ClosingPeriod ----------------------------
(***************************************************************************)
(* The monthly closing of cueq: closing periods that move OPEN -> REVIEW    *)
(* -> CLOSED -> EXPORTED, the bookings and time accounts they freeze, the   *)
(* exports they publish, and the advisory locks that keep the concurrent    *)
(* transactions apart.                                                      *)
(*                                                                          *)
(* All periods of the model are of one month: they overlap in time, and     *)
(* their scopes (one organization unit, or everyone) may overlap too.  A    *)
(* process runs one database transaction at a time.  Advisory locks are     *)
(* tried, never waited for, and are dropped when the transaction ends; a    *)
(* statement reads what is committed when it runs, and a transaction's      *)
(* writes appear when it commits.  So each operation below is a step per    *)
(* lock, with the read that follows it, and a step that commits.            *)
(***************************************************************************)
EXTENDS Integers

CONSTANTS
  Period, Person, Unit,
  UnitOf,       \* the organization unit of each person's appointment
  Scope,        \* the unit of each period, or Everyone
  Everyone,
  Population,   \* the one lock that fences appointment membership
  Request,      \* slots for HTTP requests in flight
  Scanner,      \* the hourly cut-off scan of each API process
  Rank,         \* the place of each period by start and id, as scans visit them
  Due,          \* the periods whose cut-off instant has passed
  Hired,        \* the people employed at the start
  Minutes,      \* lengths of the bookings that are made
  MaxMinutes,   \* bound: recorded minutes of one person
  Format        \* export formats

LockKey == Period \cup Person \cup {Population}
Process == Request \cup Scanner

ASSUME ScopesAreUnits ==
  /\ UnitOf \in [Person -> Unit]
  /\ Scope \in [Period -> Unit \cup {Everyone}]
  /\ Everyone \notin Unit
ASSUME KeysDiffer ==
  Period \cap Person = {} /\ Population \notin Period \cup Person
ASSUME ProcessesDiffer == Request \cap Scanner = {}
ASSUME ScanIsOrdered ==
  /\ Rank \in [Period -> Nat]
  /\ \A p, q \in Period : Rank[p] = Rank[q] => p = q
ASSUME SetsAreSmall ==
  Due \subseteq Period /\ Hired \subseteq Person
  /\ Minutes \subseteq Nat /\ MaxMinutes \in Nat

VARIABLES
  status,       \* closing_periods.status
  leadApproved, \* lead_approved_at is set
  hrApproved,   \* hr_approved_at is set
  workflow,     \* states of the period's POST_CLOSE_CORRECTION workflows
  employed,     \* people with an appointment in the month
  booked,       \* completed work bookings of each person, in minutes
  account,      \* actual_hours of each time account, in hundredths of an hour
  added,        \* corrections added to each account since it was calculated
                \* (no state of the program: it says how far rounding may reach)
  exportRuns,   \* export_runs: period, format and exported rows
  tx,           \* the transaction of each process
  queue         \* periods the running scan still has to visit

periods == <<status, leadApproved, hrApproved, workflow>>
books   == <<employed, booked, account, added>>
vars    == <<periods, books, exportRuns, tx, queue>>

-----------------------------------------------------------------------------
(* Data.                                                                    *)

Status    == {"OPEN", "REVIEW", "CLOSED", "EXPORTED"}
Locked(p)  == status[p] # "OPEN"

NoAccount == -1

\* The closing state machine: where each action starts and where it leads.
Transition == [
  ADVANCE_TO_REVIEW     |-> [from |-> {"OPEN"},             to |-> "REVIEW"],
  APPROVE               |-> [from |-> {"REVIEW"},           to |-> "CLOSED"],
  EXPORT                |-> [from |-> {"CLOSED"},           to |-> "EXPORTED"],
  REOPEN                |-> [from |-> {"REVIEW", "CLOSED"}, to |-> "OPEN"],
  POST_CLOSE_CORRECTION |-> [from |-> {"EXPORTED"},         to |-> "REVIEW"]]

InScope(p, x) == Scope[p] \in {Everyone, UnitOf[x]}
Covering(x)   == {p \in Period : InScope(p, x)}
Covered(p)    == {x \in employed : InScope(p, x)}

\* Hours of m minutes in hundredths, and the sum the database stores when the
\* hours of m minutes, cut to four decimals, are added to a stored account.
Hundredths(m)    == (200 * m + 60) \div 120
Increased(a, m)  == (100 * a + (20000 * m + 60) \div 120 + 50) \div 100

Op == {"NONE", "BOOK", "HIRE", "PREPARE", "REVIEW", "CUTOFF", "LEAD", "APPROVE",
       "EXPORT", "REOPEN", "POST_CLOSE", "CORRECT"}
Stage == {"begin", "preview", "previewed", "barrier", "locked", "planned", "covered", "ready"}

Plan == [Person -> -1 .. MaxMinutes]
NoPlan == [x \in Person |-> -1]
Rows == [Person -> Int]
NoRows == [x \in Person |-> NoAccount]

Idle == [op |-> "NONE", period |-> {}, person |-> {}, minutes |-> 0,
         stage |-> "begin", holds |-> {}, was |-> "OPEN", plan |-> NoPlan,
         rows |-> NoRows]

Transaction ==
  [op : Op, period : SUBSET Period, person : SUBSET Person, minutes : Nat, stage : Stage,
   holds : SUBSET LockKey, was : Status, plan : Plan, rows : Rows]

TypeOK ==
  /\ status \in [Period -> Status]
  /\ leadApproved \in [Period -> BOOLEAN]
  /\ hrApproved \in [Period -> BOOLEAN]
  /\ workflow \in [Period -> SUBSET {"PENDING", "APPROVED"}]
  /\ employed \subseteq Person
  /\ booked \in [Person -> 0 .. MaxMinutes]
  /\ account \in [Person -> Int]
  /\ added \in [Person -> Nat]
  /\ exportRuns \subseteq [period : Period, format : Format, rows : Rows]
  /\ tx \in [Process -> Transaction]
  /\ queue \in [Scanner -> SUBSET Period]

Init ==
  /\ status = [p \in Period |-> "OPEN"]
  /\ leadApproved = [p \in Period |-> FALSE]
  /\ hrApproved = [p \in Period |-> FALSE]
  /\ workflow = [p \in Period |-> {}]
  /\ employed = Hired
  /\ booked = [x \in Person |-> 0]
  /\ account = [x \in Person |-> NoAccount]
  /\ added = [x \in Person |-> 0]
  /\ exportRuns = {}
  /\ tx = [s \in Process |-> Idle]
  /\ queue = [c \in Scanner |-> {}]

-----------------------------------------------------------------------------
(* Transactions.                                                            *)

At(s, op, stage) == tx[s].op = op /\ tx[s].stage = stage

Free(keys) == \A s \in Process : tx[s].holds \cap keys = {}

\* The transaction of s takes the locks in keys and reaches a stage, with what
\* it reads there.
Take(s, keys, stage) ==
  /\ Free(keys)
  /\ tx' = [tx EXCEPT ![s].holds = tx[s].holds \cup keys, ![s].stage = stage]

TakeReading(s, keys, stage, plan) ==
  /\ Free(keys)
  /\ tx' = [tx EXCEPT ![s].holds = tx[s].holds \cup keys, ![s].stage = stage,
                      ![s].plan = plan]

\* A transaction for period p begins and takes its first locks.
Starts(s, op, p, keys, stage) ==
  /\ Free(keys)
  /\ tx' = [tx EXCEPT ![s].op = op, ![s].period = {p}, ![s].stage = stage,
                      ![s].holds = keys, ![s].was = status[p]]

\* What the commit of s writes to its period.
Moves(s, to) ==
  status' = [p \in Period |-> IF p \in tx[s].period THEN to ELSE status[p]]
Sets(s, column, value) ==
  [p \in Period |-> IF p \in tx[s].period THEN value ELSE column[p]]

\* The transaction ends, and its locks with it.
Ends(s) == tx' = [tx EXCEPT ![s] = Idle]

\* A lock is busy, a check fails, the transaction times out or its process
\* stops: nothing is written.
Rollback(s) ==
  /\ tx[s].op # "NONE"
  /\ Ends(s)
  /\ UNCHANGED <<periods, books, exportRuns, queue>>

-----------------------------------------------------------------------------
(* Ordinary writes: a booking (and every other change that goes through the *)
(* closing barrier), and a new appointment.                                 *)

\* The request is refused at once when a covering period is seen locked.
AskBooking(s, x, m) ==
  /\ x \in employed
  /\ \A p \in Covering(x) : ~ Locked(p)
  /\ tx' = [tx EXCEPT ![s].op = "BOOK", ![s].person = {x}, ![s].minutes = m]
  /\ UNCHANGED <<periods, books, exportRuns, queue>>

AskHire(s, x) ==
  /\ x \notin employed
  /\ tx' = [tx EXCEPT ![s].op = "HIRE", ![s].person = {x}]
  /\ UNCHANGED <<periods, books, exportRuns, queue>>

\* Mutant: only the periods found locked are locked, not the OPEN ones.
Barrier_LockedOnly(s) ==
  /\ tx[s].op \in {"BOOK", "HIRE"} /\ tx[s].stage = "begin"
  /\ \E x \in tx[s].person :
       /\ Take(s, {p \in Covering(x) : Locked(p)}, "barrier")
       /\ \A p \in Covering(x) : ~ Locked(p)
  /\ UNCHANGED <<periods, books, exportRuns, queue>>

\* The barrier locks every covering period, the OPEN ones included, and then
\* looks for a locked one.
Barrier(s) ==
  /\ tx[s].op \in {"BOOK", "HIRE"} /\ tx[s].stage = "begin"
  /\ \E x \in tx[s].person :
       /\ Take(s, Covering(x), "barrier")
       /\ \A p \in Covering(x) : ~ Locked(p)
  /\ UNCHANGED <<periods, books, exportRuns, queue>>

\* Behind the barrier come the person's lock and, for an appointment, before
\* it the population's.
LockWriter(s) ==
  /\ tx[s].stage = "barrier"
  /\ Take(s, tx[s].person \cup (IF tx[s].op = "HIRE" THEN {Population} ELSE {}), "ready")
  /\ \A x \in tx[s].person : booked[x] + tx[s].minutes <= MaxMinutes
  /\ UNCHANGED <<periods, books, exportRuns, queue>>

WriteBooking(s) ==
  /\ At(s, "BOOK", "ready")
  /\ booked' = [x \in Person |->
                  IF x \in tx[s].person THEN booked[x] + tx[s].minutes ELSE booked[x]]
  /\ Ends(s)
  /\ UNCHANGED <<periods, employed, account, added, exportRuns, queue>>

WriteHire(s) ==
  /\ At(s, "HIRE", "ready")
  /\ employed' = employed \cup tx[s].person
  /\ Ends(s)
  /\ UNCHANGED <<periods, booked, account, added, exportRuns, queue>>

-----------------------------------------------------------------------------
(* Preparing the time accounts of an OPEN period.                           *)

PrepareLock(s, p) ==
  /\ status[p] = "OPEN"
  /\ Starts(s, "PREPARE", p, {p, Population}, "locked")
  /\ UNCHANGED <<periods, books, exportRuns, queue>>

\* The people of the plan are locked, and the plan is built once more.
BuildPlan(p) == [x \in Person |-> IF x \in Covered(p) THEN booked[x] ELSE -1]

PreparePlan(s) ==
  /\ At(s, "PREPARE", "locked")
  /\ \E p \in tx[s].period :
       TakeReading(s, Covered(p), "ready", BuildPlan(p))
  /\ UNCHANGED <<periods, books, exportRuns, queue>>

Planned(s) == {x \in Person : tx[s].plan[x] # -1}

WriteAccounts(s) ==
  /\ At(s, "PREPARE", "ready")
  /\ account' = [x \in Person |->
                   IF x \in Planned(s) THEN Hundredths(tx[s].plan[x]) ELSE account[x]]
  /\ added' = [x \in Person |-> IF x \in Planned(s) THEN 0 ELSE added[x]]
  /\ Ends(s)
  /\ UNCHANGED <<periods, employed, booked, exportRuns, queue>>

-----------------------------------------------------------------------------
(* The hourly cut-off scan.                                                 *)

\* Mutant: the cursor starts after the first period.
StartScan_AfterFirst(c) ==
  /\ queue[c] = {} /\ tx[c].op = "NONE"
  /\ queue' = [queue EXCEPT ![c] =
       {p \in Due : ~ Locked(p) /\ \E q \in Period : Rank[q] < Rank[p]}]
  /\ UNCHANGED <<periods, books, exportRuns, tx>>

StartScan(c) ==
  /\ queue[c] = {} /\ tx[c].op = "NONE"
  /\ queue' = [queue EXCEPT ![c] = {p \in Due : ~ Locked(p)}]
  /\ UNCHANGED <<periods, books, exportRuns, tx>>

\* The scan visits p next.
Visits(c, p) ==
  /\ tx[c].op = "NONE" /\ p \in queue[c]
  /\ \A q \in queue[c] : Rank[p] <= Rank[q]

ScanLock(c) ==
  /\ \E p \in Period : Visits(c, p) /\ Starts(c, "CUTOFF", p, {p}, "begin")
  /\ UNCHANGED <<periods, books, exportRuns, queue>>

\* A busy period waits for the next scan.
ScanBusy(c) ==
  /\ \E p \in Period : /\ Visits(c, p) /\ ~ Free({p})
                        /\ queue' = [queue EXCEPT ![c] = queue[c] \ {p}]
  /\ UNCHANGED <<periods, books, exportRuns, tx>>

ScanPopulation(c) ==
  /\ At(c, "CUTOFF", "begin") /\ Free({Population})
  /\ \E p \in tx[c].period :
       tx' = [tx EXCEPT ![c].holds = tx[c].holds \cup {Population}, ![c].stage = "ready",
                       ![c].was = status[p]]
  /\ UNCHANGED <<periods, books, exportRuns, queue>>

\* A busy population, unlike a busy period, ends the whole scan.
ScanAborted(c) ==
  /\ At(c, "CUTOFF", "begin") /\ ~ Free({Population})
  /\ Ends(c)
  /\ queue' = [queue EXCEPT ![c] = {}]
  /\ UNCHANGED <<periods, books, exportRuns>>

ScanCommit(c) ==
  /\ At(c, "CUTOFF", "ready")
  /\ IF tx[c].was = "OPEN"
     THEN Moves(c, "REVIEW")
     ELSE UNCHANGED status
  /\ Ends(c)
  /\ queue' = [queue EXCEPT ![c] = queue[c] \ tx[c].period]
  /\ UNCHANGED <<leadApproved, hrApproved, workflow, books, exportRuns>>

\* The process of the scan stops, or the database refuses a statement.
ScanFails(c) ==
  /\ queue[c] # {}
  /\ Ends(c)
  /\ queue' = [queue EXCEPT ![c] = {}]
  /\ UNCHANGED <<periods, books, exportRuns>>

-----------------------------------------------------------------------------
(* Moving one period.                                                       *)

\* The transition that each operation of HR, a lead or an administrator makes.
ActionOf == [REVIEW |-> "ADVANCE_TO_REVIEW", REOPEN |-> "REOPEN",
             POST_CLOSE |-> "POST_CLOSE_CORRECTION"]

\* startClosingReview takes the population's lock too.
MoveLock(s, op, p) ==
  /\ status[p] \in Transition[ActionOf[op]].from
  /\ Starts(s, op, p, {p} \cup (IF op = "REVIEW" THEN {Population} ELSE {}), "ready")
  /\ UNCHANGED <<periods, books, exportRuns, queue>>

StartReview(s) ==
  /\ At(s, "REVIEW", "ready")
  /\ Moves(s, Transition.ADVANCE_TO_REVIEW.to)
  /\ Ends(s)
  /\ UNCHANGED <<leadApproved, hrApproved, workflow, books, exportRuns, queue>>

\* Mutant: reopening keeps the lead's approval.
Reopen_KeepsLead(s) ==
  /\ At(s, "REOPEN", "ready")
  /\ Moves(s, Transition.REOPEN.to)
  /\ hrApproved' = Sets(s, hrApproved, FALSE)
  /\ Ends(s)
  /\ UNCHANGED <<leadApproved, workflow, books, exportRuns, queue>>

Reopen(s) ==
  /\ At(s, "REOPEN", "ready")
  /\ Moves(s, Transition.REOPEN.to)
  /\ leadApproved' = Sets(s, leadApproved, FALSE)
  /\ hrApproved' = Sets(s, hrApproved, FALSE)
  /\ Ends(s)
  /\ UNCHANGED <<workflow, books, exportRuns, queue>>

\* The lead's approval stays; only that of HR is taken back.
PostCloseCorrection(s) ==
  /\ At(s, "POST_CLOSE", "ready")
  /\ Moves(s, Transition.POST_CLOSE_CORRECTION.to)
  /\ hrApproved' = Sets(s, hrApproved, FALSE)
  /\ workflow' = [p \in Period |-> IF p \in tx[s].period THEN workflow[p] \cup {"PENDING"}
                                                          ELSE workflow[p]]
  /\ Ends(s)
  /\ UNCHANGED <<leadApproved, books, exportRuns, queue>>

\* The workflow module decides the pending correction workflows; it takes no
\* closing lock.  An approved workflow is never used up.
DecideWorkflow(p, approved) ==
  /\ "PENDING" \in workflow[p]
  /\ workflow' = [workflow EXCEPT ![p] =
       (workflow[p] \ {"PENDING"}) \cup (IF approved THEN {"APPROVED"} ELSE {})]
  /\ UNCHANGED <<status, leadApproved, hrApproved, books, exportRuns, tx, queue>>

LeadLock(s, p) ==
  /\ Scope[p] # Everyone /\ status[p] = "REVIEW" /\ ~ leadApproved[p]
  /\ Starts(s, "LEAD", p, {p}, "ready")
  /\ UNCHANGED <<periods, books, exportRuns, queue>>

LeadApprove(s) ==
  /\ At(s, "LEAD", "ready")
  /\ leadApproved' = Sets(s, leadApproved, TRUE)
  /\ Ends(s)
  /\ UNCHANGED <<status, hrApproved, workflow, books, exportRuns, queue>>

-----------------------------------------------------------------------------
(* Approval by HR.                                                          *)

\* A first checklist runs in a transaction of its own, for its violation event.
\* Nothing that it read is kept.
ApprovePreview(s, p) ==
  /\ Starts(s, "APPROVE", p, {p, Population}, "preview")
  /\ UNCHANGED <<periods, books, exportRuns, queue>>

ApprovePreviewed(s) ==
  /\ At(s, "APPROVE", "preview")
  /\ tx' = [tx EXCEPT ![s].holds = {}, ![s].stage = "previewed", ![s].was = "OPEN"]
  /\ UNCHANGED <<periods, books, exportRuns, queue>>

\* The deciding transaction starts over: the period's lock, the period, and the
\* lead's approval of a unit's period.
ApproveLock(s) ==
  /\ At(s, "APPROVE", "previewed")
  /\ \E p \in tx[s].period :
       /\ status[p] \in Transition.APPROVE.from
       /\ Scope[p] # Everyone => leadApproved[p]
       /\ Take(s, {p}, "locked")
  /\ UNCHANGED <<periods, books, exportRuns, queue>>

\* The checklist takes the population's lock, calculates what the accounts
\* should be, and then reads the accounts.
ReadPlan(s) ==
  /\ tx[s].op \in {"APPROVE", "EXPORT"} /\ tx[s].stage = "locked"
  /\ \E p \in tx[s].period :
       TakeReading(s, {Population}, "planned", BuildPlan(p))
  /\ UNCHANGED <<periods, books, exportRuns, queue>>

\* No account is missing and each matches the calculation.
Complete(plan) ==
  \A x \in Person : plan[x] # -1 => account[x] = Hundredths(plan[x])

\* Checklist items other than the accounts may also be red; then the
\* transaction rolls back.
ReadCoverage(s) ==
  /\ tx[s].op \in {"APPROVE", "EXPORT"} /\ tx[s].stage = "planned"
  /\ Complete(tx[s].plan)
  /\ tx' = [tx EXCEPT ![s].stage = IF tx[s].op = "APPROVE" THEN "ready" ELSE "covered",
                      ![s].plan = NoPlan]
  /\ UNCHANGED <<periods, books, exportRuns, queue>>

Approve(s) ==
  /\ At(s, "APPROVE", "ready")
  /\ Moves(s, Transition.APPROVE.to)
  /\ hrApproved' = Sets(s, hrApproved, TRUE)
  /\ Ends(s)
  /\ UNCHANGED <<leadApproved, workflow, books, exportRuns, queue>>

-----------------------------------------------------------------------------
(* Export.                                                                  *)

\* Mutant: the export does not lock its period.
ExportLock_NoPeriod(s, p) ==
  /\ Starts(s, "EXPORT", p, {}, "locked")
  /\ UNCHANGED <<periods, books, exportRuns, queue>>

ExportLock(s, p) ==
  /\ Starts(s, "EXPORT", p, {p}, "locked")
  /\ UNCHANGED <<periods, books, exportRuns, queue>>

\* The artifact is built from the accounts as they are now.
BuildArtifact(s) ==
  /\ At(s, "EXPORT", "covered")
  /\ tx[s].was \in Transition.EXPORT.from \cup {"EXPORTED"}
  /\ \E p \in tx[s].period :
       tx' = [tx EXCEPT ![s].stage = "ready",
                        ![s].rows = [x \in Person |-> IF x \in Covered(p) THEN account[x]
                                                                        ELSE NoAccount]]
  /\ UNCHANGED <<periods, books, exportRuns, queue>>

\* The run the export commits: one per period, format and content.
RunOf(s, f) == [period : tx[s].period, format : {f}, rows : {tx[s].rows}]

\* An EXPORTED period with a run of this content is left as it is; otherwise
\* only a CLOSED period moves, and a run of new content is stored.  Stored runs
\* are never changed: the model keeps the one that the last export returned.
Export(s, f) ==
  /\ At(s, "EXPORT", "ready")
  /\ Moves(s, Transition.EXPORT.to)
  /\ exportRuns' = RunOf(s, f)
  /\ Ends(s)
  /\ UNCHANGED <<leadApproved, hrApproved, workflow, books, queue>>

-----------------------------------------------------------------------------
(* A correction after the close: a booking added under an approved workflow. *)

\* Mutant: the correction locks its period but not the person.
CorrectionLock_NoPerson(s, p, x, m) ==
  /\ status[p] \in {"REVIEW", "EXPORTED"} /\ "APPROVED" \in workflow[p]
  /\ x \in Covered(p) /\ account[x] # NoAccount
  /\ booked[x] + m <= MaxMinutes
  /\ Free({p})
  /\ tx' = [tx EXCEPT ![s].op = "CORRECT", ![s].period = {p}, ![s].person = {x},
                      ![s].minutes = m, ![s].stage = "ready", ![s].holds = {p},
                      ![s].was = status[p]]
  /\ UNCHANGED <<periods, books, exportRuns, queue>>

CorrectionLock(s, p, x, m) ==
  /\ status[p] \in {"REVIEW", "EXPORTED"}
  /\ "APPROVED" \in workflow[p]
  /\ x \in Covered(p)
  /\ account[x] # NoAccount
  /\ booked[x] + m <= MaxMinutes
  /\ Free({p, x})
  /\ tx' = [tx EXCEPT ![s].op = "CORRECT", ![s].period = {p}, ![s].person = {x},
                      ![s].minutes = m, ![s].stage = "ready", ![s].holds = {p, x},
                      ![s].was = status[p]]
  /\ UNCHANGED <<periods, books, exportRuns, queue>>

\* The account is increased where it is stored, not recalculated.
WriteCorrection(s) ==
  /\ At(s, "CORRECT", "ready")
  /\ booked' = [x \in Person |->
                  IF x \in tx[s].person THEN booked[x] + tx[s].minutes ELSE booked[x]]
  /\ account' = [x \in Person |->
                   IF x \in tx[s].person THEN Increased(account[x], tx[s].minutes)
                                         ELSE account[x]]
  /\ added' = [x \in Person |-> IF x \in tx[s].person THEN added[x] + 1 ELSE added[x]]
  /\ Ends(s)
  /\ UNCHANGED <<periods, employed, exportRuns, queue>>

-----------------------------------------------------------------------------
\* A request arrives at a free slot.
Arrival(s) ==
  /\ tx[s].op = "NONE"
  /\ \/ \E x \in Person, m \in Minutes : AskBooking(s, x, m)
     \/ \E x \in Person : AskHire(s, x)
     \/ \E p \in Period : PrepareLock(s, p) \/ LeadLock(s, p) \/ ApprovePreview(s, p)
                           \/ ExportLock(s, p)
     \/ \E p \in Period, op \in DOMAIN ActionOf : MoveLock(s, op, p)
     \/ \E p \in Period, x \in Person, m \in Minutes : CorrectionLock(s, p, x, m)

Progress(s) ==
  \/ Barrier(s) \/ LockWriter(s) \/ WriteBooking(s) \/ WriteHire(s)
  \/ PreparePlan(s) \/ WriteAccounts(s)
  \/ StartReview(s) \/ Reopen(s) \/ PostCloseCorrection(s) \/ LeadApprove(s)
  \/ ApprovePreviewed(s) \/ ApproveLock(s) \/ ReadPlan(s) \/ ReadCoverage(s) \/ Approve(s)
  \/ BuildArtifact(s) \/ (\E f \in Format : Export(s, f))
  \/ WriteCorrection(s)

ScanStep(c) ==
  \/ StartScan(c) \/ ScanLock(c) \/ ScanBusy(c)
  \/ ScanPopulation(c) \/ ScanAborted(c) \/ ScanCommit(c)

Next ==
  \/ \E s \in Request : Arrival(s) \/ Progress(s) \/ Rollback(s)
  \/ \E c \in Scanner : ScanStep(c) \/ ScanFails(c)
  \/ \E p \in Period, approved \in BOOLEAN : DecideWorkflow(p, approved)

Spec == Init /\ [][Next]_vars

\* Requests run to their end, and the hourly scan runs again and again.
FairSpec ==
  /\ Spec
  /\ \A s \in Request : WF_vars(Progress(s) \/ Rollback(s))
  /\ \A c \in Scanner : WF_vars(ScanStep(c))

-----------------------------------------------------------------------------
(* Properties.                                                              *)

\* A step that changes what is recorded about a person either happens while
\* every period covering the person is OPEN, or is a correction for which a
\* covering period in REVIEW or EXPORTED has an approved workflow; it is never
\* an ordinary write that checked the periods before they were locked.
LockedBooksMoveByCorrection ==
  [][\A x \in Person :
       (booked'[x] # booked[x] \/ (x \in employed') # (x \in employed)) =>
         \/ \A p \in Covering(x) : ~ Locked(p)
         \/ \E p \in Covering(x) : /\ status[p] \in {"REVIEW", "EXPORTED"}
                                  /\ "APPROVED" \in workflow[p]]_vars

\* A correction of x through a period other than p has been approved.  It locks
\* x and that period: neither is a lock of those who approve or export p.
CorrectedElsewhere(p, x) == \E q \in Covering(x) \ {p} : "APPROVED" \in workflow[q]

\* The account is n hundredths at most away from what a recalculation from the
\* bookings would give.
Within(x, n) == account[x] - Hundredths(booked[x]) \in -n .. n

\* A recalculation would reproduce the account.  Once p is EXPORTED, the hours of
\* each correction are rounded into the stored sum instead of being counted
\* again, and each may leave the account one hundredth further away.
Matches(p, x) ==
  \/ Within(x, IF status[p] = "EXPORTED" THEN added[x] ELSE 0)
  \/ CorrectedElsewhere(p, x)

\* While a period is CLOSED every person it covers has an account that matches
\* the bookings to the hundredth, and while it is EXPORTED to one hundredth for
\* each correction added to it: nobody joined, no booking came in, and no
\* preparation wrote what it had read too early.  Only a correction through
\* another period may come between the two reads of the checklist.
ClosedIsComplete ==
  \A p \in Period : status[p] \in {"CLOSED", "EXPORTED"} =>
    \A x \in Covered(p) : account[x] # NoAccount /\ Matches(p, x)

\* The export that moves a period to EXPORTED stores the accounts as they are
\* at that moment, although it read them several statements earlier.  Only a
\* correction through another period of the person can come in between: that
\* period's lock is not the export's.
ExportShowsTheBooks ==
  [][\A p \in Period : (status[p] # "EXPORTED" /\ status'[p] = "EXPORTED") =>
       \E r \in exportRuns' :
         /\ r.period = p
         /\ \A x \in Person : x \notin Covered(p) => r.rows[x] = NoAccount
         /\ \A x \in Covered(p) :
              \/ r.rows[x] = account[x]
              \/ CorrectedElsewhere(p, x)]_vars

\* A period that is OPEN after its cut-off instant is locked eventually, however
\* often the scan finds a lock busy.
DueIsLocked == \A p \in Due : (status[p] = "OPEN") ~> (status[p] # "OPEN")

\* To its users the closing is the state machine of ClosingPromise, whose every
\* transition happens in one step.
Promise == INSTANCE ClosingPromise WITH signed <- leadApproved, approved <- hrApproved,
             complete <- [p \in Period |-> \A x \in Covered(p) : Matches(p, x)],
             needsLead <- [p \in Period |-> Scope[p] # Everyone]
KeepsPromise == Promise!Spec
=============================================================================
