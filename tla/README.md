# Verification of cueq

cueq is a workforce system for universities: time recording, absences, rosters,
monthly closing, approval workflows, personnel documents, on- and offboarding, and
integrations with terminals, HR systems and webhook receivers. This directory holds
TLA+ modules translated from its TypeScript, the TLC configurations that check them,
and theorems that TLAPS proves. The source of every definition is listed in
`PROJECT.json` under `map`.

The backend is one NestJS process (`src/apps/api`), of which several instances
may run against one PostgreSQL database. There is no message broker: components
interact through rows, through calls inside one database transaction, through
advisory locks (`platform/transactions`) and through the outbox table
`domain_event_outbox`. Each process also runs timers: the webhook worker, the
document recovery and the two lifecycle workers poll, the closing cut-off and the
workflow escalation are scanned hourly.

What that means for the models:

* Transactions run READ COMMITTED. A statement sees what is committed when it
  starts, so a value read earlier in the same transaction may be stale.
* Advisory locks are *try* locks: a busy key makes the operation fail
  (`409 ... BUSY`), nobody waits. Hence locks cannot deadlock, and the questions
  are whether the right keys are taken before the right reads. Row locks
  (`FOR UPDATE`, conditional updates) are waited for: the step that takes one is
  disabled while another transaction holds it.
* A transaction's writes become visible at its commit. A model step is therefore
  either "take these locks and do the reads that follow" or "commit". Rolling
  back is always possible between two steps, a busy lock is one way to it.

## Inventory

| Component | State | Operations | Hard behaviour | Correct when |
|---|---|---|---|---|
| Webhook dispatch (`modules/integrations/webhook-*`) | outbox events, jobs with items, leases and generations, delivery records, each worker's memory | request a job, poll, take over, renew, claim an event, post a wave, settle, complete | several processes, sleeping past a lease, crashes, statements whose commit is not acknowledged | one owner settles, counters agree with items, closed events stay closed, jobs complete |
| Monthly closing (`modules/closing`, `packages/domain/src/closing`) | closing periods, signatures, export runs, correction workflows | review, lead approval, HR approval, reopen, export, correct after close, cut-off scan | overlapping scopes with different locks, checks made statements before the write | closed books are complete and change only by correction; the export shows them |
| Attendance (`modules/attendance`) | bookings, time accounts | clock in and out, create, correct, prepare and split accounts | rounding, preparation against concurrent bookings, the closing barrier | no overlap of bookings; accounts equal what the bookings give |
| Workflows (`modules/workflows`, `packages/domain/src/workflow`) | workflow instances, delegation rules, policies | create, decide, delegate, cancel, escalate; apply the effect of the decision | escalation against decision, rules that change while a workflow is routed, effects computed from rows read earlier | a decision is taken once, by its approver, and its effect is applied exactly with it |
| Absence (`modules/absence`, `packages/domain/src/absence`) | absences, leave adjustments | request, withdraw, adjust, leave balance, carry-over | withdrawal against decision, quota arithmetic over years | no overlapping absence; the balance follows the ledger |
| Scheduling (`modules/scheduling`, `packages/domain/src/roster`) | rosters, shifts, assignments, swap workflows, on-call rotations and deployments | create, plan, publish, assign, swap, delete, book a shift | the guard reads outside of the transaction that writes; swaps approved while the roster changes; staffing at publication; two rosters that share people | nobody has two shifts at once; who is planned is employed; a published roster stays staffed; a locked plan stays |
| Terminal gateway (`modules/integrations/terminal-*`) | terminals, receipts of batches | heartbeat, import a batch | repeated and concurrent batches, appointments resolved before the locks, partial acceptance | a batch is taken once, its bookings lie where their people are employed and free |
| HR import and reconciliation (`modules/integrations/hr-import-*`, `modules/people/personnel-*`) | persons, import runs, personnel fields, source records, changes and their outbox | import rows, deliver and acknowledge a field, ask for and review a change | four writers of one value, deliveries repeated or overtaken, closed populations | all that set a value agree; one change is pending at a time |
| People (`modules/people`) | persons, appointments, dated terms, schedules | hire, append terms, end | appointments change the population of a closing and the unit of a booking | a closed period's population is fixed |
| Lifecycle (`modules/lifecycle`) | templates, rules, instances, tasks with their history, notices | draft and activate a template, activate instances, complete and reopen tasks, automation and reminder workers | workers that page with a cursor in memory, tasks locked one row at a time | an instance follows its template, the history its task, nobody due is passed over |
| Documents (`modules/documents`) | upload intents, versions, encrypted files | upload, recovery scan | a crash between file and row, a recovery against an upload that wakes up days later | no version without its file, no file lost from sight |
| Projects (`modules/projects`) | projects, memberships, allocations of bookings | create, archive, join, leave, allocate and release effort | allocations against corrections of the booking, archiving and ends of memberships | effort fits its booking and its members; an archived project gets none |
| Reporting, audit, policy, contracts, auth, web | rows, views, constants | reads and appends | little that is concurrent | - |
| Time engine (`packages/domain/src/time-engine`) | the active limits | rest, break, maximum-hours and surcharge rules; comparison of plan and attendance | boundaries of minutes, days and months; intervals that nest, touch or are open | each minute counts once; a month without errors has none |

`PROJECT.json` lists every component with its status, and every hazard at its
line with the properties that would catch it going wrong.

## Modules

| Module | Models | Proofs or runs |
|---|---|---|
| `WebhookDispatch` | the dispatcher: outbox, jobs, workers | `MCWebhookDelivery`, `MCWebhookRecovery`; `WebhookDispatchProofs` |
| `DispatchPromise` | what the status endpoint of a job promises | implemented by `WebhookDispatch` (`KeepsPromise`); `WebhookDispatchProofs` |
| `ClosingPeriod` | closing, bookings, accounts, appointments, exports and their locks | `MCClosingBooks`, `MCHourlyScans`; `ClosingPeriodProofs` |
| `ClosingPromise` | the state machine of a period, without locks | implemented by `ClosingPeriod` (`KeepsPromise`); `ClosingPeriodProofs` |
| `WorkflowApproval` | requests, routing, delegation rules, decisions with their effects, escalation | `MCWorkflowApproval`, `MCHourlyScans`; `WorkflowApprovalProofs` |
| `RosterPlanning` | rosters, shifts, assignments, publication, swaps, bookings of shifts | `MCRosterPlanning`; `RosterPlanningProofs` |
| `EmploymentRecords` | appointments, dated terms, web bookings, leave, locked periods | extended by the next two, and by on-call and projects |
| `TerminalImport` | batches of bookings from terminals | extended by `Integrations` |
| `PersonnelRecords` | import of master data, reconciliation, changes and reviews | extended by `Integrations` |
| `Integrations` | the composition of these three | `MCIntegrations`; `IntegrationsProofs` |
| `OnCallDuty` | on-call rotations and deployments | extended by `WorkRecords` |
| `ProjectTime` | effort, memberships, archiving, corrections of bookings | extended by `WorkRecords` |
| `WorkRecords` | the composition of duty, effort, bookings and terms | `MCWorkRecords`; `WorkRecordsProofs` |
| `LeaveLedger` | leave by calendar day: entitlement, carry-over, use, new terms | extended by the next |
| `LeaveAccount` | terms, leave and adjustments of one appointment, and its balances | extended by the next; `CalculationsProofs` |
| `LeaveHistory` | the rows before the last operation, beside those after it | `MCCalculations`; `CalculationsProofs` |
| `Ordering` | a finite set in order | extended by `LeaveLedger` and `TimeRules` |
| `TimeRules` | the time engine | extended by `MonthReview` |
| `PlanVsActual` | staffing of shifts by bookings | extended by `MonthReview` |
| `MonthReview` | bookings, corrections, leave and limits, and the checklist of a month | `MCCalculations`; `CalculationsProofs` |
| `Documents` | uploads and their recovery | `MCDocuments`; `DocumentsAndLifecycleProofs` |
| `Lifecycle` | template, rule, instances, tasks, workers | `MCLifecycle` (also with `MCLifecycleOrder.cfg`); `DocumentsAndLifecycleProofs` |

A definition named `X_Something` directly before `X` is a version of `X` with a
plausible mistake. No specification uses it; it documents which mistake each
property detects (`PROJECT.json`, `mutants`).

### Webhook dispatch

State: `event` is `domain_event_outbox`, `job` is `webhook_dispatch_jobs` with its
items, `deliveries` is `webhook_deliveries`, `worker` is what a process keeps in
local variables between two statements. Time counts poll intervals.

Every database statement outside a transaction is one action, each transaction is
one action, and so is each wave of HTTP requests. `Poll`, `ClaimJob`,
`RenewForItem`, `PickItem`, `ClaimEvent`, `Yield`, `ReadEndpoints`, `ReadTargets`,
`RenewForWave`, `RenewClaim`, `PostWave`, the three `Settle` actions, `CompleteJob`
and `RecordInterruption` follow `webhook-job-worker.service.ts`,
`webhook-dispatch-run.ts`, `webhook-dispatch-event.ts` and the helpers they call.
`StatementFails` and `Crash` may hit anywhere; `CanSettle` also lets a commit
succeed whose acknowledgement is lost, after which the worker records an
interruption. A process may sleep past its lease when `MayStall` is TRUE;
otherwise time waits for it (`InTime`).

Abstracted: payloads, signatures, response bodies, the growing retry delay (one
constant), the number of endpoints per wave (a constant), the check of target
addresses (a `fault` outcome of `ReadTargets`).

### Closing

State: `status`, `leadApproved`, `hrApproved` are the columns of
`closing_periods`; `workflow` holds the states of its correction workflows;
`booked` is the sum of completed work per person, `account` the stored actual
hours in hundredths (-1 where there is none); `added` counts the corrections added to
an account since it was calculated, which no column does and only a property reads; `tx` is the running transaction of
each request slot and scanner, with the keys it holds and what it has read.

A transaction takes locks and reads in the code's order. Three refinements of
that order are merged: a lock and the single read directly after it are one
step, since nothing else of the operation happens in between; the locks taken
consecutively with no read between them are one step; a commit is one step.
Of the export runs of a period and format the model keeps the one the last export
returned: no operation tells the older ones apart.
`ApprovePreview` and `ApprovePreviewed` stand for the separate transaction in
which `approveClosing` first runs the checklist to record violations.

`ClosedIsComplete` holds to the hundredth of an hour while a period is CLOSED. Once it
is EXPORTED, each correction may leave the account one hundredth further away, because
its hours are rounded into the stored sum (`Matches`).
`ClosedIsComplete`, `ExportShowsTheBooks` and `KeepsPromise` make one exception
(`CorrectedElsewhere`): a correction through *another* period that covers the same
person, whose lock is not the period's own; `KeepsPromise` takes it over through what
it maps to `complete`. The cut-off scan (hourly) visits its candidates in the order of
`Rank`, and `Visits(c, p)` says that p comes next.

One month is modelled: all periods overlap in time, and what distinguishes them
is their scope (one unit, or everyone). A booking is minutes added for a person.
The other items of the checklist are the matter of `MonthReview`; here they are a
nondeterministic rollback. An account is calculated to two decimals (`Hundredths`) and increased by a
correction cut to four decimals and stored to two (`Increased`); both are written
as integer arithmetic.
Audit rows, outbox events, `lockedAt`, `lockSource`, `closedAt`, overtime hours and
artifact bytes are left out: no guard of the operations modelled reads them.
`DecideWorkflow` is the workflow component seen from here: it takes no closing
lock.

### Approval workflows

State: `workflow` is `workflow_instances` (type, status, requester, approver,
delegation trail and what the payload asks for), `absence`, `bookedAt` and `overtime`
are what decisions change, `rule` holds one delegation rule per person, `late` the
workflows whose due date has passed; `tx` is the running transaction of each request
slot and scan, `queue` the candidates a scan has still to visit.

`AskLeave`, `AskCorrection`, `AskOvertime` and `AskPostClose` take the routing lock,
route the request (`Routed`: the supervisor or `resolveBaseApprover`, then the chain
of delegates), take the person's lock and look at what blocks the request; `Create`
commits the absence and the workflow together. A decision has three steps, since its
update waits for a row that another transaction may hold: `DecideRead` (guards with
their locks, row, permission), `DecideApply` (the conditional update takes the row,
then the effect reads the overlap or the account), `DecideCommit`. `Withdraw` is
`cancelAbsence`, which closes the workflow with an update of its own. A scan visits
its candidates one after the other (`EscalateRead`, `EscalateSkip`, `Escalate`) and
ends when the routing lock is busy (`EscalateBusy`).

Abstracted: one appointment per person; leave and bookings are days, of which two do
not overlap; overtime counts requests of one unit each; a person has one rule, always
in force, for every type its delegate may decide and every unit its delegate may be named for
(`IsFor`; priorities, validity windows, types and units choose one rule in the code); policies do not change, and their escalation role
and depth are constants; the closing barrier, time accounts that do not exist and
employment that changed meanwhile are a rollback; absences that need no approval
(sickness, parental leave), shift swaps and audit rows are left out.

### Rosters

State: `roster`, `shift` and `on` (`shift_assignments`), at most one pending
SHIFT_SWAP workflow in `swap`, `booking` for bookings of shifts and others, `until`
for the dated terms of each appointment, `locked` for periods that are not OPEN.

A change of a shift first reads the shift outside of its transaction (`AskUpdate`,
`AskDelete`, `AskAssign`, `AskUnassign`): what it saw decides which locks it takes.
Then the transaction takes the closing barrier and the roster's lock, reads again,
takes the people's locks and checks (`Check...`, for a deletion `LockDelete` and
`CheckDelete`), and writes. A swap is approved by the
workflow component's decision: `ReadSwap` is its guard, `LockSwap` takes the closing
barrier of the shift as the guard saw it and the locks of the people, `ApplySwap`
checks employment and overlaps again and writes. `CheckBooking` and
`WriteBooking` are a booking that names a shift; `AppendTerm` ends somebody's terms
in a unit, `MovePeriod` locks and reopens a period.

`LockedPlanStays` has one exception, and it is the code's: the swap takes its barrier
from the shift that its guard read. When the shift is moved into a locked month's
days between the two, the swap passes (`Outdated`).

Abstracted: shift types, on-call flags, names, rest-time warnings that do not refuse,
and the routing of a swap's workflow (see Approval workflows).

### Terminals, HR and personnel fields

`EmploymentRecords` has what the integrations share: `terms` are the rows of
`employment_terms` with their appointment and person, `booking` the bookings,
`approved` the leave, `locked` the periods. An appointment lasts from its `start` to
its `end`; its terms lie within, follow each other without a gap, and may begin later
and end earlier. An operation that reads only behind its locks and writes at most one
table is one step.

Two operations read before their locks. `ReadTerm` takes the units to be checked from
the terms that reach past the new one's begin (`EmploymentManagementService.appendTerm`
reads the appointment and its terms outside of the transaction); `WriteTerm` locks the
periods of these units and its own as long as the *new* term lasts, reads the term to
cut again, and does not compare its unit. `ReadBooking` finds the appointment, if the
request names none, and `CheckBooking` resolves that appointment again.

`LockedRecordsStay` lets a person leave the population of a locked period only through
these two doors of `appendTerm`: the new term ends before the period begins, which was
then never asked for, or the unit that loses the person is not among those read before
the locks.

`TerminalImport`: `ReadBatch` resolves every record to an appointment before the
transaction; `LockBatch` takes the closing barrier and the people's locks, resolves
again and refuses the batch if anything differs; `WriteBatch` accepts the records
that meet neither leave nor bookings nor each other and stores the receipt. A batch
with a receipt is answered from it.

`PersonnelRecords`: one field (the name) stands for those a source may own.
`AskChange`, `CheckChange` and `WriteChange` are a request of a person with the
revision they saw; `CheckReview` and `WriteReview` its review; `CheckDelivery` and
`WriteDelivery` the reconciliation of a source's record with its acknowledgement of
pending changes; `CheckImport` and `WriteImport` the import of master data, which
also gives people without an appointment a legacy one. Deliveries are a set from
which any may come at any time and again: lost, repeated and overtaken.

Abstracted: how a row finds its person (by external id, then e-mail) is the person it
names; supervisors, roles, file formats, heartbeats, the log of runs; of what a term says
only its unit and its interval are kept. Reading the system clock ("the current term")
is a choice among the terms.

### Duty and project time

`OnCallDuty` and `ProjectTime` extend `EmploymentRecords` with more of what is
recorded of work, and `WorkRecords` composes them with bookings, new appointments and
terms, and closing periods. `rotation` and `deployment` are the on-call tables,
`member`, `effort` and `archived` those of projects, `now` is the clock that decides
which bookings have ended.

Each operation takes its locks and reads again behind them (`Check...`), then commits
(`Write...`). Planning duty takes the person's lock; a deployment takes the closing
barrier of the rotation's unit too and is also booked. Effort and memberships take
the locks of the person and the project. `CheckCorrection` is the decision that
approves a correction (see Approval workflows), here with the barrier of the old and
the new interval, the terms of both and the guard of allocated effort.
`AppendTermBeside` is `AppendTerm` with the rotations that `assertNoFutureRecords`
looks at.

`WorkAndEffortFit` speaks of a deployment and its rotation, not of a deployment and its
booking: a later correction may move the booking away, in the code too.

Abstracted: the category of a booking's time type (breaks and on-call time take no
effort), corrections of the time type alone, the hierarchy and managers of projects,
grants, notes. A deployment is booked only if the time type DEPLOYMENT exists, as it
does in every seeded database.

### Documents

State: `upload` is `document_uploads`, `versions` is `personnel_document_versions`,
`file` the object in the storage (`PARTIAL` while it is written), `uploader` the
request of each upload, `recovery` what each process's recovery remembers of its
page, `old` the intents older than the grace period of a day.

`Begin` commits the intent; `Open` and `Write` are the storage; `CheckIntent` and
`Commit` the transaction that locks the intent's row and the person, looks at both
again and adds the version. A recovery reads a page (`ReadPage`), claims an intent
in a transaction that skips locked rows (`Claim`), removes the file (`Discard`) and
marks it cleaned (`MarkClean`). An upload may stop or sleep for days at any point;
`RecoveryStops` and `ClaimUnheard` interrupt a recovery. Writing to a file that was
unlinked after it was opened writes to nothing.

### Lifecycle

State: one `template`, one automation `rule`, `unitOf` the unit of each appointment
on the day the rule counts from, `instance` and `task` with their `history`, `inbox`
the TASK_DUE notices, `automation` and `reminders` the two workers' cursors and
pages, `request` what the running transactions remember (`Transaction`, one shape for
each stage).

Editing and activating a template wait for its row; activating an instance takes the
person's lock and copies the definition; completing or reopening a task waits for the
row of that task (`CheckTask`), counts what it depends on (`CountTasks`) and commits
with its history (`CommitTask`), and the instance's status follows the tasks. The
automation worker reads a page of candidates, resolves the unit of each before the
transaction (`ResolveCandidate`), tries the person's lock (`LockCandidate`) and
activates (`CreateInstance`); a busy person and a failing candidate are passed over
and met again when the scan starts over. The reminder worker keeps its cursor when a
reminder fails.

Abstracted: an actor keeps the right to administer while a request runs; an
appointment's unit matters on its base day only; TASK_ASSIGNED notices, reading and
paging the inbox, titles and audit rows are left out.

### Leave accounts

State of `LeaveAccount`: `terms` are the dated terms of one appointment, `leave` the
status of each leave asked for, `adjusted` the leave adjustments of each year. The
balance is no state: the code calculates it whenever somebody asks, and so does
`Balance(y, asOf)`, from `LeaveLedger`. That module follows the code's functions:
`WorkingDays`, `Entitlement`, `CarriedOver`, `Spend` and `Allocate` (carry-over spent
leave by leave until the deadline), `Ledger`, and `AssignmentLedger` for a year with
several terms, with what a policy says about sharing it (`Shared`).

A term begins and ends at any instant of a day, a leave lasts whole days; the first
term may begin later than the appointment, the last may end before it. A day with two
terms or with none is where the balance becomes a refusal (`Refused`, the code's 409),
as are terms that differ without one policy that shares the year. `LeaveHistory`
keeps the rows that the last operation found, so that `BalanceMoves` can compare the
balances before and after it. Days of leave are exact in hundredths.

Abstracted: each operation holds the person's lock and is one step; closing periods,
routing and who decides belong to the modules above; absences that need no approval,
part-time quotas above a policy's own and holidays of several calendars are left out.

### The review of a month

`TimeRules` evaluates a sheet of intervals as `evaluateTimeRules` does: normalised and
merged work, overlaps, started minutes by day and category, pauses, breaks, rests and
limits. `PlanVsActual` counts who was there for a shift, with the index and the
backward search of the code. Both are functions of their inputs.

`MonthReview` feeds them with rows: `booked`, `leave`, undecided `corrections` and the
active `limits`. `Checklist(m)` is `generateClosingChecklist` with the queries of
`closing-checklist-metrics.ts`, each with its own bounds and scope: missing bookings,
open corrections and rule violations are errors, gaps, open leave and mismatched
rosters are warnings. `Ask` sends a sheet to the time engine directly.

Abstracted: days are equally long (no change to or from summer time), the zone of the
university is that of the month; balance anomalies and the coverage of accounts
(`ClosingPeriod` has these); target hours and their proration; the tick beside a
threshold.

## Runs

| Run | Question | Instance |
|---|---|---|
| `webhook_delivery` | is the delivery history of one event right over several jobs? | 2 processes, 2 endpoints in waves of one, 3 jobs |
| `webhook_recovery` | does only the owner settle, and does an accepted job complete? | 2 processes that may stall, 1 job of 2 events, 2 faults, fairness |
| `closing_books` | do closed books stay complete, move only by correction, and does the export show them? | the month of a unit inside the month of everyone, a person who may join, 2 requests |
| `hourly_scans` | is a due period locked, and an overdue request handled, although the scans skip and end early? | one scene each: 2 periods or 2 requests for leave, 2 scanners, 1 request slot, fairness |
| `workflow_approval` | is a request decided once, by its approver of that moment, and do effects and ordinary writes stay consistent? | 3 people; 1 workflow with rules of 2 people and 2 scans, or 2 workflows with 2 bookings on 2 days; 2 requests at a time |
| `roster_planning` | do plans stay consistent, staffed and, once locked, fixed? | 2 people with 3 appointments, 2 units, 2 rosters, 2 shifts, 1 period, 2 requests at a time |
| `integrations` | do records fit the employment they name, and do all writers of a name agree? | 3 people, 2 units with a closing period each, 2 batches, 2 terminals, 2 imports, 2 new terms, 4 deliveries, 2 requests at a time |
| `work_records` | do duty, bookings and effort fit the terms, rotations and memberships they lie in, and does what is closed take nothing? | 1 person with terms in up to 2 units, 1 period, 1 rotation, 2 projects, 2 requests at a time |
| `documents` | do versions keep their files, and do abandoned files go? | 1 document, 2 uploads, 2 recoveries, 2 faults, fairness |
| `lifecycle` | do instances follow the template and are the due and the overdue reached? | 2 appointments due on different days, 2 tasks, 2 requests at a time, 1 fault, fairness |
| `calculations` | do balances, sheets, checklists and staffing say what the rows say? | one scene each: an appointment over 3 years; any sheet of up to 3 intervals; 3 people in a month of 2 units |
| `lifecycle_order` | is a task that is done always preceded by what it needs? (expected violation) | as before, on one day, 3 arrivals |

Bounds and why they are enough:

* Two processes or request slots are enough for every race of the code: each
  check protects one transaction against one other, and no lock or lease is
  shared by three parties. Two scanners compete in `hourly_scans`.
* Webhook: `MaxClock` is the end of time, `Horizon` the last moment of new jobs
  and faults. A lease of 1 or 2 intervals expires within it several times, so
  that takeovers after takeovers occur. `MaxAttempts` 2 gives a retry and a last
  attempt; `NumJobs` 3 lets an event fail, retry and be exhausted. The clock stops
  at `MaxClock`, therefore these configurations do not check deadlock.
* Closing: twenty minutes are no whole number of hundredths, so that rounding shows:
  two bookings of them (`MaxMinutes`) make 0.67 hours, two corrections 0.66. Nobody
  is employed at the start of `closing_books`, so that hiring races with everything.
  The locks and stages, not the number of bookings, make the cases.
  `ExportShowsTheBooks` leaves out a correction through *another* period of the same
  person, whose lock is not the export's.
* Workflows: the compare-and-set protects one row, so one workflow shows its races;
  the effects need two of the same person. Three people give a lead, a person of HR
  and a requester who may be either, chains of two delegates and cycles of two.
  `Delegator` bounds whose rules change. The two questions have one configuration and
  two scenes, which its constraint separates: `RoutingScene` has one workflow, no
  bookings and everything else, `EffectsScene` two workflows and bookings without
  rules, due dates and HR. States outside of both are not followed. All workflows of
  the bound may be decided, so that this configuration does not check deadlock.
* Work records: four instants, of which the third begins the month and possible new
  terms; bookings before it and up to it, whose ends count as inside the month. A
  rotation can lose its second half or grow beyond the terms. Effort of one or two
  instants meets bookings of one or two. `MaxWrites` 6 lets two operations race after
  a booking, its effort, its release and a membership.
* Rosters: Ann's appointments in both units let two rosters want her at once, and her
  terms in one may end in between; the month covers the later of two shift intervals
  in one unit. `MaxRecords` 2 bounds shifts, bookings and swaps together.
* Integrations: days have two instants, so that leave until midnight and bookings
  after it differ. Of the two terms that may follow, the one in unit B ends before the
  month of A and overlaps the month of B, the one in unit A begins within it and never
  ends: appended one after the other, and at once, they make both doors of
  `LockedRecordsStay` occur. Bookings before, after and through the month, one of them open
  ended; batches that repeat a record, name an unknown time type or a person without
  an appointment; deliveries that follow each other, one of a second source. At most
  `MaxWrites` 3 transactions commit, enough for two that race and one that set the
  scene.
* Documents: a page of one upload makes a recovery read again after each; two
  uploads on the same version make one of them lose. `MaxFaults` 2 lets a recovery
  stop after an upload did.
* Lifecycle: a page of one candidate, with ids in another order than the due days,
  makes a cursor pass somebody who becomes due behind it. Two requests meet on one
  task or on two that depend on each other. `MaxHistory` 2 is done and reopened.
* Leave: years of two months of three days and weeks of three, two instants in a day.
  The first term lasts as long as the appointment, or begins a day late and ends early.
  Terms that may follow begin with a day or within one, in the middle and at the turn
  of a year, and one ends before the appointment does; they change hours, days, policy
  or the unit only. Leave lies around the
  deadline, across it, across years, and partly on free days. `MaxAccountWrites` 4 is a
  request and its decision, and two operations more.
* Month: minutes of two instants, hours of three minutes, days of three hours, so that
  a start within a minute and work across midnight occur. The month begins a minute
  after a day does, as a month in UTC begins within a day of Berlin. Ben has two
  appointments and changes units within the month, and one of his shifts is in the
  other unit. Bookings nest, touch, overlap across people, are open or reach past the
  month. `MaxWrites` 5 is a month of everyone without errors, which takes
  three operations, and two more that correct or spoil it.
* Sheets: all sequences of up to three of eight intervals, among them an invalid one,
  one that covers others and one over two days.
* `MaxArrivals` in `MCHourlyScans` and `MCLifecycle` counts
  requests and failed scans: see fairness.
* Symmetry is used over interchangeable processes, slots, rows and endpoints, in runs
  without temporal properties other than box formulas. A scan order or an escalation
  order breaks the symmetry of its members, which are then not permuted.
* Each module has one type invariant. Those of `WebhookDispatch`, `ClosingPeriod`,
  `WorkflowApproval`, `RosterPlanning`, `Documents`, `Lifecycle`, `WorkRecords`,
  `LeaveAccount` and `MonthReview` are theorems, that of `Integrations` is part of the
  invariant that its theorems use. The runs do not repeat them.

## Fairness

* Webhook: weak fairness of every step of a worker and of time. The code
  justifies it: the worker's loop runs on a timer of each process and restarts
  after every failure. Crashes and failing statements end at `Horizon`, which
  stands for "often enough nothing fails"; without it no finite retry policy
  terminates.
* Closing: weak fairness of each request's progress or rollback (a database
  transaction ends or times out) and of the scan (an hourly timer). Arrivals are
  not fair. A busy lock disables a scan step, and requests may arrive for ever at
  the wrong instant, so `MCHourlyScans` counts arrivals and asks whether the
  scan succeeds after the last of them.
* Workflows: weak fairness of each request's progress or rollback and of each scan,
  as for the closing. `MCHourlyScans` counts arrivals and failed scans: if
  requests met every scan for ever, a workflow might wait for ever.
* Documents: a day passes; the transaction that commits a version ends; a recovery
  polls every thirty seconds. An upload is not fair: it may stop for good anywhere
  else.
* Lifecycle: requests that began end, and both workers poll. Days, hires and the rule
  are not fair. Arrivals are counted, for the person's lock may be busy whenever the
  worker comes; the properties are `[]<>` because a move can make an appointment due
  again at any time.

## Proofs

Every theorem holds for any sets of actors and rows and any bounds,
under the named assumptions of the module it is about and, where it says so, one more.
All safety proofs have the same shape. `IInv` is the inductive invariant, TLC has
checked it on a small instance before it was proved, one lemma per action shows
that it is kept, and a last step combines them. The property itself is hardly ever
inductive: what makes a write right is something its transaction read several steps
ago. So every `IInv` says, for each kind of transaction and each of its stages, what it
holds and what is still true of what it remembers (`Sound`, `Rests`, `Remembers`).
With locks this is an argument of rely and guarantee: a step changes only what belongs
to the locks of its transaction (`Touches`, `Changes`, `Same`), locks have one holder
(`Exclusive`), therefore the memory of all others stays true.

**Dispatcher** (`WebhookDispatchProofs`; `WebhookAssumption`)

* `TypeCorrect`; `NoItemIsStranded`: an undecided item of an active job belongs to an
  event that is still PENDING or FAILED; `Fencing`: an item gets an outcome once, from
  the process that took the job over last, while its lease runs.
* `NumbersAreTrue` (the counters of a job are the cardinalities of its outcomes),
  `HistoryIsTrue`, `ClosedStays`, `DeliveredReachesAll`: see `JobAccounting`,
  `DeliveryHistory`, `ClosedEventsStay` and `DeliveredToAll`.
* `PromiseIsKept`: the dispatcher implements `DispatchPromise`; each action is mapped
  to a step of the promise or to a stutter.
* `OneSender`: if no process stalls, only one posts an event at a time.

`UndecidedIsDispatchable` is not inductive, because a worker decides an item from a
snapshot it took several statements ago. `IInv` adds that at most one job is active,
that items and outcomes are of the batch, and what a worker remembers (`Remembers`).
`HInv` adds to it that jobs without an owner are released, that the counters count
(`Counted`), that the attempts of an event are the jobs that spent one on it
(`Spent`), that delivery records fit, and what the memory of a worker is worth for the
history (`Knows`). `AInv` adds that the sender is the owner (`Alone`), from the
assumption `~MayStall`.

**Closing** (`ClosingPeriodProofs`)

* `ClosingTyped`; `LocksExclude`; `BooksMoveByCorrection` and `ExportsAreTrue`
  (`LockedBooksMoveByCorrection`, `ExportShowsTheBooks`).
* `ClosedStaysComplete` (`ClosedIsComplete`), for bookings of any length. An account is
  half a hundredth away from the bookings when it is calculated, and each correction
  brings at most 303 six-hundredths of a hundredth more (`IncreaseErrs`): n of them keep
  the account within n hundredths (`NearIsWithin`).
* `PromiseIsKept`: the closing implements `ClosingPromise`.

The invariant has the knowledge of writers, preparations, approvals, exports and
corrections under their locks, the signatures of each status (`Signed`) and what a
period that is closed shows (`Closed`).

**Workflows** (`WorkflowApprovalProofs`)

* `WorkflowsTyped`; `EffectsAreTrue` (`EffectsFollowWorkflow`: absences, bookings and
  overtime are what the approved workflows say); `DaysAreSingle` (`NothingOverlaps`);
  `ApproversDecide` (`DecidedByItsApprover`).
* `OthersApprove` (`NoOwnApproval`): of employees and leads, only those who are recorded
  as their own supervisor are asked to approve what they requested.

`RowSound` relates status, approver and trail of a row, `SameStory` what a decision
remembers to the row it will update, and overtime is the cardinality of what was
granted. Routing prefers whoever joined first, a least number, which exists because the order
of the natural numbers is well-founded; of the chain of delegates the proof needs only
the test that the code makes of its end.

**Rosters** (`RosterPlanningProofs`)

* `RosterTyped`, `PlansStayFeasible`, `PublishedStaysStaffed`, `BookersArePlanned`.
* `LockedPlansHold` (`LockedPlanStays`): what is planned in a locked period stays. The
  swap whose shift was moved behind its guard (`Outdated`) is proved to be the only
  exception.

A transaction knows the shifts of the rosters and the plans of the people it holds
(`Changes`, `Undisturbed`); publication and swap also need that staff are finite sets,
for staffing is a cardinality.

**Integrations** (`IntegrationsProofs`)

* `BookingsLieInAppointments` (`BookedWhereEmployed`), `BookingsTakeFreeTime`
  (`BookedOnFreeTime`), `LockedRecordsAlwaysStay` (`LockedRecordsStay`),
  `ProfilesAlwaysAgree` (`ProfilesAgree`), `ReviewsAreOfWhatWasSeen`
  (`ReviewedIsWhatWasSeen`).

`LockedRecordsStay` excepts the two ways in which a new term takes somebody out of a
locked period without a check (it ends before the period, or the terms of the
appointment changed between the first read and the locks); that nothing else does is
what is proved. A fenced booking keeps its terms because whoever changes the terms of
a person needs the person's lock, and whoever locks a period needs the period's
(`Fenced`, `Same`). The accepted records of a batch are defined by a choice of what a sequential pass over
the batch accepts. That this choice exists needs induction over the batch;
`LeastNatural` and `OneByOne` get it from the well-foundedness of inclusion between
finite sets, a fact of the library without an operator as parameter.

**Documents** (`DocumentsAndLifecycleProofs`): `DocumentsTyped`, `FilesAgree`
(`FilesAndVersionsAgree`: a version has its whole file and a file without a version
has an intent that leads to it). `Sound` relates row, file and request of an upload,
`Certain` says what a recovery may rely on although it holds no lock between its steps.

**Lifecycle** (the same module): `LifecycleTyped`, `CasesStaySound`
(`CasesAreSound`). The rows of the template and of a task have one holder
(`TemplateHeld`, `TaskHeld`), an instance follows the active template, and the side of
a task is the parity of its history (`TaskTurns`).

**Work records** (`WorkRecordsProofs`)

* `WorkRecordsTyped`; `WorkAlwaysFits` (`WorkAndEffortFit`); `ClosedTakesNothingMore`
  (`ClosedTakesNothing`).

A transaction relies on the terms, bookings and rotations of the people it holds, on
the periods it has found open, and on the members and effort of its project (`Rests`;
`EmploymentStays`, `DutyStays`, `ProjectStays` and `Undisturbed` say which step of
another may disturb which of them). A correction may shorten or move a booking because
nothing counts of it then and nobody can allocate while its person's lock is held. The
invariant also has one row of effort for each booking and project. Its sums
(`MapThenSumSet`) are a recursive function over sets that takes out a chosen element
each time; that the function exists and that the choice does not matter is shown with
a smallest set for which it would fail, which inclusion, well-founded on finite sets,
must have.

**Calculations** (`CalculationsProofs`)

* `MonthTyped`; `MinutesAlwaysCountOnce` (`MinutesCountOnce`), for every sheet;
  `CleanMonthsAreClean` (`CleanMonth`); `CoverageStaysExact` (`CoverageIsExact`), for
  every history of bookings and corrections.

Here the steps of `Next` are simple and the functions are not: the theorems compare
folds over sorted sequences with sets of instants. The invariant is short: bookings
lie in an appointment (`Resolves`), those of a person that are valid do not overlap,
corrections keep to that. Four kinds of lemma carry the rest.

* Induction without an operator as parameter: `SmallestSet` (a set of finite sets has a
  smallest member, since inclusion is well-founded on them), from it `GrowingSets` and
  `CountingUp` for sets and numbers that are properties of a growing prefix.
* Ordering: `InOrder` lists each element of a finite set once, each behind those that
  come before it, for every strict total order. Therefore `InOrder` is defined by ranks:
  TLC's `SortSeq`, which the models used before, has no definition that a proof could
  expand.
* Folds: of each fold the lemma states what it has found after every prefix (`Merged`:
  intervals that lie apart and fill the same instants; `Periods`; the ends that
  `Reached` carries along), as a predicate on sequence and result, and then that one
  more element keeps it.
* Counting: the union of disjoint sets of minutes has the sum of their cardinalities
  (`CardinalityOfUnion`, `SumStep`), an interval of n instants starts n divided by
  `Minute` minutes, rounded up.

Assumed of the constants is what the database and the callers see to: minutes, hours
and days are positive and an hour has less than two hundred minutes, so that two
decimals tell whole minutes apart (`ClockTicks`), breaks and priorities are natural
numbers (`RulesAreRules`), shifts lie in their rosters and are not empty
(`ShiftsAreProper`), appointments and terms are finite and do not overlap.

**Leave** (the same module; `CalendarHasDays`, `RefusalIsNoAnswer`, `BoundsOfLeave`,
`TermsLast`, `TermsAreTerms`, `LeaveIsProper`, `AdjustmentsAreAmounts`)

* `AccountTyped` (`AccountTypeOK`); `LeaveIsExact` (`LedgerIsExact`), for every year and
  every day of asking; `OperationsMoveBalances` (`BalanceMoves`), of `HistorySpec`.

The inductive invariant `AccountWell` says of the rows what the writers see to: no two
terms share an instant, and leave that is requested or approved does not overlap.
Nothing is said of gaps before the first term or behind the last. From it follows what
the calculation needs.

* A year is `Clear` if each of its employed days has exactly one term. Then the pieces
  that the ledger cuts from approved leave, one for each term and year, lie apart and
  begin on different days (`PiecesLieApart`, `UsageIsDated`), so that the days paid are
  the working days of leave, counted once (`PaidByDays`). In a year that is not clear
  the code's own test of coverage finds the day that has no term, or two, and refuses
  (`CoversIs`, `UnclearIs`).
* `Spend` is a fold over leave in order of days, which may forfeit in the middle.
  `Stands` says what it has found after every prefix, and at the end `Allocate` has a
  closed form: used is the lesser of what was carried over and the leave that began in
  time, forfeited is the rest once the deadline is over (`AllottedIs`, `AllocateIs`).
* The balance at the end of a year has a closed form, too (`EndOf`): what the year
  grants, what was adjusted, and `Gain`, carry-over less leave. `Gain` grows with
  what was carried over, by at most as much (`GainOfMore`): therefore an operation in one
  year moves the next by no more than it moved its own (`LeaveMoves`,
  `AdjustmentMoves`).
* A term that is appended cuts the last one short, and may outlast it or not. The days
  before it keep their term (`AppendedDays`). When both say the same about leave and both
  balances answer, the days of the one are those of the two parts, for other terms have
  the same days before and after (`TermsAreKept`): the shares of the parts add up to
  that of the one (`SharesAddUp`, `SharesAreKept`), and pieces of leave stay whole
  because no standing leave reaches into the new term (`UsageIsKept`).

For the history the invariant adds that the rows now follow from the rows before by one
of the four kinds of change (`Follows`), so that the theorem is about two `AccountWell`
states.

Assumed is that a calendar has months, weeks and days, full time is positive, the
refusal is no balance, the appointment and each term end behind their beginning and
within the years that are looked at, terms and policies have the columns and ranges of
their tables, leave ends on or after the day it begins, the leave there is at first does not
overlap, and adjustments are whole hundredths.

Every safety and action property of the passing runs is stated by a theorem. What stays
model-checked, and why:

* Liveness (`DueIsLocked`, `OverdueIsHandled`, `ScansCatchUp`, `OrphansAreRemoved`,
  the completion of jobs) and everything else with `ENABLED`: the installed provers do
  not handle it.

## What the checks show

All properties of the passing runs hold on their instances.

One documented statement does not hold (`lifecycle_order`).
`docs/UNIVERSITY-HR.md:102` says that a blocked task cannot be completed, and a
prerequisite cannot be reopened after a dependent task is complete. `complete()`
(`lifecycle-task.service.ts:96`) locks the row of its own task and counts the others
without a lock. One request completes a task while another reopens the task it needs:
both look before either commits, both pass, and the dependent is DONE while its
prerequisite is OPEN. The status of the instance, which each computes from what it
read, may likewise say COMPLETE with an open task. A lock on the instance's row would
serialise the two.

Facts the models make visible and no property decides:

* A correction after the close keeps the lead's signature, and an approved correction
  workflow is never used up.
* Preparation and the completeness check round the sum of a person's bookings, a
  correction adds its own hours, rounded (`closing-correction.helper.ts:347`). Two
  corrections of twenty minutes store 0.66 hours where the bookings give 0.67, which is
  why `Matches` allows an EXPORTED period one hundredth per correction; the next approval
  is refused until the period is reopened and prepared again.
* The completeness check takes the lock of its own period. A correction through
  another period that covers the same person takes the other's
  (`closing-correction.helper.ts:183`, `closing-lifecycle.helper.ts:228`), so that a
  booking may be corrected between the check and the close. No property holds without
  this exception, which is `CorrectedElsewhere`.
* Nothing keeps people from being recorded as their own supervisor
  (`employment-management.service.ts:283`, `hr-import-reconciliation.helper.ts:304`):
  their requests are routed to themselves then, which `NoOwnApproval` excepts.
* With no team lead, HR's own requests may be routed to the requester
  (`NoOwnApproval` speaks of the others); a supervisor whose role may not decide the
  type waits for the escalation; an escalation that finds nobody leaves the workflow
  ESCALATED with its old approver.
* A swap may change a locked plan when its shift was moved while it was approved
  (see Rosters).
* A terminal's booking after the midnight that begins a last day of leave is taken,
  while the days of leave count in full elsewhere (`BookedOnFreeTime`).
* The lifecycle worker compares the unit with the rule before its transaction: a move
  in between starts the rule's instance for somebody of another unit.
* A term that begins within a day, and a first or last term that leaves days of the
  appointment uncovered, make the balances of that year and of the next a 409, and leave
  on that day can no longer be cancelled (`leave-balance.helper.ts:53`,
  `assignment-leave-ledger.ts:114`). `LedgerIsExact` says exactly when this happens.
* A new term takes people out of a locked month in two ways (`LockedRecordsStay`). It may
  end before the month begins, in which case the term it cut short used to cover the
  month and nobody asks whether it is locked (`employment-management.service.ts:259`).
  Or the last term was replaced between the read that finds its unit (line 193) and the
  locks (line 225), and the unit that now loses the person is not among those asked for.
* What was left of a year is calculated as if nothing had been carried over into it
  (`leave-balance.helper.ts:306`).
* The checklist looks for short rests among the bookings that touch its month
  (`closing-checklist-metrics.ts:134`): a rest too short between the last evening of
  one month and the first morning of the next is reported by neither. `CleanMonth`
  speaks of the bookings that touch the month. It also counts corrections by the month
  in which they were asked for, not by the one they are about (line 212).
* A break is demanded from six hours of work on (`time-engine/break-rules.ts:15`, `>=`),
  where `packages/policy/src/rules/break-rules.ts:7` says "more than 6h".
* Work hours are rounded to two decimals before they are compared with a limit that is
  not (`closing-checklist-rules.ts:102`).
* Bookings that touch within a minute count this minute twice when one starts it and
  the other starts in it; `MinutesCountOnce` allows less than one minute more for each
  interval, and none when all begin and end with a minute.
* A month ends at 23:59:59 (`closing-period-range.ts`): an instant of the last second
  belongs to no month.
* `buildPlanVsActualForRoster` of `closing-checklist.helper.ts` has no caller.

The compare-and-set on status, approver and trail is what makes a decision the
approver's own, and the person lock that the guards take before it is what keeps
approved overtime and corrected bookings right.

## Plan

1. An abstract specification of one request for approval, refined by
   `WorkflowApproval`; absences that need no approval; the closing barrier by
   composition with `ClosingPeriod`.
2. Balance anomalies and target hours, with `ClosingPeriod` and `MonthReview` over the
   same rows.

Outside this method: liveness and `ENABLED` are model-checked only, since the
installed provers do not handle them.

## Not modelled

* Target hours and their proration, the changes to and from summer time, and
  surcharges of pay beyond the category of a minute.
* Reporting, audit trail, policy catalogue: reads and appends without behaviour of
  their own.
* Contracts, the web application, authentication, HTTP plumbing and the scripts of
  operators: no state that the modelled parts share.
