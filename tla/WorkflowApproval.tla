--------------------------- MODULE WorkflowApproval ---------------------------
(***************************************************************************)
(* Approval workflows of cueq: a request for leave, for a corrected booking, *)
(* for overtime or for a correction after the close is routed to an          *)
(* approver, may be delegated, withdrawn or escalated, and is decided; the   *)
(* decision changes an absence, a booking or an overtime account in the same *)
(* transaction.                                                              *)
(*                                                                           *)
(* A process runs one database transaction at a time.  Advisory locks (of    *)
(* the routing and of people) are tried and never waited for; the row of a   *)
(* workflow is locked by the statement that updates it, and others wait for  *)
(* it.  All of them are dropped when the transaction ends.  A statement      *)
(* reads what is committed when it runs, and a transaction's writes appear   *)
(* when it commits.                                                          *)
(***************************************************************************)
EXTENDS Naturals, Sequences, FiniteSets

CONSTANTS
  Person, RoleOf, UnitOf,
  Supervisor,      \* the supervisor of each person's appointment, or None
  Joined,          \* the people in the order in which they were created
  None,            \* a null column
  NumWorkflows,    \* bound: workflows, numbered as they are created
  Type,            \* the workflow types that are requested
  Delegator,       \* bound: the people whose delegation rules change
  Day,             \* days of leave and of bookings; two days do not overlap
  Booking, BookedBy,
  EscalationRole,  \* the first escalation role of the active policy
  MaxDepth,        \* the delegation depth of the active policy
  Routing,         \* the lock of routing, delegation rules and policies
  Request,         \* slots for HTTP requests in flight
  Scanner          \* the hourly escalation scan of each API process

Workflow == 1 .. NumWorkflows
LockKey  == {Routing} \cup Person \cup Workflow
Process  == Request \cup Scanner

Role == {"EMPLOYEE", "TEAM_LEAD", "HR", "ADMIN"}

ASSUME PeopleAreKnown ==
  /\ RoleOf \in [Person -> Role]
  /\ Supervisor \in [Person -> Person \cup {None}]
  /\ Joined \in Seq(Person)
  /\ \A x \in Person : \E i \in DOMAIN Joined : Joined[i] = x
  /\ None \notin Person /\ Delegator \subseteq Person
ASSUME BookingsAreOwned == BookedBy \in [Booking -> Person] /\ None \notin Booking \cup Day
ASSUME LocksDiffer == Routing \notin Person \cup Workflow /\ Person \cap Workflow = {}
ASSUME ProcessesDiffer == Request \cap Scanner = {}
ASSUME NumbersAreSmall == NumWorkflows \in Nat /\ MaxDepth \in Nat \ {0}

VARIABLES
  workflow,  \* the rows of workflow_instances
  absence,   \* the status of the absence each leave request stands for
  bookedAt,  \* the day of each booking, None while there is no such row
  overtime,  \* approved overtime of each person's account, in requests
  rule,      \* the delegate of each person's delegation rule, or None
  late,      \* the workflows whose due date has passed
  tx,        \* the transaction of each process
  queue      \* candidates the running scan has still to visit

data == <<absence, bookedAt, overtime>>
vars == <<workflow, data, rule, late, tx, queue>>

-----------------------------------------------------------------------------
(* Data.                                                                    *)

\* The role matrix of workflow-routing-policy.ts.
Allowed == [LEAVE_REQUEST         |-> {"TEAM_LEAD", "HR", "ADMIN"},
            BOOKING_CORRECTION    |-> {"TEAM_LEAD", "HR", "ADMIN"},
            OVERTIME_APPROVAL     |-> {"TEAM_LEAD", "HR", "ADMIN"},
            POST_CLOSE_CORRECTION |-> {"HR", "ADMIN"}]
MayDecide(x, type) == RoleOf[x] \in Allowed[type]
HrLike(x) == RoleOf[x] \in {"HR", "ADMIN"}
MayActFor(actor, x) == actor = x \/ HrLike(actor)

Open    == {"PENDING", "ESCALATED"}
Final   == {"APPROVED", "REJECTED", "CANCELLED"}
Outcome == [APPROVE |-> "APPROVED", REJECT |-> "REJECTED", CANCEL |-> "CANCELLED"]

\* The trail is a list in the code; nobody is on it twice and it only grows, so
\* its members tell everything.
Row == [status : {"NONE"} \cup Open \cup Final, type : DOMAIN Allowed \cup {"NONE"},
        requester : Person \cup {None}, of : Person \cup {None},
        approver : Person \cup {None}, trail : SUBSET Person,
        day : Day \cup {None}, booking : Booking \cup {None}]
NoRow == [status |-> "NONE", type |-> "NONE", requester |-> None, of |-> None,
          approver |-> None, trail |-> {}, day |-> None, booking |-> None]

Stage == {"begin", "read", "applied"}
Tx == [op : {"NONE", "CREATE", "DECIDE", "WITHDRAW", "BOOK", "ESCALATE"}, stage : Stage,
       id : Workflow \cup {0}, action : DOMAIN Outcome \cup {"DELEGATE", "NONE"},
       actor : Person \cup {None}, to : Person \cup {None}, holds : SUBSET LockKey,
       row : Row, hours : Nat]
Idle == [op |-> "NONE", stage |-> "begin", id |-> 0, action |-> "NONE", actor |-> None,
         to |-> None, holds |-> {}, row |-> NoRow, hours |-> 0]

AbsenceStatus == {"NONE", "REQUESTED", "APPROVED", "REJECTED", "CANCELLED"}

Init ==
  /\ workflow = [w \in Workflow |-> NoRow]
  /\ absence = [w \in Workflow |-> "NONE"]
  /\ bookedAt = [b \in Booking |-> None]
  /\ overtime = [x \in Person |-> 0]
  /\ rule = [x \in Person |-> None]
  /\ late = {}
  /\ tx = [s \in Process |-> Idle]
  /\ queue = [c \in Scanner |-> {}]

Created == {w \in Workflow : workflow[w].status # "NONE"}
Least(W) == CHOOSE w \in W : \A v \in W : w <= v

\* Absences that block a day, and bookings that do.
OffOn(x, d) == \E w \in Created : /\ workflow[w].of = x /\ workflow[w].day = d
                                 /\ absence[w] \in {"REQUESTED", "APPROVED"}
BookedOn(x, d, others) == \E b \in others : BookedBy[b] = x /\ bookedAt[b] = d

-----------------------------------------------------------------------------
(* Transactions.                                                            *)

Free(keys) == \A s \in Process : tx[s].holds \cap keys = {}
Ends(s) == tx' = [tx EXCEPT ![s] = Idle]

\* A lock is busy, a check fails, the transaction times out or its process
\* stops: nothing is written.
Rollback(s) ==
  /\ tx[s].op # "NONE"
  /\ Ends(s)
  /\ UNCHANGED <<workflow, data, rule, late, queue>>

-----------------------------------------------------------------------------
(* Routing.                                                                 *)

Earliest(people) ==
  LET at == {i \in DOMAIN Joined : Joined[i] \in people}
  IN IF at = {} THEN None ELSE Joined[Least(at)]

\* firstPersonByRoles: someone of the unit, else someone of any unit.
FirstPerson(roles, units, excluded) ==
  LET all  == {x \in Person : RoleOf[x] \in roles} \ excluded
      here == {x \in all : UnitOf[x] \in units}
  IN IF here # {} THEN Earliest(here) ELSE Earliest(all)

\* resolveBaseApprover.  HR as the last resort may be the requester's own.
BaseApprover(type, requester, preferred, unit) ==
  LET lead == FirstPerson({"TEAM_LEAD"}, {unit}, {requester})
  IN IF preferred # None THEN preferred
     ELSE IF type = "POST_CLOSE_CORRECTION" THEN FirstPerson({"HR", "ADMIN"}, {}, {requester})
     ELSE IF lead # None THEN lead
     ELSE FirstPerson({"HR", "ADMIN"}, {unit}, {})

\* A rule of x that names y is for requests from anywhere if y is of x's unit or
\* of HR, else for those from y's unit: a rule for another unit names someone of it.
IsFor(x, y, unit) == UnitOf[y] \in {UnitOf[x], unit} \/ HrLike(y)

\* The chain of delegates that the active rules give for requests from the unit,
\* as far as their roles may decide the type: the n-th delegate, or None.
Chain(type, primary, unit) ==
  LET chain[n \in 0 .. MaxDepth] ==
        IF n = 0 THEN primary
        ELSE LET x == chain[n - 1] IN
             IF /\ x # None
                /\ rule[x] # None
                /\ IsFor(x, rule[x], unit)
                /\ MayDecide(rule[x], type)
             THEN rule[x] ELSE None
  IN chain

\* Mutant: the chain is followed although it leads to the requester.
Delegated_Requester(type, primary, requester, unit) ==
  LET chain == Chain(type, primary, unit)
      fits == {n \in 1 .. MaxDepth - 1 :
                 /\ chain[n] # None
                 /\ \A m \in 0 .. n - 1 : chain[m] # chain[n]}
  IN IF fits = {} THEN primary ELSE chain[Least(fits)]

\* resolveDelegation: the first delegate of the chain who is new in it and not
\* the requester; with none, the primary approver.
Delegated(type, primary, requester, unit) ==
  LET chain == Chain(type, primary, unit)
      fits == {n \in 1 .. MaxDepth - 1 :
                 /\ chain[n] \in Person \ {requester}
                 /\ \A m \in 0 .. n - 1 : chain[m] # chain[n]}
  IN IF fits = {} THEN primary ELSE chain[Least(fits)]

Routed(type, requester, preferred, of) ==
  LET base == BaseApprover(type, requester, preferred, UnitOf[of])
  IN IF base = None THEN None ELSE Delegated(type, base, requester, UnitOf[of])

\* A delegation rule is written, replaced or removed.  Its transaction reads
\* nothing that is not behind its locks.
WriteRule(x, y) ==
  /\ x # y /\ Free({Routing, x, y})
  /\ \E type \in Type : MayDecide(y, type)
  /\ rule' = [rule EXCEPT ![x] = y]
  /\ UNCHANGED <<workflow, data, late, tx, queue>>

DeleteRule(x) ==
  /\ Free({Routing}) /\ rule[x] # None
  /\ rule' = [rule EXCEPT ![x] = None]
  /\ UNCHANGED <<workflow, data, late, tx, queue>>

-----------------------------------------------------------------------------
(* Requests.                                                                *)

\* The routing is locked and read, then the person, then what blocks the request.
Asks(s, type, requester, of, preferred, day, booking, keys) ==
  LET approver == Routed(type, requester, preferred, of) IN
  /\ type \in Type
  /\ Created # Workflow
  /\ tx[s].op = "NONE" /\ Free({Routing} \cup keys)
  /\ tx' = [tx EXCEPT ![s] =
       [Idle EXCEPT !.op = "CREATE", !.stage = "read", !.holds = {Routing} \cup keys,
                    !.row = [status |-> "PENDING", type |-> type, requester |-> requester,
                             of |-> of, approver |-> approver, trail |-> {approver} \ {None},
                             day |-> day, booking |-> booking]]]
  /\ UNCHANGED <<workflow, data, rule, late, queue>>

AskLeave(s, x, d) ==
  /\ ~ OffOn(x, d)
  /\ Asks(s, "LEAVE_REQUEST", x, x, Supervisor[x], d, None, {x})

\* The owner's supervisor is asked only if the owner asks.
AskCorrection(s, actor, b, d) ==
  LET x == BookedBy[b] IN
  /\ bookedAt[b] # None /\ MayActFor(actor, x)
  /\ Asks(s, "BOOKING_CORRECTION", actor, x, IF actor = x THEN Supervisor[x] ELSE None, d, b, {x})

AskOvertime(s, actor, x) ==
  /\ MayActFor(actor, x)
  /\ Asks(s, "OVERTIME_APPROVAL", actor, x, Supervisor[x], None, None, {x})

\* Asked for by postCloseCorrection of the closing module.
AskPostClose(s, actor) ==
  /\ HrLike(actor)
  /\ Asks(s, "POST_CLOSE_CORRECTION", actor, actor, None, None, None, {})

Create(s) ==
  LET w == Least(Workflow \ Created) IN
  /\ tx[s].op = "CREATE"
  /\ workflow' = [workflow EXCEPT ![w] = tx[s].row]
  /\ absence' = [absence EXCEPT ![w] = IF tx[s].row.type = "LEAVE_REQUEST" THEN "REQUESTED"
                                                                          ELSE "NONE"]
  /\ Ends(s)
  /\ UNCHANGED <<bookedAt, overtime, rule, late, queue>>

\* An ordinary booking takes the person's lock and looks for an overlap.
Book(s, b, d) ==
  /\ bookedAt[b] = None /\ ~ BookedOn(BookedBy[b], d, Booking)
  /\ tx[s].op = "NONE" /\ Free({BookedBy[b]})
  /\ tx' = [tx EXCEPT ![s] = [Idle EXCEPT !.op = "BOOK", !.stage = "read",
              !.holds = {BookedBy[b]}, !.row = [NoRow EXCEPT !.booking = b, !.day = d]]]
  /\ UNCHANGED <<workflow, data, rule, late, queue>>

WriteBooking(s) ==
  /\ tx[s].op = "BOOK"
  /\ bookedAt' = [bookedAt EXCEPT ![tx[s].row.booking] = tx[s].row.day]
  /\ Ends(s)
  /\ UNCHANGED <<workflow, absence, overtime, rule, late, queue>>

-----------------------------------------------------------------------------
(* Decisions.                                                               *)

\* The compare-and-set of every change of a workflow.
Same(w, row) ==
  /\ workflow[w].status = row.status
  /\ workflow[w].approver = row.approver
  /\ workflow[w].trail = row.trail

\* Mutant: only decisions about absences lock the person.
GuardKeys_LeaveOnly(row, action) ==
  IF action \in DOMAIN Outcome /\ row.type = "LEAVE_REQUEST" THEN {row.of} ELSE {}

\* prepareDecisionGuards: the person whose records the decision changes.
GuardKeys(row, action) ==
  IF \/ action = "APPROVE" /\ row.type # "POST_CLOSE_CORRECTION"
     \/ action \in {"REJECT", "CANCEL"} /\ row.type = "LEAVE_REQUEST"
  THEN {row.of} ELSE {}

MayAct(row, action, actor) ==
  IF action = "CANCEL" THEN actor = row.requester
  ELSE /\ actor = row.approver
       /\ MayDecide(actor, row.type)
       /\ action = "APPROVE" /\ row.type = "POST_CLOSE_CORRECTION" => actor # row.requester

\* validateInlineDelegation.
MayDelegate(row, actor, to) ==
  /\ to \notin {actor, row.requester}
  /\ MayDecide(to, row.type)
  /\ RoleOf[actor] = "TEAM_LEAD" => UnitOf[to] = UnitOf[actor] \/ HrLike(to)

\* The guards take their locks, then the workflow is read and the decision
\* validated; a delegate is locked.
DecideRead(s, w, action, actor, to) ==
  LET row == workflow[w]
      keys == GuardKeys(row, action) \cup ({to} \ {None}) IN
  /\ tx[s].op = "NONE" /\ row.status \in Open /\ Free(keys)
  /\ MayAct(row, action, actor)
  /\ IF action = "DELEGATE" THEN to \in Person /\ MayDelegate(row, actor, to) ELSE to = None
  /\ tx' = [tx EXCEPT ![s] =
       [Idle EXCEPT !.op = "DECIDE", !.stage = "read", !.id = w, !.action = action,
                    !.actor = actor, !.to = to, !.holds = keys, !.row = row]]
  /\ UNCHANGED <<workflow, data, rule, late, queue>>

\* The conditional update takes the workflow's row; after it the effect reads
\* the person's other bookings, or the account it will increase.
DecideApply(s) ==
  LET w == tx[s].id
      row == tx[s].row IN
  /\ tx[s].op = "DECIDE" /\ tx[s].stage = "read"
  /\ Free({w}) /\ Same(w, row)
  /\ row.type = "BOOKING_CORRECTION" /\ tx[s].action = "APPROVE" =>
       ~ BookedOn(row.of, row.day, Booking \ {row.booking})
  /\ tx' = [tx EXCEPT ![s].stage = "applied", ![s].holds = tx[s].holds \cup {w},
                      ![s].hours = overtime[row.of]]
  /\ UNCHANGED <<workflow, data, rule, late, queue>>

\* The absence changes only if it still is what the decision is about.
DecidedAbsence(w, action) ==
  IF \/ action \in {"APPROVE", "REJECT"} /\ absence[w] = "REQUESTED"
     \/ action = "CANCEL" /\ absence[w] \in {"REQUESTED", "APPROVED"}
  THEN Outcome[action] ELSE absence[w]

DecideCommit(s) ==
  LET w == tx[s].id
      row == tx[s].row
      action == tx[s].action
      next == IF action = "DELEGATE" THEN tx[s].to ELSE row.approver
      grants(type) == action = "APPROVE" /\ row.type = type IN
  /\ tx[s].op = "DECIDE" /\ tx[s].stage = "applied"
  /\ workflow' = [workflow EXCEPT
       ![w].status = IF action = "DELEGATE" THEN row.status ELSE Outcome[action],
       ![w].approver = next,
       ![w].trail = row.trail \cup ({next} \ {None})]
  /\ absence' = [absence EXCEPT ![w] = DecidedAbsence(w, action)]
  /\ bookedAt' = IF grants("BOOKING_CORRECTION") THEN [bookedAt EXCEPT ![row.booking] = row.day]
                                                 ELSE bookedAt
  /\ overtime' = IF grants("OVERTIME_APPROVAL") THEN [overtime EXCEPT ![row.of] = tx[s].hours + 1]
                                                ELSE overtime
  /\ Ends(s)
  /\ UNCHANGED <<rule, late, queue>>

-----------------------------------------------------------------------------
(* Cancelling an absence, which closes its workflow.                        *)

WithdrawLock(s, w, actor) ==
  /\ absence[w] \in {"REQUESTED", "APPROVED"}
  /\ MayActFor(actor, workflow[w].of)
  /\ tx[s].op = "NONE" /\ Free({workflow[w].of})
  /\ tx' = [tx EXCEPT ![s] = [Idle EXCEPT !.op = "WITHDRAW", !.stage = "read", !.id = w,
              !.actor = actor, !.holds = {workflow[w].of}]]
  /\ UNCHANGED <<workflow, data, rule, late, queue>>

\* Mutant: the workflow is left to its approver.
Withdraw_KeepsWorkflow(s) ==
  /\ tx[s].op = "WITHDRAW"
  /\ absence' = [absence EXCEPT ![tx[s].id] = "CANCELLED"]
  /\ Ends(s)
  /\ UNCHANGED <<workflow, bookedAt, overtime, rule, late, queue>>

Withdraw(s) ==
  LET w == tx[s].id IN
  /\ tx[s].op = "WITHDRAW" /\ Free({w})
  /\ absence' = [absence EXCEPT ![w] = "CANCELLED"]
  /\ workflow' = IF workflow[w].status \in Open
                 THEN [workflow EXCEPT ![w].status = "CANCELLED", ![w].approver = tx[s].actor]
                 ELSE workflow
  /\ Ends(s)
  /\ UNCHANGED <<bookedAt, overtime, rule, late, queue>>

-----------------------------------------------------------------------------
(* The hourly escalation.                                                   *)

\* Time passes, and with it the due date of a workflow.
Overdue(w) ==
  /\ w \in Created \ late
  /\ late' = late \cup {w}
  /\ UNCHANGED <<workflow, data, rule, tx, queue>>

StartScan(c) ==
  /\ queue[c] = {} /\ tx[c].op = "NONE"
  /\ queue' = [queue EXCEPT ![c] = {w \in late : workflow[w].status = "PENDING"}]
  /\ UNCHANGED <<workflow, data, rule, late, tx>>

Visits(c, w) == tx[c].op = "NONE" /\ queue[c] # {} /\ w = Least(queue[c])
Visited(c) == queue' = [queue EXCEPT ![c] = queue[c] \ {Least(queue[c])}]

\* Under the routing's lock the candidate is read again, and its next approver
\* is someone of the policy's role, or else the one it has.
EscalateRead(c, w) ==
  LET row == workflow[w]
      target == FirstPerson({EscalationRole}, {UnitOf[row.requester]}, {row.requester}) IN
  /\ Visits(c, w) /\ Free({Routing})
  /\ row.status = "PENDING"
  /\ tx' = [tx EXCEPT ![c] = [Idle EXCEPT !.op = "ESCALATE", !.stage = "read", !.id = w,
              !.to = IF target = None THEN row.approver ELSE target, !.holds = {Routing},
              !.row = row]]
  /\ UNCHANGED <<workflow, data, rule, late, queue>>

EscalateSkip(c, w) ==
  /\ Visits(c, w) /\ Free({Routing})
  /\ workflow[w].status # "PENDING"
  /\ Visited(c)
  /\ UNCHANGED <<workflow, data, rule, late, tx>>

\* A busy routing ends the whole scan.
EscalateBusy(c, w) ==
  /\ Visits(c, w) /\ ~ Free({Routing})
  /\ queue' = [queue EXCEPT ![c] = {}]
  /\ UNCHANGED <<workflow, data, rule, late, tx>>

EscalatedRow(c) ==
  [tx[c].row EXCEPT !.status = "ESCALATED", !.approver = tx[c].to,
                    !.trail = tx[c].row.trail \cup ({tx[c].to} \ {None})]

\* Mutant: the row is written without the compare-and-set.
Escalate_Blind(c) ==
  /\ tx[c].op = "ESCALATE" /\ Free({tx[c].id})
  /\ workflow' = [workflow EXCEPT ![tx[c].id] = EscalatedRow(c)]
  /\ Ends(c) /\ Visited(c)
  /\ UNCHANGED <<data, rule, late>>

\* Mutant: an escalation to the approver it has is left out as no change.
Escalate_NewApprover(c) ==
  /\ tx[c].op = "ESCALATE" /\ Free({tx[c].id})
  /\ workflow' = IF Same(tx[c].id, tx[c].row) /\ tx[c].to # tx[c].row.approver
                 THEN [workflow EXCEPT ![tx[c].id] = EscalatedRow(c)] ELSE workflow
  /\ Ends(c) /\ Visited(c)
  /\ UNCHANGED <<data, rule, late>>

\* A workflow that has changed meanwhile is left alone.
Escalate(c) ==
  /\ tx[c].op = "ESCALATE" /\ Free({tx[c].id})
  /\ workflow' = IF Same(tx[c].id, tx[c].row)
                 THEN [workflow EXCEPT ![tx[c].id] = EscalatedRow(c)] ELSE workflow
  /\ Ends(c) /\ Visited(c)
  /\ UNCHANGED <<data, rule, late>>

\* The process of the scan stops, or the database refuses a statement.
ScanFails(c) ==
  /\ queue[c] # {}
  /\ Ends(c)
  /\ queue' = [queue EXCEPT ![c] = {}]
  /\ UNCHANGED <<workflow, data, rule, late>>

-----------------------------------------------------------------------------
Arrival(s) ==
  \/ \E x \in Person, d \in Day : AskLeave(s, x, d)
  \/ \E actor \in Person, b \in Booking, d \in Day : AskCorrection(s, actor, b, d)
  \/ \E actor, x \in Person : AskOvertime(s, actor, x)
  \/ \E actor \in Person : AskPostClose(s, actor)
  \/ \E b \in Booking, d \in Day : Book(s, b, d)
  \/ \E w \in Created, actor \in Person : WithdrawLock(s, w, actor)
  \/ \E w \in Created, action \in DOMAIN Outcome \cup {"DELEGATE"} :
       \E actor \in Person, to \in Person \cup {None} : DecideRead(s, w, action, actor, to)

Progress(s) ==
  Create(s) \/ WriteBooking(s) \/ DecideApply(s) \/ DecideCommit(s) \/ Withdraw(s)

ScanStep(c) ==
  \/ StartScan(c) \/ Escalate(c)
  \/ \E w \in Workflow : EscalateRead(c, w) \/ EscalateSkip(c, w) \/ EscalateBusy(c, w)

Next ==
  \/ \E s \in Request : Arrival(s) \/ Progress(s) \/ Rollback(s)
  \/ \E c \in Scanner : ScanStep(c) \/ ScanFails(c)
  \/ \E x \in Delegator : DeleteRule(x) \/ \E y \in Person : WriteRule(x, y)
  \/ \E w \in Workflow : Overdue(w)

Spec == Init /\ [][Next]_vars

-----------------------------------------------------------------------------
(* Properties.                                                              *)

\* Rows, locks and snapshots have their types, and no two transactions hold the
\* same lock or row.
TypeOK ==
  /\ workflow \in [Workflow -> Row]
  /\ absence \in [Workflow -> AbsenceStatus]
  /\ bookedAt \in [Booking -> Day \cup {None}]
  /\ overtime \in [Person -> Nat]
  /\ rule \in [Person -> Person \cup {None}]
  /\ late \subseteq Workflow
  /\ tx \in [Process -> Tx]
  /\ queue \in [Scanner -> SUBSET Workflow]
  /\ \A s, t \in Process : s # t => tx[s].holds \cap tx[t].holds = {}

\* Effects follow workflows, whoever decided, cancelled or escalated in which
\* order: a leave request and its absence tell the same story, only an approved
\* absence may be cancelled later without its workflow, and the approved overtime
\* of an account is the sum of the approved requests, of which none is lost
\* between reading the account and writing it and none counts twice.
EffectsFollowWorkflow ==
  /\ \A w \in Created : workflow[w].type = "LEAVE_REQUEST" =>
       CASE workflow[w].status \in Open -> absence[w] = "REQUESTED"
         [] workflow[w].status = "APPROVED" -> absence[w] \in {"APPROVED", "CANCELLED"}
         [] OTHER -> absence[w] = workflow[w].status
  /\ \A x \in Person :
       overtime[x] = Cardinality({w \in Created : /\ workflow[w].type = "OVERTIME_APPROVAL"
                                                  /\ workflow[w].status = "APPROVED"
                                                  /\ workflow[w].of = x})

\* Nobody has two bookings or two valid absences on one day, whether they were
\* entered or came from a decision that looked for overlaps earlier.
NothingOverlaps ==
  /\ \A a, b \in Booking : a # b /\ BookedBy[a] = BookedBy[b] /\ bookedAt[a] # None =>
       bookedAt[a] # bookedAt[b]
  /\ \A v, w \in Workflow :
       /\ v # w /\ workflow[v].of = workflow[w].of /\ workflow[v].day = workflow[w].day
       /\ absence[v] \in {"REQUESTED", "APPROVED"}
       => absence[w] \notin {"REQUESTED", "APPROVED"}

\* A workflow is decided once, and approved or rejected only by the one who is
\* its approver at that moment: not by a former one who was read as such before
\* a delegation or an escalation.  Nor is such a reassignment lost: the trail
\* keeps everyone who was asked, and who is asked now is on it.
DecidedByItsApprover ==
  [][\A w \in Created :
       /\ workflow'[w].status # workflow[w].status =>
            /\ workflow[w].status \notin Final
            /\ workflow'[w].status \in {"APPROVED", "REJECTED"} =>
                 \E s \in Request : /\ tx[s].id = w /\ tx'[s] = Idle
                                   /\ tx[s].actor = workflow[w].approver
                                   /\ MayDecide(tx[s].actor, workflow[w].type)
       /\ workflow[w].trail \subseteq workflow'[w].trail
       /\ workflow'[w].status \in Open =>
            workflow'[w].approver \in workflow'[w].trail \cup {None}]_vars

\* No employee or lead is asked to approve a request of their own, whichever
\* rules the routing and the escalation meet, but for those who are recorded as
\* their own supervisor: the code refuses no such record, and routes their
\* requests to themselves.  (HR may be asked, too: see BaseApprover.)
NoOwnApproval ==
  \A w \in Created : LET x == workflow[w].requester IN
    workflow[w].status \in Open /\ workflow[w].approver = x =>
      HrLike(x) \/ Supervisor[x] = x

\* A request that stays PENDING beyond its due date is decided or escalated,
\* although a busy routing ends the scan.
OverdueIsHandled ==
  \A w \in Workflow : (w \in late /\ workflow[w].status = "PENDING")
                        ~> workflow[w].status # "PENDING"
=============================================================================
