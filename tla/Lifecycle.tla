------------------------------ MODULE Lifecycle ------------------------------
(***************************************************************************)
(* Onboarding and offboarding: a template of tasks is drafted and then       *)
(* activated for good; people and an automation rule start instances of it   *)
(* for appointments, an instance's tasks are completed and reopened, and     *)
(* overdue tasks are brought to mind in the inbox of who is responsible.     *)
(*                                                                          *)
(* Two workers of each process poll, page by page, with a cursor they keep   *)
(* in memory: one activates what the rule is due for, the other reminds.     *)
(* There is one template and one rule.                                       *)
(***************************************************************************)
EXTENDS Integers, SequencesExt

CONSTANTS
  Assignment,  \* the appointments, numbered in the order of their creation
  PersonOf,    \* the person of each
  BaseOf,      \* the day the rule counts from: its first, its last, or a date
  Unit, RuleUnit,
  Offset,      \* of the rule, in days
  Definition,  \* what the template may say: see DefinitionType
  Key,         \* the tasks that any definition has
  Event,       \* the event keys of instances, of which one is the rule's
  IdOf,        \* a number for each case and key: tasks are read by their ids
  PageSize,    \* AUTOMATION_BATCH_SIZE, and the batch of the reminders
  Process,     \* server processes
  Request,     \* slots for concurrent requests of people
  MaxDay, MaxHistory, MaxFaults,  \* bounds: days, entries of a history, faults
  None

Case == Assignment \X Event

\* A definition has tasks with their dependencies in the same definition, says
\* which of them block, who is in the responsible group (nobody: the person of
\* the appointment is responsible) and how many days after the base they are due.
DefinitionType ==
  [keys : SUBSET Key, needs : [Key -> SUBSET Key], blocking : SUBSET Key,
   group : [Key -> SUBSET {PersonOf[a] : a \in Assignment}], dueIn : [Key -> Int]]

ASSUME LifecycleAssumption ==
  /\ Assignment \subseteq Nat \ {0} /\ IsFiniteSet(Assignment)
  /\ \A a \in Assignment : BaseOf[a] \in Int
  /\ RuleUnit \in Unit /\ "RULE" \in Event /\ Offset \in Int
  /\ \A d \in Definition : d \in DefinitionType /\ \A k \in d.keys : d.needs[k] \subseteq d.keys
  /\ \A c, e \in Case, k, l \in Key :
       IdOf[c, k] \in Nat \ {0} /\ (IdOf[c, k] = IdOf[e, l] => c = e /\ k = l)
  /\ PageSize \in Nat \ {0} /\ {MaxDay, MaxHistory, MaxFaults} \subseteq Nat

VARIABLES
  today,
  template,    \* lifecycle_templates: status and definition
  rule,        \* the day the automation rule was created, or None
  unitOf,      \* the unit of each appointment on its base day, None before it is hired
  instance,    \* lifecycle_instances of each case: status and definition
  task,        \* lifecycle_tasks of each case and key: their status
  history,     \* lifecycle_task_history of each case and key
  inbox,       \* the TASK_DUE notices: <<case, key, recipient>>
  automation, reminders,  \* what the workers of each process remember
  request,     \* where each request is
  faults

vars == <<today, template, rule, unitOf, instance, task, history, inbox,
          automation, reminders, request, faults>>
tasks == <<task, history>>
settings == <<today, template, rule, unitOf>>
workers == <<automation, reminders>>

NoInstance == [status |-> "NONE", definition |-> None]
Fresh == [at |-> "IDLE", cursor |-> 0, page |-> <<>>, full |-> FALSE]
Free == [at |-> "IDLE"]

\* What the transaction of a request remembers at each point.
Transaction ==
  [at : {"IDLE", "PUBLISH"}] \cup [at : {"EDIT"}, definition : Definition]
    \cup [at : {"MOVE"}, of : Assignment, unit : Unit]
    \cup [at : {"ACTIVATE"}, of : Assignment, event : Event]
    \cup [at : {"CHECKED"}, of : Case, key : Key, status : {"OPEN", "DONE"}]
    \cup [at : {"COUNTED"}, of : Case, key : Key, status : {"OPEN", "DONE"},
          outcome : {"ACTIVE", "COMPLETE"}]

TypeOK ==
  /\ today \in 0 .. MaxDay
  /\ template \in [status : {"DRAFT", "ACTIVE"}, definition : Definition]
  /\ rule \in 0 .. MaxDay \cup {None}
  /\ unitOf \in [Assignment -> Unit \cup {None}]
  /\ instance \in [Case -> [status : {"NONE", "ACTIVE", "COMPLETE"}, definition : Definition \cup {None}]]
  /\ task \in [Case -> [Key -> {"NONE", "OPEN", "DONE"}]]
  /\ history \in [Case -> [Key -> Seq({"OPEN", "DONE"})]]
  /\ inbox \subseteq Case \X Key \X {PersonOf[a] : a \in Assignment}
  /\ \A p \in Process :
       /\ automation[p].at \in {"IDLE", "RESOLVE", "ACTIVATE", "LOCKED"}
       /\ reminders[p].at \in {"IDLE", "REMIND"}
  /\ request \in [Request -> Transaction]
  /\ faults \in 0 .. MaxFaults

Init ==
  /\ today = 0
  /\ template \in [status : {"DRAFT"}, definition : Definition]
  /\ rule = None
  /\ unitOf = [a \in Assignment |-> None]
  /\ instance = [c \in Case |-> NoInstance]
  /\ task = [c \in Case |-> [k \in Key |-> "NONE"]]
  /\ history = [c \in Case |-> [k \in Key |-> <<>>]]
  /\ inbox = {}
  /\ automation = [p \in Process |-> Fresh]
  /\ reminders = [p \in Process |-> Fresh]
  /\ request = [r \in Request |-> Free]
  /\ faults = 0

-----------------------------------------------------------------------------
(* Locks.  A lock of the advisory kind is tried, a row is waited for.        *)

At(r, at) == request[r].at = at
Becomes(r, m) == request' = [request EXCEPT ![r] = m]

\* The transactions that write for a person: activations, and HR's of a term.
PersonFree(x) ==
  /\ \A r \in Request : At(r, "ACTIVATE") \/ At(r, "MOVE") => PersonOf[request[r].of] # x
  /\ \A p \in Process : automation[p].at = "LOCKED" => PersonOf[Head(automation[p].page)] # x

TemplateRowFree == \A r \in Request : ~ At(r, "EDIT") /\ ~ At(r, "PUBLISH")

\* Mutant: the row of the task is read without its lock.
TaskRowFree_Always(c, k) == TRUE

TaskRowFree(c, k) ==
  \A r \in Request : At(r, "CHECKED") \/ At(r, "COUNTED") => <<request[r].of, request[r].key>> # <<c, k>>

\* A request is refused, or fails: its transaction leaves nothing.
Rollback(r) ==
  /\ ~ At(r, "IDLE") /\ Becomes(r, Free)
  /\ UNCHANGED <<settings, instance, tasks, inbox, workers, faults>>

-----------------------------------------------------------------------------
(* Configuration.                                                           *)

AskEdit(r, d) ==
  /\ At(r, "IDLE") /\ TemplateRowFree /\ template.status = "DRAFT"
  /\ Becomes(r, [at |-> "EDIT", definition |-> d])
  /\ UNCHANGED <<settings, instance, tasks, inbox, workers, faults>>

EditTemplate(r) ==
  /\ At(r, "EDIT") /\ Becomes(r, Free)
  /\ template' = [template EXCEPT !.definition = request[r].definition]
  /\ UNCHANGED <<today, rule, unitOf, instance, tasks, inbox, workers, faults>>

AskPublish(r) ==
  /\ At(r, "IDLE") /\ TemplateRowFree /\ template.status = "DRAFT"
  /\ Becomes(r, [at |-> "PUBLISH"])
  /\ UNCHANGED <<settings, instance, tasks, inbox, workers, faults>>

ActivateTemplate(r) ==
  /\ At(r, "PUBLISH") /\ Becomes(r, Free)
  /\ template' = [template EXCEPT !.status = "ACTIVE"]
  /\ UNCHANGED <<today, rule, unitOf, instance, tasks, inbox, workers, faults>>

\* A rule needs an active template, and looks at nothing due before its day.
CreateAutomation ==
  /\ rule = None /\ template.status = "ACTIVE" /\ rule' = today
  /\ UNCHANGED <<today, template, unitOf, instance, tasks, inbox, workers, request, faults>>

-----------------------------------------------------------------------------
(* Appointments.                                                            *)

Hired == {a \in Assignment : unitOf[a] # None}

\* Appointments start in the unit of the rule; those of others matter to it
\* only once they are moved there.
Hire(a) ==
  /\ a = Cardinality(Hired) + 1 /\ PersonFree(PersonOf[a])
  /\ unitOf' = [unitOf EXCEPT ![a] = RuleUnit]
  /\ UNCHANGED <<today, template, rule, instance, tasks, inbox, workers, request, faults>>

\* HR corrects the unit of a term, in a transaction of the person.
AskMove(r, a, u) ==
  /\ At(r, "IDLE") /\ a \in Hired /\ PersonFree(PersonOf[a]) /\ unitOf[a] # u
  /\ Becomes(r, [at |-> "MOVE", of |-> a, unit |-> u])
  /\ UNCHANGED <<settings, instance, tasks, inbox, workers, faults>>

Move(r) ==
  /\ At(r, "MOVE") /\ Becomes(r, Free)
  /\ unitOf' = [unitOf EXCEPT ![request[r].of] = request[r].unit]
  /\ UNCHANGED <<today, template, rule, instance, tasks, inbox, workers, faults>>

DayPasses ==
  /\ today < MaxDay /\ today' = today + 1
  /\ UNCHANGED <<template, rule, unitOf, instance, tasks, inbox, workers, request, faults>>

-----------------------------------------------------------------------------
(* Activation.                                                              *)

Exists(c) == instance[c].status # "NONE"

\* An event that has its instance is left with it; the first one takes a
\* snapshot of the definition and opens the tasks.
Activated(c) ==
  IF Exists(c) \/ template.status # "ACTIVE" THEN UNCHANGED <<instance, task>>
  ELSE /\ instance' = [instance EXCEPT ![c] = [status |-> "ACTIVE", definition |-> template.definition]]
       /\ task' = [task EXCEPT ![c] =
            [k \in Key |-> IF k \in template.definition.keys THEN "OPEN" ELSE "NONE"]]

AskActivate(r, a, e) ==
  /\ At(r, "IDLE") /\ a \in Hired /\ PersonFree(PersonOf[a])
  /\ Becomes(r, [at |-> "ACTIVATE", of |-> a, event |-> e])
  /\ UNCHANGED <<settings, instance, tasks, inbox, workers, faults>>

Activate(r) ==
  /\ At(r, "ACTIVATE") /\ Becomes(r, Free)
  /\ Activated(<<request[r].of, request[r].event>>)
  /\ UNCHANGED <<settings, history, inbox, workers, faults>>

-----------------------------------------------------------------------------
(* The automation worker.                                                   *)

DueByRule(a) == rule # None /\ rule <= BaseOf[a] + Offset /\ BaseOf[a] + Offset <= today

\* The first ids after the cursor, in their order.
Page(ids, cursor) ==
  LET after == {i \in ids : i > cursor}
      upTo(i) == Cardinality({j \in after : j <= i})
  IN [n \in 1 .. Min({PageSize, Cardinality(after)}) |-> CHOOSE i \in after : upTo(i) = n]

Scans(p, m) ==
  /\ automation' = [automation EXCEPT ![p] = m]
  /\ UNCHANGED <<settings, history, inbox, reminders, request>>

\* Mutant: the cursor stays where the last page ended.
NextCandidate_Onwards(m) ==
  IF Len(m.page) > 1 THEN [m EXCEPT !.at = "RESOLVE", !.page = Tail(@)]
  ELSE [Fresh EXCEPT !.cursor = IF m.page = <<>> THEN m.cursor ELSE m.page[1]]

\* The candidate at the head is done with, activated or not.  After the last
\* page the scan begins again.
NextCandidate(m) ==
  IF Len(m.page) > 1 THEN [m EXCEPT !.at = "RESOLVE", !.page = Tail(@)]
  ELSE [Fresh EXCEPT !.cursor = IF m.full THEN m.page[1] ELSE 0]

ReadCandidates(p) ==
  LET cursor == automation[p].cursor
      candidates == {a \in Hired : DueByRule(a) /\ unitOf[a] = RuleUnit}
      m == [at |-> "RESOLVE", cursor |-> cursor, page |-> Page(candidates, cursor),
            full |-> Cardinality({a \in candidates : a > cursor}) > PageSize]
  IN /\ automation[p].at = "IDLE" /\ rule # None
     /\ Scans(p, IF m.page = <<>> THEN NextCandidate(m) ELSE m)
     /\ UNCHANGED <<instance, task, faults>>

\* The unit of the base day is looked up before the transaction.
ResolveCandidate(p) ==
  LET m == automation[p] IN
  /\ m.at = "RESOLVE"
  /\ Scans(p, IF unitOf[Head(m.page)] = RuleUnit THEN [m EXCEPT !.at = "ACTIVATE"] ELSE NextCandidate(m))
  /\ UNCHANGED <<instance, task, faults>>

\* The candidate of a busy person is left, as is one that has its instance.
LockCandidate(p) ==
  LET m == automation[p] a == Head(m.page) IN
  /\ m.at = "ACTIVATE"
  /\ Scans(p, IF PersonFree(PersonOf[a]) /\ ~ Exists(<<a, "RULE">>) THEN [m EXCEPT !.at = "LOCKED"]
              ELSE NextCandidate(m))
  /\ UNCHANGED <<instance, task, faults>>

CreateInstance(p) ==
  LET m == automation[p] IN
  /\ m.at = "LOCKED" /\ Scans(p, NextCandidate(m)) /\ Activated(<<Head(m.page), "RULE">>)
  /\ UNCHANGED faults

-----------------------------------------------------------------------------
(* Tasks.                                                                   *)

Undone(c, K) == {k \in K : task[c][k] # "DONE"}

\* A task is done when it needs nothing that is undone, and open again when
\* nothing that needs it is done.
MayBecome(c, k, s) ==
  LET d == instance[c].definition IN
  /\ task[c][k] # s
  /\ s = "DONE" => Undone(c, d.needs[k]) = {}
  /\ s = "OPEN" => \A l \in d.keys : k \in d.needs[l] => task[c][l] # "DONE"

\* Only the row of the task itself is locked.
CheckTask(r, c, k, s) ==
  /\ At(r, "IDLE") /\ Exists(c) /\ k \in instance[c].definition.keys
  /\ TaskRowFree(c, k) /\ MayBecome(c, k, s) /\ Len(history[c][k]) < MaxHistory
  /\ Becomes(r, [at |-> "CHECKED", of |-> c, key |-> k, status |-> s])
  /\ UNCHANGED <<settings, instance, tasks, inbox, workers, faults>>

\* The request sees its own update, and of the others what is committed.  Where
\* no task blocks, all of them count.
CountTasks(r) ==
  LET m == request[r] d == instance[m.of].definition
      counted == IF d.blocking \cap d.keys = {} THEN d.keys ELSE d.blocking \cap d.keys
      unfinished == Undone(m.of, counted \ {m.key}) \cup {k \in counted \cap {m.key} : m.status = "OPEN"}
  IN /\ At(r, "CHECKED")
     /\ Becomes(r, [at |-> "COUNTED", of |-> m.of, key |-> m.key, status |-> m.status,
                    outcome |-> IF unfinished = {} THEN "COMPLETE" ELSE "ACTIVE"])
     /\ UNCHANGED <<settings, instance, tasks, inbox, workers, faults>>

CommitTask(r) ==
  LET m == request[r] IN
  /\ At(r, "COUNTED") /\ Becomes(r, Free)
  /\ task' = [task EXCEPT ![m.of][m.key] = m.status]
  /\ history' = [history EXCEPT ![m.of][m.key] = Append(@, m.status)]
  /\ instance' = [instance EXCEPT ![m.of].status = m.outcome]
  /\ UNCHANGED <<settings, inbox, workers, faults>>

-----------------------------------------------------------------------------
(* Reminders.                                                               *)

Responsible(c, k) ==
  LET group == instance[c].definition.group[k]
  IN IF group = {} THEN {PersonOf[c[1]]} ELSE group

Overdue(c, k) ==
  task[c][k] = "OPEN" /\ BaseOf[c[1]] + instance[c].definition.dueIn[k] <= today

OverdueIds == {IdOf[t] : t \in {u \in Case \X Key : Overdue(u[1], u[2])}}
TaskOf(id) == CHOOSE t \in Case \X Key : IdOf[t] = id

Reminds(p, m) ==
  /\ reminders' = [reminders EXCEPT ![p] = m]
  /\ UNCHANGED <<settings, instance, tasks, automation, request>>

NextReminder(m) ==
  IF Len(m.page) > 1 THEN [m EXCEPT !.page = Tail(@)]
  ELSE [Fresh EXCEPT !.cursor = IF m.full THEN m.page[1] ELSE 0]

ReadDue(p) ==
  LET cursor == reminders[p].cursor
      page == Page(OverdueIds, cursor)
      m == [at |-> "REMIND", cursor |-> cursor, page |-> page, full |-> Len(page) = PageSize]
  IN /\ reminders[p].at = "IDLE"
     /\ Reminds(p, IF page = <<>> THEN NextReminder(m) ELSE m)
     /\ UNCHANGED <<inbox, faults>>

\* The task is read again; a notice that is there already is not repeated.
RemindOne(p) ==
  LET m == reminders[p] t == TaskOf(Head(m.page)) IN
  /\ m.at = "REMIND" /\ Reminds(p, NextReminder(m))
  /\ inbox' = inbox \cup {<<t[1], t[2], x>> : x \in IF Overdue(t[1], t[2]) THEN Responsible(t[1], t[2]) ELSE {}}
  /\ UNCHANGED faults

-----------------------------------------------------------------------------
(* Faults.                                                                  *)

\* A process starts again: its workers remember nothing.
Restart(p) ==
  /\ automation' = [automation EXCEPT ![p] = Fresh]
  /\ reminders' = [reminders EXCEPT ![p] = Fresh]
  /\ UNCHANGED <<settings, instance, tasks, inbox, request>>

\* A failure is caught for each candidate, and the scan goes on.
CandidateFails(p) ==
  /\ automation[p].at # "IDLE" /\ Scans(p, NextCandidate(automation[p]))
  /\ UNCHANGED <<instance, task>>

\* A failure of one reminder ends the pass, which starts again at its cursor.
RemindersFail(p) ==
  /\ reminders[p].at # "IDLE" /\ Reminds(p, [Fresh EXCEPT !.cursor = reminders[p].cursor])
  /\ UNCHANGED inbox

Fault(p) ==
  /\ faults < MaxFaults /\ faults' = faults + 1
  /\ Restart(p) \/ CandidateFails(p) \/ RemindersFail(p)

-----------------------------------------------------------------------------
\* What people begin, and what the system has begun.
Configures(r) == (\E d \in Definition : AskEdit(r, d)) \/ AskPublish(r)
Administers(r) ==
  \E a \in Assignment :
    (\E u \in Unit : AskMove(r, a, u)) \/ (\E e \in Event : AskActivate(r, a, e))
Works(r) == \E c \in Case, k \in Key, s \in {"OPEN", "DONE"} : CheckTask(r, c, k, s)
Arrival(r) == Configures(r) \/ Administers(r) \/ Works(r)

Progress(r) ==
  \/ EditTemplate(r) \/ ActivateTemplate(r) \/ Move(r) \/ Activate(r)
  \/ CountTasks(r) \/ CommitTask(r)

Scan(p) == ReadCandidates(p) \/ ResolveCandidate(p) \/ LockCandidate(p) \/ CreateInstance(p)
Remind(p) == ReadDue(p) \/ RemindOne(p)
Growth == DayPasses \/ CreateAutomation \/ \E a \in Assignment : Hire(a)

Next ==
  \/ Growth
  \/ \E r \in Request : Arrival(r) \/ Progress(r) \/ Rollback(r)
  \/ \E p \in Process : Scan(p) \/ Remind(p) \/ Fault(p)

Spec == Init /\ [][Next]_vars

-----------------------------------------------------------------------------
\* An instance keeps the definition that its template has once it is active,
\* although editing and activating the template are different requests.
InstancesFollowTemplate ==
  \A c \in Case : Exists(c) => instance[c].definition = template.definition

\* The history of a task says what it is: done and reopened take turns, and the
\* last entry is its status, although several people work on it at a time.
HistoryIsTheStatus ==
  \A c \in Case, k \in Key : LET h == history[c][k] IN
    /\ \A i \in 1 .. Len(h) : h[i] = IF i % 2 = 1 THEN "DONE" ELSE "OPEN"
    /\ Exists(c) /\ h # <<>> => task[c][k] = h[Len(h)]

\* What runs of a case is what was defined and what was done: both of the above, while
\* people edit, activate and work at a time (lifecycle-configuration.service.ts,
\* lifecycle-task.service.ts).
CasesAreSound == InstancesFollowTemplate /\ HistoryIsTheStatus

\* "A blocked task cannot be completed, and a prerequisite cannot be reopened
\* after a dependent task is complete": a task that is done needs only tasks
\* that are done.
TasksInOrder ==
  \A c \in Case, k \in Key :
    task[c][k] = "DONE" => Undone(c, instance[c].definition.needs[k]) = {}

\* An appointment for which the rule is due has its instance in the end, unless
\* it is moved to another unit, whatever page it is on and however often its
\* person is busy or an attempt fails: again and again none of them waits.
DueIsActivated ==
  []<>(\A a \in Assignment : DueByRule(a) /\ unitOf[a] = RuleUnit => Exists(<<a, "RULE">>))

\* Everybody who is responsible for an overdue task is told in the end, unless
\* it is done, wherever its id is in the order of the pages: again and again no
\* such task is left.
OverdueIsReminded ==
  []<>(\A c \in Case, k \in Key :
        Overdue(c, k) => \A x \in Responsible(c, k) : <<c, k, x>> \in inbox)

\* Both scans of the background come back to what they left behind, after any restart
\* (lifecycle-automation.worker.ts, lifecycle-reminders.service.ts).
ScansCatchUp == DueIsActivated /\ OverdueIsReminded
=============================================================================
