----------------------- MODULE WebhookDispatchProofs -----------------------
(***************************************************************************)
(* Proofs about the webhook dispatcher, for any number of processes,       *)
(* events, jobs and endpoints, any lease and any bounds.                   *)
(***************************************************************************)
EXTENDS WebhookDispatch, FiniteSetTheorems, TLAPS

(* The worker is busy with one item.                                       *)
ItemSteps == {"claimEvent", "yield", "endpoints", "skip", "targets", "fault",
              "renewJob", "renewClaim", "post", "finalize"}

(* Two jobs are never active together.                                     *)
OneActive == \A i, j \in Job : Active(i) /\ Active(j) => i = j

(* A row that was not created yet is empty, outcomes belong to members,    *)
(* and a job that succeeded has none missing.                              *)
BatchRows ==
  \A j \in Job :
    /\ job[j].status = "ABSENT" =>
         job[j].items = {} /\ job[j].outcome = [e \in Event |-> "NONE"]
    /\ \A e \in Event : job[j].outcome[e] # "NONE" => e \in job[j].items
    /\ job[j].status = "SUCCEEDED" => Undecided(j) = {}

(* What a worker remembers of the job and the item it works on.            *)
Remembers(w) ==
  /\ worker[w].pc # "idle" =>
       worker[w].job \in Job /\ job[worker[w].job].status # "ABSENT"
  /\ worker[w].pc \in ItemSteps =>
       /\ worker[w].item \in job[worker[w].job].items
       /\ worker[w].status \in Dispatchable
  /\ worker[w].pc = "complete" => Undecided(worker[w].job) = {}

WorkerMemory == \A w \in Worker : Remembers(w)

IInv ==
  /\ TypeOK
  /\ OneActive
  /\ BatchRows
  /\ UndecidedIsDispatchable
  /\ WorkerMemory

LEMMA InitIInv == Init => IInv
  <1> SUFFICES ASSUME Init PROVE IInv
    OBVIOUS
  <1> USE WebhookAssumption DEF Init
  <1>1. TypeOK
    BY DEF TypeOK, EventRow, JobRow, NoJobRow, Memory, Idle
  <1>2. OneActive /\ UndecidedIsDispatchable
    BY DEF OneActive, UndecidedIsDispatchable, Active, NoJobRow
  <1>3. BatchRows
    BY DEF BatchRows, NoJobRow
  <1>4. WorkerMemory
    BY DEF WorkerMemory, Remembers, Idle, ItemSteps
  <1> QED
    BY <1>1, <1>2, <1>3, <1>4 DEF IInv

-----------------------------------------------------------------------------
(* Most steps leave the batches and what is decided of them alone.         *)

KeepsBatches ==
  \A j \in Job :
    /\ job'[j].items = job[j].items
    /\ job'[j].outcome = job[j].outcome
    /\ \/ job'[j].status = job[j].status
       \/ Active(j) /\ job'[j].status = "RUNNING"

KeepsEvents ==
  \A e \in Event :
    /\ event'[e].attempts = event[e].attempts
    /\ event[e].status \in Dispatchable => event'[e].status \in Dispatchable

LEMMA BatchesKept ==
  ASSUME IInv, TypeOK', KeepsBatches, KeepsEvents
  PROVE  OneActive' /\ BatchRows' /\ UndecidedIsDispatchable'
  <1>1. \A j \in Job : Active(j)' <=> Active(j)
    BY DEF KeepsBatches, Active
  <1>2. \A j \in Job : Undecided(j)' = Undecided(j)
    BY DEF KeepsBatches, Undecided
  <1>3. OneActive'
    BY <1>1 DEF OneActive, IInv
  <1>4. BatchRows'
    BY <1>2 DEF BatchRows, IInv, KeepsBatches, Active
  <1>5. UndecidedIsDispatchable'
    BY <1>1, <1>2 DEF UndecidedIsDispatchable, IInv, KeepsEvents, TypeOK,
                      JobRow, Undecided
  <1> QED
    BY <1>3, <1>4, <1>5

(* A job that exists keeps its members and its items stay decided.         *)
KeepsMembers ==
  \A j \in Job : job[j].status # "ABSENT" =>
    /\ job'[j].status # "ABSENT"
    /\ job'[j].items = job[j].items
    /\ Undecided(j)' \subseteq Undecided(j)

LEMMA MembersKept == KeepsBatches => KeepsMembers
  BY DEF KeepsBatches, KeepsMembers, Undecided, Active

(* What the workers that do not move remember stays true.                  *)
LEMMA MemoryKept ==
  ASSUME IInv, KeepsMembers, NEW v \in Worker, worker'[v] = worker[v]
  PROVE  Remembers(v)'
  <1>1. Remembers(v)
    BY DEF IInv, WorkerMemory
  <1>2. CASE worker[v].pc = "idle"
    BY <1>2 DEF Remembers, ItemSteps
  <1>3. CASE worker[v].pc # "idle"
    <2>1. PICK j \in Job : j = worker[v].job
      BY <1>1, <1>3 DEF Remembers
    <2>2. job[j].status # "ABSENT" /\ worker'[v].job = j
      BY <1>1, <1>3, <2>1 DEF Remembers
    <2>3. /\ job'[j].status # "ABSENT"
          /\ job'[j].items = job[j].items
          /\ Undecided(j)' \subseteq Undecided(j)
      BY <2>2 DEF KeepsMembers
    <2>4. Undecided(worker[v].job)' = Undecided(j)'
      BY <2>1, <2>2
    <2> QED
      BY <1>1, <2>1, <2>2, <2>3, <2>4 DEF Remembers, ItemSteps
  <1> QED
    BY <1>2, <1>3

LEMMA Bookkeeping ==
  ASSUME IInv, TypeOK', KeepsBatches, KeepsEvents, NEW w \in Worker,
         \A v \in Worker \ {w} : worker'[v] = worker[v],
         Remembers(w)'
  PROVE  IInv'
  BY BatchesKept, MembersKept, MemoryKept DEF IInv, WorkerMemory

-----------------------------------------------------------------------------
(* Replacing one row or one memory by another of its type.                 *)

AnyPc == {"idle", "claimJob"} \cup Owning

LEMMA JobReplaced ==
  ASSUME TypeOK, NEW j \in Job, NEW row \in JobRow,
         job' = [job EXCEPT ![j] = row],
         row.items = job[j].items, row.outcome = job[j].outcome,
         row.status = job[j].status \/ (Active(j) /\ row.status = "RUNNING")
  PROVE  job' \in [Job -> JobRow] /\ KeepsBatches
  <1>1. job \in [Job -> JobRow]
    BY DEF TypeOK
  <1>2. job' \in [Job -> JobRow]
    BY <1>1
  <1>3. \A i \in Job : job'[i] = IF i = j THEN row ELSE job[i]
    BY <1>1
  <1> QED
    BY <1>2, <1>3 DEF KeepsBatches

LEMMA MemoryReplaced ==
  ASSUME TypeOK, NEW w \in Worker, NEW m \in Memory, Becomes(w, m)
  PROVE  /\ worker' \in [Worker -> Memory]
         /\ worker'[w] = m
         /\ \A v \in Worker \ {w} : worker'[v] = worker[v]
  BY DEF TypeOK, Becomes

LEMMA PcReplaced ==
  ASSUME TypeOK, NEW w \in Worker, NEW pc \in AnyPc, Goto(w, pc)
  PROVE  /\ worker' \in [Worker -> Memory]
         /\ worker'[w].pc = pc
         /\ worker'[w].job = worker[w].job
         /\ worker'[w].item = worker[w].item
         /\ worker'[w].status = worker[w].status
         /\ \A v \in Worker \ {w} : worker'[v] = worker[v]
  <1> DEFINE m == [worker[w] EXCEPT !.pc = pc]
  <1>1. worker[w] \in Memory
    BY DEF TypeOK
  <1>2. /\ m \in Memory /\ m.pc = pc /\ m.job = worker[w].job
        /\ m.item = worker[w].item /\ m.status = worker[w].status
    BY <1>1 DEF Memory, AnyPc
  <1>3. Becomes(w, m)
    BY DEF Goto
  <1> HIDE DEF m
  <1> QED
    BY <1>2, <1>3, MemoryReplaced

(* A worker forgets everything.                                            *)
LEMMA Forgets ==
  ASSUME TypeOK, NEW w \in Worker, Becomes(w, Idle)
  PROVE  /\ worker' \in [Worker -> Memory]
         /\ Remembers(w)'
         /\ \A v \in Worker \ {w} : worker'[v] = worker[v]
  <1>1. Idle \in Memory /\ Idle.pc = "idle"
    BY DEF Idle, Memory
  <1> QED
    BY <1>1, MemoryReplaced DEF Remembers, ItemSteps

LEMMA EventReplaced ==
  ASSUME TypeOK, NEW e \in Event, NEW at \in Nat,
         event' = [event EXCEPT ![e] = [event[e] EXCEPT !.nextAttemptAt = at]]
  PROVE  event' \in [Event -> EventRow] /\ KeepsEvents
  <1>1. event \in [Event -> EventRow]
    BY DEF TypeOK
  <1> DEFINE row == [event[e] EXCEPT !.nextAttemptAt = at]
  <1>2. /\ row \in EventRow /\ row.attempts = event[e].attempts
        /\ row.status = event[e].status
    BY <1>1 DEF EventRow
  <1> HIDE DEF row
  <1>3. event' = [event EXCEPT ![e] = row]
    BY DEF row
  <1> QED
    BY <1>1, <1>2, <1>3 DEF KeepsEvents

LEMMA LeaseReplaced ==
  ASSUME NEW row \in JobRow, NEW lease \in Nat
  PROVE  LET new == [row EXCEPT !.leaseUntil = lease] IN
         /\ new \in JobRow /\ new.items = row.items
         /\ new.outcome = row.outcome /\ new.status = row.status
  BY DEF JobRow

LEMMA ClaimedRowTyped ==
  ASSUME NEW row \in JobRow, NEW w \in Worker, clock \in Nat, Lease \in Nat
  PROVE  LET new == ClaimedRow(row, w) IN
         /\ new \in JobRow /\ new.items = row.items
         /\ new.outcome = row.outcome /\ new.status = "RUNNING"
  <1>1. row.generation + 1 \in Nat /\ clock + Lease \in Nat
    BY DEF JobRow
  <1>2. ASSUME NEW g \in Nat, NEW l \in Nat
        PROVE  LET new == [row EXCEPT !.status = "RUNNING", !.owner = w,
                             !.generation = g, !.leaseUntil = l] IN
               /\ new \in JobRow /\ new.items = row.items
               /\ new.outcome = row.outcome /\ new.status = "RUNNING"
    BY DEF JobRow
  <1> QED
    BY <1>1, <1>2 DEF ClaimedRow

-----------------------------------------------------------------------------
(* The steps of a worker that leave the outcomes alone.                    *)

LEMMA PollIInv ==
  ASSUME IInv, NEW w \in Worker, Poll(w)
  PROVE  IInv'
  <1>0. TypeOK /\ worker[w].pc = "idle"
    BY DEF IInv, Poll
  <1>1. KeepsBatches /\ KeepsEvents
    BY DEF Poll, KeepsBatches, KeepsEvents
  <1>2. CASE UNCHANGED worker
    <2>1. TypeOK'
      BY <1>0, <1>2 DEF TypeOK, Poll
    <2>2. Remembers(w)'
      BY <1>0, <1>2 DEF Remembers, ItemSteps
    <2> QED
      BY <1>1, <1>2, <2>1, <2>2, Bookkeeping
  <1>3. ASSUME NEW j \in Job, Active(j),
               Becomes(w, [Idle EXCEPT !.pc = "claimJob", !.job = j,
                                       !.gen = job[j].generation])
        PROVE  IInv'
    <2> DEFINE m == [Idle EXCEPT !.pc = "claimJob", !.job = j,
                                 !.gen = job[j].generation]
    <2>1. job[j].generation \in Nat
      BY <1>0 DEF TypeOK, JobRow
    <2>2. m \in Memory /\ m.pc = "claimJob" /\ m.job = j
      <3>1. ASSUME NEW g \in Nat
            PROVE LET n == [Idle EXCEPT !.pc = "claimJob", !.job = j,
                                        !.gen = g] IN
                  n \in Memory /\ n.pc = "claimJob" /\ n.job = j
        BY DEF Memory, Idle
      <3> QED
        BY <2>1, <3>1
    <2> HIDE DEF m
    <2>3. /\ worker' \in [Worker -> Memory] /\ worker'[w] = m
          /\ \A v \in Worker \ {w} : worker'[v] = worker[v]
      BY <1>0, <1>3, <2>2, MemoryReplaced DEF m
    <2>4. TypeOK'
      BY <1>0, <2>3 DEF TypeOK, Poll
    <2>5. Remembers(w)'
      BY <1>1, <1>3, <2>2, <2>3 DEF Remembers, ItemSteps, KeepsBatches, Active, Poll
    <2> QED
      BY <1>1, <2>3, <2>4, <2>5, Bookkeeping
  <1> QED
    BY <1>2, <1>3 DEF Poll

LEMMA ClaimJobIInv ==
  ASSUME IInv, NEW w \in Worker, ClaimJob(w)
  PROVE  IInv'
  <1> USE WebhookAssumption
  <1>0. /\ TypeOK /\ worker[w].pc = "claimJob"
        /\ worker[w].job \in Job /\ job[worker[w].job].status # "ABSENT"
    BY DEF IInv, ClaimJob, WorkerMemory, Remembers
  <1>1. KeepsEvents
    BY DEF ClaimJob, KeepsEvents
  <1>2. CASE Becomes(w, Idle) /\ UNCHANGED job
    <2>1. TypeOK'
      BY <1>0, <1>2, Forgets DEF TypeOK, ClaimJob
    <2>2. KeepsBatches
      BY <1>2 DEF KeepsBatches
    <2> QED
      BY <1>0, <1>1, <1>2, <2>1, <2>2, Forgets, Bookkeeping
  <1>3. CASE /\ Active(worker[w].job)
             /\ job' = [job EXCEPT ![worker[w].job] =
                          ClaimedRow(job[worker[w].job], w)]
             /\ Becomes(w, [worker[w] EXCEPT !.pc = "renew",
                                             !.gen = worker[w].gen + 1])
    <2> DEFINE m == [worker[w] EXCEPT !.pc = "renew",
                                      !.gen = worker[w].gen + 1]
               j == worker[w].job
               row == ClaimedRow(job[j], w)
    <2>1. job[j] \in JobRow /\ worker[w] \in Memory /\ clock \in Nat
      BY <1>0 DEF TypeOK
    <2>2. /\ row \in JobRow /\ row.items = job[j].items
          /\ row.outcome = job[j].outcome /\ row.status = "RUNNING"
      BY <2>1, ClaimedRowTyped
    <2>3. m \in Memory /\ m.pc = "renew" /\ m.job = j
      <3>1. ASSUME NEW g \in Nat
            PROVE LET n == [worker[w] EXCEPT !.pc = "renew", !.gen = g] IN
                  n \in Memory /\ n.pc = "renew" /\ n.job = j
        BY <2>1 DEF Memory, Owning
      <3>2. worker[w].gen + 1 \in Nat
        BY <2>1 DEF Memory
      <3> QED
        BY <3>1, <3>2
    <2> HIDE DEF m, row
    <2>4. /\ worker' \in [Worker -> Memory] /\ worker'[w] = m
          /\ \A v \in Worker \ {w} : worker'[v] = worker[v]
      BY <1>0, <1>3, <2>3, MemoryReplaced DEF m
    <2>5. job' \in [Job -> JobRow] /\ KeepsBatches
      BY <1>0, <1>3, <2>2, JobReplaced DEF row
    <2>6. TypeOK'
      BY <1>0, <2>4, <2>5 DEF TypeOK, ClaimJob
    <2>7. Remembers(w)'
      BY <1>0, <2>3, <2>4, <2>5 DEF Remembers, ItemSteps, KeepsBatches
    <2> QED
      BY <1>1, <2>4, <2>5, <2>6, <2>7, Bookkeeping
  <1> QED
    BY <1>2, <1>3 DEF ClaimJob, Active

(* Renewing or handing back a lease, and recording an interruption.        *)
LEMMA LeaseSet ==
  ASSUME TypeOK, NEW j \in Job, NEW lease \in Nat,
         job' = [job EXCEPT ![j] = [job[j] EXCEPT !.leaseUntil = lease]]
  PROVE  job' \in [Job -> JobRow] /\ KeepsBatches
  <1> DEFINE row == [job[j] EXCEPT !.leaseUntil = lease]
  <1>1. job[j] \in JobRow
    BY DEF TypeOK
  <1>2. /\ row \in JobRow /\ row.items = job[j].items
        /\ row.outcome = job[j].outcome /\ row.status = job[j].status
    BY <1>1, LeaseReplaced
  <1>3. job' = [job EXCEPT ![j] = row]
    OBVIOUS
  <1> HIDE DEF row
  <1> QED
    BY <1>2, <1>3, JobReplaced

LEMMA RenewThenIInv ==
  ASSUME IInv, NEW w \in Worker, NEW pc \in {"renew", "renewJob"},
         NEW next \in {"pick", "renewClaim"},
         RenewThen(w, pc, next), pc = "renew" <=> next = "pick"
  PROVE  IInv'
  <1> USE WebhookAssumption
  <1>0. TypeOK /\ worker[w].pc = pc /\ Remembers(w) /\ worker[w].job \in Job
    BY DEF IInv, RenewThen, WorkerMemory, Remembers
  <1>1. KeepsEvents
    BY DEF RenewThen, KeepsEvents
  <1>2. job' \in [Job -> JobRow] /\ KeepsBatches
    <2>1. CASE UNCHANGED job
      BY <1>0, <2>1 DEF TypeOK, KeepsBatches
    <2>2. CASE job' = [job EXCEPT ![worker[w].job] =
                 [job[worker[w].job] EXCEPT !.leaseUntil = clock + Lease]]
      <3>1. clock + Lease \in Nat
        BY <1>0 DEF TypeOK
      <3> QED
        BY <1>0, <2>2, <3>1, LeaseSet
    <2> QED
      BY <2>1, <2>2 DEF RenewThen
  <1>3. ASSUME NEW to \in {next, "interrupted"}, Goto(w, to)
        PROVE  IInv'
    <2>1. to \in AnyPc
      BY DEF AnyPc, Owning
    <2>2. /\ worker' \in [Worker -> Memory]
          /\ worker'[w].pc = to
          /\ worker'[w].job = worker[w].job
          /\ worker'[w].item = worker[w].item
          /\ worker'[w].status = worker[w].status
          /\ \A v \in Worker \ {w} : worker'[v] = worker[v]
      BY <1>0, <1>3, <2>1, PcReplaced
    <2>3. TypeOK'
      BY <1>0, <1>2, <2>2 DEF TypeOK, RenewThen
    <2>4. Remembers(w)'
      BY <1>0, <1>2, <2>2 DEF Remembers, ItemSteps, KeepsBatches
    <2> QED
      BY <1>1, <1>2, <2>2, <2>3, <2>4, Bookkeeping
  <1> QED
    BY <1>3 DEF RenewThen

LEMMA YieldIInv ==
  ASSUME IInv, NEW w \in Worker, Yield(w)
  PROVE  IInv'
  <1>0. TypeOK /\ clock \in Nat
    BY DEF IInv, TypeOK
  <1>1. job' \in [Job -> JobRow] /\ KeepsBatches
    <2>1. CASE UNCHANGED job
      BY <1>0, <2>1 DEF TypeOK, KeepsBatches
    <2>2. CASE /\ Owns(w)
               /\ job' = [job EXCEPT ![worker[w].job] =
                    [job[worker[w].job] EXCEPT !.leaseUntil = clock]]
      BY <1>0, <2>2, LeaseSet DEF Owns
    <2> QED
      BY <2>1, <2>2 DEF Yield
  <1>2. KeepsEvents /\ Becomes(w, Idle)
    BY DEF Yield, KeepsEvents
  <1>3. TypeOK'
    BY <1>0, <1>1, <1>2, Forgets DEF TypeOK, Yield
  <1> QED
    BY <1>0, <1>1, <1>2, <1>3, Forgets, Bookkeeping

LEMMA RecordInterruptionIInv ==
  ASSUME IInv, NEW w \in Worker, RecordInterruption(w)
  PROVE  IInv'
  <1>0. TypeOK
    BY DEF IInv
  <1>1. job' \in [Job -> JobRow] /\ KeepsBatches
    <2>1. CASE UNCHANGED job
      BY <1>0, <2>1 DEF TypeOK, KeepsBatches
    <2>2. CASE /\ Owns(w)
               /\ job' = [job EXCEPT ![worker[w].job] =
                    [job[worker[w].job] EXCEPT !.interrupted = TRUE]]
      <3> DEFINE j == worker[w].job
                 row == [job[j] EXCEPT !.interrupted = TRUE]
      <3>1. j \in Job /\ job[j] \in JobRow
        BY <1>0, <2>2 DEF TypeOK, Owns
      <3>2. /\ row \in JobRow /\ row.items = job[j].items
            /\ row.outcome = job[j].outcome /\ row.status = job[j].status
        BY <3>1 DEF JobRow
      <3> HIDE DEF row
      <3>3. job' = [job EXCEPT ![j] = row]
        BY <2>2 DEF row
      <3> QED
        BY <1>0, <3>1, <3>2, <3>3, JobReplaced
    <2> QED
      BY <2>1, <2>2 DEF RecordInterruption
  <1>2. KeepsEvents /\ Becomes(w, Idle)
    BY DEF RecordInterruption, KeepsEvents
  <1>3. TypeOK'
    BY <1>0, <1>1, <1>2, Forgets DEF TypeOK, RecordInterruption
  <1> QED
    BY <1>0, <1>1, <1>2, <1>3, Forgets, Bookkeeping

LEMMA StopIInv ==
  ASSUME IInv, NEW w \in Worker, StatementFails(w) \/ Crash(w)
  PROVE  IInv'
  <1>0. TypeOK /\ Remembers(w)
    BY DEF IInv, WorkerMemory
  <1>1. KeepsBatches /\ KeepsEvents
    BY DEF StatementFails, Crash, KeepsBatches, KeepsEvents
  <1>2. faults' \in Nat
    BY <1>0 DEF StatementFails, Crash, MayFault, TypeOK
  <1>3. CASE Becomes(w, Idle)
    <2>1. TypeOK'
      BY <1>0, <1>2, <1>3, Forgets DEF TypeOK, StatementFails, Crash
    <2> QED
      BY <1>0, <1>1, <1>3, <2>1, Forgets, Bookkeeping
  <1>4. CASE StatementFails(w) /\ Goto(w, "interrupted")
    <2>1. "interrupted" \in AnyPc
      BY DEF AnyPc, Owning
    <2>2. /\ worker' \in [Worker -> Memory]
          /\ worker'[w].pc = "interrupted"
          /\ worker'[w].job = worker[w].job
          /\ \A v \in Worker \ {w} : worker'[v] = worker[v]
      BY <1>0, <1>4, <2>1, PcReplaced
    <2>3. TypeOK'
      BY <1>0, <1>2, <1>4, <2>2 DEF TypeOK, StatementFails
    <2>4. Remembers(w)'
      BY <1>0, <1>1, <1>4, <2>2
      DEF Remembers, ItemSteps, KeepsBatches, StatementFails
    <2> QED
      BY <1>1, <2>2, <2>3, <2>4, Bookkeeping
  <1> QED
    BY <1>3, <1>4 DEF StatementFails, Crash

-----------------------------------------------------------------------------
(* The steps on one item before it is settled.                             *)

(* The worker keeps its item and moves to another of its steps.            *)
LEMMA KeepsItem ==
  ASSUME IInv, NEW w \in Worker, worker[w].pc \in ItemSteps,
         NEW m \in Memory, Becomes(w, m),
         m.pc \in ItemSteps \cup {"interrupted"},
         m.job = worker[w].job, m.item = worker[w].item,
         m.status = worker[w].status,
         UNCHANGED <<clock, registered, deliveries, job, due, faults>>,
         event' \in [Event -> EventRow], KeepsEvents
  PROVE  IInv'
  <1>1. TypeOK /\ Remembers(w)
    BY DEF IInv, WorkerMemory
  <1>2. /\ worker' \in [Worker -> Memory] /\ worker'[w] = m
        /\ \A v \in Worker \ {w} : worker'[v] = worker[v]
    BY <1>1, MemoryReplaced
  <1>3. TypeOK'
    BY <1>1, <1>2 DEF TypeOK
  <1>4. KeepsBatches
    BY DEF KeepsBatches
  <1>5. Remembers(w)'
    BY <1>1, <1>2 DEF Remembers, ItemSteps
  <1> QED
    BY <1>2, <1>3, <1>4, <1>5, Bookkeeping

LEMMA PickItemIInv ==
  ASSUME IInv, NEW w \in Worker, PickItem(w)
  PROVE  IInv'
  <1>0. /\ TypeOK /\ worker[w].pc = "pick" /\ worker[w].job \in Job
        /\ job[worker[w].job].status # "ABSENT" /\ worker[w] \in Memory
    BY DEF IInv, PickItem, WorkerMemory, Remembers, TypeOK
  <1>1. KeepsBatches /\ KeepsEvents
    BY DEF PickItem, KeepsBatches, KeepsEvents
  <1>2. CASE Undecided(worker[w].job) = {} /\ Goto(w, "complete")
    <2>1. "complete" \in AnyPc
      BY DEF AnyPc, Owning
    <2>2. /\ worker' \in [Worker -> Memory]
          /\ worker'[w].pc = "complete"
          /\ worker'[w].job = worker[w].job
          /\ \A v \in Worker \ {w} : worker'[v] = worker[v]
      BY <1>0, <1>2, <2>1, PcReplaced
    <2>3. TypeOK'
      BY <1>0, <2>2 DEF TypeOK, PickItem
    <2>4. Remembers(w)'
      BY <1>0, <1>2, <2>2 DEF Remembers, ItemSteps, Undecided, PickItem
    <2> QED
      BY <1>1, <2>2, <2>3, <2>4, Bookkeeping
  <1>3. ASSUME NEW e \in Undecided(worker[w].job),
               Becomes(w, [Idle EXCEPT !.pc = "claimEvent",
                                       !.job = worker[w].job,
                                       !.gen = worker[w].gen, !.item = e,
                                       !.status = event[e].status,
                                       !.attempts = event[e].attempts])
        PROVE  IInv'
    <2> DEFINE m == [Idle EXCEPT !.pc = "claimEvent", !.job = worker[w].job,
                                 !.gen = worker[w].gen, !.item = e,
                                 !.status = event[e].status,
                                 !.attempts = event[e].attempts]
    <2>1. e \in Event /\ e \in job[worker[w].job].items
      BY <1>0 DEF Undecided, TypeOK, JobRow
    <2>2. Active(worker[w].job)
      BY <1>0, <1>3 DEF IInv, BatchRows, Active, TypeOK, JobRow
    <2>3. event[e].status \in Dispatchable /\ event[e].attempts \in Nat
      BY <1>0, <1>3, <2>1, <2>2
      DEF IInv, UndecidedIsDispatchable, TypeOK, EventRow
    <2>4. /\ m \in Memory /\ m.pc = "claimEvent" /\ m.job = worker[w].job
          /\ m.item = e /\ m.status = event[e].status
      <3>1. worker[w].gen \in Nat
        BY <1>0 DEF Memory
      <3>2. m \in Memory
        BY <1>0, <2>1, <2>3, <3>1 DEF Memory, Idle, Owning
      <3>3. /\ m.pc = "claimEvent" /\ m.job = worker[w].job
            /\ m.item = e /\ m.status = event[e].status
        BY DEF Idle
      <3> QED
        BY <3>2, <3>3
    <2> HIDE DEF m
    <2>5. /\ worker' \in [Worker -> Memory] /\ worker'[w] = m
          /\ \A v \in Worker \ {w} : worker'[v] = worker[v]
      BY <1>0, <1>3, <2>4, MemoryReplaced DEF m
    <2>6. TypeOK'
      BY <1>0, <2>5 DEF TypeOK, PickItem
    <2>7. Remembers(w)'
      BY <1>0, <2>1, <2>3, <2>4, <2>5 DEF Remembers, ItemSteps, PickItem
    <2> QED
      BY <1>1, <2>5, <2>6, <2>7, Bookkeeping
  <1> QED
    BY <1>2, <1>3 DEF PickItem

(* Leasing the event, at first or again before a wave.                     *)
LEMMA ClaimIInv ==
  ASSUME IInv, NEW w \in Worker, ClaimEvent(w) \/ RenewClaim(w)
  PROVE  IInv'
  <1> USE WebhookAssumption
  <1>0. /\ TypeOK /\ worker[w].pc \in ItemSteps
        /\ worker[w] \in Memory /\ clock + Lease \in Nat
    BY DEF IInv, ClaimEvent, RenewClaim, ItemSteps, TypeOK
  <1>1. ASSUME NEW pc \in {"yield", "interrupted"}, Goto(w, pc),
               UNCHANGED event
        PROVE  IInv'
    <2> DEFINE m == [worker[w] EXCEPT !.pc = pc]
    <2>1. /\ m \in Memory /\ m.pc = pc /\ m.job = worker[w].job
          /\ m.item = worker[w].item /\ m.status = worker[w].status
      BY <1>0 DEF Memory, Owning
    <2>2. m.pc \in ItemSteps \cup {"interrupted"}
      BY <2>1 DEF ItemSteps
    <2>3. Becomes(w, m)
      BY <1>1 DEF Goto
    <2>4. event' \in [Event -> EventRow] /\ KeepsEvents
      BY <1>0, <1>1 DEF TypeOK, KeepsEvents
    <2>5. UNCHANGED <<clock, registered, deliveries, job, due, faults>>
      BY DEF ClaimEvent, RenewClaim
    <2> HIDE DEF m
    <2> QED
      BY <1>0, <2>1, <2>2, <2>3, <2>4, <2>5, KeepsItem
  <1>2. ASSUME NEW pc \in {"endpoints", "post"}, worker[w].item \in Event,
               Becomes(w, [worker[w] EXCEPT !.pc = pc,
                                            !.claim = clock + Lease]),
               event' = [event EXCEPT ![worker[w].item] =
                 [event[worker[w].item] EXCEPT !.nextAttemptAt = clock + Lease]]
        PROVE  IInv'
    <2> DEFINE m == [worker[w] EXCEPT !.pc = pc, !.claim = clock + Lease]
    <2>1. /\ m \in Memory /\ m.pc = pc /\ m.job = worker[w].job
          /\ m.item = worker[w].item /\ m.status = worker[w].status
      <3>1. ASSUME NEW at \in Nat
            PROVE  LET n == [worker[w] EXCEPT !.pc = pc, !.claim = at] IN
                   /\ n \in Memory /\ n.pc = pc /\ n.job = worker[w].job
                   /\ n.item = worker[w].item /\ n.status = worker[w].status
        BY <1>0 DEF Memory, Owning
      <3>2. clock + Lease \in Nat
        BY <1>0
      <3> QED
        BY <3>1, <3>2, Zenon
    <2>2. m.pc \in ItemSteps \cup {"interrupted"}
      BY <2>1 DEF ItemSteps
    <2>3. Becomes(w, m)
      BY <1>2
    <2>4. event' \in [Event -> EventRow] /\ KeepsEvents
      BY <1>0, <1>2, EventReplaced
    <2>5. UNCHANGED <<clock, registered, deliveries, job, due, faults>>
      BY DEF ClaimEvent, RenewClaim
    <2> HIDE DEF m
    <2> QED
      BY <1>0, <2>1, <2>2, <2>3, <2>4, <2>5, KeepsItem
  <1>3. worker[w].item \in Event
    BY <1>0 DEF IInv, WorkerMemory, Remembers, ItemSteps, TypeOK, JobRow
  <1> QED
    BY <1>1, <1>2, <1>3 DEF ClaimEvent, RenewClaim

LEMMA ReadOrPostIInv ==
  ASSUME IInv, NEW w \in Worker,
         ReadEndpoints(w) \/ ReadTargets(w) \/ PostWave(w)
  PROVE  IInv'
  <1>0. TypeOK /\ worker[w].pc \in ItemSteps /\ worker[w] \in Memory
    BY DEF IInv, ReadEndpoints, ReadTargets, PostWave, ItemSteps, TypeOK
  <1>1. event' \in [Event -> EventRow] /\ KeepsEvents
    BY <1>0 DEF ReadEndpoints, ReadTargets, PostWave, TypeOK, KeepsEvents
  <1>2. UNCHANGED <<clock, registered, deliveries, job, due, faults>>
    BY DEF ReadEndpoints, ReadTargets, PostWave
  <1>3. ASSUME NEW m \in Memory, Becomes(w, m), m.pc \in ItemSteps,
               m.job = worker[w].job, m.item = worker[w].item,
               m.status = worker[w].status
        PROVE  IInv'
    BY <1>0, <1>1, <1>2, <1>3, KeepsItem
  <1>4. ASSUME NEW found \in SUBSET Endpoint, NEW pc \in {"skip", "targets"},
               Becomes(w, [worker[w] EXCEPT !.endpoints = found, !.pc = pc])
        PROVE  IInv'
    <2> DEFINE m == [worker[w] EXCEPT !.endpoints = found, !.pc = pc]
    <2>1. /\ m \in Memory /\ m.pc \in ItemSteps /\ m.job = worker[w].job
          /\ m.item = worker[w].item /\ m.status = worker[w].status
      BY <1>0 DEF Memory, Owning, ItemSteps
    <2> HIDE DEF m
    <2> QED
      BY <1>3, <1>4, <2>1 DEF m
  <1>5. ASSUME NEW left \in SUBSET Endpoint,
               NEW pc \in {"finalize", "renewJob", "fault"},
               Becomes(w, [worker[w] EXCEPT !.targets = left, !.pc = pc])
        PROVE  IInv'
    <2> DEFINE m == [worker[w] EXCEPT !.targets = left, !.pc = pc]
    <2>1. /\ m \in Memory /\ m.pc \in ItemSteps /\ m.job = worker[w].job
          /\ m.item = worker[w].item /\ m.status = worker[w].status
      BY <1>0 DEF Memory, Owning, ItemSteps
    <2> HIDE DEF m
    <2> QED
      BY <1>3, <1>5, <2>1 DEF m
  <1>6. ASSUME NEW ok \in SUBSET Endpoint, NEW bad \in SUBSET Endpoint,
               NEW pc \in {"finalize", "renewJob"},
               Becomes(w, [worker[w] EXCEPT !.ok = ok, !.bad = bad, !.pc = pc])
        PROVE  IInv'
    <2> DEFINE m == [worker[w] EXCEPT !.ok = ok, !.bad = bad, !.pc = pc]
    <2>1. /\ m \in Memory /\ m.pc \in ItemSteps /\ m.job = worker[w].job
          /\ m.item = worker[w].item /\ m.status = worker[w].status
      BY <1>0 DEF Memory, Owning, ItemSteps
    <2> HIDE DEF m
    <2> QED
      BY <1>3, <1>6, <2>1 DEF m
  <1>7. CASE ReadEndpoints(w)
    <2> DEFINE found == {x \in registered : worker[w].item \in Subscriptions[x]}
               pc == IF found = {} THEN "skip" ELSE "targets"
    <2>1. found \in SUBSET Endpoint /\ pc \in {"skip", "targets"}
      BY <1>0 DEF TypeOK
    <2>2. Becomes(w, [worker[w] EXCEPT !.endpoints = found, !.pc = pc])
      BY <1>7 DEF ReadEndpoints
    <2> HIDE DEF found, pc
    <2> QED
      BY <1>4, <2>1, <2>2
  <1>8. CASE ReadTargets(w)
    <2> DEFINE left == worker[w].endpoints \ Succeeded(worker[w].item)
    <2>1. left \in SUBSET Endpoint
      BY <1>0 DEF Memory
    <2>2. \E pc \in {"finalize", "renewJob", "fault"} :
            Becomes(w, [worker[w] EXCEPT !.targets = left, !.pc = pc])
      BY <1>8 DEF ReadTargets
    <2> HIDE DEF left
    <2> QED
      BY <1>5, <2>1, <2>2
  <1>9. CASE PostWave(w)
    <2>1. PICK wave \in SUBSET (worker[w].targets
                                 \ (worker[w].ok \cup worker[w].bad)) :
            \E good \in SUBSET wave : \E pc \in {"finalize", "renewJob"} :
              Becomes(w, [worker[w] EXCEPT
                !.ok = worker[w].ok \cup good,
                !.bad = worker[w].bad \cup (wave \ good), !.pc = pc])
      BY <1>9 DEF PostWave
    <2>2. PICK good \in SUBSET wave, pc \in {"finalize", "renewJob"} :
            Becomes(w, [worker[w] EXCEPT
              !.ok = worker[w].ok \cup good,
              !.bad = worker[w].bad \cup (wave \ good), !.pc = pc])
      BY <2>1
    <2>3. /\ worker[w].ok \cup good \in SUBSET Endpoint
          /\ worker[w].bad \cup (wave \ good) \in SUBSET Endpoint
      BY <1>0 DEF Memory
    <2> QED
      BY <1>6, <2>2, <2>3
  <1> QED
    BY <1>7, <1>8, <1>9

-----------------------------------------------------------------------------
(* Settling an item, completing a job, and the requests.                   *)

LEMMA SettledRowTyped ==
  ASSUME NEW row \in JobRow, NEW e \in Event, NEW o \in Outcome,
         clock \in Nat, Lease \in Nat
  PROVE  LET new == SettledRow(row, e, o) IN
         /\ new \in JobRow /\ new.items = row.items
         /\ new.status = row.status
         /\ new.outcome = [row.outcome EXCEPT ![e] = o]
  <1> DEFINE new == SettledRow(row, e, o)
  <1>1. /\ new.items = row.items /\ new.status = row.status
        /\ new.outcome = [row.outcome EXCEPT ![e] = o]
    BY DEF SettledRow, JobRow
  <1>2. new \in JobRow
    <2>1. /\ clock + Lease \in Nat /\ row.processed + 1 \in Nat
          /\ [row.outcome EXCEPT ![e] = o] \in [Event -> Outcome \cup {"NONE"}]
      BY DEF JobRow
    <2>2. [row.counters EXCEPT ![o] = row.counters[o] + 1] \in [Outcome -> Nat]
      BY DEF JobRow
    <2>3. ASSUME NEW l \in Nat, NEW f \in [Event -> Outcome \cup {"NONE"}],
                 NEW n \in Nat, NEW c \in [Outcome -> Nat]
          PROVE  [row EXCEPT !.leaseUntil = l, !.outcome = f, !.processed = n,
                             !.counters = c, !.interrupted = FALSE] \in JobRow
      BY DEF JobRow
    <2> QED
      BY <2>1, <2>2, <2>3 DEF SettledRow
  <1> QED
    BY <1>1, <1>2

LEMMA SettleIInv ==
  ASSUME IInv, NEW w \in Worker, worker[w].pc \in ItemSteps,
         NEW o \in Outcome, NEW row \in EventRow,
         NEW records \in SUBSET Delivery, Settle(w, o, row, records)
  PROVE  IInv'
  <1> USE WebhookAssumption
  <1>a. TypeOK /\ Remembers(w) /\ worker[w].pc # "idle"
    BY DEF IInv, WorkerMemory, ItemSteps
  <1>b. PICK j \in Job : j = worker[w].job
    BY <1>a DEF Remembers
  <1>c. worker[w].item \in Event
    BY <1>a DEF Remembers, TypeOK, JobRow
  <1>d. PICK e \in Event : e = worker[w].item
    BY <1>c
  <1> DEFINE new == SettledRow(job[j], e, o)
  <1>0. /\ TypeOK /\ Remembers(w) /\ job[j].status # "ABSENT"
        /\ e \in job[j].items /\ job[j] \in JobRow
    BY <1>a, <1>b, <1>d DEF Remembers, TypeOK
  <1>1. PICK pc \in {"renew", "interrupted"} : Goto(w, pc)
    BY DEF Settle
  <1>2. /\ worker' \in [Worker -> Memory]
        /\ worker'[w].pc = pc /\ worker'[w].job = j
        /\ \A v \in Worker \ {w} : worker'[v] = worker[v]
    <2>1. pc \in AnyPc
      BY DEF AnyPc, Owning
    <2> QED
      BY <1>0, <1>1, <1>b, <2>1, PcReplaced
  <1>3. faults' \in Nat
    BY <1>0 DEF Settle, MayFault, TypeOK
  <1>4. CASE UNCHANGED <<job, event, deliveries>>
    <2>1. KeepsBatches /\ KeepsEvents
      BY <1>4 DEF KeepsBatches, KeepsEvents
    <2>2. TypeOK'
      BY <1>0, <1>2, <1>3, <1>4 DEF TypeOK, Settle
    <2>3. Remembers(w)'
      BY <1>0, <1>2, <1>4 DEF Remembers, ItemSteps
    <2> QED
      BY <1>2, <2>1, <2>2, <2>3, Bookkeeping
  <1>5. CASE /\ HoldsLease(w)
             /\ job' = [job EXCEPT ![j] = new]
             /\ event' = [event EXCEPT ![e] = row]
             /\ deliveries' = deliveries \cup records
    <2>1. /\ new \in JobRow /\ new.items = job[j].items
          /\ new.status = job[j].status
          /\ new.outcome = [job[j].outcome EXCEPT ![e] = o]
      BY <1>0, SettledRowTyped DEF TypeOK
    <2> HIDE DEF new
    <2>2. /\ job' \in [Job -> JobRow]
          /\ \A i \in Job : job'[i] = IF i = j THEN new ELSE job[i]
      BY <1>0, <1>5, <2>1 DEF TypeOK
    <2>3. TypeOK'
      BY <1>0, <1>2, <1>3, <1>5, <2>2 DEF TypeOK, Settle
    <2>4. \A i \in Job : /\ job'[i].status = job[i].status
                         /\ job'[i].items = job[i].items
                         /\ Active(i)' <=> Active(i)
      BY <2>1, <2>2 DEF Active
    <2>5. /\ job[j].outcome \in [Event -> Outcome \cup {"NONE"}]
          /\ o # "NONE"
      BY <1>0 DEF JobRow, Outcome
    <2>6. \A d \in Event : job'[j].outcome[d] =
                              IF d = e THEN o ELSE job[j].outcome[d]
      BY <1>0, <2>1, <2>2, <2>5
    <2>7. /\ Undecided(j)' = Undecided(j) \ {e}
          /\ \A i \in Job \ {j} : Undecided(i)' = Undecided(i)
      <3>1. /\ job[j].items \subseteq Event
            /\ job'[j].items = job[j].items
        BY <1>0, <2>4 DEF JobRow
      <3>2. Undecided(j)' = Undecided(j) \ {e}
        BY <2>5, <2>6, <3>1 DEF Undecided
      <3>3. \A i \in Job \ {j} : Undecided(i)' = Undecided(i)
        BY <2>2 DEF Undecided
      <3> QED
        BY <3>2, <3>3
    <2>8. OneActive'
      BY <2>4 DEF OneActive, IInv
    <2>9. BatchRows'
      BY <1>0, <2>2, <2>4, <2>6, <2>7 DEF BatchRows, IInv
    <2>10. Active(j)
      BY <1>5, <1>b DEF HoldsLease, Active
    <2>11. UndecidedIsDispatchable'
      <3> SUFFICES ASSUME NEW i \in Job, Active(i)', NEW d \in Undecided(i)'
                   PROVE  /\ event'[d].status \in Dispatchable
                          /\ event'[d].attempts < MaxAttempts
        BY DEF UndecidedIsDispatchable
      <3>1. i = j
        BY <2>4, <2>10 DEF OneActive, IInv
      <3>2. d \in Undecided(j) /\ d # e
        BY <2>7, <3>1
      <3>3. d \in Event
        BY <1>0, <3>2 DEF Undecided, JobRow
      <3>4. event'[d] = event[d]
        BY <1>0, <1>5, <3>2, <3>3 DEF TypeOK
      <3> QED
        BY <2>10, <3>2, <3>4 DEF UndecidedIsDispatchable, IInv
    <2>12. KeepsMembers
      BY <2>4, <2>7 DEF KeepsMembers
    <2>13. Remembers(w)'
      BY <1>0, <1>2, <2>4 DEF Remembers, ItemSteps
    <2> QED
      BY <1>2, <2>3, <2>8, <2>9, <2>11, <2>12, <2>13, MemoryKept
      DEF IInv, WorkerMemory
  <1> QED
    BY <1>4, <1>5, <1>b, <1>d DEF Settle, CanSettle

LEMMA SettleAnyIInv ==
  ASSUME IInv, NEW w \in Worker,
         SettleSkipped(w) \/ SettleFault(w) \/ SettleDelivery(w)
  PROVE  IInv'
  <1> USE WebhookAssumption
  <1>0. /\ TypeOK /\ Remembers(w) /\ worker[w].pc \in ItemSteps
        /\ worker[w] \in Memory /\ clock \in Nat
    BY DEF IInv, WorkerMemory, TypeOK, ItemSteps, SettleSkipped, SettleFault,
           SettleDelivery
  <1>1. worker[w].attempts \in Nat /\ worker[w].attempts + 1 \in Nat
    BY <1>0 DEF Memory
  <1>2. worker[w].status \in Dispatchable /\ worker[w].item \in Event
    BY <1>0 DEF Remembers, ItemSteps, TypeOK, JobRow
  <1>3. ASSUME NEW s \in {"PENDING", "FAILED", "DELIVERED", "SKIPPED"},
               NEW a \in Nat, NEW t \in Nat
        PROVE  [status |-> s, attempts |-> a, nextAttemptAt |-> t] \in EventRow
    BY DEF EventRow
  <1>4. CASE SettleSkipped(w)
    <2>1. [status |-> "SKIPPED", attempts |-> worker[w].attempts + 1,
           nextAttemptAt |-> 0] \in EventRow
      BY <1>1, <1>3
    <2> QED
      BY <1>0, <1>4, <2>1, SettleIInv DEF SettleSkipped, Outcome
  <1>5. CASE SettleFault(w)
    <2>1. clock + FaultDelay \in Nat
      BY <1>0
    <2>2. [status |-> worker[w].status, attempts |-> worker[w].attempts,
           nextAttemptAt |-> clock + FaultDelay] \in EventRow
      BY <1>1, <1>2, <1>3, <2>1 DEF Dispatchable
    <2> QED
      BY <1>0, <1>5, <2>2, SettleIInv DEF SettleFault, Outcome
  <1>6. CASE SettleDelivery(w)
    <2> DEFINE o == IF worker[w].bad # {} THEN "FAILED" ELSE "DELIVERED"
               a == worker[w].attempts + 1
               t == IF worker[w].bad # {} THEN RetryAt(a) ELSE 0
               row == [status |-> o, attempts |-> a, nextAttemptAt |-> t]
    <2>1. t \in Nat
      BY <1>0 DEF RetryAt
    <2>2. o \in Outcome /\ o \in {"FAILED", "DELIVERED"}
      BY DEF Outcome
    <2>3. Records(w) \in SUBSET Delivery
      BY <1>0, <1>1, <1>2 DEF Records, Delivery, Memory
    <2>4. row \in EventRow
      <3> HIDE DEF o, a, t
      <3>1. a \in Nat
        BY <1>1 DEF a
      <3> QED
        BY <1>3, <2>1, <2>2, <3>1
    <2>5. Settle(w, o, row, Records(w))
      BY <1>6 DEF SettleDelivery
    <2> HIDE DEF row, o
    <2> QED
      BY <1>0, <2>2, <2>3, <2>4, <2>5, SettleIInv
  <1> QED
    BY <1>4, <1>5, <1>6

LEMMA CompleteJobIInv ==
  ASSUME IInv, NEW w \in Worker, CompleteJob(w)
  PROVE  IInv'
  <1>a. /\ TypeOK /\ Remembers(w) /\ worker[w].pc = "complete"
        /\ faults \in Nat
    BY DEF IInv, WorkerMemory, CompleteJob, TypeOK
  <1>b. PICK j \in Job : j = worker[w].job
    BY <1>a DEF Remembers
  <1>0. /\ job[j].status # "ABSENT" /\ Undecided(j) = {} /\ job[j] \in JobRow
    BY <1>a, <1>b DEF Remembers, TypeOK
  <1>1. faults' \in Nat
    BY <1>a DEF CompleteJob, MayFault
  <1>2. /\ worker' \in [Worker -> Memory]
        /\ \A v \in Worker \ {w} : worker'[v] = worker[v]
        /\ \/ worker'[w].pc = "interrupted" /\ worker'[w].job = j
           \/ worker'[w].pc = "idle"
    <2>1. CASE Becomes(w, Idle)
      <3>1. Idle \in Memory /\ Idle.pc = "idle"
        BY DEF Idle, Memory
      <3> QED
        BY <1>a, <2>1, <3>1, MemoryReplaced
    <2>2. CASE Goto(w, "interrupted")
      <3>1. "interrupted" \in AnyPc
        BY DEF AnyPc, Owning
      <3> QED
        BY <1>a, <1>b, <2>2, <3>1, PcReplaced
    <2> QED
      BY <2>1, <2>2 DEF CompleteJob
  <1>3. CASE UNCHANGED job
    <2>1. KeepsBatches /\ KeepsEvents
      BY <1>3 DEF KeepsBatches, KeepsEvents, CompleteJob
    <2>2. TypeOK'
      BY <1>a, <1>1, <1>2, <1>3 DEF TypeOK, CompleteJob
    <2>3. Remembers(w)'
      BY <1>0, <1>2, <1>3 DEF Remembers, ItemSteps
    <2> QED
      BY <1>2, <2>1, <2>2, <2>3, Bookkeeping
  <1>4. CASE job' = [job EXCEPT ![j] = CompletedRow(job[j])]
    <2> DEFINE new == CompletedRow(job[j])
    <2>1. /\ new \in JobRow /\ new.status = "SUCCEEDED"
          /\ new.items = job[j].items /\ new.outcome = job[j].outcome
      BY <1>0 DEF CompletedRow, JobRow
    <2> HIDE DEF new
    <2>2. /\ job' \in [Job -> JobRow]
          /\ \A i \in Job : job'[i] = IF i = j THEN new ELSE job[i]
      BY <1>a, <1>4, <2>1 DEF TypeOK, new
    <2>3. TypeOK'
      BY <1>a, <1>1, <1>2, <2>2 DEF TypeOK, CompleteJob
    <2>4. \A i \in Job : Undecided(i)' = Undecided(i)
      BY <2>1, <2>2 DEF Undecided, CompleteJob
    <2>5. \A i \in Job : Active(i)' => Active(i)
      BY <2>1, <2>2 DEF Active
    <2>6. OneActive'
      BY <2>5 DEF OneActive, IInv
    <2>7. BatchRows'
      BY <1>0, <2>1, <2>2, <2>4 DEF BatchRows, IInv
    <2>8. UndecidedIsDispatchable'
      BY <2>4, <2>5 DEF UndecidedIsDispatchable, IInv, CompleteJob
    <2>9. KeepsMembers
      BY <2>1, <2>2, <2>4 DEF KeepsMembers
    <2>10. Remembers(w)'
      BY <1>2, <2>1, <2>2 DEF Remembers, ItemSteps
    <2> QED
      BY <1>2, <2>3, <2>6, <2>7, <2>8, <2>9, <2>10, MemoryKept
      DEF IInv, WorkerMemory
  <1> QED
    BY <1>3, <1>4, <1>b DEF CompleteJob

LEMMA RequestDispatchIInv ==
  ASSUME IInv, NEW j \in Job, RequestDispatch(j)
  PROVE  IInv'
  <1> DEFINE new == [job[j] EXCEPT !.status = "PENDING", !.items = Batch]
  <1>0. TypeOK /\ job[j] \in JobRow /\ job[j].status = "ABSENT"
    BY DEF IInv, TypeOK, RequestDispatch
  <1>1. /\ new \in JobRow /\ new.status = "PENDING" /\ new.items = Batch
        /\ new.outcome = job[j].outcome
    BY <1>0 DEF JobRow, Batch, Eligible
  <1>2. job' = [job EXCEPT ![j] = new]
    BY DEF RequestDispatch
  <1> HIDE DEF new
  <1>3. /\ job' \in [Job -> JobRow]
        /\ \A i \in Job : job'[i] = IF i = j THEN new ELSE job[i]
    BY <1>0, <1>1, <1>2 DEF TypeOK
  <1>4. TypeOK'
    BY <1>0, <1>3 DEF TypeOK, RequestDispatch
  <1>5. \A i \in Job : Active(i)' <=> i = j
    BY <1>1, <1>3 DEF Active, RequestDispatch
  <1>6. OneActive'
    BY <1>5 DEF OneActive
  <1>7. job[j].outcome = [e \in Event |-> "NONE"]
    BY <1>0 DEF IInv, BatchRows
  <1>8. /\ \A i \in Job \ {j} : Undecided(i)' = Undecided(i)
        /\ Undecided(j)' \subseteq Batch
    BY <1>1, <1>3 DEF Undecided
  <1>9. BatchRows'
    BY <1>1, <1>3, <1>7, <1>8 DEF BatchRows, IInv
  <1>10. UndecidedIsDispatchable'
    BY <1>5, <1>8
    DEF UndecidedIsDispatchable, RequestDispatch, Batch, Eligible
  <1>11. KeepsMembers
    BY <1>0, <1>3, <1>8 DEF KeepsMembers
  <1>12. UNCHANGED worker
    BY DEF RequestDispatch
  <1> QED
    BY <1>4, <1>6, <1>9, <1>10, <1>11, <1>12, MemoryKept DEF IInv, WorkerMemory

(* The steps in which no worker moves and no batch changes.                *)
LEMMA ElsewhereIInv ==
  ASSUME IInv, \/ \E e \in Event : Enqueue(e)
               \/ \E x \in Endpoint : RegisterEndpoint(x)
               \/ Tick \/ UNCHANGED vars
  PROVE  IInv'
  <1>0. TypeOK
    BY DEF IInv
  <1>1. UNCHANGED <<job, worker, deliveries, faults>>
    BY DEF Enqueue, RegisterEndpoint, Tick, vars
  <1>2. clock' \in Nat \ {0} /\ registered' \subseteq Endpoint
        /\ due' \subseteq Worker
    BY <1>0 DEF Enqueue, RegisterEndpoint, Tick, vars, TypeOK
  <1>3. event' \in [Event -> EventRow] /\ KeepsEvents
    <2>1. CASE UNCHANGED event
      BY <1>0, <2>1 DEF TypeOK, KeepsEvents
    <2>2. ASSUME NEW e \in Event, Enqueue(e)
          PROVE  event' \in [Event -> EventRow] /\ KeepsEvents
      BY <1>0, <2>2 DEF Enqueue, TypeOK, EventRow, KeepsEvents, Dispatchable
    <2> QED
      BY <2>1, <2>2 DEF RegisterEndpoint, Tick, vars
  <1>4. TypeOK'
    BY <1>0, <1>1, <1>2, <1>3 DEF TypeOK
  <1>5. KeepsBatches
    BY <1>1 DEF KeepsBatches
  <1> QED
    BY <1>1, <1>3, <1>4, <1>5, BatchesKept, MembersKept, MemoryKept
    DEF IInv, WorkerMemory

-----------------------------------------------------------------------------
(* The theorems.                                                           *)

LEMMA StepIInv == IInv /\ [Next]_vars => IInv'
  <1> SUFFICES ASSUME IInv, [Next]_vars PROVE IInv'
    OBVIOUS
  <1>1. ASSUME NEW w \in Worker, Step(w) PROVE IInv'
    <2>1. CASE RenewForItem(w)
      BY <2>1, RenewThenIInv DEF RenewForItem
    <2>2. CASE RenewForWave(w)
      BY <2>2, RenewThenIInv DEF RenewForWave
    <2> QED
      BY <1>1, <2>1, <2>2, PollIInv, ClaimJobIInv, PickItemIInv, ClaimIInv,
         YieldIInv, ReadOrPostIInv, SettleAnyIInv, CompleteJobIInv,
         RecordInterruptionIInv DEF Step
  <1> QED
    BY <1>1, StopIInv, RequestDispatchIInv, ElsewhereIInv DEF Next

(* Every reachable state keeps the invariant the other theorems rest on.   *)
THEOREM AlwaysIInv == Spec => []IInv
  BY InitIInv, StepIInv, PTL DEF Spec

(* The rows, the delivery records and what every process remembers have    *)
(* their types, in every step of any number of processes.                  *)
THEOREM TypeCorrect == Spec => []TypeOK
  <1>1. IInv => TypeOK
    BY DEF IInv
  <1> QED
    BY <1>1, AlwaysIInv, PTL

(* An item of the active job that has no outcome yet can be dispatched: no *)
(* crash, takeover or late worker strands it.                              *)
THEOREM NoItemIsStranded == Spec => []UndecidedIsDispatchable
  <1>1. IInv => UndecidedIsDispatchable
    BY DEF IInv
  <1> QED
    BY <1>1, AlwaysIInv, PTL

(* Settling is the only step that gives an item an outcome.                *)
OutcomesStay == \A j \in Job : job'[j].outcome = job[j].outcome

LEMMA OutcomesKept ==
  ASSUME TypeOK, NEW j \in Job, NEW row, row.outcome = job[j].outcome,
         job' = [job EXCEPT ![j] = row]
  PROVE  OutcomesStay
  BY DEF TypeOK, OutcomesStay

LEMMA LeaseKeepsOutcomes ==
  ASSUME TypeOK, NEW j \in Job, NEW lease,
         job' = [job EXCEPT ![j] = [job[j] EXCEPT !.leaseUntil = lease]]
  PROVE  OutcomesStay
  <1> DEFINE row == [job[j] EXCEPT !.leaseUntil = lease]
  <1>1. row.outcome = job[j].outcome
    BY DEF TypeOK, JobRow
  <1>2. job' = [job EXCEPT ![j] = row]
    OBVIOUS
  <1> HIDE DEF row
  <1> QED
    BY <1>1, <1>2, OutcomesKept

LEMMA WorkKeepsOutcomes ==
  ASSUME IInv, NEW w \in Worker, Step(w),
         ~(SettleSkipped(w) \/ SettleFault(w) \/ SettleDelivery(w))
  PROVE  OutcomesStay
  <1>0. TypeOK /\ WorkerMemory
    BY DEF IInv
  <1>1. CASE UNCHANGED job
    BY <1>1 DEF OutcomesStay
  <1>2. CASE worker[w].pc # "idle" /\ ~UNCHANGED job
    <2>1. PICK j \in Job : j = worker[w].job
      BY <1>0, <1>2 DEF WorkerMemory, Remembers
    <2>2. job[j] \in JobRow
      BY <1>0 DEF TypeOK
    <2>3. CASE ClaimJob(w)
      <3> DEFINE row == ClaimedRow(job[j], w)
      <3>1. row.outcome = job[j].outcome
        BY <2>2 DEF ClaimedRow, JobRow
      <3>2. job' = [job EXCEPT ![j] = row]
        BY <1>2, <2>1, <2>3 DEF ClaimJob
      <3> HIDE DEF row
      <3> QED
        BY <1>0, <3>1, <3>2, OutcomesKept
    <2>4. CASE RenewForItem(w) \/ RenewForWave(w)
      <3> DEFINE lease == clock + Lease
      <3>1. job' = [job EXCEPT ![j] = [job[j] EXCEPT !.leaseUntil = lease]]
        BY <1>2, <2>1, <2>4 DEF RenewForItem, RenewForWave, RenewThen
      <3> HIDE DEF lease
      <3> QED
        BY <1>0, <3>1, LeaseKeepsOutcomes
    <2>5. CASE Yield(w)
      <3>1. job' = [job EXCEPT ![j] = [job[j] EXCEPT !.leaseUntil = clock]]
        BY <1>2, <2>1, <2>5 DEF Yield
      <3> QED
        BY <1>0, <3>1, LeaseKeepsOutcomes
    <2>6. CASE RecordInterruption(w)
      <3> DEFINE row == [job[j] EXCEPT !.interrupted = TRUE]
      <3>1. row.outcome = job[j].outcome
        BY <2>2 DEF JobRow
      <3>2. job' = [job EXCEPT ![j] = row]
        BY <1>2, <2>1, <2>6 DEF RecordInterruption
      <3> HIDE DEF row
      <3> QED
        BY <1>0, <3>1, <3>2, OutcomesKept
    <2>7. CASE CompleteJob(w)
      <3> DEFINE row == CompletedRow(job[j])
      <3>1. row.outcome = job[j].outcome
        BY <2>2 DEF CompletedRow, JobRow
      <3>2. job' = [job EXCEPT ![j] = row]
        BY <1>2, <2>1, <2>7 DEF CompleteJob
      <3> HIDE DEF row
      <3> QED
        BY <1>0, <3>1, <3>2, OutcomesKept
    <2>8. CASE \/ Poll(w) \/ PickItem(w) \/ ClaimEvent(w) \/ ReadEndpoints(w)
               \/ ReadTargets(w) \/ RenewClaim(w) \/ PostWave(w)
      BY <1>2, <2>8 DEF Poll, PickItem, ClaimEvent, ReadEndpoints,
                        ReadTargets, RenewClaim, PostWave
    <2> QED
      BY <2>3, <2>4, <2>5, <2>6, <2>7, <2>8 DEF Step
  <1>3. CASE worker[w].pc = "idle"
    <2>1. UNCHANGED job
      BY <1>3 DEF Step, Poll, ClaimJob, RenewForItem, RenewForWave, RenewThen,
                  PickItem, ClaimEvent, Yield, ReadEndpoints, ReadTargets,
                  RenewClaim, PostWave, CompleteJob, RecordInterruption
    <2> QED
      BY <1>1, <2>1
  <1> QED
    BY <1>1, <1>2, <1>3

LEMMA OnlySettlingDecides ==
  ASSUME IInv, [Next]_vars, ~OutcomesStay
  PROVE  \E w \in Worker, o \in Outcome :
           /\ worker[w].pc \in ItemSteps
           /\ CanSettle(w)
           /\ job' = [job EXCEPT ![worker[w].job] =
                        SettledRow(job[worker[w].job], worker[w].item, o)]
           /\ worker'[w] # worker[w]
  <1>0. TypeOK /\ WorkerMemory
    BY DEF IInv
  <1>1. ~UNCHANGED job
    BY DEF OutcomesStay
  <1>2. ASSUME NEW j \in Job, RequestDispatch(j) PROVE FALSE
    <2> DEFINE row == [job[j] EXCEPT !.status = "PENDING", !.items = Batch]
    <2>1. row.outcome = job[j].outcome
      BY <1>0 DEF TypeOK, JobRow
    <2>2. job' = [job EXCEPT ![j] = row]
      BY <1>2 DEF RequestDispatch
    <2> HIDE DEF row
    <2> QED
      BY <1>0, <2>1, <2>2, OutcomesKept
  <1>3. PICK w \in Worker : Step(w)
    BY <1>1, <1>2 DEF Next, Enqueue, RegisterEndpoint, Tick, StatementFails,
                      Crash, vars
  <1>4. SettleSkipped(w) \/ SettleFault(w) \/ SettleDelivery(w)
    BY <1>3, WorkKeepsOutcomes
  <1> DEFINE Decides(o) ==
        /\ CanSettle(w)
        /\ job' = [job EXCEPT ![worker[w].job] =
                     SettledRow(job[worker[w].job], worker[w].item, o)]
  <1>5. \E o \in Outcome : Decides(o)
    <2>1. CASE SettleSkipped(w)
      <3>1. Decides("SKIPPED")
        BY <1>1, <2>1 DEF SettleSkipped, Settle
      <3> QED
        BY <3>1 DEF Outcome
    <2>2. CASE SettleFault(w)
      <3>1. Decides("CONFIGURATION_FAULT")
        BY <1>1, <2>2 DEF SettleFault, Settle
      <3> QED
        BY <3>1 DEF Outcome
    <2>3. CASE SettleDelivery(w)
      <3>1. Decides(IF worker[w].bad # {} THEN "FAILED" ELSE "DELIVERED")
        BY <1>1, <2>3 DEF SettleDelivery, Settle
      <3> QED
        BY <3>1 DEF Outcome
    <2> QED
      BY <1>4, <2>1, <2>2, <2>3
  <1>6. /\ worker[w].pc \in {"skip", "fault", "finalize"}
        /\ \E pc \in {"renew", "interrupted"} : Goto(w, pc)
    BY <1>4 DEF SettleSkipped, SettleFault, SettleDelivery, Settle
  <1>7. worker[w].pc \in ItemSteps /\ worker'[w] # worker[w]
    <2>1. PICK pc \in {"renew", "interrupted"} : Goto(w, pc)
      BY <1>6
    <2>2. pc \in AnyPc
      BY DEF AnyPc, Owning
    <2>3. worker'[w].pc = pc
      BY <1>0, <2>1, <2>2, PcReplaced
    <2>4. worker'[w] # worker[w]
      BY <1>6, <2>3
    <2> QED
      BY <1>6, <2>4 DEF ItemSteps
  <1> QED
    BY <1>5, <1>7

(* Fencing, for any number of processes: an item gets its outcome once,    *)
(* from the process that took the job over last, while its lease runs.     *)
THEOREM Fencing == Spec => OnlyOwnerSettles
  <1>1. ASSUME IInv, [Next]_vars, NEW j \in Job, NEW e \in Event,
               job'[j].outcome[e] # job[j].outcome[e]
        PROVE  /\ job[j].outcome[e] = "NONE"
               /\ job[j].leaseUntil > clock
               /\ \E w \in Worker : /\ job[j].owner = w
                                    /\ worker[w].gen = job[j].generation
                                    /\ worker[w].item = e
                                    /\ worker'[w] # worker[w]
    <2>1. ~OutcomesStay
      BY <1>1 DEF OutcomesStay
    <2>2. PICK w \in Worker, o \in Outcome :
            /\ worker[w].pc \in ItemSteps
            /\ CanSettle(w)
            /\ job' = [job EXCEPT ![worker[w].job] =
                         SettledRow(job[worker[w].job], worker[w].item, o)]
            /\ worker'[w] # worker[w]
      BY <1>1, <2>1, OnlySettlingDecides
    <2>3. /\ TypeOK /\ worker[w].job \in Job /\ worker[w].item \in Event
      BY <1>1, <2>2 DEF IInv, WorkerMemory, Remembers, ItemSteps, TypeOK, JobRow
    <2> DEFINE i == worker[w].job
               d == worker[w].item
               row == SettledRow(job[i], d, o)
    <2>4. /\ job \in [Job -> JobRow] /\ clock \in Nat /\ job' = [job EXCEPT ![i] = row]
          /\ row.outcome = [job[i].outcome EXCEPT ![d] = o]
      <3>1. job[i] \in JobRow /\ clock \in Nat /\ job \in [Job -> JobRow]
        BY <2>3 DEF TypeOK
      <3> QED
        BY <2>2, <2>3, <3>1, SettledRowTyped, WebhookAssumption
    <2>5. j = i /\ e = d
      <3>1. job[i].outcome \in [Event -> Outcome \cup {"NONE"}]
        BY <2>3, <2>4 DEF JobRow
      <3> HIDE DEF i, d, row
      <3>2. j = i
        BY <1>1, <2>4
      <3>3. job'[j].outcome = [job[i].outcome EXCEPT ![d] = o]
        BY <2>4, <3>2
      <3> QED
        BY <1>1, <3>1, <3>2, <3>3
    <2> QED
      BY <2>2, <2>5 DEF CanSettle, HoldsLease, Owns
  <1>2. IInv /\ [Next]_vars =>
          [\A j \in Job, e \in Event :
             job'[j].outcome[e] # job[j].outcome[e] =>
               /\ job[j].outcome[e] = "NONE"
               /\ job[j].leaseUntil > clock
               /\ \E w \in Worker : /\ job[j].owner = w
                                    /\ worker[w].gen = job[j].generation
                                    /\ worker[w].item = e
                                    /\ worker'[w] # worker[w]]_vars
    BY <1>1
  <1> QED
    BY <1>2, AlwaysIInv, PTL DEF Spec, OnlyOwnerSettles

-----------------------------------------------------------------------------
(* What the dispatcher decides and records: the numbers of a job, the      *)
(* attempts and the delivery history of an event, and the promise to an    *)
(* administrator.                                                          *)

(* An event that is closed, or out of attempts.                            *)
IsClosed(e) == \/ event[e].status \in {"DELIVERED", "SKIPPED"}
               \/ event[e].attempts >= MaxAttempts

(* The row of a job that succeeded is not touched any more.                *)
Released ==
  \A j \in Job : job[j].status = "SUCCEEDED" =>
    job[j].owner = Nobody /\ ~job[j].interrupted

(* The numbers of a job count its outcomes.                                *)
Counted ==
  \A j \in Job :
    /\ \A o \in Outcome : job[j].counters[o] = Cardinality(Having(j, o))
    /\ job[j].processed = Cardinality(Event \ Having(j, "NONE"))

(* The jobs that spent an attempt on an event.                             *)
Spending(e) == {j \in Job : job[j].outcome[e] \in {"DELIVERED", "FAILED", "SKIPPED"}}

Spent ==
  \A e \in Event :
    /\ event[e].status = "ABSENT" => event[e].attempts = 0
    /\ event[e].attempts = Cardinality(Spending(e))
    /\ event[e].attempts <= MaxAttempts

(* Records are of attempts that were made, and end with a success.         *)
OneRecordEach ==
  \A c, d \in deliveries :
    c.event = d.event /\ c.endpoint = d.endpoint /\ c # d =>
      c.attempt # d.attempt /\ (c.status = "SUCCESS" => d.attempt < c.attempt)

RecordsFit ==
  /\ \A d \in deliveries : d.attempt <= event[d.event].attempts
  /\ OneRecordEach

(* What a worker knows of the endpoints and the attempts of its item.      *)
Sending == {"fault", "renewJob", "renewClaim", "post", "finalize"}

KnowsTargets(m) ==
  /\ m.endpoints # {} /\ m.endpoints \ m.targets \subseteq Succeeded(m.item)
  /\ m.ok \cup m.bad \subseteq m.targets /\ m.ok \cap m.bad = {}
  /\ event[m.item].attempts = m.attempts => m.targets \cap Succeeded(m.item) = {}
  /\ m.pc = "finalize" => m.targets \subseteq m.ok \cup m.bad

KnowsOf(m) ==
  /\ m.pc \in ItemSteps =>
       m.attempts < MaxAttempts /\ m.attempts <= event[m.item].attempts
  /\ m.pc \in {"claimEvent", "endpoints", "targets"} => m.ok = {} /\ m.bad = {}
  /\ m.pc = "targets" => m.endpoints # {}
  /\ m.pc \in Sending => KnowsTargets(m)

Knows(w) == KnowsOf(worker[w])

HInv ==
  /\ IInv
  /\ Released
  /\ Counted
  /\ Spent
  /\ RecordsFit
  /\ \A w \in Worker : Knows(w)

LEMMA InitHInv == Init => HInv
  <1> SUFFICES ASSUME Init PROVE HInv
    OBVIOUS
  <1> USE WebhookAssumption
  <1>1. IInv
    BY InitIInv
  <1>2. Released
    BY DEF Init, Released, NoJobRow
  <1>3. \A j \in Job, e \in Event : job[j].outcome[e] = "NONE"
    BY DEF Init, NoJobRow
  <1>4. Counted
    <2>1. \A j \in Job, o \in Outcome : Having(j, o) = {}
      BY <1>3 DEF Having, Outcome
    <2>2. \A j \in Job : Event \ Having(j, "NONE") = {}
      BY <1>3 DEF Having
    <2>3. \A j \in Job, o \in Outcome : job[j].counters[o] = 0 /\ job[j].processed = 0
      BY DEF Init, NoJobRow
    <2>4. \A j \in Job : job[j].processed = 0
      BY DEF Init, NoJobRow
    <2> QED
      BY <2>1, <2>2, <2>3, <2>4, FS_EmptySet DEF Counted
  <1>5. Spent
    <2>1. \A e \in Event : Spending(e) = {}
      BY <1>3 DEF Spending
    <2>2. \A e \in Event : event[e].attempts = 0
      BY DEF Init
    <2>3. 0 <= MaxAttempts /\ Cardinality({}) = 0
      BY FS_EmptySet
    <2>4. \A e \in Event : Cardinality(Spending(e)) = 0
      BY <2>1, <2>3
    <2> QED
      BY <2>2, <2>3, <2>4 DEF Spent
  <1>6. RecordsFit
    BY DEF Init, RecordsFit, OneRecordEach
  <1>7. \A w \in Worker : Knows(w)
    BY DEF Init, Knows, KnowsOf, Idle, ItemSteps, Sending
  <1> QED
    BY <1>1, <1>2, <1>4, <1>5, <1>6, <1>7 DEF HInv

-----------------------------------------------------------------------------
(* What a step does to the rows: it settles an item, completes a job,      *)
(* creates one, or leaves what is decided and recorded alone.              *)

Quiet ==
  /\ \A j \in Job :
       /\ job'[j].items = job[j].items /\ job'[j].outcome = job[j].outcome
       /\ job'[j].processed = job[j].processed /\ job'[j].counters = job[j].counters
       /\ IF Active(j) THEN Active(j)' ELSE job'[j] = job[j]
  /\ \A e \in Event :
       /\ event'[e].attempts = event[e].attempts
       /\ \/ event'[e].status = event[e].status
          \/ event[e].status = "ABSENT" /\ event'[e].status = "PENDING"
       /\ IsClosed(e) => event'[e] = event[e]
  /\ deliveries' = deliveries

Settles(w, o, row, records) == LET m == worker[w] IN
  /\ CanSettle(w) /\ HoldsEvent(w)
  /\ job' = [job EXCEPT ![m.job] = SettledRow(job[m.job], m.item, o)]
  /\ event' = [event EXCEPT ![m.item] = row]
  /\ deliveries' = deliveries \cup records

(* What the three ways to settle an item have in common.                   *)
Verdict(w, o, row, records) == LET m == worker[w] IN
  /\ m.pc \in {"skip", "fault", "finalize"}
  /\ IF o = "CONFIGURATION_FAULT"
       THEN row.status = m.status /\ row.attempts = m.attempts
       ELSE row.status = o /\ row.attempts = m.attempts + 1
  /\ \/ records = {} /\ o \in {"SKIPPED", "CONFIGURATION_FAULT"}
     \/ /\ m.pc = "finalize" /\ records = Records(w)
        /\ o \in {"DELIVERED", "FAILED"} /\ (o = "DELIVERED" => m.bad = {})

Completes(w) ==
  /\ worker[w].pc = "complete" /\ HoldsLease(w)
  /\ job' = [job EXCEPT ![worker[w].job] = CompletedRow(job[worker[w].job])]
  /\ UNCHANGED <<event, deliveries>>

(* Replacing the row of an active job by one that decides nothing.         *)
LEMMA ActiveRowReplaced ==
  ASSUME TypeOK, NEW j \in Job, NEW row, Active(j),
         job' = [job EXCEPT ![j] = row],
         row.items = job[j].items, row.outcome = job[j].outcome,
         row.processed = job[j].processed, row.counters = job[j].counters,
         row.status \in {"PENDING", "RUNNING"},
         UNCHANGED <<event, deliveries>>
  PROVE  Quiet
  <1>1. \A i \in Job : job'[i] = IF i = j THEN row ELSE job[i]
    BY DEF TypeOK
  <1> QED
    BY <1>1 DEF Quiet, Active

LEMMA NothingQuiet == UNCHANGED <<job, event, deliveries>> => Quiet
  BY DEF Quiet, Active

(* A worker that still owns a job works on an active one.                  *)
LEMMA OwnersWork ==
  ASSUME IInv, Released, NEW w \in Worker, Owns(w), worker[w].pc # "idle"
  PROVE  worker[w].job \in Job /\ Active(worker[w].job)
  <1>1. /\ worker[w].job \in Job /\ job[worker[w].job].owner = w
        /\ job[worker[w].job].status # "ABSENT" /\ job[worker[w].job] \in JobRow
    BY DEF Owns, IInv, WorkerMemory, Remembers, TypeOK
  <1> QED
    BY <1>1, WebhookAssumption DEF Released, Active, JobRow

LEMMA LeaseQuiet ==
  ASSUME IInv, NEW j \in Job, NEW lease, Active(j), UNCHANGED <<event, deliveries>>,
         job' = [job EXCEPT ![j] = [job[j] EXCEPT !.leaseUntil = lease]]
  PROVE  Quiet
  <1> DEFINE row == [job[j] EXCEPT !.leaseUntil = lease]
  <1>1. TypeOK /\ job[j] \in JobRow
    BY DEF IInv, TypeOK
  <1>2. /\ row.items = job[j].items /\ row.outcome = job[j].outcome
        /\ row.processed = job[j].processed /\ row.counters = job[j].counters
        /\ row.status = job[j].status
    BY <1>1 DEF JobRow
  <1>3. job' = [job EXCEPT ![j] = row]
    OBVIOUS
  <1> HIDE DEF row
  <1> QED
    <2>1. row.status \in {"PENDING", "RUNNING"}
      BY <1>2 DEF Active
    <2> QED
      BY <1>1, <1>2, <1>3, <2>1, ActiveRowReplaced

LEMMA JobWorkQuiet ==
  ASSUME IInv, Released, NEW w \in Worker,
         \/ ClaimJob(w) \/ RenewForItem(w) \/ RenewForWave(w)
         \/ Yield(w) \/ RecordInterruption(w)
  PROVE  Quiet
  <1>1. TypeOK /\ WorkerMemory /\ UNCHANGED <<event, deliveries>> /\ worker[w].pc # "idle"
    BY DEF IInv, ClaimJob, RenewForItem, RenewForWave, RenewThen, Yield, RecordInterruption
  <1>2. CASE UNCHANGED job
    BY <1>1, <1>2, NothingQuiet
  <1>3. PICK j \in Job : j = worker[w].job
    BY <1>1 DEF WorkerMemory, Remembers
  <1>4. job[j] \in JobRow /\ job[j].status # "ABSENT"
    BY <1>1, <1>3 DEF TypeOK, WorkerMemory, Remembers
  <1>5. CASE ClaimJob(w) /\ ~UNCHANGED job
    <2> DEFINE row == ClaimedRow(job[j], w)
    <2>1. /\ row.items = job[j].items /\ row.outcome = job[j].outcome
          /\ row.processed = job[j].processed /\ row.counters = job[j].counters
          /\ row.status = "RUNNING"
      BY <1>4 DEF ClaimedRow, JobRow
    <2>2. job' = [job EXCEPT ![j] = row] /\ Active(j)
      BY <1>3, <1>5 DEF ClaimJob, Active
    <2> HIDE DEF row
    <2> QED
      BY <1>1, <2>1, <2>2, ActiveRowReplaced
  <1>6. CASE (RenewForItem(w) \/ RenewForWave(w)) /\ ~UNCHANGED job
    <2> DEFINE lease == clock + Lease
    <2>1. /\ job' = [job EXCEPT ![j] = [job[j] EXCEPT !.leaseUntil = lease]]
          /\ HoldsLease(w)
      BY <1>3, <1>6 DEF RenewForItem, RenewForWave, RenewThen
    <2>2. Active(j)
      BY <1>3, <2>1 DEF HoldsLease, Active
    <2> HIDE DEF lease
    <2> QED
      BY <1>1, <2>1, <2>2, LeaseQuiet
  <1>7. CASE Yield(w) /\ ~UNCHANGED job
    <2>1. job' = [job EXCEPT ![j] = [job[j] EXCEPT !.leaseUntil = clock]] /\ Owns(w)
      BY <1>3, <1>7 DEF Yield
    <2> QED
      BY <1>1, <1>3, <2>1, OwnersWork, LeaseQuiet
  <1>8. CASE RecordInterruption(w) /\ ~UNCHANGED job
    <2> DEFINE row == [job[j] EXCEPT !.interrupted = TRUE]
    <2>1. /\ row.items = job[j].items /\ row.outcome = job[j].outcome
          /\ row.processed = job[j].processed /\ row.counters = job[j].counters
          /\ row.status = job[j].status
      BY <1>4 DEF JobRow
    <2>2. job' = [job EXCEPT ![j] = row] /\ Owns(w)
      BY <1>3, <1>8 DEF RecordInterruption
    <2>3. Active(j)
      BY <1>1, <1>3, <2>2, OwnersWork
    <2> HIDE DEF row
    <2> QED
      <3>1. row.status \in {"PENDING", "RUNNING"}
        BY <2>1, <2>3 DEF Active
      <3> QED
        BY <1>1, <2>1, <2>2, <2>3, <3>1, ActiveRowReplaced
  <1> QED
    BY <1>2, <1>5, <1>6, <1>7, <1>8

(* The row of an event that a worker works on is not closed.               *)
LEMMA ItemIsOpen ==
  ASSUME IInv, NEW w \in Worker, Knows(w), worker[w].pc \in ItemSteps
  PROVE  /\ worker[w] \in Memory /\ worker[w].item \in Event
         /\ worker[w].status \in Dispatchable /\ worker[w].attempts < MaxAttempts
  <1>1. Remembers(w) /\ worker[w] \in Memory /\ TypeOK
    BY DEF IInv, WorkerMemory, TypeOK
  <1>2. worker[w].pc # "idle"
    BY DEF ItemSteps
  <1>3. worker[w].item \in Event
    BY <1>1, <1>2 DEF Remembers, TypeOK, JobRow
  <1> QED
    BY <1>1, <1>3 DEF Remembers, Knows, KnowsOf

LEMMA LeasingQuiet ==
  ASSUME IInv, NEW w \in Worker, Knows(w), ClaimEvent(w) \/ RenewClaim(w)
  PROVE  Quiet
  <1>1. worker[w].pc \in ItemSteps /\ UNCHANGED <<job, deliveries>>
    BY DEF ClaimEvent, RenewClaim, ItemSteps
  <1>2. CASE UNCHANGED event
    BY <1>1, <1>2, NothingQuiet
  <1>3. PICK e \in Event : e = worker[w].item
    BY <1>1, ItemIsOpen
  <1>4. CASE ~UNCHANGED event
    <2> DEFINE until == clock + Lease
    <2>1. /\ event[e].status \in Dispatchable /\ event[e].attempts = worker[w].attempts
          /\ event' = [event EXCEPT ![e] = [event[e] EXCEPT !.nextAttemptAt = until]]
      BY <1>1, <1>3, <1>4, ItemIsOpen DEF ClaimEvent, RenewClaim, HoldsEvent
    <2>2. ~IsClosed(e)
      <3>1. worker[w].attempts < MaxAttempts /\ worker[w].attempts \in Nat
        BY <1>1, ItemIsOpen DEF Memory
      <3> QED
        BY <2>1, <3>1, WebhookAssumption DEF IsClosed, Dispatchable
    <2> DEFINE row == [event[e] EXCEPT !.nextAttemptAt = until]
    <2>3. event \in [Event -> EventRow] /\ event[e] \in EventRow
      BY DEF IInv, TypeOK
    <2>4. row.status = event[e].status /\ row.attempts = event[e].attempts
      BY <2>3 DEF EventRow
    <2>5. event' = [event EXCEPT ![e] = row]
      BY <2>1
    <2> HIDE DEF row
    <2>6. \A d \in Event : event'[d] = IF d = e THEN row ELSE event[d]
      BY <2>3, <2>5
    <2> QED
      BY <1>1, <2>2, <2>4, <2>6 DEF Quiet, Active
  <1> QED
    BY <1>2, <1>4

LEMMA EnqueueQuiet ==
  ASSUME IInv, Spent, NEW e \in Event, Enqueue(e)
  PROVE  Quiet
  <1> DEFINE row == [event[e] EXCEPT !.status = "PENDING"]
  <1>1. event \in [Event -> EventRow] /\ event[e] \in EventRow
    BY DEF IInv, TypeOK
  <1>2. row.status = "PENDING" /\ row.attempts = event[e].attempts
    BY <1>1 DEF EventRow
  <1>3. event' = [event EXCEPT ![e] = row] /\ event[e].status = "ABSENT"
        /\ UNCHANGED <<job, deliveries>>
    BY DEF Enqueue
  <1> HIDE DEF row
  <1>4. ~IsClosed(e)
    <2>1. event[e].attempts = 0 /\ ~(0 >= MaxAttempts)
      BY <1>3, WebhookAssumption DEF Spent
    <2> QED
      BY <1>3, <2>1 DEF IsClosed
  <1>5. \A d \in Event : event'[d] = IF d = e THEN row ELSE event[d]
    BY <1>1, <1>3
  <1> QED
    BY <1>2, <1>3, <1>4, <1>5 DEF Quiet, Active

(* A transaction that settles an item writes all three tables.             *)
LEMMA SettlingDecides ==
  ASSUME IInv, NEW w \in Worker, Knows(w),
         SettleSkipped(w) \/ SettleFault(w) \/ SettleDelivery(w)
  PROVE  \/ UNCHANGED <<job, event, deliveries>>
         \/ \E o \in Outcome, row \in EventRow, records \in SUBSET Delivery :
              Settles(w, o, row, records) /\ Verdict(w, o, row, records)
  <1> DEFINE Goal == \E o \in Outcome, row \in EventRow, records \in SUBSET Delivery :
                        Settles(w, o, row, records) /\ Verdict(w, o, row, records)
             a == worker[w].attempts + 1
  <1> SUFFICES UNCHANGED <<job, event, deliveries>> \/ Goal
    OBVIOUS
  <1>1. worker[w].pc \in {"skip", "fault", "finalize"}
    BY DEF SettleSkipped, SettleFault, SettleDelivery
  <1>2. /\ worker[w] \in Memory /\ worker[w].item \in Event /\ clock \in Nat
        /\ worker[w].status \in Dispatchable /\ worker[w].attempts \in Nat /\ a \in Nat
    <2>1. worker[w].pc \in ItemSteps
      BY <1>1 DEF ItemSteps
    <2> QED
      BY <2>1, ItemIsOpen DEF Memory, IInv, TypeOK
  <1>3. ASSUME NEW s \in {"PENDING", "FAILED", "DELIVERED", "SKIPPED"},
               NEW n \in Nat, NEW t \in Nat
        PROVE  LET row == [status |-> s, attempts |-> n, nextAttemptAt |-> t] IN
               row \in EventRow /\ row.status = s /\ row.attempts = n
    BY DEF EventRow
  <1>4. ASSUME NEW o \in Outcome, NEW row \in EventRow, NEW records \in SUBSET Delivery,
               Settle(w, o, row, records), Verdict(w, o, row, records)
        PROVE  UNCHANGED <<job, event, deliveries>> \/ Goal
    BY <1>4 DEF Settle, Settles
  <1>5. CASE SettleSkipped(w)
    <2> DEFINE row == [status |-> "SKIPPED", attempts |-> a, nextAttemptAt |-> 0]
    <2>1. row \in EventRow /\ row.status = "SKIPPED" /\ row.attempts = a
      BY <1>2, <1>3
    <2>2. Settle(w, "SKIPPED", row, {})
      BY <1>5 DEF SettleSkipped
    <2> HIDE DEF row, Goal
    <2>3. "SKIPPED" \in Outcome /\ {} \in SUBSET Delivery
      BY DEF Outcome
    <2>4. Verdict(w, "SKIPPED", row, {})
      BY <1>1, <2>1 DEF Verdict
    <2> QED
      BY <1>4, <2>1, <2>2, <2>3, <2>4
  <1>6. CASE SettleFault(w)
    <2> DEFINE t == clock + FaultDelay
               row == [status |-> worker[w].status, attempts |-> worker[w].attempts,
                       nextAttemptAt |-> t]
    <2>1. t \in Nat
      BY <1>2, WebhookAssumption
    <2>2. /\ row \in EventRow /\ row.status = worker[w].status
          /\ row.attempts = worker[w].attempts
      BY <1>2, <1>3, <2>1 DEF Dispatchable
    <2>3. Settle(w, "CONFIGURATION_FAULT", row, {})
      BY <1>6 DEF SettleFault
    <2> HIDE DEF row, Goal
    <2>4. "CONFIGURATION_FAULT" \in Outcome /\ {} \in SUBSET Delivery
      BY DEF Outcome
    <2>5. Verdict(w, "CONFIGURATION_FAULT", row, {})
      BY <1>1, <2>2 DEF Verdict
    <2> QED
      BY <1>4, <2>2, <2>3, <2>4, <2>5
  <1>7. CASE SettleDelivery(w)
    <2> DEFINE o == IF worker[w].bad # {} THEN "FAILED" ELSE "DELIVERED"
               t == IF worker[w].bad # {} THEN RetryAt(a) ELSE 0
               row == [status |-> o, attempts |-> a, nextAttemptAt |-> t]
    <2>1. t \in Nat
      BY <1>2, WebhookAssumption DEF RetryAt
    <2>2. /\ o \in Outcome /\ o \in {"FAILED", "DELIVERED"}
          /\ o = "DELIVERED" => worker[w].bad = {}
      BY DEF Outcome
    <2>3. Records(w) \in SUBSET Delivery
      BY <1>2 DEF Records, Delivery, Memory
    <2>4. Settle(w, o, row, Records(w)) /\ worker[w].pc = "finalize"
      BY <1>7 DEF SettleDelivery
    <2> HIDE DEF o, t
    <2>5. row \in EventRow /\ row.status = o /\ row.attempts = a
      BY <1>2, <1>3, <2>1, <2>2
    <2> HIDE DEF row, Goal
    <2>6. Verdict(w, o, row, Records(w))
      BY <2>2, <2>4, <2>5 DEF Verdict
    <2> QED
      BY <1>4, <2>2, <2>3, <2>4, <2>5, <2>6
  <1> QED
    BY <1>5, <1>6, <1>7

LEMMA StepKinds ==
  ASSUME HInv, [Next]_vars
  PROVE  \/ Quiet
         \/ \E w \in Worker, o \in Outcome, row \in EventRow, records \in SUBSET Delivery :
              Settles(w, o, row, records) /\ Verdict(w, o, row, records)
         \/ \E w \in Worker : Completes(w)
         \/ \E j \in Job : RequestDispatch(j)
  <1>1. IInv /\ Released /\ Spent /\ \A w \in Worker : Knows(w)
    BY DEF HInv
  <1>2. ASSUME NEW w \in Worker, Step(w)
        PROVE  \/ Quiet \/ Completes(w)
               \/ \E o \in Outcome, row \in EventRow, records \in SUBSET Delivery :
                    Settles(w, o, row, records) /\ Verdict(w, o, row, records)
    <2>1. CASE \/ ClaimJob(w) \/ RenewForItem(w) \/ RenewForWave(w)
               \/ Yield(w) \/ RecordInterruption(w)
      BY <1>1, <2>1, JobWorkQuiet
    <2>2. CASE ClaimEvent(w) \/ RenewClaim(w)
      BY <1>1, <2>2, LeasingQuiet
    <2>3. CASE SettleSkipped(w) \/ SettleFault(w) \/ SettleDelivery(w)
      BY <1>1, <2>3, SettlingDecides, NothingQuiet
    <2>4. CASE CompleteJob(w)
      BY <2>4, NothingQuiet DEF CompleteJob, Completes
    <2>5. CASE Poll(w) \/ PickItem(w) \/ ReadEndpoints(w) \/ ReadTargets(w) \/ PostWave(w)
      BY <2>5, NothingQuiet DEF Poll, PickItem, ReadEndpoints, ReadTargets, PostWave
    <2> QED
      BY <1>2, <2>1, <2>2, <2>3, <2>4, <2>5 DEF Step
  <1>3. ASSUME NEW w \in Worker, StatementFails(w) \/ Crash(w) PROVE Quiet
    BY <1>3, NothingQuiet DEF StatementFails, Crash
  <1>4. ASSUME NEW e \in Event, Enqueue(e) PROVE Quiet
    BY <1>1, <1>4, EnqueueQuiet
  <1>5. CASE (\E x \in Endpoint : RegisterEndpoint(x)) \/ Tick \/ UNCHANGED vars
    BY <1>5, NothingQuiet DEF RegisterEndpoint, Tick, vars
  <1> QED
    BY <1>2, <1>3, <1>4, <1>5 DEF Next

-----------------------------------------------------------------------------
(* Settling, point by point.                                               *)

LEMMA SettledRowFields ==
  ASSUME NEW r \in JobRow, NEW e \in Event, NEW o \in Outcome
  PROVE  /\ SettledRow(r, e, o).items = r.items
         /\ SettledRow(r, e, o).status = r.status
  BY DEF SettledRow, JobRow

LEMMA SettledRowProcessed ==
  ASSUME NEW r \in JobRow, NEW e \in Event, NEW o \in Outcome
  PROVE  SettledRow(r, e, o).processed = r.processed + 1
  BY DEF SettledRow, JobRow

LEMMA SettledRowOutcome ==
  ASSUME NEW r \in JobRow, NEW e \in Event, NEW o \in Outcome
  PROVE  SettledRow(r, e, o).outcome = [r.outcome EXCEPT ![e] = o]
  BY DEF SettledRow, JobRow

LEMMA SettledRowCounters ==
  ASSUME NEW r \in JobRow, NEW e \in Event, NEW o \in Outcome
  PROVE  SettledRow(r, e, o).counters = [r.counters EXCEPT ![o] = r.counters[o] + 1]
  BY DEF SettledRow, JobRow

LEMMA SettledPoints ==
  ASSUME HInv, NEW w \in Worker, NEW o \in Outcome, NEW row \in EventRow, NEW records,
         Settles(w, o, row, records), Verdict(w, o, row, records)
  PROVE  \E j \in Job, e \in Event :
           /\ j = worker[w].job /\ e = worker[w].item
           /\ Active(j) /\ job[j].outcome[e] = "NONE" /\ e \in job[j].items
           /\ event[e].attempts = worker[w].attempts /\ worker[w].attempts < MaxAttempts
           /\ event[e].status = worker[w].status /\ event[e].status \in Dispatchable
           /\ job'[j] = SettledRow(job[j], e, o) /\ \A i \in Job \ {j} : job'[i] = job[i]
           /\ \A d \in Event : event'[d] = IF d = e THEN row ELSE event[d]
           /\ deliveries' = deliveries \cup records
  <1>1. IInv /\ TypeOK /\ Knows(w) /\ Remembers(w) /\ worker[w].pc \in ItemSteps
    BY DEF HInv, IInv, WorkerMemory, Verdict, ItemSteps
  <1>2. /\ worker[w].item \in Event /\ worker[w].status \in Dispatchable
        /\ worker[w].attempts < MaxAttempts
    BY <1>1, ItemIsOpen
  <1>3. worker[w].job \in Job /\ job[worker[w].job].status = "RUNNING"
    BY DEF Settles, CanSettle, HoldsLease, Owns
  <1>4. PICK j \in Job, e \in Event : j = worker[w].job /\ e = worker[w].item
    BY <1>2, <1>3
  <1>5. Active(j) /\ job[j].outcome[e] = "NONE" /\ e \in job[j].items
    BY <1>1, <1>3, <1>4 DEF Active, Settles, CanSettle, Remembers
  <1>6. event[e].attempts = worker[w].attempts /\ event[e].status = worker[w].status
    BY <1>4 DEF Settles, HoldsEvent
  <1>7. job'[j] = SettledRow(job[j], e, o) /\ \A i \in Job \ {j} : job'[i] = job[i]
    <2>1. job' = [job EXCEPT ![j] = SettledRow(job[j], e, o)]
      BY <1>4 DEF Settles
    <2> QED
      BY <1>1, <2>1 DEF TypeOK
  <1>8. \A d \in Event : event'[d] = IF d = e THEN row ELSE event[d]
    BY <1>1, <1>4 DEF TypeOK, Settles
  <1>9. deliveries' = deliveries \cup records
    BY DEF Settles
  <1> QED
    BY <1>2, <1>4, <1>5, <1>6, <1>7, <1>8, <1>9

(* The row of a job in terms of the step that has happened.                *)
LEMMA CompletedPoints ==
  ASSUME IInv, NEW w \in Worker, Completes(w)
  PROVE  \E j \in Job :
           /\ j = worker[w].job /\ Active(j) /\ Undecided(j) = {}
           /\ \A i \in Job \ {j} : job'[i] = job[i]
           /\ job'[j].status = "SUCCEEDED" /\ job'[j].owner = Nobody
           /\ job'[j].interrupted = FALSE
           /\ job'[j].items = job[j].items /\ job'[j].outcome = job[j].outcome
           /\ job'[j].counters = job[j].counters /\ job'[j].processed = job[j].processed
  <1>1. PICK j \in Job : j = worker[w].job /\ Active(j)
    BY DEF Completes, HoldsLease, Owns, Active
  <1> DEFINE row == CompletedRow(job[j])
  <1>2. TypeOK /\ job[j] \in JobRow /\ Undecided(j) = {}
    BY <1>1 DEF IInv, TypeOK, WorkerMemory, Remembers, Completes
  <1>3. /\ row.status = "SUCCEEDED" /\ row.owner = Nobody /\ row.interrupted = FALSE
        /\ row.items = job[j].items /\ row.outcome = job[j].outcome
        /\ row.counters = job[j].counters /\ row.processed = job[j].processed
    BY <1>2 DEF CompletedRow, JobRow
  <1>4. job' = [job EXCEPT ![j] = row]
    BY <1>1 DEF Completes
  <1> HIDE DEF row
  <1>5. \A i \in Job : job'[i] = IF i = j THEN row ELSE job[i]
    BY <1>2, <1>4 DEF TypeOK
  <1> QED
    BY <1>1, <1>2, <1>3, <1>5

LEMMA RequestedPoints ==
  ASSUME IInv, NEW j \in Job, RequestDispatch(j)
  PROVE  /\ \A i \in Job \ {j} : job'[i] = job[i]
         /\ job[j].status = "ABSENT" /\ job'[j].status = "PENDING"
         /\ job'[j].items = Batch /\ job'[j].outcome = job[j].outcome
         /\ job'[j].counters = job[j].counters /\ job'[j].processed = job[j].processed
         /\ \A i \in Job : ~Active(i)
         /\ UNCHANGED <<event, deliveries, worker>>
  <1> DEFINE row == [job[j] EXCEPT !.status = "PENDING", !.items = Batch]
  <1>1. job \in [Job -> JobRow] /\ job[j] \in JobRow
    BY DEF IInv, TypeOK
  <1>2. /\ row.status = "PENDING" /\ row.items = Batch /\ row.outcome = job[j].outcome
        /\ row.counters = job[j].counters /\ row.processed = job[j].processed
    BY <1>1 DEF JobRow
  <1>3. job' = [job EXCEPT ![j] = row]
    BY DEF RequestDispatch
  <1> HIDE DEF row
  <1>4. \A i \in Job : job'[i] = IF i = j THEN row ELSE job[i]
    BY <1>1, <1>3
  <1> QED
    BY <1>2, <1>4 DEF RequestDispatch

-----------------------------------------------------------------------------
(* The numbers of a job.                                                   *)

LEMMA EventsFinite == IsFiniteSet(Event) /\ IsFiniteSet(Job)
  BY FS_Interval, WebhookAssumption DEF Event, Job

LEMMA ReleasedKept ==
  ASSUME HInv, [Next]_vars
  PROVE  Released'
  <1>1. IInv /\ TypeOK /\ Released
    BY DEF HInv, IInv
  <1>2. CASE Quiet
    BY <1>1, <1>2 DEF Quiet, Released, Active
  <1>3. ASSUME NEW w \in Worker, NEW o \in Outcome, NEW row \in EventRow, NEW records,
               Settles(w, o, row, records), Verdict(w, o, row, records)
        PROVE  Released'
    <2>1. PICK j \in Job, e \in Event :
            /\ Active(j)
            /\ job'[j] = SettledRow(job[j], e, o) /\ \A i \in Job \ {j} : job'[i] = job[i]
      BY <1>3, SettledPoints
    <2>2. job[j] \in JobRow
      BY <1>1 DEF TypeOK
    <2>3. job'[j].status = job[j].status
      BY <2>1, <2>2, SettledRowFields
    <2> QED
      BY <1>1, <2>1, <2>3 DEF Released, Active
  <1>4. ASSUME NEW w \in Worker, Completes(w) PROVE Released'
    <2>1. PICK j \in Job :
            /\ \A i \in Job \ {j} : job'[i] = job[i]
            /\ job'[j].owner = Nobody /\ job'[j].interrupted = FALSE
      BY <1>1, <1>4, CompletedPoints
    <2> QED
      BY <1>1, <2>1 DEF Released
  <1>5. ASSUME NEW j \in Job, RequestDispatch(j) PROVE Released'
    BY <1>1, <1>5, RequestedPoints DEF Released
  <1> QED
    BY <1>2, <1>3, <1>4, <1>5, StepKinds

(* Deciding an item moves it into the set that its counter counts.         *)
LEMMA CountedKept ==
  ASSUME HInv, [Next]_vars
  PROVE  Counted'
  <1>1. IInv /\ TypeOK /\ Counted
    BY DEF HInv, IInv
  <1>2. ASSUME NEW i \in Job, job'[i].outcome = job[i].outcome,
               job'[i].counters = job[i].counters, job'[i].processed = job[i].processed
        PROVE  /\ \A o \in Outcome : job'[i].counters[o] = Cardinality(Having(i, o)')
               /\ job'[i].processed = Cardinality(Event \ Having(i, "NONE")')
    BY <1>1, <1>2 DEF Counted, Having
  <1>3. ASSUME \A i \in Job : /\ job'[i].outcome = job[i].outcome
                              /\ job'[i].counters = job[i].counters
                              /\ job'[i].processed = job[i].processed
        PROVE  Counted'
    BY <1>2, <1>3 DEF Counted
  <1>4. ASSUME NEW w \in Worker, NEW o \in Outcome, NEW row \in EventRow, NEW records,
               Settles(w, o, row, records), Verdict(w, o, row, records)
        PROVE  Counted'
    <2>1. PICK j \in Job, e \in Event :
            /\ job[j].outcome[e] = "NONE"
            /\ job'[j] = SettledRow(job[j], e, o) /\ \A i \in Job \ {j} : job'[i] = job[i]
      BY <1>4, SettledPoints
    <2>2. /\ job'[j].processed = job[j].processed + 1
          /\ \A d \in Event : job'[j].outcome[d] = IF d = e THEN o ELSE job[j].outcome[d]
          /\ \A p \in Outcome : job'[j].counters[p] =
               IF p = o THEN job[j].counters[p] + 1 ELSE job[j].counters[p]
      <3>1. job[j] \in JobRow /\ job'[j] = SettledRow(job[j], e, o)
        BY <1>1, <2>1 DEF TypeOK
      <3>2. job'[j].processed = job[j].processed + 1
        BY <3>1, SettledRowProcessed
      <3>3. job'[j].outcome = [job[j].outcome EXCEPT ![e] = o]
        BY <3>1, SettledRowOutcome
      <3>4. job'[j].counters = [job[j].counters EXCEPT ![o] = job[j].counters[o] + 1]
        BY <3>1, SettledRowCounters
      <3>5. /\ job[j].outcome \in [Event -> Outcome \cup {"NONE"}]
            /\ job[j].counters \in [Outcome -> Nat]
        BY <3>1 DEF JobRow
      <3> QED
        BY <3>2, <3>3, <3>4, <3>5
    <2>3. o # "NONE" /\ "NONE" \notin Outcome
      BY DEF Outcome
    <2>4. IsFiniteSet(Having(j, o)) /\ IsFiniteSet(Event \ Having(j, "NONE"))
      BY EventsFinite, FS_Subset DEF Having
    <2>5. /\ Having(j, o)' = Having(j, o) \cup {e} /\ e \notin Having(j, o)
          /\ \A p \in Outcome \ {o} : Having(j, p)' = Having(j, p)
          /\ Event \ Having(j, "NONE")' = (Event \ Having(j, "NONE")) \cup {e}
          /\ e \notin Event \ Having(j, "NONE")
      BY <2>1, <2>2, <2>3 DEF Having
    <2>6. /\ Cardinality(Having(j, o)') = Cardinality(Having(j, o)) + 1
          /\ Cardinality(Event \ Having(j, "NONE")')
               = Cardinality(Event \ Having(j, "NONE")) + 1
      BY <2>4, <2>5, FS_AddElement
    <2>7. /\ \A p \in Outcome : job'[j].counters[p] = Cardinality(Having(j, p)')
          /\ job'[j].processed = Cardinality(Event \ Having(j, "NONE")')
      <3>1. /\ \A p \in Outcome : job[j].counters[p] = Cardinality(Having(j, p))
            /\ job[j].processed = Cardinality(Event \ Having(j, "NONE"))
        BY <1>1 DEF Counted
      <3>2. ASSUME NEW p \in Outcome PROVE job'[j].counters[p] = Cardinality(Having(j, p)')
        <4>1. CASE p = o
          BY <2>2, <2>6, <3>1, <4>1
        <4>2. CASE p # o
          BY <2>2, <2>5, <3>1, <4>2
        <4> QED
          BY <4>1, <4>2
      <3>3. job'[j].processed = Cardinality(Event \ Having(j, "NONE")')
        BY <2>2, <2>6, <3>1
      <3> QED
        BY <3>2, <3>3
    <2>8. ASSUME NEW i \in Job \ {j}
          PROVE  /\ \A p \in Outcome : job'[i].counters[p] = Cardinality(Having(i, p)')
                 /\ job'[i].processed = Cardinality(Event \ Having(i, "NONE")')
      BY <1>2, <2>1
    <2> QED
      BY <2>7, <2>8 DEF Counted
  <1>5. ASSUME NEW w \in Worker, Completes(w) PROVE Counted'
    <2>1. PICK j \in Job :
            /\ \A i \in Job \ {j} : job'[i] = job[i]
            /\ job'[j].outcome = job[j].outcome
            /\ job'[j].counters = job[j].counters /\ job'[j].processed = job[j].processed
      BY <1>1, <1>5, CompletedPoints
    <2> QED
      BY <1>3, <2>1
  <1>6. ASSUME NEW j \in Job, RequestDispatch(j) PROVE Counted'
    <2>1. /\ \A i \in Job \ {j} : job'[i] = job[i]
          /\ job'[j].outcome = job[j].outcome
          /\ job'[j].counters = job[j].counters /\ job'[j].processed = job[j].processed
      BY <1>1, <1>6, RequestedPoints
    <2> QED
      BY <1>3, <2>1
  <1>7. CASE Quiet
    BY <1>3, <1>7 DEF Quiet
  <1> QED
    BY <1>4, <1>5, <1>6, <1>7, StepKinds

-----------------------------------------------------------------------------
(* The attempts and the records of an event.                               *)

LEMMA SettledOutcomes ==
  ASSUME TypeOK, NEW j \in Job, NEW e \in Event, NEW o \in Outcome,
         job'[j] = SettledRow(job[j], e, o), \A i \in Job \ {j} : job'[i] = job[i]
  PROVE  /\ job'[j].outcome[e] = o
         /\ \A i \in Job, d \in Event : i # j \/ d # e => job'[i].outcome[d] = job[i].outcome[d]
  <1>1. job[j] \in JobRow
    BY DEF TypeOK
  <1>2. job'[j].outcome = [job[j].outcome EXCEPT ![e] = o]
    BY <1>1, SettledRowOutcome
  <1>3. job[j].outcome \in [Event -> Outcome \cup {"NONE"}]
    BY <1>1 DEF JobRow
  <1> QED
    BY <1>2, <1>3

(* What each record of a wave of requests says.                            *)
LEMMA RecordsSay ==
  ASSUME NEW w \in Worker, NEW d \in Records(w)
  PROVE  /\ d.event = worker[w].item /\ d.attempt = worker[w].attempts + 1
         /\ d.endpoint \in worker[w].ok \cup worker[w].bad
         /\ d.status = IF d.endpoint \in worker[w].ok THEN "SUCCESS" ELSE "FAILED"
         /\ d = [event |-> d.event, endpoint |-> d.endpoint,
                 attempt |-> d.attempt, status |-> d.status]
  BY DEF Records

(* Attempts never go back, successes are never lost, and successes only    *)
(* come with an attempt.                                                   *)
LEMMA HistoryMoves ==
  ASSUME HInv, [Next]_vars, NEW d \in Event
  PROVE  /\ event'[d].attempts \in Nat /\ event[d].attempts \in Nat
         /\ event[d].attempts <= event'[d].attempts
         /\ Succeeded(d) \subseteq Succeeded(d)'
         /\ event'[d].attempts = event[d].attempts => Succeeded(d)' = Succeeded(d)
  <1>1. IInv /\ IInv'
    BY StepIInv DEF HInv
  <1>2. event'[d].attempts \in Nat /\ event[d].attempts \in Nat
    BY <1>1 DEF IInv, TypeOK, EventRow
  <1>3. ASSUME UNCHANGED deliveries PROVE Succeeded(d)' = Succeeded(d)
    BY <1>3 DEF Succeeded
  <1>4. CASE Quiet
    BY <1>2, <1>3, <1>4 DEF Quiet
  <1>5. ASSUME NEW w \in Worker, Completes(w)
        PROVE  UNCHANGED <<event, deliveries>>
    BY <1>5 DEF Completes
  <1>6. ASSUME NEW j \in Job, RequestDispatch(j)
        PROVE  UNCHANGED <<event, deliveries>>
    BY <1>6 DEF RequestDispatch
  <1>7. ASSUME NEW w \in Worker, NEW o \in Outcome, NEW row \in EventRow,
               NEW records \in SUBSET Delivery,
               Settles(w, o, row, records), Verdict(w, o, row, records)
        PROVE  /\ event[d].attempts <= event'[d].attempts
               /\ Succeeded(d) \subseteq Succeeded(d)'
               /\ event'[d].attempts = event[d].attempts => Succeeded(d)' = Succeeded(d)
    <2>1. PICK j \in Job, e \in Event :
            /\ e = worker[w].item /\ event[e].attempts = worker[w].attempts
            /\ \A c \in Event : event'[c] = IF c = e THEN row ELSE event[c]
            /\ deliveries' = deliveries \cup records
      BY <1>7, SettledPoints
    <2>2. Succeeded(d) \subseteq Succeeded(d)'
      BY <2>1 DEF Succeeded
    <2>3. CASE d # e
      <3>1. \A c \in records : c.event # d
        BY <1>7, <2>1, <2>3, RecordsSay DEF Verdict
      <3>2. Succeeded(d)' = Succeeded(d)
        BY <2>1, <3>1 DEF Succeeded
      <3> QED
        BY <1>2, <2>1, <2>3, <3>2
    <2>4. CASE d = e /\ o = "CONFIGURATION_FAULT"
      <3>1. records = {} /\ row.attempts = worker[w].attempts
        BY <1>7, <2>4 DEF Verdict
      <3>2. Succeeded(d)' = Succeeded(d)
        BY <2>1, <3>1 DEF Succeeded
      <3> QED
        BY <1>2, <2>1, <2>4, <3>1, <3>2
    <2>5. CASE d = e /\ o # "CONFIGURATION_FAULT"
      <3>1. row.attempts = worker[w].attempts + 1
        BY <1>7, <2>5 DEF Verdict
      <3> QED
        BY <1>2, <2>1, <2>2, <2>5, <3>1
    <2> QED
      BY <2>3, <2>4, <2>5
  <1>8. CASE UNCHANGED <<event, deliveries>>
    BY <1>2, <1>3, <1>8
  <1> QED
    BY <1>2, <1>4, <1>5, <1>6, <1>7, <1>8, StepKinds

LEMMA SpentKept ==
  ASSUME HInv, [Next]_vars
  PROVE  Spent'
  <1>1. IInv /\ TypeOK /\ Spent /\ TypeOK'
    BY StepIInv DEF HInv, IInv
  <1>2. ASSUME \A e \in Event : event'[e].attempts = event[e].attempts,
               \A e \in Event : event'[e].status = "ABSENT" => event[e].status = "ABSENT",
               \A j \in Job : job'[j].outcome = job[j].outcome
        PROVE  Spent'
    <2>1. \A e \in Event : Spending(e)' = Spending(e)
      BY <1>2 DEF Spending
    <2> QED
      BY <1>1, <1>2, <2>1 DEF Spent
  <1>3. CASE Quiet
    <2>1. \A e \in Event : event'[e].status = "ABSENT" => event[e].status = "ABSENT"
      BY <1>3 DEF Quiet
    <2> QED
      BY <1>2, <1>3, <2>1 DEF Quiet
  <1>4. ASSUME NEW w \in Worker, Completes(w) PROVE Spent'
    <2>1. \A j \in Job : job'[j].outcome = job[j].outcome
      BY <1>1, <1>4, CompletedPoints
    <2> QED
      BY <1>2, <1>4, <2>1 DEF Completes
  <1>5. ASSUME NEW j \in Job, RequestDispatch(j) PROVE Spent'
    <2>1. \A i \in Job : job'[i].outcome = job[i].outcome
      BY <1>1, <1>5, RequestedPoints
    <2> QED
      BY <1>2, <1>5, <2>1 DEF RequestDispatch
  <1>6. ASSUME NEW w \in Worker, NEW o \in Outcome, NEW row \in EventRow, NEW records,
               Settles(w, o, row, records), Verdict(w, o, row, records)
        PROVE  Spent'
    <2>1. PICK j \in Job, e \in Event :
            /\ job[j].outcome[e] = "NONE" /\ event[e].attempts = worker[w].attempts
            /\ worker[w].attempts < MaxAttempts
            /\ event[e].status = worker[w].status /\ event[e].status \in Dispatchable
            /\ job'[j] = SettledRow(job[j], e, o) /\ \A i \in Job \ {j} : job'[i] = job[i]
            /\ \A d \in Event : event'[d] = IF d = e THEN row ELSE event[d]
      BY <1>6, SettledPoints
    <2>2. /\ job'[j].outcome[e] = o
          /\ \A i \in Job, d \in Event : i # j \/ d # e => job'[i].outcome[d] = job[i].outcome[d]
      BY <1>1, <2>1, SettledOutcomes
    <2>3. ASSUME NEW d \in Event \ {e}
          PROVE  /\ event'[d].status = "ABSENT" => event'[d].attempts = 0
                 /\ event'[d].attempts = Cardinality(Spending(d)')
                 /\ event'[d].attempts <= MaxAttempts
      <3>1. Spending(d)' = Spending(d)
        BY <2>2, <2>3 DEF Spending
      <3> QED
        BY <1>1, <2>1, <2>3, <3>1 DEF Spent
    <2>4. row.status # "ABSENT"
      BY <1>6, <2>1 DEF Verdict, Outcome, Dispatchable
    <2>5. CASE o = "CONFIGURATION_FAULT"
      <3>1. Spending(e)' = Spending(e)
        BY <2>1, <2>2, <2>5 DEF Spending
      <3>2. event'[e].attempts = event[e].attempts
        BY <1>6, <2>1, <2>5 DEF Verdict
      <3> QED
        BY <1>1, <2>1, <2>3, <2>4, <3>1, <3>2 DEF Spent
    <2>6. CASE o # "CONFIGURATION_FAULT"
      <3>1. Spending(e)' = Spending(e) \cup {j} /\ j \notin Spending(e)
        BY <2>1, <2>2, <2>6 DEF Spending, Outcome
      <3>2. IsFiniteSet(Spending(e))
        BY EventsFinite, FS_Subset DEF Spending
      <3>3. Cardinality(Spending(e)') = Cardinality(Spending(e)) + 1
        BY <3>1, <3>2, FS_AddElement
      <3>4. event'[e].attempts = event[e].attempts + 1
        BY <1>6, <2>1, <2>6 DEF Verdict
      <3>5. event[e].attempts \in Nat /\ MaxAttempts \in Nat
        BY <1>1, WebhookAssumption DEF TypeOK, EventRow
      <3> QED
        BY <1>1, <2>1, <2>3, <2>4, <3>3, <3>4, <3>5 DEF Spent
    <2> QED
      BY <2>5, <2>6
  <1> QED
    BY <1>3, <1>4, <1>5, <1>6, StepKinds

LEMMA RecordsFitKept ==
  ASSUME HInv, [Next]_vars
  PROVE  RecordsFit'
  <1>1. TypeOK /\ RecordsFit
    BY DEF HInv, IInv
  <1>2. ASSUME NEW d \in deliveries PROVE d.event \in Event /\ d.attempt \in Nat
    BY <1>1 DEF TypeOK, Delivery
  <1>3. ASSUME NEW d \in deliveries PROVE d.attempt <= event'[d.event].attempts
    <2>1. d.attempt <= event[d.event].attempts
      BY <1>1, <1>3 DEF RecordsFit
    <2> QED
      BY <1>2, <1>3, <2>1, HistoryMoves
  <1>4. CASE UNCHANGED deliveries
    BY <1>1, <1>3, <1>4 DEF RecordsFit, OneRecordEach
  <1>5. ASSUME NEW w \in Worker, NEW o \in Outcome, NEW row \in EventRow, NEW records,
               Settles(w, o, row, records), Verdict(w, o, row, records)
        PROVE  RecordsFit'
    <2>1. PICK e \in Event :
            /\ e = worker[w].item /\ event[e].attempts = worker[w].attempts
            /\ event'[e] = row /\ deliveries' = deliveries \cup records
      BY <1>5, SettledPoints
    <2>2. CASE records = {}
      BY <1>4, <2>1, <2>2
    <2>3. CASE records # {}
      <3>1. /\ worker[w].pc = "finalize" /\ records = Records(w)
            /\ row.attempts = worker[w].attempts + 1 /\ worker[w].attempts \in Nat
        BY <1>1, <1>5, <2>3 DEF Verdict, TypeOK, Memory
      <3>2. KnowsTargets(worker[w])
        BY <3>1 DEF HInv, Knows, KnowsOf, Sending
      <3>3. \A d \in records :
              /\ d.event = e /\ d.attempt = event[e].attempts + 1
              /\ d.endpoint \notin Succeeded(e)
        BY <2>1, <3>1, <3>2, RecordsSay DEF KnowsTargets
      <3>4. \A c, d \in records : c.endpoint = d.endpoint => c = d
        BY <3>1, RecordsSay
      <3>5. \A d \in deliveries : d.event = e =>
              d.attempt <= event[e].attempts /\ (d.status = "SUCCESS" => d.endpoint \in Succeeded(e))
        BY <1>1 DEF RecordsFit, Succeeded, TypeOK, Delivery
      <3>6. \A d \in deliveries' : d.attempt <= event'[d.event].attempts
        BY <1>3, <2>1, <3>1, <3>3
      <3>7. ASSUME NEW c \in deliveries', NEW d \in deliveries',
                   c.event = d.event, c.endpoint = d.endpoint, c # d
            PROVE  c.attempt # d.attempt /\ (c.status = "SUCCESS" => d.attempt < c.attempt)
        <4>1. CASE c \in deliveries /\ d \in deliveries
          BY <1>1, <3>7, <4>1 DEF RecordsFit, OneRecordEach
        <4>2. CASE c \in records /\ d \in records
          BY <3>4, <3>7, <4>2
        <4>3. CASE c \in deliveries /\ d \in records
          BY <1>2, <2>1, <3>1, <3>3, <3>5, <3>7, <4>3
        <4>4. CASE c \in records /\ d \in deliveries
          BY <1>2, <2>1, <3>1, <3>3, <3>5, <3>7, <4>4
        <4> QED
          BY <2>1, <4>1, <4>2, <4>3, <4>4
      <3> QED
        BY <3>6, <3>7 DEF RecordsFit, OneRecordEach
    <2> QED
      BY <2>2, <2>3
  <1> QED
    BY <1>4, <1>5, StepKinds DEF Quiet, Completes, RequestDispatch

-----------------------------------------------------------------------------
(* What a worker knows of its item.                                        *)

(* Knowledge stays true when others move.                                  *)
LEMMA KnowledgeKept ==
  ASSUME HInv, [Next]_vars, NEW m \in Memory, m.item \in Event, KnowsOf(m)
  PROVE  KnowsOf(m)'
  <1>1. /\ event'[m.item].attempts \in Nat /\ event[m.item].attempts \in Nat
        /\ event[m.item].attempts <= event'[m.item].attempts
        /\ Succeeded(m.item) \subseteq Succeeded(m.item)'
        /\ event'[m.item].attempts = event[m.item].attempts =>
             Succeeded(m.item)' = Succeeded(m.item)
    BY HistoryMoves
  <1>2. m.attempts \in Nat
    BY DEF Memory
  <1>3. m.pc \in Sending => KnowsTargets(m)'
    <2>1. ASSUME m.pc \in Sending PROVE KnowsTargets(m)'
      <3>1. KnowsTargets(m) /\ m.attempts <= event[m.item].attempts
        BY <2>1 DEF KnowsOf, Sending, ItemSteps
      <3>2. event'[m.item].attempts = m.attempts => event[m.item].attempts = m.attempts
        BY <1>1, <1>2, <3>1
      <3> QED
        BY <1>1, <3>1, <3>2 DEF KnowsTargets
    <2> QED
      BY <2>1
  <1>4. m.pc \in ItemSteps => m.attempts < MaxAttempts /\ m.attempts <= event'[m.item].attempts
    BY <1>1, <1>2 DEF KnowsOf
  <1> QED
    BY <1>3, <1>4 DEF KnowsOf

LEMMA KnowsNothing ==
  ASSUME NEW m, m.pc \notin ItemSteps
  PROVE  KnowsOf(m)
  BY DEF KnowsOf, ItemSteps, Sending

(* Going to another step that is not on an item.                           *)
LEMMA LeavesItem ==
  ASSUME TypeOK, NEW w \in Worker, NEW pc \in AnyPc \ ItemSteps,
         Goto(w, pc) \/ Becomes(w, Idle)
  PROVE  worker'[w].pc \notin ItemSteps
  <1>1. CASE Goto(w, pc)
    BY <1>1, PcReplaced
  <1>2. CASE Becomes(w, Idle)
    <2>1. worker'[w] = Idle
      BY <1>2 DEF TypeOK, Becomes
    <2> QED
      BY <2>1 DEF Idle, ItemSteps
  <1> QED
    BY <1>1, <1>2

(* A step on an item that keeps what is known of the targets.              *)
LEMMA MovesOn ==
  ASSUME HInv, NEW w \in Worker, worker[w].pc \in ItemSteps,
         NEW pc \in ItemSteps, NEW claim \in Nat,
         \/ pc = "yield"
         \/ worker[w].pc = "claimEvent" /\ pc = "endpoints"
         \/ worker[w].pc = "renewJob" /\ pc = "renewClaim"
         \/ worker[w].pc = "renewClaim" /\ pc = "post",
         worker'[w] = [worker[w] EXCEPT !.pc = pc, !.claim = claim]
  PROVE  KnowsOf(worker'[w])
  <1> DEFINE m == [worker[w] EXCEPT !.pc = pc, !.claim = claim]
  <1> SUFFICES KnowsOf(m)
    OBVIOUS
  <1>1. worker[w] \in Memory /\ KnowsOf(worker[w])
    BY DEF HInv, IInv, TypeOK, Knows
  <1>2. /\ m.pc = pc /\ m.item = worker[w].item /\ m.attempts = worker[w].attempts
        /\ m.endpoints = worker[w].endpoints /\ m.targets = worker[w].targets
        /\ m.ok = worker[w].ok /\ m.bad = worker[w].bad
    BY <1>1 DEF Memory
  <1> HIDE DEF m
  <1>3. /\ m.pc \in ItemSteps
        /\ m.attempts < MaxAttempts /\ m.attempts <= event[m.item].attempts
    BY <1>1, <1>2 DEF KnowsOf
  <1>4. CASE pc = "yield"
    BY <1>2, <1>3, <1>4 DEF KnowsOf, Sending
  <1>5. CASE worker[w].pc = "claimEvent" /\ pc = "endpoints"
    BY <1>1, <1>2, <1>3, <1>5 DEF KnowsOf, Sending
  <1>6. CASE worker[w].pc \in Sending /\ pc \in {"renewClaim", "post"}
    <2>1. KnowsTargets(worker[w])
      BY <1>1, <1>6 DEF KnowsOf
    <2>2. KnowsTargets(m)
      BY <1>2, <1>6, <2>1 DEF KnowsTargets
    <2>3. m.pc \notin {"claimEvent", "endpoints", "targets"}
      BY <1>2, <1>6
    <2> QED
      BY <1>3, <2>2, <2>3 DEF KnowsOf
  <1> QED
    BY <1>4, <1>5, <1>6 DEF Sending

LEMMA PickKnows ==
  ASSUME HInv, NEW w \in Worker, PickItem(w)
  PROVE  KnowsOf(worker'[w])
  <1>1. TypeOK /\ IInv /\ worker[w].pc = "pick" /\ WorkerMemory
    BY DEF HInv, IInv, PickItem
  <1>2. CASE Goto(w, "complete")
    <2>1. "complete" \in AnyPc \ ItemSteps
      BY DEF AnyPc, Owning, ItemSteps
    <2> QED
      BY <1>1, <1>2, <2>1, LeavesItem, KnowsNothing
  <1>3. ASSUME NEW e \in Undecided(worker[w].job),
               Becomes(w, [Idle EXCEPT !.pc = "claimEvent", !.job = worker[w].job,
                                       !.gen = worker[w].gen, !.item = e,
                                       !.status = event[e].status,
                                       !.attempts = event[e].attempts])
        PROVE  KnowsOf(worker'[w])
    <2>1. PICK j \in Job : j = worker[w].job /\ job[j].status # "ABSENT"
      BY <1>1 DEF WorkerMemory, Remembers
    <2>2. job[j] \in JobRow /\ e \in Undecided(j)
      BY <1>1, <1>3, <2>1 DEF TypeOK
    <2>3. Active(j) /\ e \in Event
      BY <1>1, <2>1, <2>2 DEF IInv, BatchRows, Active, JobRow, Undecided
    <2>4. event[e].attempts < MaxAttempts /\ event[e].attempts \in Nat
      BY <1>1, <2>2, <2>3 DEF IInv, UndecidedIsDispatchable, TypeOK, EventRow
    <2> DEFINE m == [Idle EXCEPT !.pc = "claimEvent", !.job = worker[w].job,
                                 !.gen = worker[w].gen, !.item = e,
                                 !.status = event[e].status,
                                 !.attempts = event[e].attempts]
    <2>5. /\ m.pc = "claimEvent" /\ m.item = e /\ m.attempts = event[e].attempts
          /\ m.ok = {} /\ m.bad = {}
      BY DEF Idle
    <2>6. worker'[w] = m
      BY <1>1, <1>3 DEF TypeOK, Becomes
    <2> HIDE DEF m
    <2>7. KnowsOf(m)
      BY <2>4, <2>5 DEF KnowsOf, Sending
    <2> QED
      BY <2>6, <2>7
  <1> QED
    BY <1>2, <1>3 DEF PickItem

LEMMA ClaimKnows ==
  ASSUME HInv, NEW w \in Worker, ClaimEvent(w) \/ RenewClaim(w)
  PROVE  KnowsOf(worker'[w])
  <1>1. TypeOK /\ worker[w] \in Memory /\ worker[w].pc \in ItemSteps /\ clock + Lease \in Nat
    BY WebhookAssumption DEF HInv, IInv, TypeOK, ClaimEvent, RenewClaim, ItemSteps
  <1>2. CASE Goto(w, "interrupted")
    <2>1. "interrupted" \in AnyPc \ ItemSteps
      BY DEF AnyPc, Owning, ItemSteps
    <2> QED
      BY <1>1, <1>2, <2>1, LeavesItem, KnowsNothing
  <1>3. CASE Goto(w, "yield")
    <2>1. worker'[w] = [worker[w] EXCEPT !.pc = "yield", !.claim = worker[w].claim]
      BY <1>1, <1>3 DEF TypeOK, Goto, Becomes, Memory
    <2>2. worker[w].claim \in Nat /\ "yield" \in ItemSteps
      BY <1>1 DEF Memory, ItemSteps
    <2> QED
      BY <1>1, <2>1, <2>2, MovesOn
  <1>4. ASSUME NEW pc \in {"endpoints", "post"},
               pc = "endpoints" => worker[w].pc = "claimEvent",
               pc = "post" => worker[w].pc = "renewClaim",
               Becomes(w, [worker[w] EXCEPT !.pc = pc, !.claim = clock + Lease])
        PROVE  KnowsOf(worker'[w])
    <2> DEFINE until == clock + Lease
    <2>1. worker'[w] = [worker[w] EXCEPT !.pc = pc, !.claim = until]
      BY <1>1, <1>4 DEF TypeOK, Becomes
    <2>2. until \in Nat /\ pc \in ItemSteps
      BY <1>1 DEF ItemSteps
    <2> HIDE DEF until
    <2> QED
      BY <1>1, <1>4, <2>1, <2>2, MovesOn
  <1> QED
    BY <1>2, <1>3, <1>4 DEF ClaimEvent, RenewClaim

LEMMA RenewKnows ==
  ASSUME HInv, NEW w \in Worker, RenewForItem(w) \/ RenewForWave(w)
  PROVE  KnowsOf(worker'[w])
  <1>1. TypeOK /\ worker[w] \in Memory
    BY DEF HInv, IInv, TypeOK
  <1>2. CASE Goto(w, "interrupted") \/ Goto(w, "pick")
    <2>1. {"interrupted", "pick"} \subseteq AnyPc \ ItemSteps
      BY DEF AnyPc, Owning, ItemSteps
    <2> QED
      BY <1>1, <1>2, <2>1, LeavesItem, KnowsNothing
  <1>3. CASE worker[w].pc = "renewJob" /\ Goto(w, "renewClaim")
    <2>1. worker'[w] = [worker[w] EXCEPT !.pc = "renewClaim", !.claim = worker[w].claim]
      BY <1>1, <1>3 DEF TypeOK, Goto, Becomes, Memory
    <2>2. worker[w].claim \in Nat /\ {"renewClaim", "renewJob"} \subseteq ItemSteps
      BY <1>1 DEF Memory, ItemSteps
    <2> QED
      BY <1>3, <2>1, <2>2, MovesOn
  <1> QED
    BY <1>2, <1>3 DEF RenewForItem, RenewForWave, RenewThen

LEMMA ReadKnows ==
  ASSUME HInv, NEW w \in Worker, ReadEndpoints(w) \/ ReadTargets(w)
  PROVE  KnowsOf(worker'[w])
  <1>1. /\ TypeOK /\ worker[w] \in Memory /\ KnowsOf(worker[w])
        /\ worker[w].pc \in ItemSteps /\ worker[w].ok = {} /\ worker[w].bad = {}
    BY DEF HInv, IInv, TypeOK, Knows, KnowsOf, ReadEndpoints, ReadTargets, ItemSteps
  <1>2. worker[w].attempts < MaxAttempts /\ worker[w].attempts <= event[worker[w].item].attempts
    BY <1>1 DEF KnowsOf
  <1>3. CASE ReadEndpoints(w)
    <2> DEFINE found == {x \in registered : worker[w].item \in Subscriptions[x]}
               pc == IF found = {} THEN "skip" ELSE "targets"
               m == [worker[w] EXCEPT !.endpoints = found, !.pc = pc]
    <2>1. worker'[w] = m
      BY <1>1, <1>3 DEF TypeOK, Becomes, ReadEndpoints
    <2>2. pc \in {"skip", "targets"} /\ (pc = "targets" => found # {})
      OBVIOUS
    <2> HIDE DEF found, pc
    <2>3. /\ m.pc = pc /\ m.item = worker[w].item /\ m.attempts = worker[w].attempts
          /\ m.endpoints = found /\ m.ok = {} /\ m.bad = {}
      BY <1>1 DEF Memory
    <2> HIDE DEF m
    <2>4. KnowsOf(m)
      BY <1>2, <2>2, <2>3 DEF KnowsOf, Sending
    <2> QED
      BY <2>1, <2>4
  <1>4. CASE ReadTargets(w)
    <2> DEFINE left == worker[w].endpoints \ Succeeded(worker[w].item)
    <2>1. PICK pc \in {"finalize", "renewJob", "fault"} :
            /\ Becomes(w, [worker[w] EXCEPT !.targets = left, !.pc = pc])
            /\ pc = "finalize" => left = {}
      BY <1>4 DEF ReadTargets
    <2> DEFINE m == [worker[w] EXCEPT !.targets = left, !.pc = pc]
    <2>2. worker'[w] = m
      BY <1>1, <2>1 DEF TypeOK, Becomes
    <2> HIDE DEF left
    <2>3. /\ m.pc = pc /\ m.item = worker[w].item /\ m.attempts = worker[w].attempts
          /\ m.endpoints = worker[w].endpoints /\ m.targets = left /\ m.ok = {} /\ m.bad = {}
      BY <1>1 DEF Memory
    <2> HIDE DEF m
    <2>4. worker[w].endpoints # {}
      BY <1>1, <1>4 DEF KnowsOf, ReadTargets
    <2>5. KnowsTargets(m)
      BY <2>1, <2>3, <2>4 DEF KnowsTargets, left
    <2>6. KnowsOf(m)
      BY <1>2, <2>1, <2>3, <2>5 DEF KnowsOf
    <2> QED
      BY <2>2, <2>6
  <1> QED
    BY <1>3, <1>4

LEMMA PostKnows ==
  ASSUME HInv, NEW w \in Worker, PostWave(w)
  PROVE  KnowsOf(worker'[w])
  <1>1. TypeOK /\ worker[w] \in Memory /\ KnowsOf(worker[w]) /\ worker[w].pc = "post"
    BY DEF HInv, IInv, TypeOK, Knows, PostWave
  <1>2. /\ worker[w].attempts < MaxAttempts /\ KnowsTargets(worker[w])
        /\ worker[w].attempts <= event[worker[w].item].attempts
    BY <1>1 DEF KnowsOf, ItemSteps, Sending
  <1> DEFINE left == worker[w].targets \ (worker[w].ok \cup worker[w].bad)
  <1>3. PICK wave \in SUBSET left : \E good \in SUBSET wave :
          Becomes(w, [worker[w] EXCEPT
            !.ok = worker[w].ok \cup good, !.bad = worker[w].bad \cup (wave \ good),
            !.pc = IF wave = left THEN "finalize" ELSE "renewJob"])
    BY DEF PostWave
  <1>4. PICK good \in SUBSET wave :
          Becomes(w, [worker[w] EXCEPT
            !.ok = worker[w].ok \cup good, !.bad = worker[w].bad \cup (wave \ good),
            !.pc = IF wave = left THEN "finalize" ELSE "renewJob"])
    BY <1>3
  <1> DEFINE ok == worker[w].ok \cup good
             bad == worker[w].bad \cup (wave \ good)
             pc == IF wave = left THEN "finalize" ELSE "renewJob"
             m == [worker[w] EXCEPT !.ok = ok, !.bad = bad, !.pc = pc]
  <1>5. worker'[w] = m
    BY <1>1, <1>4 DEF TypeOK, Becomes
  <1>6. /\ ok \cup bad \subseteq worker[w].targets /\ ok \cap bad = {}
        /\ pc \in {"finalize", "renewJob"}
        /\ pc = "finalize" => worker[w].targets \subseteq ok \cup bad
    BY <1>2 DEF KnowsTargets
  <1> HIDE DEF ok, bad, pc
  <1>7. /\ m.pc = pc /\ m.item = worker[w].item /\ m.attempts = worker[w].attempts
        /\ m.endpoints = worker[w].endpoints /\ m.targets = worker[w].targets
        /\ m.ok = ok /\ m.bad = bad
    BY <1>1 DEF Memory
  <1> HIDE DEF m
  <1>8. KnowsTargets(m)
    BY <1>2, <1>6, <1>7 DEF KnowsTargets
  <1>9. KnowsOf(m)
    BY <1>2, <1>6, <1>7, <1>8 DEF KnowsOf
  <1> QED
    BY <1>5, <1>9

LEMMA OthersKnow ==
  ASSUME HInv, NEW w \in Worker,
         \/ Poll(w) \/ ClaimJob(w) \/ Yield(w) \/ SettleSkipped(w) \/ SettleFault(w)
         \/ SettleDelivery(w) \/ CompleteJob(w) \/ RecordInterruption(w)
         \/ StatementFails(w) \/ Crash(w)
  PROVE  KnowsOf(worker'[w])
  <1>1. TypeOK /\ KnowsOf(worker[w])
    BY DEF HInv, IInv, Knows
  <1>2. CASE UNCHANGED worker
    BY <1>1, <1>2
  <1>3. CASE Becomes(w, Idle) \/ Goto(w, "renew") \/ Goto(w, "interrupted")
    <2>1. {"renew", "interrupted"} \subseteq AnyPc \ ItemSteps
      BY DEF AnyPc, Owning, ItemSteps
    <2> QED
      BY <1>1, <1>3, <2>1, LeavesItem, KnowsNothing
  <1>4. ASSUME NEW m, m.pc \notin ItemSteps, Becomes(w, m) PROVE KnowsOf(worker'[w])
    BY <1>1, <1>4, KnowsNothing DEF TypeOK, Becomes
  <1>5. CASE Poll(w)
    <2>1. ASSUME NEW j \in Job,
                 Becomes(w, [Idle EXCEPT !.pc = "claimJob", !.job = j,
                                         !.gen = job[j].generation])
          PROVE  KnowsOf(worker'[w])
      <3> DEFINE m == [Idle EXCEPT !.pc = "claimJob", !.job = j, !.gen = job[j].generation]
      <3>1. m.pc \notin ItemSteps
        BY DEF Idle, ItemSteps
      <3> HIDE DEF m
      <3> QED
        BY <1>4, <2>1, <3>1 DEF m
    <2> QED
      BY <1>2, <1>5, <2>1 DEF Poll
  <1>6. CASE ClaimJob(w)
    <2>1. ASSUME Becomes(w, [worker[w] EXCEPT !.pc = "renew", !.gen = worker[w].gen + 1])
          PROVE  KnowsOf(worker'[w])
      <3> DEFINE g == worker[w].gen + 1
                 m == [worker[w] EXCEPT !.pc = "renew", !.gen = g]
      <3> HIDE DEF g
      <3>1. m.pc \notin ItemSteps
        BY <1>1 DEF ItemSteps, TypeOK, Memory
      <3>2. Becomes(w, m)
        BY <2>1 DEF g
      <3> HIDE DEF m
      <3> QED
        BY <1>4, <3>1, <3>2
    <2> QED
      BY <1>3, <1>6, <2>1 DEF ClaimJob
  <1> QED
    BY <1>3, <1>5, <1>6
    DEF Yield, SettleSkipped, SettleFault, SettleDelivery, Settle, CompleteJob,
        RecordInterruption, StatementFails, Crash

(* A step of a worker changes the memory of no other one.                  *)
LEMMA OneMoves ==
  ASSUME TypeOK, NEW w \in Worker, Step(w) \/ StatementFails(w) \/ Crash(w),
         NEW v \in Worker \ {w}
  PROVE  worker'[v] = worker[v]
  <1>1. ASSUME NEW m, Becomes(w, m) PROVE worker'[v] = worker[v]
    BY <1>1 DEF TypeOK, Becomes
  <1>2. ASSUME NEW pc, Goto(w, pc) PROVE worker'[v] = worker[v]
    BY <1>1, <1>2 DEF Goto
  <1>3. CASE Poll(w) \/ ClaimJob(w) \/ RenewForItem(w) \/ PickItem(w)
    BY <1>1, <1>2, <1>3 DEF Poll, ClaimJob, RenewForItem, RenewThen, PickItem
  <1>4. CASE ClaimEvent(w) \/ Yield(w) \/ ReadEndpoints(w) \/ ReadTargets(w)
    BY <1>1, <1>2, <1>4 DEF ClaimEvent, Yield, ReadEndpoints, ReadTargets
  <1>5. CASE RenewForWave(w) \/ RenewClaim(w) \/ PostWave(w)
    BY <1>1, <1>2, <1>5 DEF RenewForWave, RenewThen, RenewClaim, PostWave
  <1>6. CASE SettleSkipped(w) \/ SettleFault(w) \/ SettleDelivery(w)
    BY <1>2, <1>6 DEF SettleSkipped, SettleFault, SettleDelivery, Settle
  <1>7. CASE CompleteJob(w) \/ RecordInterruption(w) \/ StatementFails(w) \/ Crash(w)
    BY <1>1, <1>2, <1>7 DEF CompleteJob, RecordInterruption, StatementFails, Crash
  <1> QED
    BY <1>3, <1>4, <1>5, <1>6, <1>7 DEF Step

LEMMA MoverKnows ==
  ASSUME HInv, NEW w \in Worker, Step(w) \/ StatementFails(w) \/ Crash(w)
  PROVE  KnowsOf(worker'[w])
  BY PickKnows, ClaimKnows, RenewKnows, ReadKnows, PostKnows, OthersKnow DEF Step

LEMMA KnowsKept ==
  ASSUME HInv, [Next]_vars, NEW v \in Worker
  PROVE  Knows(v)'
  <1>1. TypeOK /\ KnowsOf(worker[v]) /\ IInv'
    BY StepIInv DEF HInv, IInv, Knows
  <1>2. KnowsOf(worker'[v])
    <2>1. CASE worker'[v] = worker[v]
      BY <1>1, <2>1
    <2>2. ASSUME NEW w \in Worker, Step(w) \/ StatementFails(w) \/ Crash(w)
          PROVE  KnowsOf(worker'[v])
      BY <1>1, <2>1, <2>2, OneMoves, MoverKnows
    <2> QED
      BY <2>1, <2>2
      DEF Next, Enqueue, RegisterEndpoint, RequestDispatch, Tick, vars
  <1>3. PICK m \in Memory : m = worker'[v]
    BY <1>1 DEF IInv, TypeOK
  <1>4. KnowsOf(m)'
    <2>1. CASE m.pc \in ItemSteps
      <3>1. Remembers(v)' /\ m.pc # "idle"
        BY <1>1, <2>1 DEF IInv, WorkerMemory, ItemSteps
      <3>2. m.item \in Event
        BY <1>1, <1>3, <2>1, <3>1 DEF Remembers, IInv, TypeOK, JobRow
      <3> QED
        BY <1>2, <1>3, <3>2, KnowledgeKept
    <2>2. CASE m.pc \notin ItemSteps
      BY <2>2 DEF KnowsOf, ItemSteps, Sending
    <2> QED
      BY <2>1, <2>2
  <1> QED
    BY <1>3, <1>4 DEF Knows

-----------------------------------------------------------------------------
(* The theorems.                                                           *)

LEMMA StepHInv == HInv /\ [Next]_vars => HInv'
  <1> SUFFICES ASSUME HInv, [Next]_vars PROVE HInv'
    OBVIOUS
  <1>1. IInv'
    BY StepIInv DEF HInv
  <1> QED
    BY <1>1, ReleasedKept, CountedKept, SpentKept, RecordsFitKept, KnowsKept DEF HInv

LEMMA AlwaysHInv == Spec => []HInv
  BY InitHInv, StepHInv, PTL DEF Spec

(* The numbers an administrator polls count the outcomes of the batch, and *)
(* a job that succeeded has decided it all, whatever crashed or was lost.  *)
THEOREM NumbersAreTrue == Spec => []JobAccounting
  <1>1. HInv => JobAccounting
    <2> SUFFICES ASSUME HInv, NEW j \in Job
                 PROVE  /\ \A o \in Outcome : job[j].counters[o] = Cardinality(Having(j, o))
                        /\ job[j].processed = Cardinality(Event \ Having(j, "NONE"))
                        /\ Event \ Having(j, "NONE") \subseteq job[j].items
                        /\ job[j].status = "SUCCEEDED" =>
                             /\ Undecided(j) = {}
                             /\ job[j].owner = Nobody /\ ~job[j].interrupted
      BY DEF JobAccounting
    <2>1. \A e \in Event : job[j].outcome[e] # "NONE" => e \in job[j].items
      BY DEF HInv, IInv, BatchRows
    <2>2. Event \ Having(j, "NONE") \subseteq job[j].items
      BY <2>1 DEF Having
    <2> QED
      BY <2>2 DEF HInv, Counted, Released, IInv, BatchRows
  <1> QED
    BY <1>1, AlwaysHInv, PTL

(* One record for each attempt and endpoint, none after a success, and the *)
(* attempts of an event are those its jobs spent, never above the maximum. *)
THEOREM HistoryIsTrue == Spec => []DeliveryHistory
  <1>1. HInv => DeliveryHistory
    BY DEF HInv, RecordsFit, OneRecordEach, Spent, Spending, DeliveryHistory
  <1> QED
    BY <1>1, AlwaysHInv, PTL

(* No step, of a worker that was asleep either, touches a closed event.    *)
THEOREM ClosedStays == Spec => ClosedEventsStay
  <1>1. ASSUME HInv, [Next]_vars, NEW e \in Event, IsClosed(e)
        PROVE  event'[e] = event[e]
    <2>1. ASSUME NEW w \in Worker, NEW o \in Outcome, NEW row \in EventRow, NEW records,
                 Settles(w, o, row, records), Verdict(w, o, row, records)
          PROVE  event'[e] = event[e]
      <3>1. PICK d \in Event :
              /\ event[d].attempts = worker[w].attempts /\ worker[w].attempts < MaxAttempts
              /\ event[d].status \in Dispatchable
              /\ \A c \in Event : event'[c] = IF c = d THEN row ELSE event[c]
        BY <1>1, <2>1, SettledPoints
      <3>2. event[d].attempts \in Nat
        BY <1>1 DEF HInv, IInv, TypeOK, EventRow
      <3>3. ~IsClosed(d)
        BY <3>1, <3>2, WebhookAssumption DEF IsClosed, Dispatchable
      <3> QED
        BY <1>1, <3>1, <3>3
    <2> QED
      BY <1>1, <2>1, StepKinds DEF Quiet, Completes, RequestDispatch
  <1>2. HInv /\ [Next]_vars =>
          [\A e \in Event :
             \/ event[e].status \in {"DELIVERED", "SKIPPED"}
             \/ event[e].attempts >= MaxAttempts
             => event'[e] = event[e]]_vars
    BY <1>1 DEF IsClosed
  <1> QED
    BY <1>2, AlwaysHInv, PTL DEF Spec, ClosedEventsStay

(* Whoever settles an event as delivered has read endpoints for it, and    *)
(* each of these has a stored success then, over all waves and attempts.   *)
THEOREM DeliveredReachesAll == Spec => DeliveredToAll
  <1>1. ASSUME HInv, [Next]_vars, NEW e \in Event,
               event'[e].status = "DELIVERED", event[e].status # "DELIVERED"
        PROVE  \E w \in Worker : /\ worker[w].item = e
                                 /\ worker[w].endpoints # {}
                                 /\ worker[w].endpoints \subseteq Succeeded(e)'
    <2>1. ~Quiet
      BY <1>1 DEF Quiet
    <2>2. PICK w \in Worker, o \in Outcome, row \in EventRow, records \in SUBSET Delivery :
            Settles(w, o, row, records) /\ Verdict(w, o, row, records)
      BY <1>1, <2>1, StepKinds DEF Completes, RequestDispatch
    <2>3. PICK d \in Event :
            /\ d = worker[w].item /\ deliveries' = deliveries \cup records
            /\ event[d].status = worker[w].status /\ event[d].status \in Dispatchable
            /\ \A c \in Event : event'[c] = IF c = d THEN row ELSE event[c]
      BY <1>1, <2>2, SettledPoints
    <2>4. d = e /\ row.status = "DELIVERED" /\ worker[w].status # "DELIVERED"
      BY <1>1, <2>3
    <2>5. /\ worker[w].pc = "finalize" /\ records = Records(w) /\ worker[w].bad = {}
      BY <2>2, <2>4 DEF Verdict
    <2>6. KnowsTargets(worker[w]) /\ worker[w] \in Memory
      BY <1>1, <2>5 DEF HInv, Knows, KnowsOf, Sending, IInv, TypeOK
    <2>7. worker[w].targets \subseteq worker[w].ok
      BY <2>5, <2>6 DEF KnowsTargets
    <2>8. ASSUME NEW x \in worker[w].endpoints PROVE x \in Succeeded(e)'
      <3>1. x \in Endpoint
        BY <2>6 DEF Memory
      <3>2. CASE x \in worker[w].targets
        <4> DEFINE c == [event |-> worker[w].item, endpoint |-> x,
                         attempt |-> worker[w].attempts + 1,
                         status |-> IF x \in worker[w].ok THEN "SUCCESS" ELSE "FAILED"]
        <4>1. c \in Records(w)
          BY <2>7, <3>2 DEF Records
        <4>2. c.event = e /\ c.endpoint = x /\ c.status = "SUCCESS"
          BY <2>3, <2>4, <2>7, <3>2
        <4> HIDE DEF c
        <4> QED
          BY <2>3, <2>5, <3>1, <4>1, <4>2 DEF Succeeded
      <3>3. CASE x \notin worker[w].targets
        BY <2>3, <2>4, <2>6, <3>1, <3>3 DEF KnowsTargets, Succeeded
      <3> QED
        BY <3>2, <3>3
    <2> QED
      BY <2>3, <2>4, <2>6, <2>8 DEF KnowsTargets
  <1>2. HInv /\ [Next]_vars =>
          [\A e \in Event :
             event'[e].status = "DELIVERED" /\ event[e].status # "DELIVERED" =>
               \E w \in Worker : /\ worker[w].item = e
                                 /\ worker[w].endpoints # {}
                                 /\ worker[w].endpoints \subseteq Succeeded(e)']_vars
    BY <1>1
  <1> QED
    BY <1>2, AlwaysHInv, PTL DEF Spec, DeliveredToAll

-----------------------------------------------------------------------------
(* The promise: what an administrator sees of the dispatcher.              *)

Shown == [j \in Job |-> CASE job[j].status = "ABSENT" -> "none"
                          [] job[j].status = "SUCCEEDED" -> "done"
                          [] OTHER -> "open"]

ShownItems == [j \in Job |-> job[j].items]

ShownResult == [j \in Job |-> job[j].outcome]

LEMMA ShownStates ==
  ASSUME TypeOK, NEW j \in Job
  PROVE  /\ Shown[j] = "none" <=> job[j].status = "ABSENT"
         /\ Shown[j] = "done" <=> job[j].status = "SUCCEEDED"
         /\ Shown[j] = "open" <=> Active(j)
  <1>1. job[j].status \in {"ABSENT", "PENDING", "RUNNING", "SUCCEEDED"}
    BY DEF TypeOK, JobRow
  <1> QED
    BY <1>1 DEF Shown, Active

LEMMA ClosedPoints == Closed = {e \in Event : IsClosed(e)}
  BY DEF Closed, IsClosed

LEMMA InitPromise == Init => Promise!Init
  <1> SUFFICES ASSUME Init PROVE Promise!Init
    OBVIOUS
  <1>1. \A j \in Job : job[j] = NoJobRow
    BY DEF Init
  <1>2. \A j \in Job : /\ job[j].status = "ABSENT" /\ job[j].items = {}
                       /\ job[j].outcome = [e \in Event |-> "NONE"]
    BY <1>1 DEF NoJobRow
  <1>3. Closed = {}
    <2>1. \A e \in Event : event[e].status = "ABSENT" /\ event[e].attempts = 0
      BY DEF Init
    <2> QED
      BY <2>1, WebhookAssumption DEF Closed
  <1> QED
    BY <1>2, <1>3 DEF Promise!Init

(* Work on leases, generations and claims is not seen.                     *)
LEMMA QuietStutters ==
  ASSUME HInv, HInv', Quiet
  PROVE  UNCHANGED <<Shown, ShownItems, ShownResult, Closed>>
  <1>1. TypeOK /\ TypeOK'
    BY DEF HInv, IInv
  <1>2. ASSUME NEW j \in Job PROVE Shown'[j] = Shown[j]
    <2>1. CASE Active(j)
      BY <1>1, <2>1 DEF Quiet, Shown, Active
    <2>2. CASE ~Active(j)
      BY <1>1, <2>2 DEF Quiet, Shown
    <2> QED
      BY <2>1, <2>2
  <1>3. Shown' = Shown
    BY <1>2 DEF Shown
  <1>4. ShownItems' = ShownItems /\ ShownResult' = ShownResult
    BY DEF Quiet, ShownItems, ShownResult
  <1>5. ASSUME NEW e \in Event PROVE IsClosed(e)' <=> IsClosed(e)
    BY <1>5 DEF Quiet, IsClosed
  <1>6. Closed' = Closed
    BY <1>5 DEF Closed, IsClosed
  <1> QED
    BY <1>3, <1>4, <1>6

LEMMA RequestAccepts ==
  ASSUME HInv, NEW j \in Job, RequestDispatch(j)
  PROVE  \E batch \in SUBSET Event : Promise!Accept(j, batch)
  <1>1. IInv /\ TypeOK
    BY DEF HInv, IInv
  <1>2. PICK batch \in SUBSET Event : batch = Batch
    BY DEF Batch, Eligible
  <1>3. /\ \A i \in Job \ {j} : job'[i] = job[i]
        /\ job[j].status = "ABSENT" /\ job'[j].status = "PENDING"
        /\ job'[j].items = batch /\ job'[j].outcome = job[j].outcome
        /\ \A i \in Job : ~Active(i)
        /\ event' = event
    BY <1>1, <1>2, RequestedPoints
  <1>4. \A i \in Job : Shown'[i] = IF i = j THEN "open" ELSE Shown[i]
    BY <1>3 DEF Shown
  <1>5. Shown' = [Shown EXCEPT ![j] = "open"]
    BY <1>4 DEF Shown
  <1>6. ShownItems' = [ShownItems EXCEPT ![j] = batch]
    BY <1>3 DEF ShownItems
  <1>7. ShownResult' = ShownResult
    BY <1>3 DEF ShownResult
  <1>8. Closed' = Closed
    BY <1>3 DEF Closed
  <1>9. batch \cap Closed = {}
    <2>1. \A e \in Event : event[e].attempts \in Nat
      BY <1>1 DEF TypeOK, EventRow
    <2> QED
      BY <1>2, <2>1, WebhookAssumption DEF Batch, Eligible, Closed, Dispatchable
  <1>10. Shown[j] = "none" /\ \A i \in Job : Shown[i] # "open"
    BY <1>1, <1>3, ShownStates
  <1>11. Promise!Accept(j, batch)
    BY <1>5, <1>6, <1>7, <1>8, <1>9, <1>10
    DEF Promise!Accept, Shown, ShownItems, ShownResult
  <1> QED
    BY <1>11

LEMMA SettlingIsDecision ==
  ASSUME HInv, NEW w \in Worker, NEW o \in Outcome, NEW row \in EventRow, NEW records,
         Settles(w, o, row, records), Verdict(w, o, row, records)
  PROVE  \E j \in Job, e \in Event : Promise!Decide(j, e, o)
  <1>1. IInv /\ TypeOK
    BY DEF HInv, IInv
  <1>2. PICK j \in Job, e \in Event :
          /\ Active(j) /\ job[j].outcome[e] = "NONE" /\ e \in job[j].items
          /\ event[e].attempts = worker[w].attempts /\ worker[w].attempts < MaxAttempts
          /\ event[e].status = worker[w].status /\ event[e].status \in Dispatchable
          /\ job'[j] = SettledRow(job[j], e, o) /\ \A i \in Job \ {j} : job'[i] = job[i]
          /\ \A d \in Event : event'[d] = IF d = e THEN row ELSE event[d]
    BY SettledPoints
  <1>3. job[j] \in JobRow /\ event[e].attempts \in Nat /\ row.attempts \in Nat
    BY <1>1 DEF TypeOK, EventRow
  <1>4. /\ job'[j].items = job[j].items /\ job'[j].status = job[j].status
        /\ job'[j].outcome = [job[j].outcome EXCEPT ![e] = o]
    BY <1>2, <1>3, SettledRowFields, SettledRowOutcome
  <1>5. \A i \in Job : Shown'[i] = Shown[i]
    BY <1>2, <1>4 DEF Shown
  <1>6. Shown' = Shown
    BY <1>5 DEF Shown
  <1>7. ShownItems' = ShownItems
    BY <1>2, <1>4 DEF ShownItems
  <1>8. ShownResult' = [ShownResult EXCEPT ![j] = [ShownResult[j] EXCEPT ![e] = o]]
    <2>1. \A i \in Job : job'[i].outcome =
            IF i = j THEN [job[j].outcome EXCEPT ![e] = o] ELSE job[i].outcome
      BY <1>2, <1>4
    <2> QED
      BY <2>1 DEF ShownResult
  <1>9. \A d \in Event \ {e} : IsClosed(d)' <=> IsClosed(d)
    BY <1>2 DEF IsClosed
  <1>10. ~IsClosed(e)
    BY <1>2, <1>3, WebhookAssumption DEF IsClosed, Dispatchable
  <1>11. \/ o \in {"DELIVERED", "SKIPPED", "FAILED"} /\ IsClosed(e)'
         \/ o \in {"FAILED", "CONFIGURATION_FAULT"} /\ ~IsClosed(e)'
    <2>1. event'[e] = row
      BY <1>2
    <2>2. CASE o = "CONFIGURATION_FAULT"
      <3>1. row.status = event[e].status /\ row.attempts = event[e].attempts
        BY <1>2, <2>2 DEF Verdict
      <3> QED
        BY <1>10, <2>1, <2>2, <3>1 DEF IsClosed
    <2>3. CASE o # "CONFIGURATION_FAULT"
      <3>1. row.status = o /\ o \in {"DELIVERED", "SKIPPED", "FAILED"}
        BY <2>3 DEF Verdict, Outcome
      <3> QED
        BY <2>1, <3>1 DEF IsClosed
    <2> QED
      BY <2>2, <2>3
  <1>12. \/ o \in {"DELIVERED", "SKIPPED", "FAILED"} /\ Closed' = Closed \cup {e}
         \/ o \in {"FAILED", "CONFIGURATION_FAULT"} /\ Closed' = Closed
    BY <1>9, <1>10, <1>11 DEF Closed, IsClosed
  <1>13. /\ Shown[j] = "open" /\ e \in ShownItems[j] /\ ShownResult[j][e] = "NONE"
    BY <1>1, <1>2, ShownStates DEF ShownItems, ShownResult
  <1> QED
    BY <1>6, <1>7, <1>8, <1>12, <1>13
    DEF Promise!Decide, Shown, ShownItems, ShownResult

LEMMA CompletingFinishes ==
  ASSUME HInv, NEW w \in Worker, Completes(w)
  PROVE  \E j \in Job : Promise!Finish(j)
  <1>1. IInv /\ TypeOK
    BY DEF HInv, IInv
  <1>2. PICK j \in Job :
          /\ Active(j) /\ Undecided(j) = {}
          /\ \A i \in Job \ {j} : job'[i] = job[i]
          /\ job'[j].status = "SUCCEEDED"
          /\ job'[j].items = job[j].items /\ job'[j].outcome = job[j].outcome
    BY <1>1, CompletedPoints
  <1>3. \A i \in Job : Shown'[i] = IF i = j THEN "done" ELSE Shown[i]
    BY <1>2 DEF Shown
  <1>4. Shown' = [Shown EXCEPT ![j] = "done"]
    BY <1>3 DEF Shown
  <1>5. ShownItems' = ShownItems /\ ShownResult' = ShownResult
    BY <1>2 DEF ShownItems, ShownResult
  <1>6. Closed' = Closed
    BY DEF Completes, Closed
  <1>7. Shown[j] = "open" /\ \A e \in ShownItems[j] : ShownResult[j][e] # "NONE"
    BY <1>1, <1>2, ShownStates DEF Undecided, ShownItems, ShownResult
  <1> QED
    BY <1>4, <1>5, <1>6, <1>7 DEF Promise!Finish, Shown, ShownItems, ShownResult

(* The dispatcher implements DispatchPromise: whatever its workers do,     *)
(* crash or lose, an administrator sees one batch at a time, of events     *)
(* that are not closed, decided member by member, then finished.           *)
THEOREM PromiseIsKept == Spec => KeepsPromise
  <1>1. HInv /\ HInv' /\ [Next]_vars => [Promise!Next]_(Promise!vars)
    <2> SUFFICES ASSUME HInv, HInv', [Next]_vars
                 PROVE  Promise!Next \/ UNCHANGED Promise!vars
      OBVIOUS
    <2>1. CASE Quiet
      BY <2>1, QuietStutters DEF Promise!vars, Shown, ShownItems, ShownResult
    <2>2. ASSUME NEW w \in Worker, NEW o \in Outcome, NEW row \in EventRow, NEW records,
                 Settles(w, o, row, records), Verdict(w, o, row, records)
          PROVE  Promise!Next
      BY <2>2, SettlingIsDecision DEF Promise!Next
    <2>3. ASSUME NEW w \in Worker, Completes(w) PROVE Promise!Next
      BY <2>3, CompletingFinishes DEF Promise!Next
    <2>4. ASSUME NEW j \in Job, RequestDispatch(j) PROVE Promise!Next
      BY <2>4, RequestAccepts DEF Promise!Next
    <2> QED
      BY <2>1, <2>2, <2>3, <2>4, StepKinds
  <1> QED
    BY <1>1, InitPromise, AlwaysHInv, PTL DEF Spec, KeepsPromise, Promise!Spec

-----------------------------------------------------------------------------
(* Who may send.                                                           *)

(* A worker about to claim for a wave has just renewed the lease of the    *)
(* job; one that posts holds a claim that outlives the lease.              *)
Alone(w) ==
  /\ worker[w].pc \in {"renewClaim", "post"} =>
       HoldsLease(w) /\ job[worker[w].job].leaseUntil <= clock + Lease
  /\ worker[w].pc = "post" =>
       HoldsEvent(w) /\ worker[w].claim >= job[worker[w].job].leaseUntil

AInv == IInv /\ \A w \in Worker : Alone(w)

LEMMA HoldersAgree ==
  ASSUME IInv, NEW v \in Worker, NEW w \in Worker, HoldsLease(v), HoldsLease(w)
  PROVE  v = w
  BY DEF IInv, OneActive, HoldsLease, Owns, Active

(* Nobody else writes the row of a job whose lease runs.                   *)
LEMMA JobUndisturbed ==
  ASSUME IInv, NEW w \in Worker, NEW v \in Worker \ {w}, HoldsLease(w),
         Step(v) \/ StatementFails(v) \/ Crash(v)
  PROVE  job'[worker[w].job] = job[worker[w].job]
  <1>1. PICK j \in Job : j = worker[w].job
    BY DEF HoldsLease, Owns
  <1>2. /\ job[j].owner = w /\ job[j].status = "RUNNING" /\ job[j].leaseUntil > clock
        /\ TypeOK /\ job[j].leaseUntil \in Nat /\ clock \in Nat
    BY <1>1 DEF HoldsLease, Owns, IInv, TypeOK, JobRow
  <1>3. ~HoldsLease(v)
    BY HoldersAgree
  <1>4. ASSUME NEW i \in Job \ {j}, NEW row, job' = [job EXCEPT ![i] = row]
        PROVE  job'[j] = job[j]
    BY <1>2, <1>4 DEF TypeOK
  <1>5. CASE ClaimJob(v)
    <2>1. CASE UNCHANGED job
      BY <2>1
    <2>2. CASE ~UNCHANGED job
      <3>1. /\ job' = [job EXCEPT ![worker[v].job] = ClaimedRow(job[worker[v].job], v)]
            /\ \/ job[worker[v].job].status = "PENDING"
               \/ job[worker[v].job].leaseUntil <= clock
        BY <1>5, <2>2 DEF ClaimJob
      <3>2. worker[v].job \in Job
        BY <1>5 DEF ClaimJob, IInv, WorkerMemory, Remembers
      <3>3. worker[v].job # j
        BY <1>2, <3>1
      <3>4. PICK i \in Job \ {j} : i = worker[v].job
        BY <3>2, <3>3
      <3> DEFINE row == ClaimedRow(job[worker[v].job], v)
      <3>5. job' = [job EXCEPT ![i] = row]
        BY <3>1, <3>4
      <3> HIDE DEF row
      <3> QED
        BY <1>1, <1>4, <3>5
    <2> QED
      BY <1>1, <2>1, <2>2
  <1>6. CASE Yield(v) \/ RecordInterruption(v)
    <2>1. CASE Owns(v)
      <3>1. worker[v].job \in Job \ {j}
        BY <1>2, <2>1 DEF Owns
      <3> QED
        BY <1>1, <1>4, <1>6, <2>1, <3>1 DEF Yield, RecordInterruption
    <2>2. CASE ~Owns(v)
      BY <1>6, <2>2 DEF Yield, RecordInterruption
    <2> QED
      BY <2>1, <2>2
  <1>7. CASE RenewForItem(v) \/ RenewForWave(v)
    BY <1>3, <1>7 DEF RenewForItem, RenewForWave, RenewThen
  <1>8. CASE SettleSkipped(v) \/ SettleFault(v) \/ SettleDelivery(v)
    BY <1>3, <1>8 DEF SettleSkipped, SettleFault, SettleDelivery, Settle, CanSettle
  <1>9. CASE CompleteJob(v)
    BY <1>3, <1>9 DEF CompleteJob
  <1> QED
    BY <1>1, <1>5, <1>6, <1>7, <1>8, <1>9
    DEF Step, Poll, PickItem, ClaimEvent, ReadEndpoints, ReadTargets, RenewClaim,
        PostWave, StatementFails, Crash

(* Nobody else writes an event that is claimed by the holder of the job.   *)
LEMMA EventUndisturbed ==
  ASSUME IInv, NEW w \in Worker, NEW v \in Worker \ {w}, HoldsLease(w), Alone(v),
         NEW e \in Event, event[e].nextAttemptAt > clock,
         Step(v) \/ StatementFails(v) \/ Crash(v)
  PROVE  event'[e] = event[e]
  <1>1. ~HoldsLease(v)
    BY HoldersAgree
  <1>2. event[e].nextAttemptAt \in Nat /\ clock \in Nat /\ event \in [Event -> EventRow]
    BY DEF IInv, TypeOK, EventRow
  <1>3. CASE ClaimEvent(v)
    <2>1. CASE event[worker[v].item].nextAttemptAt <= clock
      <3>1. worker[v].item # e
        BY <1>2, <2>1
      <3>2. \/ UNCHANGED event
            \/ event' = [event EXCEPT ![worker[v].item] =
                 [event[worker[v].item] EXCEPT !.nextAttemptAt = clock + Lease]]
        BY <1>3 DEF ClaimEvent
      <3> QED
        BY <1>2, <3>1, <3>2
    <2>2. CASE ~(event[worker[v].item].nextAttemptAt <= clock)
      BY <1>3, <2>2 DEF ClaimEvent
    <2> QED
      BY <2>1, <2>2
  <1>4. ~RenewClaim(v)
    BY <1>1 DEF RenewClaim, Alone
  <1>5. CASE SettleSkipped(v) \/ SettleFault(v) \/ SettleDelivery(v)
    BY <1>1, <1>5 DEF SettleSkipped, SettleFault, SettleDelivery, Settle, CanSettle
  <1> QED
    BY <1>3, <1>4, <1>5
    DEF Step, Poll, ClaimJob, RenewForItem, RenewForWave, RenewThen, PickItem, Yield,
        ReadEndpoints, ReadTargets, PostWave, CompleteJob, RecordInterruption,
        StatementFails, Crash

LEMMA OthersStayAlone ==
  ASSUME AInv, NEW w \in Worker, NEW v \in Worker \ {w},
         Step(v) \/ StatementFails(v) \/ Crash(v)
  PROVE  Alone(w)'
  <1>1. IInv /\ TypeOK /\ Alone(w) /\ Alone(v) /\ Remembers(w)
    BY DEF AInv, IInv, WorkerMemory
  <1>2. worker'[w] = worker[w] /\ clock' = clock
    <2>1. worker'[w] = worker[w]
      BY <1>1, OneMoves
    <2>2. clock' = clock
      BY DEF Step, Poll, ClaimJob, RenewForItem, RenewForWave, RenewThen, PickItem,
             ClaimEvent, Yield, ReadEndpoints, ReadTargets, RenewClaim, PostWave,
             SettleSkipped, SettleFault, SettleDelivery, Settle, CompleteJob,
             RecordInterruption, StatementFails, Crash
    <2> QED
      BY <2>1, <2>2
  <1>3. CASE worker[w].pc \notin {"renewClaim", "post"}
    BY <1>2, <1>3 DEF Alone
  <1>4. CASE worker[w].pc \in {"renewClaim", "post"}
    <2>1. HoldsLease(w) /\ job[worker[w].job].leaseUntil <= clock + Lease
      BY <1>1, <1>4 DEF Alone
    <2>2. job'[worker[w].job] = job[worker[w].job]
      BY <1>1, <2>1, JobUndisturbed
    <2>3. HoldsLease(w)' /\ (job[worker[w].job].leaseUntil <= clock + Lease)'
      BY <1>2, <2>1, <2>2 DEF HoldsLease, Owns
    <2>4. CASE worker[w].pc = "post"
      <3>1. PICK e \in Event : e = worker[w].item
        BY <1>1, <2>4 DEF Remembers, ItemSteps, TypeOK, JobRow
      <3>2. /\ HoldsEvent(w) /\ worker[w].claim >= job[worker[w].job].leaseUntil
            /\ job[worker[w].job].leaseUntil \in Nat /\ worker[w].claim \in Nat
            /\ clock \in Nat /\ job[worker[w].job].leaseUntil > clock
        BY <1>1, <2>1, <2>4 DEF Alone, HoldsLease, Owns, TypeOK, JobRow, Memory
      <3>3. event[e].nextAttemptAt > clock
        BY <3>1, <3>2 DEF HoldsEvent
      <3>4. event'[e] = event[e]
        BY <1>1, <2>1, <3>3, EventUndisturbed
      <3>5. HoldsEvent(w)'
        BY <1>2, <3>1, <3>2, <3>4 DEF HoldsEvent
      <3> QED
        BY <1>2, <2>2, <2>3, <3>2, <3>5 DEF Alone
    <2>5. CASE worker[w].pc # "post"
      BY <1>2, <2>3, <2>5 DEF Alone
    <2> QED
      BY <2>4, <2>5
  <1> QED
    BY <1>3, <1>4

(* Only the two renewals lead a worker to a wave.                          *)
LEMMA WaysToPost ==
  ASSUME TypeOK, NEW w \in Worker, Step(w) \/ StatementFails(w) \/ Crash(w),
         worker'[w].pc \in {"renewClaim", "post"}
  PROVE  \/ RenewForWave(w) /\ worker'[w].pc = "renewClaim"
         \/ RenewClaim(w) /\ worker'[w].pc = "post"
  <1>1. \A m : Becomes(w, m) => worker'[w] = m
    BY DEF Becomes, TypeOK
  <1>2. ASSUME NEW pc, Goto(w, pc) PROVE worker'[w].pc = pc
    BY <1>2 DEF Goto, Becomes, TypeOK, Memory
  <1>3. Becomes(w, Idle) => worker'[w].pc = "idle"
    BY <1>1 DEF Idle
  <1>4. ~(\/ Yield(w) \/ SettleSkipped(w) \/ SettleFault(w) \/ SettleDelivery(w)
          \/ CompleteJob(w) \/ RecordInterruption(w) \/ StatementFails(w) \/ Crash(w)
          \/ RenewForItem(w))
    BY <1>2, <1>3
    DEF Yield, SettleSkipped, SettleFault, SettleDelivery, Settle, CompleteJob,
        RecordInterruption, StatementFails, Crash, RenewForItem, RenewThen
  <1>5. worker[w] \in Memory
    BY DEF TypeOK
  <1>6. ASSUME Poll(w) PROVE FALSE
    <2>1. ASSUME NEW j \in Job,
                 Becomes(w, [Idle EXCEPT !.pc = "claimJob", !.job = j,
                                         !.gen = job[j].generation])
          PROVE  FALSE
      <3> DEFINE m == [Idle EXCEPT !.pc = "claimJob", !.job = j, !.gen = job[j].generation]
      <3>1. m.pc = "claimJob"
        BY DEF Idle
      <3>2. worker'[w] = m
        BY <1>1, <2>1
      <3> QED
        BY <3>1, <3>2
    <2> QED
      BY <1>6, <2>1 DEF Poll
  <1>7. ASSUME ClaimJob(w) PROVE FALSE
    <2>1. ASSUME Becomes(w, [worker[w] EXCEPT !.pc = "renew", !.gen = worker[w].gen + 1])
          PROVE  FALSE
      <3> DEFINE m == [worker[w] EXCEPT !.pc = "renew", !.gen = worker[w].gen + 1]
      <3>1. m.pc = "renew"
        BY <1>5 DEF Memory
      <3>2. worker'[w] = m
        BY <1>1, <2>1
      <3> QED
        BY <3>1, <3>2
    <2> QED
      BY <1>3, <1>7, <2>1 DEF ClaimJob
  <1>8. ASSUME PickItem(w) PROVE FALSE
    <2>1. ASSUME NEW j, NEW g, NEW e, NEW s, NEW a,
                 Becomes(w, [Idle EXCEPT !.pc = "claimEvent", !.job = j, !.gen = g,
                                         !.item = e, !.status = s, !.attempts = a])
          PROVE  FALSE
      <3> DEFINE m == [Idle EXCEPT !.pc = "claimEvent", !.job = j, !.gen = g,
                                   !.item = e, !.status = s, !.attempts = a]
      <3>1. m.pc = "claimEvent"
        BY DEF Idle
      <3>2. worker'[w] = m
        BY <1>1, <2>1
      <3> QED
        BY <3>1, <3>2
    <2> QED
      BY <1>2, <1>8, <2>1 DEF PickItem
  <1>9. ASSUME ClaimEvent(w) PROVE FALSE
    <2>1. ASSUME NEW until, Becomes(w, [worker[w] EXCEPT !.pc = "endpoints", !.claim = until])
          PROVE  FALSE
      <3> DEFINE m == [worker[w] EXCEPT !.pc = "endpoints", !.claim = until]
      <3>1. m.pc = "endpoints"
        BY <1>5 DEF Memory
      <3>2. worker'[w] = m
        BY <1>1, <2>1
      <3> QED
        BY <3>1, <3>2
    <2> QED
      BY <1>2, <1>9, <2>1 DEF ClaimEvent
  <1>10. ASSUME ReadEndpoints(w) PROVE FALSE
    <2> DEFINE found == {x \in registered : worker[w].item \in Subscriptions[x]}
               pc == IF found = {} THEN "skip" ELSE "targets"
               m == [worker[w] EXCEPT !.endpoints = found, !.pc = pc]
    <2>1. worker'[w] = m
      BY <1>1, <1>10 DEF ReadEndpoints
    <2>2. pc \in {"skip", "targets"}
      OBVIOUS
    <2> HIDE DEF found, pc
    <2> QED
      BY <1>5, <2>1, <2>2 DEF Memory
  <1>11. ASSUME ReadTargets(w) PROVE FALSE
    <2> DEFINE left == worker[w].endpoints \ Succeeded(worker[w].item)
    <2>1. PICK pc \in {"finalize", "renewJob", "fault"} :
            Becomes(w, [worker[w] EXCEPT !.targets = left, !.pc = pc])
      BY <1>11 DEF ReadTargets
    <2> DEFINE m == [worker[w] EXCEPT !.targets = left, !.pc = pc]
    <2>2. worker'[w] = m
      BY <1>1, <2>1
    <2> HIDE DEF left
    <2> QED
      BY <1>5, <2>2 DEF Memory
  <1>12. ASSUME PostWave(w) PROVE FALSE
    <2>1. PICK ok \in SUBSET Endpoint, bad \in SUBSET Endpoint, pc \in {"finalize", "renewJob"} :
            Becomes(w, [worker[w] EXCEPT !.ok = ok, !.bad = bad, !.pc = pc])
      BY <1>5, <1>12 DEF PostWave, Memory
    <2> DEFINE m == [worker[w] EXCEPT !.ok = ok, !.bad = bad, !.pc = pc]
    <2>2. worker'[w] = m
      BY <1>1, <2>1
    <2> QED
      BY <1>5, <2>2 DEF Memory
  <1>13. CASE RenewForWave(w)
    BY <1>2, <1>13 DEF RenewForWave, RenewThen
  <1>14. CASE RenewClaim(w)
    <2>1. ASSUME NEW until, Becomes(w, [worker[w] EXCEPT !.pc = "post", !.claim = until])
          PROVE  worker'[w].pc = "post"
      <3> DEFINE m == [worker[w] EXCEPT !.pc = "post", !.claim = until]
      <3>1. m.pc = "post"
        BY <1>5 DEF Memory
      <3>2. worker'[w] = m
        BY <1>1, <2>1
      <3> QED
        BY <3>1, <3>2
    <2> QED
      BY <1>2, <1>14, <2>1 DEF RenewClaim
  <1> QED
    BY <1>4, <1>6, <1>7, <1>8, <1>9, <1>10, <1>11, <1>12, <1>13, <1>14 DEF Step

LEMMA MoverIsAlone ==
  ASSUME AInv, NEW w \in Worker, Step(w) \/ StatementFails(w) \/ Crash(w)
  PROVE  Alone(w)'
  <1>1. IInv /\ TypeOK /\ Alone(w) /\ Remembers(w) /\ clock \in Nat
    BY DEF AInv, IInv, WorkerMemory, TypeOK
  <1>2. CASE worker'[w].pc \notin {"renewClaim", "post"}
    BY <1>2 DEF Alone
  <1>3. CASE RenewForWave(w) /\ worker'[w].pc = "renewClaim"
    <2>1. HoldsLease(w)
      BY <1>1, <1>3 DEF RenewForWave, RenewThen, Goto, Becomes, TypeOK, Memory
    <2>2. PICK j \in Job : j = worker[w].job
      BY <2>1 DEF HoldsLease, Owns
    <2> DEFINE until == clock + Lease
               row == [job[j] EXCEPT !.leaseUntil = until]
    <2>3. /\ job' = [job EXCEPT ![j] = row] /\ clock' = clock
          /\ worker' = [worker EXCEPT ![w] = [worker[w] EXCEPT !.pc = "renewClaim"]]
      BY <1>3, <2>1, <2>2 DEF RenewForWave, RenewThen, Goto, Becomes
    <2>4. until \in Nat /\ until > clock /\ job \in [Job -> JobRow]
      BY <1>1, WebhookAssumption DEF TypeOK
    <2>5. /\ row.owner = job[j].owner /\ row.generation = job[j].generation
          /\ row.status = job[j].status /\ row.leaseUntil = until
      BY <2>4 DEF JobRow
    <2>6. worker'[w].job = j /\ worker'[w].gen = worker[w].gen
      BY <1>1, <2>2, <2>3 DEF TypeOK, Memory
    <2> HIDE DEF row
    <2>7. job'[j] = row
      BY <2>3, <2>4
    <2>8. HoldsLease(w)'
      <3>1. /\ job[j].owner = w /\ job[j].generation = worker[w].gen
            /\ job[j].status = "RUNNING"
        BY <2>1, <2>2 DEF HoldsLease, Owns
      <3> QED
        BY <2>3, <2>4, <2>5, <2>6, <2>7, <3>1 DEF HoldsLease, Owns
    <2> QED
      BY <1>3, <2>3, <2>4, <2>5, <2>6, <2>7, <2>8 DEF Alone
  <1>4. CASE RenewClaim(w) /\ worker'[w].pc = "post"
    <2> DEFINE until == clock + Lease
    <2>1. /\ HoldsLease(w) /\ job[worker[w].job].leaseUntil <= until
          /\ worker[w].pc = "renewClaim"
      BY <1>1, <1>4 DEF Alone, RenewClaim
    <2>2. PICK e \in Event : e = worker[w].item
      BY <1>1, <2>1 DEF Remembers, ItemSteps, TypeOK, JobRow
    <2>3. /\ HoldsEvent(w) /\ UNCHANGED <<job, clock>>
          /\ event' = [event EXCEPT ![e] = [event[e] EXCEPT !.nextAttemptAt = until]]
          /\ worker' = [worker EXCEPT ![w] = [worker[w] EXCEPT !.pc = "post", !.claim = until]]
      <3>1. CASE HoldsEvent(w)
        BY <1>4, <2>2, <3>1 DEF RenewClaim, Becomes
      <3>2. CASE ~HoldsEvent(w)
        BY <1>1, <1>4, <3>2 DEF RenewClaim, Goto, Becomes, TypeOK, Memory
      <3> QED
        BY <3>1, <3>2
    <2> DEFINE m == [worker[w] EXCEPT !.pc = "post", !.claim = until]
               row == [event[e] EXCEPT !.nextAttemptAt = until]
    <2>4. /\ m.job = worker[w].job /\ m.gen = worker[w].gen /\ m.item = e
          /\ m.status = worker[w].status /\ m.attempts = worker[w].attempts /\ m.claim = until
      BY <1>1, <2>2 DEF TypeOK, Memory
    <2>5. /\ row.status = event[e].status /\ row.attempts = event[e].attempts
          /\ row.nextAttemptAt = until
      BY <1>1 DEF TypeOK, EventRow
    <2>6. worker'[w] = m /\ event'[e] = row
      BY <1>1, <2>3 DEF TypeOK
    <2> HIDE DEF m, row
    <2>7. HoldsLease(w)'
      BY <2>1, <2>3, <2>4, <2>6 DEF HoldsLease, Owns
    <2>8. HoldsEvent(w)'
      BY <2>2, <2>3, <2>4, <2>5, <2>6 DEF HoldsEvent
    <2>9. job[worker[w].job].leaseUntil \in Nat /\ until \in Nat
      BY <1>1, <2>1, WebhookAssumption DEF HoldsLease, Owns, TypeOK, JobRow
    <2> QED
      BY <2>1, <2>3, <2>4, <2>6, <2>7, <2>8, <2>9 DEF Alone
  <1> QED
    BY <1>1, <1>2, <1>3, <1>4, WaysToPost

LEMMA TickKeepsAlone ==
  ASSUME AInv, Tick, ~MayStall, NEW w \in Worker
  PROVE  Alone(w)'
  <1>1. IInv /\ TypeOK /\ Alone(w) /\ UNCHANGED <<job, event, worker>>
    BY DEF AInv, IInv, Tick
  <1>2. clock \in Nat /\ clock' = clock + 1 /\ InTime(w)
    BY <1>1, WebhookAssumption DEF TypeOK, Tick
  <1>3. CASE worker[w].pc \notin {"renewClaim", "post"}
    BY <1>1, <1>3 DEF Alone
  <1>4. CASE worker[w].pc \in {"renewClaim", "post"}
    <2>1. HoldsLease(w) /\ job[worker[w].job].leaseUntil > clock'
      BY <1>2, <1>4 DEF InTime, Owning
    <2>2. HoldsLease(w)' /\ (worker[w].pc = "post" => HoldsEvent(w)')
      BY <1>1, <2>1 DEF HoldsLease, Owns, Alone, HoldsEvent
    <2>3. job[worker[w].job].leaseUntil \in Nat /\ Lease \in Nat
      BY <1>1, <2>1, WebhookAssumption DEF HoldsLease, Owns, TypeOK, JobRow
    <2> QED
      BY <1>1, <1>2, <1>4, <2>2, <2>3 DEF Alone
  <1> QED
    BY <1>3, <1>4

LEMMA StepAInv == ~MayStall /\ AInv /\ [Next]_vars => AInv'
  <1> SUFFICES ASSUME ~MayStall, AInv, [Next]_vars PROVE AInv'
    OBVIOUS
  <1>1. IInv /\ IInv' /\ TypeOK /\ \A w \in Worker : Alone(w) /\ Remembers(w)
    BY StepIInv DEF AInv, IInv, WorkerMemory
  <1>2. ASSUME NEW v \in Worker, Step(v) \/ StatementFails(v) \/ Crash(v), NEW w \in Worker
        PROVE  Alone(w)'
    BY <1>2, MoverIsAlone, OthersStayAlone
  <1>3. ASSUME NEW e \in Event, Enqueue(e), NEW w \in Worker PROVE Alone(w)'
    <2>1. event[e].status = "ABSENT" /\ UNCHANGED <<clock, job, worker>>
          /\ \A d \in Event \ {e} : event'[d] = event[d]
      BY <1>1, <1>3 DEF Enqueue, TypeOK
    <2>2. worker[w].pc = "post" => worker[w].item \in Event \ {e}
      <3>1. SUFFICES ASSUME worker[w].pc = "post" PROVE worker[w].item \in Event \ {e}
        OBVIOUS
      <3>2. worker[w].item \in Event /\ worker[w].status \in Dispatchable
        BY <1>1, <3>1 DEF Remembers, ItemSteps, TypeOK, JobRow
      <3>3. event[worker[w].item].status = worker[w].status
        BY <1>1, <3>1 DEF Alone, HoldsEvent
      <3> QED
        BY <2>1, <3>2, <3>3 DEF Dispatchable
    <2> QED
      BY <1>1, <2>1, <2>2 DEF Alone, HoldsLease, Owns, HoldsEvent
  <1>4. ASSUME NEW j \in Job, RequestDispatch(j), NEW w \in Worker PROVE Alone(w)'
    <2>1. job[j].status = "ABSENT" /\ UNCHANGED <<clock, event, worker>>
          /\ \A i \in Job \ {j} : job'[i] = job[i]
      BY <1>1, <1>4 DEF RequestDispatch, TypeOK
    <2> QED
      BY <1>1, <2>1 DEF Alone, HoldsLease, Owns, HoldsEvent
  <1>5. ASSUME UNCHANGED vars \/ (\E x \in Endpoint : RegisterEndpoint(x)), NEW w \in Worker
        PROVE  Alone(w)'
    <2>1. UNCHANGED <<clock, event, job, worker>>
      BY <1>5 DEF vars, RegisterEndpoint
    <2> QED
      BY <1>1, <2>1 DEF Alone, HoldsLease, Owns, HoldsEvent
  <1>6. \A w \in Worker : Alone(w)'
    BY <1>2, <1>3, <1>4, <1>5, TickKeepsAlone DEF Next
  <1> QED
    BY <1>1, <1>6 DEF AInv

(* When no process sleeps past its own lease, a request is only sent by    *)
(* the one worker that holds the job and the event, for any number of      *)
(* processes and any lease.                                                *)
THEOREM OneSender == ASSUME ~MayStall PROVE Spec => []PosterIsAlone
  <1>1. Init => AInv
    BY InitIInv DEF Init, AInv, Alone, Idle
  <1>2. AInv /\ [Next]_vars => AInv'
    BY StepAInv
  <1>3. AInv => PosterIsAlone
    <2> SUFFICES ASSUME AInv, NEW w \in Worker, worker[w].pc = "post"
                 PROVE  HoldsLease(w) /\ HoldsEvent(w) /\ worker[w].claim > clock
      BY DEF PosterIsAlone
    <2>1. /\ HoldsLease(w) /\ HoldsEvent(w)
          /\ worker[w].claim >= job[worker[w].job].leaseUntil
      BY DEF AInv, Alone
    <2>2. /\ job[worker[w].job].leaseUntil > clock /\ worker[w].claim \in Nat
          /\ job[worker[w].job].leaseUntil \in Nat /\ clock \in Nat
      BY <2>1 DEF AInv, IInv, HoldsLease, Owns, TypeOK, JobRow, Memory
    <2> QED
      BY <2>1, <2>2
  <1> QED
    BY <1>1, <1>2, <1>3, PTL DEF Spec
=============================================================================
