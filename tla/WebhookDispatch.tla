-------------------------- MODULE WebhookDispatch --------------------------
(***************************************************************************)
(* The durable webhook dispatcher of the integrations module.              *)
(*                                                                         *)
(* Business transactions enqueue rows in the domain event outbox.  An      *)
(* administrator request snapshots the eligible rows into one finite       *)
(* dispatch job.  Every API process runs a WebhookJobWorker that polls for *)
(* the active job, takes it over with a lease and a generation number, and *)
(* delivers its items one after the other: it leases the event, reads the  *)
(* endpoints, posts in waves and commits the outcome.  Processes crash and *)
(* stall anywhere, and any statement may fail, so every database statement *)
(* and every wave of requests is an action of its own and every            *)
(* transaction is one action.                                              *)
(***************************************************************************)
EXTENDS Naturals, FiniteSets

CONSTANTS
  Worker,         \* the API processes; each has one WebhookJobWorker
  Nobody,         \* the null owner of a job
  Endpoint,       \* the webhook endpoints that may be registered
  NumEvents,      \* outbox events, numbered in creation order
  NumJobs,        \* dispatch jobs, numbered in creation order
  Subscriptions,  \* the events whose type an endpoint subscribes to
  BatchSize, MaxAttempts, Lease,   \* the settings stored with a job
  WaveSize,       \* endpoints posted to at once (eight in the code)
  RetryDelay,     \* until a failed event is due again (grows in the code)
  FaultDelay,     \* until an event with a configuration fault is due again
  MayStall,       \* TRUE: a process may sleep past its own lease
  MaxClock,       \* bound: the last poll interval of a behaviour
  Horizon,        \* bound: the last interval with a new job, fault or stall
  MaxFaults       \* bound: process crashes and statement failures

Event == 1..NumEvents
Job == 1..NumJobs
Outcome == {"DELIVERED", "FAILED", "SKIPPED", "CONFIGURATION_FAULT"}
Dispatchable == {"PENDING", "FAILED"}

ASSUME WebhookAssumption ==
  /\ Nobody \notin Worker
  /\ NumEvents \in Nat /\ NumJobs \in Nat
  /\ IsFiniteSet(Endpoint)
  /\ Subscriptions \in [Endpoint -> SUBSET Event]
  /\ BatchSize \in Nat \ {0} /\ MaxAttempts \in Nat \ {0}
  /\ WaveSize \in Nat \ {0} /\ Lease \in Nat \ {0}
  /\ RetryDelay \in Nat \ {0} /\ FaultDelay \in Nat \ {0}
  /\ MayStall \in BOOLEAN
  /\ MaxClock \in Nat /\ Horizon \in Nat /\ MaxFaults \in Nat

VARIABLES
  clock,       \* the time, in poll intervals; zero stands for a null date
  event,       \* the outbox rows
  registered,  \* the endpoint rows; a row is never deactivated
  deliveries,  \* the webhook delivery records
  job,         \* the dispatch job rows with their items
  worker,      \* what each process holds in memory
  due,         \* the processes whose poll timer has fired
  faults       \* crashes and statement failures so far

vars == <<clock, event, registered, deliveries, job, worker, due, faults>>

EventRow == [status : {"ABSENT", "PENDING", "FAILED", "DELIVERED", "SKIPPED"},
             attempts : Nat, nextAttemptAt : Nat]

Delivery == [event : Event, endpoint : Endpoint, attempt : Nat,
             status : {"SUCCESS", "FAILED"}]

JobRow == [status : {"ABSENT", "PENDING", "RUNNING", "SUCCEEDED"},
           owner : Worker \cup {Nobody}, generation : Nat, leaseUntil : Nat,
           items : SUBSET Event, outcome : [Event -> Outcome \cup {"NONE"}],
           processed : Nat, counters : [Outcome -> Nat],
           interrupted : BOOLEAN]

(* Where a worker stands between two statements.                           *)
Owning == {"renew", "pick", "claimEvent", "yield", "endpoints", "skip",
           "targets", "fault", "renewJob", "renewClaim", "post", "finalize",
           "complete", "interrupted"}

Memory == [pc : {"idle", "claimJob"} \cup Owning,
           job : Job \cup {0}, gen : Nat, item : Event \cup {0},
           status : Dispatchable \cup {"NONE"}, attempts : Nat, claim : Nat,
           endpoints : SUBSET Endpoint, targets : SUBSET Endpoint,
           ok : SUBSET Endpoint, bad : SUBSET Endpoint]

NoJobRow == [status |-> "ABSENT", owner |-> Nobody, generation |-> 0,
             leaseUntil |-> 0, items |-> {},
             outcome |-> [e \in Event |-> "NONE"],
             processed |-> 0, counters |-> [o \in Outcome |-> 0],
             interrupted |-> FALSE]

Idle == [pc |-> "idle", job |-> 0, gen |-> 0, item |-> 0, status |-> "NONE",
         attempts |-> 0, claim |-> 0, endpoints |-> {}, targets |-> {},
         ok |-> {}, bad |-> {}]

Init ==
  /\ clock = 1
  /\ event = [e \in Event |->
                [status |-> "ABSENT", attempts |-> 0, nextAttemptAt |-> 0]]
  /\ registered = {}
  /\ deliveries = {}
  /\ job = [j \in Job |-> NoJobRow]
  /\ worker = [w \in Worker |-> Idle]
  /\ due = Worker
  /\ faults = 0

-----------------------------------------------------------------------------
(* Requests: the outbox is filled, endpoints appear, jobs are created.     *)

(* A business transaction commits an event.  Events are numbered in the    *)
(* order of their creation.                                                *)
Enqueue(e) ==
  /\ event[e].status = "ABSENT"
  /\ \A d \in Event : d < e => event[d].status # "ABSENT"
  /\ event' = [event EXCEPT ![e] = [event[e] EXCEPT !.status = "PENDING"]]
  /\ UNCHANGED <<clock, registered, deliveries, job, worker, due, faults>>

RegisterEndpoint(x) ==
  /\ x \notin registered
  /\ registered' = registered \cup {x}
  /\ UNCHANGED <<clock, event, deliveries, job, worker, due, faults>>

Active(j) == job[j].status \in {"PENDING", "RUNNING"}

(* Bound: a crash or a failure is counted.                                 *)
MayFault ==
  /\ clock <= Horizon
  /\ faults < MaxFaults
  /\ faults' = faults + 1

Eligible == {e \in Event : /\ event[e].status \in Dispatchable
                           /\ event[e].attempts < MaxAttempts
                           /\ event[e].nextAttemptAt <= clock}

(* The oldest eligible events, at most BatchSize of them.                  *)
Batch == {e \in Eligible : Cardinality({d \in Eligible : d < e}) < BatchSize}

(* Mutation of RequestDispatch: the active job is not looked for.          *)
RequestDispatch_Unguarded(j) ==
  /\ clock <= Horizon
  /\ job[j].status = "ABSENT"
  /\ \A i \in Job : i < j => job[i].status # "ABSENT"
  /\ job' = [job EXCEPT ![j] =
       [job[j] EXCEPT !.status = "PENDING", !.items = Batch]]
  /\ UNCHANGED <<clock, event, registered, deliveries, worker, due, faults>>

(* An administrator asks for a dispatch.  While a job is active the        *)
(* request returns that job and writes nothing; the advisory lock makes    *)
(* the check and the creation one step.                                    *)
RequestDispatch(j) ==
  /\ clock <= Horizon
  /\ job[j].status = "ABSENT"
  /\ \A i \in Job : i < j => job[i].status # "ABSENT"
  /\ \A i \in Job : ~Active(i)
  /\ job' = [job EXCEPT ![j] =
       [job[j] EXCEPT !.status = "PENDING", !.items = Batch]]
  /\ UNCHANGED <<clock, event, registered, deliveries, worker, due, faults>>

-----------------------------------------------------------------------------
(* The worker: taking over a job.                                          *)

(* The process still is the owner the row names.                           *)
Owns(w) == LET m == worker[w] IN
  /\ m.job \in Job
  /\ job[m.job].owner = w
  /\ job[m.job].generation = m.gen

(* Mutation of HoldsLease: any running lease will do.                      *)
HoldsLease_AnyOwner(w) ==
  /\ worker[w].job \in Job
  /\ job[worker[w].job].status = "RUNNING"
  /\ job[worker[w].job].leaseUntil > clock

HoldsLease(w) ==
  /\ Owns(w)
  /\ job[worker[w].job].status = "RUNNING"
  /\ job[worker[w].job].leaseUntil > clock

(* The memory of a worker changes.                                         *)
Becomes(w, memory) == worker' = [worker EXCEPT ![w] = memory]

Goto(w, pc) == Becomes(w, [worker[w] EXCEPT !.pc = pc])

(* A poll reads the active job; with none it ends at once.                 *)
Poll(w) ==
  /\ worker[w].pc = "idle"
  /\ w \in due
  /\ due' = due \ {w}
  /\ \/ /\ \A j \in Job : ~Active(j)
        /\ UNCHANGED worker
     \/ \E j \in Job :
          /\ Active(j)
          /\ Becomes(w, [Idle EXCEPT !.pc = "claimJob", !.job = j,
                                     !.gen = job[j].generation])
  /\ UNCHANGED <<clock, event, registered, deliveries, job, faults>>

ClaimedRow(row, w) ==
  [row EXCEPT !.status = "RUNNING", !.owner = w,
              !.generation = row.generation + 1, !.leaseUntil = clock + Lease]

(* Mutations of ClaimJob: a job is taken over before its lease has run     *)
(* out, or never again once it was started.                                *)
TakeOver(w, allowed) == LET j == worker[w].job IN
  /\ worker[w].pc = "claimJob"
  /\ \/ /\ allowed
        /\ job' = [job EXCEPT ![j] = ClaimedRow(job[j], w)]
        /\ Becomes(w, [worker[w] EXCEPT !.pc = "renew", !.gen = worker[w].gen + 1])
     \/ /\ ~allowed
        /\ Becomes(w, Idle)
        /\ UNCHANGED job
  /\ UNCHANGED <<clock, event, registered, deliveries, due, faults>>

ClaimJob_IgnoresLease(w) ==
  TakeOver(w, /\ job[worker[w].job].generation = worker[w].gen
              /\ Active(worker[w].job))

ClaimJob_PendingOnly(w) ==
  TakeOver(w, /\ job[worker[w].job].generation = worker[w].gen
              /\ job[worker[w].job].status = "PENDING")

(* Compare and set on the generation that the poll has read.               *)
ClaimJob(w) == LET j == worker[w].job IN
  /\ worker[w].pc = "claimJob"
  /\ \/ /\ job[j].generation = worker[w].gen
        /\ \/ job[j].status = "PENDING"
           \/ job[j].status = "RUNNING" /\ job[j].leaseUntil <= clock
        /\ job' = [job EXCEPT ![j] = ClaimedRow(job[j], w)]
        /\ Becomes(w, [worker[w] EXCEPT !.pc = "renew", !.gen = worker[w].gen + 1])
     \/ /\ \/ job[j].generation # worker[w].gen
           \/ job[j].status = "SUCCEEDED"
           \/ job[j].status = "RUNNING" /\ job[j].leaseUntil > clock
        /\ Becomes(w, Idle)
        /\ UNCHANGED job
  /\ UNCHANGED <<clock, event, registered, deliveries, due, faults>>

(* Renewing the job lease; a worker that lost it gives up.  The loop over  *)
(* the items renews at its head, the waves renew before they post.         *)
RenewThen(w, pc, next) ==
  /\ worker[w].pc = pc
  /\ \/ /\ HoldsLease(w)
        /\ job' = [job EXCEPT ![worker[w].job] =
             [job[worker[w].job] EXCEPT !.leaseUntil = clock + Lease]]
        /\ Goto(w, next)
     \/ /\ ~HoldsLease(w)
        /\ Goto(w, "interrupted")
        /\ UNCHANGED job
  /\ UNCHANGED <<clock, event, registered, deliveries, due, faults>>

RenewForItem(w) == RenewThen(w, "renew", "pick")
RenewForWave(w) == RenewThen(w, "renewJob", "renewClaim")

(* Mutation of Undecided: an item whose event is leased is passed over.    *)
Undecided_NotLeased(j) ==
  {e \in job[j].items : /\ job[j].outcome[e] = "NONE"
                        /\ event[e].nextAttemptAt <= clock}

Undecided(j) == {e \in job[j].items : job[j].outcome[e] = "NONE"}

(* The first item without an outcome, with a snapshot of its event.        *)
PickItem(w) == LET j == worker[w].job IN
  /\ worker[w].pc = "pick"
  /\ \/ /\ Undecided(j) = {}
        /\ Goto(w, "complete")
     \/ \E e \in Undecided(j) :
          /\ \A d \in Undecided(j) : e <= d
          /\ Becomes(w, [Idle EXCEPT !.pc = "claimEvent", !.job = j,
                                     !.gen = worker[w].gen, !.item = e,
                                     !.status = event[e].status,
                                     !.attempts = event[e].attempts])
  /\ UNCHANGED <<clock, event, registered, deliveries, job, due, faults>>

-----------------------------------------------------------------------------
(* The worker: dispatching one event.                                      *)

(* Mutation of ClaimEvent: the lease is only compared with the clock.      *)
ClaimEvent_NoSnapshot(w) == LET m == worker[w] IN
  /\ m.pc = "claimEvent"
  /\ \/ /\ event[m.item].nextAttemptAt <= clock
        /\ event' = [event EXCEPT ![m.item] =
             [event[m.item] EXCEPT !.nextAttemptAt = clock + Lease]]
        /\ Becomes(w, [m EXCEPT !.pc = "endpoints",
                                !.claim = clock + Lease])
     \/ /\ event[m.item].nextAttemptAt > clock
        /\ Goto(w, "yield")
        /\ UNCHANGED event
  /\ UNCHANGED <<clock, registered, deliveries, job, due, faults>>

(* Leasing the event.  This statement does not look at the job, so a       *)
(* superseded worker may still take the claim.                             *)
ClaimEvent(w) == LET m == worker[w] IN
  /\ m.pc = "claimEvent"
  /\ \/ /\ event[m.item].status \in Dispatchable
        /\ event[m.item].attempts = m.attempts
        /\ event[m.item].nextAttemptAt <= clock
        /\ event' = [event EXCEPT ![m.item] =
             [event[m.item] EXCEPT !.nextAttemptAt = clock + Lease]]
        /\ Becomes(w, [m EXCEPT !.pc = "endpoints",
                                !.claim = clock + Lease])
     \/ /\ \/ event[m.item].status \notin Dispatchable
           \/ event[m.item].attempts # m.attempts
           \/ event[m.item].nextAttemptAt > clock
        /\ Goto(w, "yield")
        /\ UNCHANGED event
  /\ UNCHANGED <<clock, registered, deliveries, job, due, faults>>

(* The event is leased to somebody else: hand the job back and stop.       *)
Yield(w) ==
  /\ worker[w].pc = "yield"
  /\ IF Owns(w)
       THEN job' = [job EXCEPT ![worker[w].job] =
              [job[worker[w].job] EXCEPT !.leaseUntil = clock]]
       ELSE UNCHANGED job
  /\ Becomes(w, Idle)
  /\ UNCHANGED <<clock, event, registered, deliveries, due, faults>>

ReadEndpoints(w) ==
  LET found == {x \in registered : worker[w].item \in Subscriptions[x]} IN
  /\ worker[w].pc = "endpoints"
  /\ Becomes(w, [worker[w] EXCEPT
       !.endpoints = found, !.pc = IF found = {} THEN "skip" ELSE "targets"])
  /\ UNCHANGED <<clock, event, registered, deliveries, job, due, faults>>

Succeeded(e) ==
  {x \in Endpoint : \E d \in deliveries :
     d.event = e /\ d.endpoint = x /\ d.status = "SUCCESS"}

(* Mutation of ReadTargets: earlier successes are not left out.            *)
ReadTargets_All(w) ==
  /\ worker[w].pc = "targets"
  /\ \E pc \in {"renewJob", "fault"} :
       Becomes(w, [worker[w] EXCEPT !.targets = worker[w].endpoints,
                                    !.pc = pc])
  /\ UNCHANGED <<clock, event, registered, deliveries, job, due, faults>>

(* Endpoints that already have a successful delivery are left out.  The    *)
(* signing secrets of the others are decrypted; one that cannot be is a    *)
(* configuration fault of the event.                                       *)
ReadTargets(w) ==
  LET left == worker[w].endpoints \ Succeeded(worker[w].item) IN
  /\ worker[w].pc = "targets"
  /\ \E pc \in IF left = {} THEN {"finalize"} ELSE {"renewJob", "fault"} :
       Becomes(w, [worker[w] EXCEPT !.targets = left, !.pc = pc])
  /\ UNCHANGED <<clock, event, registered, deliveries, job, due, faults>>

(* The row still is as the worker has read and claimed it.                 *)
HoldsEvent(w) == LET m == worker[w] IN
  /\ event[m.item].status = m.status
  /\ event[m.item].attempts = m.attempts
  /\ event[m.item].nextAttemptAt = m.claim

RenewClaim(w) == LET m == worker[w] IN
  /\ m.pc = "renewClaim"
  /\ \/ /\ HoldsEvent(w)
        /\ event' = [event EXCEPT ![m.item] =
             [event[m.item] EXCEPT !.nextAttemptAt = clock + Lease]]
        /\ Becomes(w, [m EXCEPT !.pc = "post", !.claim = clock + Lease])
     \/ /\ ~HoldsEvent(w)
        /\ Goto(w, "interrupted")
        /\ UNCHANGED event
  /\ UNCHANGED <<clock, registered, deliveries, job, due, faults>>

(* One wave of requests; every request ends, in success or in failure.     *)
PostWave(w) ==
  LET m == worker[w]
      left == m.targets \ (m.ok \cup m.bad) IN
  /\ m.pc = "post"
  /\ \E wave \in SUBSET left :
       /\ Cardinality(wave) <= WaveSize
       /\ wave = left \/ Cardinality(wave) = WaveSize
       /\ \E good \in SUBSET wave :
            Becomes(w, [m EXCEPT
              !.ok = m.ok \cup good, !.bad = m.bad \cup (wave \ good),
              !.pc = IF wave = left THEN "finalize" ELSE "renewJob"])
  /\ UNCHANGED <<clock, event, registered, deliveries, job, due, faults>>

(* finalizeJobItem: the row of the job is locked and its lease renewed,    *)
(* the item receives its outcome, the counters follow.                     *)
CanSettle(w) ==
  /\ HoldsLease(w)
  /\ job[worker[w].job].outcome[worker[w].item] = "NONE"

(* Mutation of SettledRow: configuration faults are not processed items.   *)
SettledRow_FaultAside(row, e, o) ==
  [row EXCEPT !.leaseUntil = clock + Lease, !.outcome[e] = o,
              !.processed =
                IF o = "CONFIGURATION_FAULT" THEN @ ELSE @ + 1,
              !.counters[o] = @ + 1, !.interrupted = FALSE]

SettledRow(row, e, o) ==
  [row EXCEPT !.leaseUntil = clock + Lease,
              !.outcome = [row.outcome EXCEPT ![e] = o],
              !.processed = row.processed + 1,
              !.counters = [row.counters EXCEPT ![o] = row.counters[o] + 1],
              !.interrupted = FALSE]

(* One transaction settles the item, rewrites the event under the claim    *)
(* and stores the delivery records, or does nothing and throws.  The       *)
(* acknowledgement of a commit may be lost: then the worker throws too.    *)
Settle(w, o, row, records) == LET m == worker[w] IN
  /\ \/ /\ CanSettle(w)
        /\ HoldsEvent(w)
        /\ job' = [job EXCEPT ![m.job] = SettledRow(job[m.job], m.item, o)]
        /\ event' = [event EXCEPT ![m.item] = row]
        /\ deliveries' = deliveries \cup records
        /\ \/ Goto(w, "renew") /\ UNCHANGED faults
           \/ /\ MayFault
              /\ Goto(w, "interrupted")
     \/ /\ ~(CanSettle(w) /\ HoldsEvent(w))
        /\ Goto(w, "interrupted")
        /\ UNCHANGED <<job, event, deliveries, faults>>
  /\ UNCHANGED <<clock, registered, due>>

SettleSkipped(w) ==
  /\ worker[w].pc = "skip"
  /\ Settle(w, "SKIPPED",
            [status |-> "SKIPPED", attempts |-> worker[w].attempts + 1,
             nextAttemptAt |-> 0], {})

(* A configuration fault uses up no attempt.                               *)
SettleFault(w) ==
  /\ worker[w].pc = "fault"
  /\ Settle(w, "CONFIGURATION_FAULT",
            [status |-> worker[w].status, attempts |-> worker[w].attempts,
             nextAttemptAt |-> clock + FaultDelay], {})

RetryAt(attempt) == IF attempt >= MaxAttempts THEN 0 ELSE clock + RetryDelay

Records(w) == LET m == worker[w] IN
  {[event |-> m.item, endpoint |-> x, attempt |-> m.attempts + 1,
    status |-> IF x \in m.ok THEN "SUCCESS" ELSE "FAILED"] :
     x \in m.ok \cup m.bad}

(* Mutation of SettleDelivery: one success makes the event delivered.      *)
SettleDelivery_AnySuccess(w) ==
  LET attempt == worker[w].attempts + 1
      failed == worker[w].bad # {} /\ worker[w].ok = {} IN
  /\ worker[w].pc = "finalize"
  /\ Settle(w, IF failed THEN "FAILED" ELSE "DELIVERED",
            [status |-> IF failed THEN "FAILED" ELSE "DELIVERED",
             attempts |-> attempt,
             nextAttemptAt |-> IF failed THEN RetryAt(attempt) ELSE 0],
            Records(w))

SettleDelivery(w) ==
  LET attempt == worker[w].attempts + 1
      failed == worker[w].bad # {} IN
  /\ worker[w].pc = "finalize"
  /\ Settle(w, IF failed THEN "FAILED" ELSE "DELIVERED",
            [status |-> IF failed THEN "FAILED" ELSE "DELIVERED",
             attempts |-> attempt,
             nextAttemptAt |-> IF failed THEN RetryAt(attempt) ELSE 0],
            Records(w))

-----------------------------------------------------------------------------
(* The worker: completing a job, failing, crashing.                        *)

CompletedRow(row) ==
  [row EXCEPT !.status = "SUCCEEDED", !.owner = Nobody, !.leaseUntil = 0,
              !.interrupted = FALSE]

CompleteJob(w) == LET m == worker[w] IN
  /\ worker[w].pc = "complete"
  /\ \/ /\ HoldsLease(w)
        /\ job' = [job EXCEPT ![m.job] = CompletedRow(job[m.job])]
        /\ \/ Becomes(w, Idle) /\ UNCHANGED faults
           \/ /\ MayFault
              /\ Goto(w, "interrupted")
     \/ /\ ~HoldsLease(w)
        /\ Goto(w, "interrupted")
        /\ UNCHANGED <<job, faults>>
  /\ UNCHANGED <<clock, event, registered, deliveries, due>>

(* A thrown error leaves a failure code on the job, if it is still owned.  *)
RecordInterruption(w) ==
  /\ worker[w].pc = "interrupted"
  /\ IF Owns(w)
       THEN job' = [job EXCEPT ![worker[w].job] =
              [job[worker[w].job] EXCEPT !.interrupted = TRUE]]
       ELSE UNCHANGED job
  /\ Becomes(w, Idle)
  /\ UNCHANGED <<clock, event, registered, deliveries, due, faults>>

(* A statement fails and changes nothing.  Requests do not throw: their    *)
(* errors are failed deliveries.  Outside the item loop the poll just ends. *)
StatementFails(w) ==
  /\ worker[w].pc \notin {"idle", "post"}
  /\ MayFault
  /\ IF worker[w].pc \in {"claimJob", "interrupted"}
       THEN Becomes(w, Idle) ELSE Goto(w, "interrupted")
  /\ UNCHANGED <<clock, event, registered, deliveries, job, due>>

(* The process dies and restarts; its bootstrap polls at once.             *)
Crash(w) ==
  /\ worker[w].pc # "idle"
  /\ MayFault
  /\ Becomes(w, Idle)
  /\ due' = due \cup {w}
  /\ UNCHANGED <<clock, event, registered, deliveries, job>>

(* Time passes and the poll timers fire; a poll that finds its process at  *)
(* work returns.  Unless processes may stall, a worker at work renews its  *)
(* lease in time: two request timeouts fit into a lease.                   *)
InTime(w) == worker[w].pc \in Owning =>
  HoldsLease(w) /\ job[worker[w].job].leaseUntil > clock + 1

Tick ==
  /\ clock < MaxClock
  /\ clock' = clock + 1
  /\ \/ MayStall /\ clock < Horizon
     \/ \A w \in Worker : InTime(w)
  /\ due' = due \cup {w \in Worker : worker[w].pc = "idle"}
  /\ UNCHANGED <<event, registered, deliveries, job, worker, faults>>

Step(w) ==
  \/ Poll(w) \/ ClaimJob(w) \/ RenewForItem(w) \/ PickItem(w)
  \/ ClaimEvent(w) \/ Yield(w) \/ ReadEndpoints(w) \/ ReadTargets(w)
  \/ RenewForWave(w) \/ RenewClaim(w) \/ PostWave(w)
  \/ SettleSkipped(w) \/ SettleFault(w) \/ SettleDelivery(w)
  \/ CompleteJob(w) \/ RecordInterruption(w)

Next ==
  \/ \E e \in Event : Enqueue(e)
  \/ \E x \in Endpoint : RegisterEndpoint(x)
  \/ \E j \in Job : RequestDispatch(j)
  \/ \E w \in Worker : Step(w) \/ StatementFails(w) \/ Crash(w)
  \/ Tick

Spec == Init /\ [][Next]_vars

(* Every process keeps executing its worker and the timers keep firing:    *)
(* each awaited statement returns or throws and each request is timed out. *)
FairSpec ==
  /\ Spec
  /\ \A w \in Worker : WF_vars(Step(w))
  /\ WF_vars(Tick)

-----------------------------------------------------------------------------
(* Properties.                                                             *)

TypeOK ==
  /\ clock \in Nat \ {0}
  /\ event \in [Event -> EventRow]
  /\ registered \subseteq Endpoint
  /\ deliveries \subseteq Delivery
  /\ job \in [Job -> JobRow]
  /\ worker \in [Worker -> Memory]
  /\ due \subseteq Worker
  /\ faults \in Nat

Having(j, o) == {e \in Event : job[j].outcome[e] = o}

(* The numbers an administrator polls are the truth about the items, also  *)
(* after workers were replaced half way and commits were acknowledged late: *)
(* each counter is the number of items with that outcome, only members of  *)
(* the batch have one, and a job that SUCCEEDED has decided every item and *)
(* carries no owner or failure code a late worker left behind.             *)
JobAccounting ==
  \A j \in Job :
    /\ \A o \in Outcome : job[j].counters[o] = Cardinality(Having(j, o))
    /\ job[j].processed = Cardinality(Event \ Having(j, "NONE"))
    /\ Event \ Having(j, "NONE") \subseteq job[j].items
    /\ job[j].status = "SUCCEEDED" =>
         /\ Undecided(j) = {}
         /\ job[j].owner = Nobody /\ ~job[j].interrupted

(* However often a batch is interrupted and taken over, the stored history *)
(* of an endpoint and an event has one record per attempt, and nothing     *)
(* after its success: dispatchWebhookEvent leaves out endpoints that have  *)
(* a successful delivery, read after the event was leased.  Attempts are   *)
(* spent exactly by the jobs that decided the event; neither a             *)
(* configuration fault nor an interrupted worker costs one, and no event   *)
(* gets more than its maximum.                                             *)
DeliveryHistory ==
  /\ \A c, d \in deliveries :
       c.event = d.event /\ c.endpoint = d.endpoint /\ c # d =>
         /\ c.attempt # d.attempt
         /\ c.status = "SUCCESS" => d.attempt < c.attempt
  /\ \A e \in Event :
       /\ event[e].attempts = Cardinality({j \in Job :
            job[j].outcome[e] \in {"DELIVERED", "FAILED", "SKIPPED"}})
       /\ event[e].attempts <= MaxAttempts

(* An item without an outcome in the active job can still be dispatched,   *)
(* so UNCLAIMED is always temporary: no worker can close the event without *)
(* settling the item, and no second job contains it.                       *)
UndecidedIsDispatchable ==
  \A j \in Job : Active(j) => \A e \in Undecided(j) :
    event[e].status \in Dispatchable /\ event[e].attempts < MaxAttempts

(* An event closed as DELIVERED has a stored success for every endpoint    *)
(* its last dispatch read, over all its waves and earlier attempts.        *)
DeliveredToAll ==
  [][\A e \in Event :
       event'[e].status = "DELIVERED" /\ event[e].status # "DELIVERED" =>
         \E w \in Worker : /\ worker[w].item = e
                           /\ worker[w].endpoints # {}
                           /\ worker[w].endpoints \subseteq Succeeded(e)']_vars

(* A closed event stays as it is, and so does one whose attempts are used  *)
(* up, even when a worker that read it earlier wakes up.                   *)
ClosedEventsStay ==
  [][\A e \in Event :
       \/ event[e].status \in {"DELIVERED", "SKIPPED"}
       \/ event[e].attempts >= MaxAttempts
       => event'[e] = event[e]]_vars

(* Fencing: an item receives an outcome once, and only from the process    *)
(* that took the job over last, while its lease runs.                      *)
OnlyOwnerSettles ==
  [][\A j \in Job, e \in Event :
       job'[j].outcome[e] # job[j].outcome[e] =>
         /\ job[j].outcome[e] = "NONE"
         /\ job[j].leaseUntil > clock
         /\ \E w \in Worker : /\ job[j].owner = w
                              /\ worker[w].gen = job[j].generation
                              /\ worker[w].item = e
                              /\ worker'[w] # worker[w]]_vars

(* When no process sleeps past its lease, requests are only sent by the    *)
(* one worker that holds the job and the event.  (A process that does      *)
(* sleep may repeat a request later: delivery is at least once.)           *)
PosterIsAlone ==
  \A w \in Worker : worker[w].pc = "post" =>
    HoldsLease(w) /\ HoldsEvent(w) /\ worker[w].claim > clock

Closed == {e \in Event : \/ event[e].status \in {"DELIVERED", "SKIPPED"}
                          \/ event[e].attempts >= MaxAttempts}

Promise == INSTANCE DispatchPromise WITH
  state <- [j \in Job |-> CASE job[j].status = "ABSENT" -> "none"
                            [] job[j].status = "SUCCEEDED" -> "done"
                            [] OTHER -> "open"],
  members <- [j \in Job |-> job[j].items],
  result <- [j \in Job |-> job[j].outcome],
  closed <- Closed

(* The dispatcher with its leases, generations and retries keeps the       *)
(* promise of DispatchPromise: what the status endpoint shows only moves   *)
(* by accepting a batch, deciding one member, or finishing a decided batch. *)
KeepsPromise == Promise!Spec

(* Every job ends: a crash, a failed statement, a lost acknowledgement or  *)
(* a lease left behind only delays it.                                     *)
JobCompletes == \A j \in Job : Active(j) ~> job[j].status = "SUCCEEDED"

=============================================================================
