-------------------------- MODULE DispatchPromise --------------------------
(***************************************************************************)
(* What the webhook dispatcher promises an administrator, without leases,  *)
(* workers, endpoints or time: one finite batch at a time; every member is *)
(* given one outcome, which stays; a batch is done when, and only when,    *)
(* all its members have theirs; an event that is settled for good never    *)
(* enters a later batch.                                                   *)
(***************************************************************************)
EXTENDS Naturals

CONSTANTS Job, Event, Outcome

VARIABLES
  state,    \* what an administrator can ask of a job
  members,  \* the batch of each job
  result,   \* the outcome of each member
  closed    \* the events that no batch may contain any more

vars == <<state, members, result, closed>>

Init ==
  /\ state = [j \in Job |-> "none"]
  /\ members = [j \in Job |-> {}]
  /\ result = [j \in Job |-> [e \in Event |-> "NONE"]]
  /\ closed = {}

Accept(j, batch) ==
  /\ state[j] = "none"
  /\ \A i \in Job : state[i] # "open"
  /\ batch \cap closed = {}
  /\ state' = [state EXCEPT ![j] = "open"]
  /\ members' = [members EXCEPT ![j] = batch]
  /\ UNCHANGED <<result, closed>>

(* Delivered and skipped events are closed, an event with a configuration  *)
(* fault stays open, a failed one is closed when it is out of attempts.    *)
Decide(j, e, o) ==
  /\ state[j] = "open"
  /\ e \in members[j]
  /\ result[j][e] = "NONE"
  /\ result' = [result EXCEPT ![j][e] = o]
  /\ \/ o \in {"DELIVERED", "SKIPPED", "FAILED"} /\ closed' = closed \cup {e}
     \/ o \in {"FAILED", "CONFIGURATION_FAULT"} /\ closed' = closed
  /\ UNCHANGED <<state, members>>

Finish(j) ==
  /\ state[j] = "open"
  /\ \A e \in members[j] : result[j][e] # "NONE"
  /\ state' = [state EXCEPT ![j] = "done"]
  /\ UNCHANGED <<members, result, closed>>

Next ==
  \/ \E j \in Job, batch \in SUBSET Event : Accept(j, batch)
  \/ \E j \in Job, e \in Event, o \in Outcome : Decide(j, e, o)
  \/ \E j \in Job : Finish(j)

Spec == Init /\ [][Next]_vars
=============================================================================
