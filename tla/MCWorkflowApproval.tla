---- MODULE MCWorkflowApproval ----
(* Requests of an employee, of the only lead and of the only person of HR, in two
   scenes that begin alike.  Routing: one request, while rules change and
   approvals, delegations, cancellations and the escalations of two API processes
   compete for it.  Effects: two requests and two bookings at once, without HR,
   rules and escalations. *)
EXTENDS WorkflowApproval, TLC

CONSTANTS ann, lea, hr, unit, b1, b2, monday

MCRoleOf == [x \in {ann, lea, hr} |->
               CASE x = ann -> "EMPLOYEE" [] x = lea -> "TEAM_LEAD" [] x = hr -> "HR"]
MCUnitOf == [x \in {ann, lea, hr} |-> unit]
MCSupervisor == [x \in {ann, lea, hr} |-> IF x = ann THEN lea ELSE None]
MCJoined == <<hr, lea, ann>>
MCBookedBy == [b \in {b1, b2} |-> ann]
ProcessesAlike == Permutations(Request) \cup Permutations(Scanner)

Pending == {tx[s].row : s \in Process} \cup {workflow[w] : w \in Workflow}

RoutingScene ==
  /\ Created \subseteq {1}
  /\ \A b \in Booking : bookedAt[b] = None
  /\ \A s \in Process : tx[s].op # "BOOK" /\ (tx[s].op = "CREATE" => Created = {})
  /\ \A row \in Pending : row.day \in {monday, None}

EffectsScene ==
  /\ \A x \in Person : rule[x] = None
  /\ late = {}
  /\ \A row \in Pending : hr \notin {row.requester, row.of} /\ row.type # "POST_CLOSE_CORRECTION"
  /\ \A s \in Process : hr \notin {tx[s].actor, tx[s].to}

Scenes == RoutingScene \/ EffectsScene
====
