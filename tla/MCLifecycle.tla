---- MODULE MCLifecycle ----
(* Two appointments that are due on different days and a template whose
   second task needs the first, with a bounded number of requests. *)
EXTENDS Lifecycle

CONSTANTS ann, bob, unit, elsewhere, first, second,
  MaxArrivals  \* bound: requests for appointments and tasks

VARIABLE arrivals

MCPersonOf == <<ann, bob>>
MCBaseOf == <<0, 1>>

\* Both tasks, or only one that nobody has to be reminded of.
Tasks(both) ==
  [keys |-> IF both THEN {first, second} ELSE {first},
   needs |-> [k \in {first, second} |-> IF k = second THEN {first} ELSE {}],
   blocking |-> {}, group |-> [k \in {first, second} |-> IF k = first THEN {ann, bob} ELSE {}],
   dueIn |-> [k \in {first, second} |-> IF ~ both THEN MaxDay + 1 ELSE IF k = first THEN 1 ELSE 0]]
MCDefinition == {Tasks(TRUE), Tasks(FALSE)}
MCIdOf == [t \in ({1, 2} \X Event) \X {first, second} |->
            (IF t[2] = first THEN 4 ELSE 0) + (3 - t[1][1]) * 2 - IF t[1][2] = "RULE" THEN 1 ELSE 0]

Disturb ==
  /\ arrivals < MaxArrivals /\ arrivals' = arrivals + 1
  /\ \E r \in Request : Administers(r) \/ Works(r)
Settle ==
  /\ UNCHANGED arrivals
  /\ \/ Growth
     \/ \E r \in Request : Configures(r) \/ Progress(r) \/ Rollback(r)
     \/ \E p \in Process : Scan(p) \/ Remind(p) \/ Fault(p)

CountedInit == arrivals = 0 /\ Init

\* The specification of Lifecycle with its arrivals counted; those that
\* configure the template end with it.
CountedSpec ==
  /\ CountedInit
  /\ [][Disturb \/ Settle]_<<vars, arrivals>>
  /\ WF_<<vars, arrivals>>(UNCHANGED arrivals /\ \E r \in Request : Progress(r) \/ Rollback(r))
  /\ \A p \in Process :
       /\ WF_<<vars, arrivals>>(UNCHANGED arrivals /\ Scan(p))
       /\ WF_<<vars, arrivals>>(UNCHANGED arrivals /\ Remind(p))
====
