------------------------------ MODULE OnCallDuty ------------------------------
(***************************************************************************)
(* On-call duty: rotations of people in a unit, and deployments within them, *)
(* each of which is also booked.  Rotations are planned ahead and are not    *)
(* fenced by closing periods; deployments are.                               *)
(***************************************************************************)
EXTENDS EmploymentRecords

CONSTANTS
  Rotation,     \* identifiers of rotations
  NewRotation,  \* what planners ask for: person, appointment (named, or found), unit, interval
  Window,       \* changes of an interval: new ends, None for one that stays
  DutySpan      \* the intervals of deployments

ASSUME RotationsAreIntervals ==
  /\ NewRotation \subseteq [person : Person, appointment : Appointment, unit : Unit,
                           from : 0 .. Never, to : 0 .. Never]
  /\ \A n \in NewRotation : n.from < n.to
  /\ Window \subseteq [from : (0 .. Never) \cup {None}, to : (0 .. Never) \cup {None}]
  /\ DutySpan \subseteq Span

VARIABLES
  rotation,   \* on_call_rotations
  deployment  \* on_call_deployments

duty == <<rotation, deployment>>

-----------------------------------------------------------------------------
NoRotation == [person |-> None, appointment |-> None, unit |-> None, from |-> 0, to |-> 0]
Rotations == {r \in Rotation : rotation[r] # NoRotation}

\* An interval lies under terms of one unit of an appointment.
InUnit(x, a, i, u) == Resolves(x, a, i, a) /\ UnitsOver(a, i) = {u}
Within(i, j) == j.from <= i.from /\ i.to <= j.to

DutyTypeOK ==
  /\ rotation \in [Rotation -> [person : Person \cup {None}, appointment : Appointment \cup {None},
                                unit : Unit \cup {None}, from : 0 .. Never, to : 0 .. Never]]
  /\ deployment \subseteq [rotation : Rotation, person : Person, appointment : Appointment,
                           span : DutySpan]

DutyInit == rotation = [r \in Rotation |-> NoRotation] /\ deployment = {}

-----------------------------------------------------------------------------
\* All that is read of the appointment is read again behind the person's lock.
CheckRotation(s, new) ==
  /\ tx[s].op = "NONE" /\ InUnit(new.person, new.appointment, new, new.unit)
  /\ Enters(s, "ROTATE", new, {new.person})
  /\ UNCHANGED duty

WriteRotation(s) ==
  /\ tx[s].op = "ROTATE" /\ Commits(s)
  /\ \E r \in Rotation \ Rotations : rotation' = [rotation EXCEPT ![r] = tx[s].job]
  /\ UNCHANGED <<records, deployment>>

Moved(i, w) == [i EXCEPT !.from = IF w.from = None THEN @ ELSE w.from,
                         !.to = IF w.to = None THEN @ ELSE w.to]

\* The interval of a rotation moves, but not away from its deployments.
CheckWindow(s, r, w) ==
  LET next == Moved(rotation[r], w) IN
  /\ tx[s].op = "NONE" /\ r \in Rotations
  /\ next.from < next.to /\ InUnit(next.person, next.appointment, next, next.unit)
  /\ \A d \in deployment : d.rotation = r => Within(d.span, next)
  /\ Enters(s, "MOVE", [rotation |-> r, next |-> next], {next.person})
  /\ UNCHANGED duty

WriteWindow(s) ==
  /\ tx[s].op = "MOVE" /\ Commits(s)
  /\ rotation' = [rotation EXCEPT ![tx[s].job.rotation] = tx[s].job.next]
  /\ UNCHANGED <<records, deployment>>

\* Whoever is on call reports a deployment.  One that is there already overlaps
\* with its booking, or is the same.
CheckDeployment(s, r, i) ==
  LET rot == rotation[r] IN
  /\ tx[s].op = "NONE" /\ r \in Rotations /\ Within(i, rot)
  /\ InUnit(rot.person, rot.appointment, i, rot.unit)
  /\ Overlapping(rot.unit, i) \cap locked = {}
  /\ \A d \in deployment : ~ (d.rotation = r /\ d.span = i)
  /\ \A b \in OfPerson(rot.person) : ~ Overlap(b.span, i)
  /\ Enters(s, "DEPLOY", [rotation |-> r, person |-> rot.person, appointment |-> rot.appointment,
                          span |-> i], Overlapping(rot.unit, i) \cup {rot.person})
  /\ UNCHANGED duty

WriteDeployment(s) ==
  LET job == tx[s].job IN
  /\ tx[s].op = "DEPLOY" /\ Commits(s)
  /\ deployment' = deployment \cup {job}
  /\ booking' = booking \cup {[person |-> job.person, appointment |-> job.appointment,
                               span |-> job.span, source |-> "MANUAL"]}
  /\ UNCHANGED <<terms, approved, locked, rotation>>

\* New terms must not reach a rotation either.
WriteTermBeside(s) ==
  /\ WriteTerm(s)
  /\ \A r \in Rotations : rotation[r].appointment = tx[s].job.appointment =>
       rotation[r].to <= tx[s].job.next.from
  /\ UNCHANGED duty
=============================================================================
