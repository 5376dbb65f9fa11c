----------------------------- MODULE WorkRecords -----------------------------
(***************************************************************************)
(* What is recorded of work, together: bookings and their corrections, duty  *)
(* on call, effort for projects, new appointments and terms, and closing     *)
(* periods, in transactions that interleave.                                 *)
(***************************************************************************)
EXTENDS OnCallDuty, ProjectTime

vars == <<employmentVars, duty, now, project>>
LockKey == Person \cup Period \cup Project \cup {Population}

Init == EmploymentInit /\ DutyInit /\ ProjectInit

\* What a transaction remembers of what it read.
JobOK(t) ==
  CASE t.op = "NONE" -> t = Idle
    [] t.op = "READ" -> t.job \in [person : Person, appointment : Appointment, unit : Unit, span : Span]
    [] t.op = "BOOK" -> t.job \in Booking
    [] t.op = "TERM" -> t.job \in [appointment : Appointment, next : NextTerm, units : SUBSET Unit]
    [] t.op = "ROTATE" -> t.job.person \in Person /\ t.job.appointment \in Appointment
    [] t.op = "MOVE" -> t.job.rotation \in Rotations
    [] t.op = "DEPLOY" -> t.job.rotation \in Rotations /\ t.job.span \in DutySpan
    [] t.op = "ALLOCATE" -> t.job.booking \in booking /\ t.job.amount \in Amount \cup {0}
    [] t.op = "JOIN" -> t.job \in NewMember
    [] t.op = "LEAVE" -> t.job.of \in member /\ t.job.at \in 0 .. now
    [] t.op = "CORRECT" -> t.job.of \in booking /\ t.job.span \in Span

TypeOK ==
  /\ EmploymentTypeOK /\ DutyTypeOK /\ ProjectTypeOK
  /\ \A s \in Request : JobOK(tx[s]) /\ tx[s].holds \subseteq LockKey

Employment(s) ==
  \/ \E w \in WebBooking : ReadBooking(s, w.person, w.appointment, w.span)
  \/ CheckBooking(s) \/ WriteBooking(s) \/ Rollback(s)
  \/ \E a \in Appointment, next \in NextTerm : ReadTerm(s, a, next)

Administration ==
  \/ \E a \in Appointment, new \in NewTerm : CreateAppointment(a, new)
  \/ \E p \in Period : MovePeriod(p)

OnCall(s) ==
  \/ \E new \in NewRotation : CheckRotation(s, new)
  \/ \E r \in Rotation, w \in Window : CheckWindow(s, r, w)
  \/ \E r \in Rotation, i \in DutySpan : CheckDeployment(s, r, i)
  \/ WriteRotation(s) \/ WriteWindow(s) \/ WriteDeployment(s) \/ WriteTermBeside(s)

Projects(s) ==
  \/ \E b \in booking, p \in Project, n \in Amount : CheckEffort(s, b, p, n)
  \/ \E e \in effort : CheckRelease(s, e)
  \/ \E m \in NewMember : CheckMember(s, m)
  \/ \E m \in member : CheckEnd(s, m)
  \/ \E b \in booking, i \in Span : CheckCorrection(s, b, i)
  \/ WriteEffort(s) \/ WriteMember(s) \/ WriteEnd(s) \/ WriteCorrection(s)

Next ==
  \/ (Administration \/ \E s \in Request : Employment(s)) /\ UNCHANGED <<duty, now, project>>
  \/ (\E s \in Request : OnCall(s)) /\ UNCHANGED <<now, project>>
  \/ (Tick \/ \E s \in Request : Projects(s)) /\ UNCHANGED duty
  \/ \E p \in Project : Archive(p) /\ UNCHANGED duty

Spec == Init /\ [][Next]_vars

-----------------------------------------------------------------------------
(* Safety.                                                                  *)

\* Bookings, corrected or not, and rotations, moved or not, lie under terms of
\* one unit of the appointment they name, a rotation's of its own, whatever terms
\* are appended meanwhile; no two bookings of a person overlap; and a deployment
\* lies in its rotation, which may be moved while the deployment is reported.
WorkIsEmployed ==
  /\ \A b \in booking : Resolves(b.person, b.appointment, b.span, b.appointment)
  /\ \A b, c \in booking : b # c /\ b.person = c.person => ~ Overlap(b.span, c.span)
  /\ \A r \in Rotations : LET rot == rotation[r] IN
       InUnit(rot.person, rot.appointment, rot, rot.unit)
  /\ \A d \in deployment : Within(d.span, rotation[d.rotation])

\* Effort for projects fits: what is allocated of a booking is no longer than the
\* booking, and each project has a member for all of it, although bookings are
\* corrected and memberships end while effort is allocated and released.
EffortIsCovered ==
  \A b \in {e.booking : e \in effort} :
    /\ b \in booking /\ AllocatedTo(b, Project) <= Length(b)
    /\ \A e \in effort : e.booking = b /\ e.amount > 0 => Covering(b, e.project) # {}

\* What was worked fits what it rests on: both of the above, where a correction, a
\* deployment and an allocation move the same bookings (oncall-deployment.ts,
\* workflow-attendance-effects.service.ts, project-time.service.ts).
WorkAndEffortFit == WorkIsEmployed /\ EffortIsCovered

\* What is closed takes nothing: no booking comes to or goes from a locked
\* period, be it by a correction or a deployment, and an archived project gets
\* no member and no effort beyond what it has.
ClosedTakesNothing ==
  [][/\ \A p \in locked : BookedIn(p)' = BookedIn(p)
     /\ \A p \in archived :
          /\ {m.appointment : m \in {n \in member' : n.project = p}}
               \subseteq {m.appointment : m \in {n \in member : n.project = p}}
          /\ \A e \in effort' : e.project = p /\ e.amount > 0 => e \in effort]_vars
=============================================================================
