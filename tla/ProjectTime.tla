----------------------------- MODULE ProjectTime -----------------------------
(***************************************************************************)
(* Effort for projects: members of a project allocate parts of their ended   *)
(* bookings to it.  Bookings are corrected by approved workflows, which must *)
(* leave what is allocated alone; memberships end and projects are archived. *)
(*                                                                          *)
(* Effort counts in units of the time that bookings are measured in.         *)
(***************************************************************************)
EXTENDS EmploymentRecords, FiniteSetsExt

CONSTANTS
  Project,
  NewMember,    \* memberships to add: project, person, appointment, interval
  FirstMember,  \* the memberships there are at first
  Amount,       \* the effort people allocate
  MaxNow        \* bound: the last instant

ASSUME ProjectsAreNoKeys == Project \cap (Person \cup Period \cup {Population}) = {}
ASSUME MembersAreIntervals ==
  /\ FirstMember \subseteq NewMember
  /\ NewMember \subseteq [project : Project, person : Person, appointment : Appointment,
                         from : 0 .. Never, to : 0 .. Never]
  /\ \A m \in NewMember : m.from < m.to
ASSUME AmountsAreNumbers == Amount \subseteq Nat \ {0} /\ MaxNow \in 0 .. Never - 1

VARIABLES
  now,
  archived,  \* projects with an archivedAt
  member,    \* project_memberships
  effort     \* project_time_allocations: booking, project and amount

project == <<archived, member, effort>>

-----------------------------------------------------------------------------
Length(b) == b.span.to - b.span.from
AllocatedTo(b, projects) ==
  MapThenSumSet(LAMBDA e : e.amount, {e \in effort : e.booking = b /\ e.project \in projects})

\* Somebody's membership, in the appointment of a booking, over all of it.
Covering(b, p) ==
  {m \in member : /\ m.project = p /\ m.person = b.person /\ m.appointment = b.appointment
                  /\ m.from <= b.span.from /\ b.span.to <= m.to}

ProjectTypeOK ==
  /\ now \in 0 .. MaxNow /\ archived \subseteq Project
  /\ \A m \in member : \E n \in NewMember : m = [n EXCEPT !.to = m.to] /\ m.to \in 0 .. Never
  /\ effort \subseteq [booking : Booking, project : Project, amount : 0 .. Never]

ProjectInit == now = 0 /\ archived = {} /\ member = FirstMember /\ effort = {}

Tick ==
  /\ now < MaxNow /\ now' = now + 1
  /\ UNCHANGED <<employmentVars, project>>

-----------------------------------------------------------------------------
(* Effort.  It is read and written behind the locks of person and project.   *)

\* Mutant: the project is not locked.
CheckEffort_PersonOnly(s, b, p, n) ==
  /\ tx[s].op = "NONE" /\ b \in booking /\ p \notin archived
  /\ b.span.to <= now /\ Covering(b, p) # {}
  /\ AllocatedTo(b, Project \ {p}) + n <= Length(b)
  /\ Enters(s, "ALLOCATE", [booking |-> b, project |-> p, amount |-> n], {b.person})
  /\ UNCHANGED <<now, project>>

CheckEffort(s, b, p, n) ==
  /\ tx[s].op = "NONE" /\ b \in booking /\ p \notin archived
  /\ b.span.to <= now /\ Covering(b, p) # {}
  /\ AllocatedTo(b, Project \ {p}) + n <= Length(b)
  /\ Enters(s, "ALLOCATE", [booking |-> b, project |-> p, amount |-> n], {b.person, p})
  /\ UNCHANGED <<now, project>>

\* Released effort stays, with an amount of zero, in archived projects too.
CheckRelease(s, e) ==
  /\ tx[s].op = "NONE" /\ e \in effort /\ e.amount # 0
  /\ Enters(s, "ALLOCATE", [e EXCEPT !.amount = 0], {e.booking.person, e.project})
  /\ UNCHANGED <<now, project>>

WriteEffort(s) ==
  LET job == tx[s].job
      same == {e \in effort : e.booking = job.booking /\ e.project = job.project} IN
  /\ tx[s].op = "ALLOCATE" /\ Commits(s)
  /\ effort' = (effort \ same) \cup {job}
  /\ UNCHANGED <<records, now, archived, member>>

-----------------------------------------------------------------------------
(* Memberships and the end of projects.                                     *)

CheckMember(s, m) ==
  /\ tx[s].op = "NONE" /\ m.project \notin archived
  /\ OwnerOf(m.appointment) = {m.person}
  /\ \A t \in TermsOf(m.appointment) : t.start <= m.from /\ m.to <= t.end
  /\ \A n \in member : n.project = m.project /\ n.appointment = m.appointment => ~ Overlap(m, n)
  /\ Enters(s, "JOIN", m, {m.person, m.project})
  /\ UNCHANGED <<now, project>>

WriteMember(s) ==
  /\ tx[s].op = "JOIN" /\ Commits(s)
  /\ member' = member \cup {tx[s].job}
  /\ UNCHANGED <<records, now, archived, effort>>

\* A membership ends at the instant that was read behind the locks.
CheckEnd(s, m) ==
  /\ tx[s].op = "NONE" /\ m \in member /\ m.from < now /\ now < m.to
  /\ Enters(s, "LEAVE", [of |-> m, at |-> now], {m.person, m.project})
  /\ UNCHANGED <<now, project>>

WriteEnd(s) ==
  LET job == tx[s].job IN
  /\ tx[s].op = "LEAVE" /\ Commits(s)
  /\ member' = (member \ {job.of}) \cup {[job.of EXCEPT !.to = job.at]}
  /\ UNCHANGED <<records, now, archived, effort>>

Archive(p) ==
  /\ p \notin archived /\ Free({p}) /\ written < MaxWrites
  /\ archived' = archived \cup {p} /\ written' = written + 1
  /\ UNCHANGED <<records, tx, now, member, effort>>

-----------------------------------------------------------------------------
(* Corrections of bookings, by an approved workflow (see WorkflowApproval).  *)

\* The periods of both intervals.
Touched(b, i) ==
  UNION {UNION {Overlapping(u, Seen(j)) : u \in UnitsOver(b.appointment, j)} : j \in {b.span, i}}

\* Mutant: the person is not locked.
CheckCorrection_Unfenced(s, b, i) ==
  /\ tx[s].op = "NONE" /\ b \in booking /\ b.span # i
  /\ \A j \in {b.span, i} : Resolves(b.person, b.appointment, j, b.appointment)
  /\ Touched(b, i) \cap locked = {}
  /\ \A c \in OfPerson(b.person) \ {b} : ~ Overlap(c.span, i)
  /\ AllocatedTo(b, Project) = 0
  /\ Enters(s, "CORRECT", [of |-> b, span |-> i], Touched(b, i))
  /\ UNCHANGED <<now, project>>

\* An interval changes only while no effort is allocated.
CheckCorrection(s, b, i) ==
  /\ tx[s].op = "NONE" /\ b \in booking /\ b.span # i
  /\ \A j \in {b.span, i} : Resolves(b.person, b.appointment, j, b.appointment)
  /\ Touched(b, i) \cap locked = {}
  /\ \A c \in OfPerson(b.person) \ {b} : ~ Overlap(c.span, i)
  /\ AllocatedTo(b, Project) = 0
  /\ Enters(s, "CORRECT", [of |-> b, span |-> i], Touched(b, i) \cup {b.person})
  /\ UNCHANGED <<now, project>>

\* Released effort goes with the booking.
WriteCorrection(s) ==
  LET b == tx[s].job.of
      corrected == [b EXCEPT !.span = tx[s].job.span] IN
  /\ tx[s].op = "CORRECT" /\ Commits(s)
  /\ booking' = (booking \ {b}) \cup {corrected}
  /\ effort' = {IF e.booking = b THEN [e EXCEPT !.booking = corrected] ELSE e : e \in effort}
  /\ UNCHANGED <<terms, approved, locked, now, archived, member>>
=============================================================================
