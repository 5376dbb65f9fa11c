-------------------------- MODULE EmploymentRecords --------------------------
(***************************************************************************)
(* What cueq records of the employment of people, as far as the integrations *)
(* meet in it: the appointments of people with their dated terms, bookings   *)
(* and approved leave of the appointments, and closing periods that lock the *)
(* past.  TerminalImport and PersonnelRecords add the integrations, and      *)
(* OnCallDuty and ProjectTime what else is recorded of work.                 *)
(*                                                                          *)
(* Advisory locks are tried, never waited for, and are dropped when the      *)
(* transaction ends; a statement reads what is committed when it runs, and   *)
(* writes appear at the commit.  What reads only behind the locks it takes,  *)
(* and writes at most one of these tables, is one step.                      *)
(***************************************************************************)
EXTENDS Naturals, FiniteSets

CONSTANTS
  Person, Unit, Appointment, Period,
  Span,        \* the intervals of bookings; an open one ends Never
  WebBooking,  \* what people book: person, appointment or None, interval
  NewTerm,     \* new appointments: person, unit, employment, interval of the term
  NextTerm,    \* and new terms: unit, interval
  PeriodSpan,  \* the interval of each closing period
  Scope,       \* the unit of each closing period, or Everyone
  Everyone,
  Leave,       \* requests for leave: appointment, person, first and last midnight
  Day,         \* the length of a day
  FirstTerms,  \* the terms there are at first
  None,        \* a null column
  Never,       \* later than every instant
  Population,  \* the lock on who is employed
  MaxWrites,   \* bound: transactions that are committed, those of closing apart
  Request      \* slots for HTTP requests in flight

ASSUME SpansAreIntervals ==
  /\ Never \in Nat /\ Span \subseteq [from : 0 .. Never, to : 0 .. Never]
  /\ \A i \in Span \cup NewTerm \cup NextTerm \cup Leave :
       i.from \in 0 .. Never /\ i.to \in 0 .. Never /\ i.from <= i.to
  /\ \A i \in Span \cup NewTerm \cup NextTerm : i.from < i.to
  /\ \A p \in Period :
       /\ {PeriodSpan[p].from, PeriodSpan[p].to} \subseteq Nat
       /\ PeriodSpan[p].from <= PeriodSpan[p].to
  /\ Scope \in [Period -> Unit \cup {Everyone}] /\ Everyone \notin Unit
ASSUME KeysDiffer ==
  /\ Person \cap Period = {} /\ Population \notin Person \cup Period
  /\ None \notin Unit \cup Appointment
ASSUME InputsAreValid ==
  /\ \A w \in WebBooking : w.person \in Person /\ w.appointment \in Appointment \cup {None} /\ w.span \in Span
  /\ \A n \in NewTerm : /\ n.person \in Person /\ n.unit \in Unit
                         /\ n.start \in 0 .. Never /\ n.end \in 0 .. Never
  /\ \A n \in NextTerm : n.unit \in Unit
  /\ IsFiniteSet(Unit) /\ Day \in Nat /\ MaxWrites \in Nat

VARIABLES
  terms,     \* the rows of employment_terms, with their appointment's person and dates
  booking,   \* the rows of bookings
  approved,  \* the leave that is APPROVED
  locked,    \* closing periods that are not OPEN
  written,   \* how many transactions were committed
  tx         \* the transaction of each request

records == <<terms, booking, approved, locked>>
employmentVars == <<records, written, tx>>

-----------------------------------------------------------------------------
(* Data.                                                                    *)

Overlap(i, j) == i.from < j.to /\ i.to > j.from

\* What is known of an open interval is its first instant.
Known(i) == IF i.to = Never THEN [from |-> i.from, to |-> i.from + 1] ELSE i
Seen(i) == [i EXCEPT !.to = IF i.to = Never THEN i.from ELSE i.to]

TermsOf(a) == {t \in terms : t.appointment = a}
OwnerOf(a) == {t.person : t \in TermsOf(a)}
UnitsOver(a, i) == {t.unit : t \in {u \in TermsOf(a) : Overlap(u, Known(i))}}
UnitsPast(a, at) == {t.unit : t \in {u \in TermsOf(a) : at < u.to}}

\* An appointment lasts from its start to its end, and its terms follow each other
\* without a gap, but may begin later and end earlier.
Lasts(a, i) == \A t \in TermsOf(a) : t.start <= i.from /\ Known(i).to <= t.end
Covers(a, i) ==
  /\ \E t \in TermsOf(a) : t.from <= i.from
  /\ \E t \in TermsOf(a) : Known(i).to <= t.to

\* resolveInterval: the appointment, named or the only one that lasts over the
\* interval, has the same terms throughout.
Eligible(x, i) == {a \in Appointment : OwnerOf(a) = {x} /\ Lasts(a, i)}
Resolves(x, named, i, a) ==
  /\ IF named = None THEN Eligible(x, i) = {a} ELSE a = named /\ a \in Eligible(x, i)
  /\ Covers(a, i) /\ Cardinality(UnitsOver(a, i)) = 1

\* Closing periods that touch an interval of a unit; ends count as inside.
Touches(p, i) == PeriodSpan[p].from <= i.to /\ PeriodSpan[p].to >= i.from
Overlapping(u, i) == {p \in Period : Scope[p] \in {u, Everyone} /\ Touches(p, i)}

\* Who is employed in a closing period, and what is booked there.
Employs(e, p) == e.start <= PeriodSpan[p].to /\ PeriodSpan[p].from < e.end
Counts(t, p) == p \in Overlapping(t.unit, t) /\ PeriodSpan[p].from < t.to /\ Employs(t, p)
EmployedIn(p) == {<<t.person, t.appointment>> : t \in {u \in terms : Counts(u, p)}}
BookedIn(p) ==
  {b \in booking : \E u \in UnitsOver(b.appointment, b.span) : p \in Overlapping(u, Seen(b.span))}

Term == [appointment : Appointment, person : Person, start : 0 .. Never, end : 0 .. Never,
         unit : Unit, from : 0 .. Never, to : 0 .. Never, legacy : BOOLEAN]
ASSUME FirstTermsAreTerms == FirstTerms \subseteq Term
Booking == [person : Person, appointment : Appointment, span : Span,
            source : {"WEB", "IMPORT", "MANUAL"}]

Idle == [op |-> "NONE", job |-> None, holds |-> {}]

EmploymentTypeOK ==
  /\ terms \subseteq Term
  /\ booking \subseteq Booking
  /\ approved \subseteq Leave
  /\ locked \subseteq Period
  /\ written \in 0 .. MaxWrites

EmploymentInit ==
  /\ terms = FirstTerms
  /\ booking = {}
  /\ approved = {}
  /\ locked = {}
  /\ written = 0
  /\ tx = [s \in Request |-> Idle]

-----------------------------------------------------------------------------
(* Transactions.                                                            *)

Free(keys) == \A s \in Request : tx[s].holds \cap keys = {}

\* The transaction of s takes more locks and goes on.
Enters(s, op, job, keys) ==
  /\ Free(keys)
  /\ tx' = [tx EXCEPT ![s] = [op |-> op, job |-> job, holds |-> tx[s].holds \cup keys]]
  /\ UNCHANGED <<records, written>>

Commits(s) ==
  /\ written < MaxWrites /\ written' = written + 1
  /\ tx' = [tx EXCEPT ![s] = Idle]

\* A lock is busy, a check fails, the transaction times out or its process
\* stops: nothing is written.
Rollback(s) ==
  /\ tx[s].op # "NONE" /\ tx' = [tx EXCEPT ![s] = Idle]
  /\ UNCHANGED <<records, written>>

-----------------------------------------------------------------------------
(* Appointments and their terms.                                            *)

CreateAppointment(a, new) ==
  /\ TermsOf(a) = {} /\ written < MaxWrites
  /\ new.start <= new.from /\ new.to <= new.end
  /\ Overlapping(new.unit, new) \cap locked = {}
  /\ Free(Overlapping(new.unit, new) \cup {Population, new.person})
  /\ terms' = terms \cup {[appointment |-> a, person |-> new.person, start |-> new.start,
                           end |-> new.end, unit |-> new.unit, from |-> new.from,
                           to |-> new.to, legacy |-> FALSE]}
  /\ written' = written + 1
  /\ UNCHANGED <<booking, approved, locked, tx>>

\* Bookings or leave of the appointment that reach past an instant.
Reaches(a, at) ==
  \/ \E b \in booking : b.appointment = a /\ b.span.to > at
  \/ \E l \in Leave : l.appointment = a /\ l.to >= at

\* A new term ends the last one.  The units that it takes time from are read first.
ReadTerm(s, a, next) ==
  /\ tx[s].op = "NONE" /\ TermsOf(a) # {} /\ written < MaxWrites
  /\ Enters(s, "TERM", [appointment |-> a, next |-> next, units |-> UnitsPast(a, next.from)], {})

\* Periods are asked for as long as the new term lasts, in these units and its own;
\* behind the locks there must be one term to end, with nothing recorded past it.
WriteTerm(s) ==
  LET a == tx[s].job.appointment
      next == tx[s].job.next
      periods == UNION {Overlapping(u, next) : u \in tx[s].job.units \cup {next.unit}} IN
  /\ tx[s].op = "TERM" /\ Commits(s)
  /\ periods \cap locked = {} /\ Free(periods \cup OwnerOf(a) \cup {Population})
  /\ ~ Reaches(a, next.from)
  /\ \E last \in TermsOf(a) :
       /\ {t \in TermsOf(a) : next.from < t.to} = {last}
       /\ last.from < next.from /\ next.to <= last.end
       /\ terms' = (terms \ {last}) \cup
            {[last EXCEPT !.to = next.from],
             [last EXCEPT !.unit = next.unit, !.from = next.from, !.to = next.to]}
  /\ UNCHANGED <<booking, approved, locked>>

-----------------------------------------------------------------------------
(* Bookings of people, leave and closing periods.                           *)

OfPerson(x) == {b \in booking : b.person = x}

\* The appointment is found, if the request names none, before the locks.
ReadBooking(s, x, named, i) ==
  \E a \in Appointment, u \in Unit :
    /\ tx[s].op = "NONE" /\ written < MaxWrites
    /\ Resolves(x, named, i, a) /\ UnitsOver(a, i) = {u}
    /\ Overlapping(u, Seen(i)) \cap locked = {}
    /\ Enters(s, "READ", [person |-> x, appointment |-> a, unit |-> u, span |-> i], {})

\* Behind them, that appointment must have the same terms as before.
CheckBooking(s) ==
  LET job == tx[s].job
      periods == Overlapping(job.unit, Seen(job.span)) IN
  /\ tx[s].op = "READ" /\ periods \cap locked = {}
  /\ Resolves(job.person, job.appointment, job.span, job.appointment)
  /\ UnitsOver(job.appointment, job.span) = {job.unit}
  /\ \A b \in OfPerson(job.person) : ~ Overlap(b.span, job.span)
  /\ Enters(s, "BOOK", [person |-> job.person, appointment |-> job.appointment,
                        span |-> job.span, source |-> "WEB"], periods \cup {job.person})

WriteBooking(s) ==
  /\ tx[s].op = "BOOK" /\ Commits(s)
  /\ booking' = booking \cup {tx[s].job}
  /\ UNCHANGED <<terms, approved, locked>>

\* The decision about leave (see WorkflowApproval) does not look at bookings.
ApproveLeave(l) ==
  /\ l \in Leave \ approved /\ Free({l.person}) /\ written < MaxWrites
  /\ approved' = approved \cup {l}
  /\ written' = written + 1
  /\ UNCHANGED <<terms, booking, locked, tx>>

\* A closing period leaves OPEN, which fences who is employed, or is reopened
\* (see ClosingPeriod).
MovePeriod(p) ==
  /\ Free(IF p \in locked THEN {p} ELSE {p, Population})
  /\ locked' = IF p \in locked THEN locked \ {p} ELSE locked \cup {p}
  /\ UNCHANGED <<terms, booking, approved, written, tx>>
=============================================================================
