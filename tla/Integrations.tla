----------------------------- MODULE Integrations -----------------------------
(***************************************************************************)
(* The integrations together: terminals, imports of master data, source      *)
(* systems and the changes people ask for work on the same people,           *)
(* appointments and closing periods, in transactions that interleave.        *)
(***************************************************************************)
EXTENDS TerminalImport, PersonnelRecords

LockKey == Person \cup Period \cup Terminal \cup Source \cup {Population, Importing}
vars == <<employmentVars, receipt, personnel>>

Init == EmploymentInit /\ receipt = {} /\ PersonnelInit

\* What a transaction remembers of what it read.
JobOK(t) ==
  CASE t.op = "NONE" -> t = Idle
    [] t.op = "READ" -> t.job \in [person : Person, appointment : Appointment, unit : Unit, span : Span]
    [] t.op = "BOOK" -> t.job \in Booking
    [] t.op = "TERM" -> t.job \in [appointment : Appointment, next : NextTerm, units : SUBSET Unit]
    [] t.op \in {"BATCH", "BATCH_LOCKED"} ->
         /\ t.job.terminal \in Terminal /\ t.job.batch \in Batch
         /\ t.job.appointments \in [DOMAIN t.job.batch -> Appointment]
         /\ t.job.units \in [DOMAIN t.job.batch -> Unit]
    [] t.op \in {"ASK", "ASK_CHECKED"} ->
         t.job \in [person : Person, value : Name, expected : 0 .. MaxWrites + 1]
    [] t.op = "REVIEW" -> t.job \in [change : Change, status : ReviewOutcome]
    [] t.op = "RECONCILE" -> t.job \in Delivery
    [] t.op = "IMPORT" -> t.job \in Row

TypeOK ==
  /\ EmploymentTypeOK
  /\ receipt \subseteq Terminal \X Batch
  /\ PersonnelTypeOK
  /\ \A s \in Request : JobOK(tx[s]) /\ tx[s].holds \subseteq LockKey

Employment(s) ==
  \/ \E w \in WebBooking : ReadBooking(s, w.person, w.appointment, w.span)
  \/ CheckBooking(s) \/ WriteBooking(s) \/ Rollback(s)
  \/ \E a \in Appointment, next \in NextTerm : ReadTerm(s, a, next)
  \/ WriteTerm(s)

Administration ==
  \/ \E a \in Appointment, new \in NewTerm : new.person \in People /\ CreateAppointment(a, new)
  \/ \E l \in Leave : ApproveLeave(l)
  \/ \E p \in Period : MovePeriod(p)

Terminals(s) ==
  (\E t \in Terminal, b \in Batch : ReadBatch(s, t, b)) \/ LockBatch(s) \/ WriteBatch(s)

Personnel(s) ==
  \/ \E w \in Wish : AskChange(s, w.person, w.value)
  \/ CheckChange(s) \/ WriteChange(s)
  \/ \E c \in Change, decision \in {"APPROVE", "REJECT"} : CheckReview(s, c, decision)
  \/ WriteReview(s)
  \/ \E d \in Delivery : CheckDelivery(s, d)
  \/ WriteDelivery(s)
  \/ \E rows \in Row : CheckImport(s, rows)
  \/ WriteImport(s)

Next ==
  \/ (Administration \/ \E s \in Request : Employment(s)) /\ UNCHANGED <<receipt, personnel>>
  \/ (\E s \in Request : Terminals(s)) /\ UNCHANGED personnel
  \/ (\E s \in Request : Personnel(s)) /\ UNCHANGED receipt

Spec == Init /\ [][Next]_vars

-----------------------------------------------------------------------------
(* Safety.                                                                  *)

\* Whoever books, a person at the web or two terminals, books time that is free
\* of the person's other bookings; and a terminal books nothing on a day of
\* approved leave, but for what starts after the midnight of its last day, which
\* the import takes for its end.
BookedOnFreeTime ==
  [][\A b \in booking' \ booking :
       /\ \A c \in booking' \ {b} : c.person = b.person => ~ Overlap(b.span, c.span)
       /\ \A l \in approved :
            /\ b.source = "IMPORT" /\ l.person = b.person
            /\ Overlap(Known(b.span), [from |-> l.from, to |-> l.to + Day])
            => b.span.from > l.to]_vars

\* Every booking lies in the appointment it names, under the same terms
\* throughout, whatever terms are appended while it is being booked.
BookedWhereEmployed ==
  \A b \in booking : Resolves(b.person, b.appointment, b.span, b.appointment)

\* The appointments whose new term was not compared with a period: it ends before
\* the period begins, or the units it takes time from are others than were read.
Unasked(p) ==
  {a \in Appointment : \E s \in Request :
     /\ tx[s].op = "TERM" /\ tx'[s] = Idle /\ tx[s].job.appointment = a
     /\ \/ tx[s].job.next.to < PeriodSpan[p].from
        \/ UnitsPast(a, tx[s].job.next.from) # tx[s].job.units}

\* What is booked in a locked period does not change, nobody comes to be employed
\* in it, and nobody ceases to be but by such a term: terminals and imports of
\* master data meet the same fences as everybody.
LockedRecordsStay ==
  [][\A p \in locked :
       /\ BookedIn(p)' = BookedIn(p)
       /\ EmployedIn(p)' \subseteq EmployedIn(p)
       /\ \A e \in EmployedIn(p) \ EmployedIn(p)' : e[2] \in Unasked(p)]_vars

\* Once a name has a field, all that set it agree: the import of master data no
\* longer does, and changes and deliveries set both.  A field that a source owns
\* has the value of the delivery its record is at, however deliveries repeat,
\* overtake each other or cross with requests.
NamesAgree ==
  \A x \in Person :
    /\ field[x].revision > 0 => name[x] = field[x].value
    /\ field[x].owner # None =>
         \E d \in external : d.source = field[x].owner /\ d.person = x /\ d.value = field[x].value

\* One request for a change is pending at a time, and one that waits for the
\* source has a row in the outbox until the source has answered it.
OneChangeAtATime ==
  /\ \A x \in Person : Cardinality(PendingOf(x)) <= 1
  /\ \A c \in Change : outbox[c] = "PENDING_SYNC" <=> change[c].status = "PENDING_SYNC"

\* What is known about a person is told consistently: both of the above, which requests,
\* reviews, deliveries and imports could each break for the other
\* (profile-changes.service.ts, personnel-reconciliation.service.ts, legacy-employment.ts).
ProfilesAgree == NamesAgree /\ OneChangeAtATime

\* A review replaces only the value that was there when the change was asked for.
ReviewedIsWhatWasSeen ==
  [][\A c \in Change :
       /\ change[c].status = "PENDING_APPROVAL"
       /\ change'[c].status \in {"APPLIED", "PENDING_SYNC"}
       => field[change[c].person].revision = change[c].expected]_vars
=============================================================================
