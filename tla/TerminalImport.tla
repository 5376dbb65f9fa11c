---------------------------- MODULE TerminalImport ----------------------------
(***************************************************************************)
(* Batches of bookings from terminals.  A terminal may send a batch again, at *)
(* once or later; the receipt of the first import then answers it, and a      *)
(* record that another batch repeats overlaps with its booking.               *)
(*                                                                          *)
(* A batch is canonical: sorted by start, without a record it has already.   *)
(***************************************************************************)
EXTENDS EmploymentRecords, Sequences

CONSTANTS
  Terminal,
  Batch  \* the batches: sequences of records

\* A record names a person, an appointment or None, a time type that is known
\* or not, and an interval.
Record == [person : Person, appointment : Appointment \cup {None}, span : Span, known : BOOLEAN]
Canonical(b) ==
  \A m, n \in DOMAIN b : m < n => b[m].span.from <= b[n].span.from /\ b[m] # b[n]
ASSUME BatchesAreCanonical == \A b \in Batch : b \in Seq(Record) /\ Canonical(b)
ASSUME TerminalsAreNoKeys == Terminal \cap (Person \cup Period \cup {Population}) = {}

VARIABLES receipt  \* terminal_sync_batches: pairs of a terminal and a batch

-----------------------------------------------------------------------------
PeopleOf(b) == {b[n].person : n \in DOMAIN b}

\* The appointment and unit of every record.
Resolutions(b) ==
  {f \in [DOMAIN b -> Appointment] :
     \A n \in DOMAIN b : Resolves(b[n].person, b[n].appointment, b[n].span, f[n])}
UnitsFor(b, f) == [n \in DOMAIN b |-> CHOOSE u \in UnitsOver(f[n], b[n].span) : TRUE]
PeriodsOf(b, units) == UNION {Overlapping(units[n], Seen(b[n].span)) : n \in DOMAIN b}

\* Leave ends, for the import, with the midnight its last day begins with.
Blocks(l, i) == l.from <= Seen(i).to /\ l.to >= i.from

\* A record that was booked before overlaps with its booking.
Fits(r) ==
  /\ r.known
  /\ \A l \in approved : l.person = r.person => ~ Blocks(l, r.span)
  /\ \A b \in OfPerson(r.person) : ~ Overlap(r.span, b.span)

\* The records are taken one after the other.
Accepted(b) ==
  CHOOSE A \in SUBSET DOMAIN b : \A n \in DOMAIN b :
    n \in A <=> /\ Fits(b[n])
                /\ \A m \in A : m < n /\ b[m].person = b[n].person =>
                     ~ Overlap(b[m].span, b[n].span)

-----------------------------------------------------------------------------
\* A batch with a receipt is answered from it.
ReadBatch(s, t, b) ==
  /\ tx[s].op = "NONE" /\ <<t, b>> \notin receipt
  /\ \E f \in Resolutions(b) :
       Enters(s, "BATCH", [terminal |-> t, batch |-> b, appointments |-> f,
                           units |-> UnitsFor(b, f)], {t})
  /\ UNCHANGED receipt

\* Mutant: the people of the batch are not locked.
LockBatch_Unfenced(s) ==
  LET job == tx[s].job
      b == job.batch
      periods == PeriodsOf(b, job.units) IN
  /\ tx[s].op = "BATCH" /\ periods \cap locked = {}
  /\ job.appointments \in Resolutions(b) /\ UnitsFor(b, job.appointments) = job.units
  /\ Enters(s, "BATCH_LOCKED", job, periods)
  /\ UNCHANGED receipt

\* Mutant: the appointments are not looked at again.
LockBatch_Trusting(s) ==
  LET job == tx[s].job
      b == job.batch
      periods == PeriodsOf(b, job.units) IN
  /\ tx[s].op = "BATCH" /\ periods \cap locked = {}
  /\ Enters(s, "BATCH_LOCKED", job, periods \cup PeopleOf(b))
  /\ UNCHANGED receipt

\* Behind the locks, every record must resolve to what it did before.
LockBatch(s) ==
  LET job == tx[s].job
      b == job.batch
      periods == PeriodsOf(b, job.units) IN
  /\ tx[s].op = "BATCH" /\ periods \cap locked = {}
  /\ job.appointments \in Resolutions(b) /\ UnitsFor(b, job.appointments) = job.units
  /\ Enters(s, "BATCH_LOCKED", job, periods \cup PeopleOf(b))
  /\ UNCHANGED receipt

\* All that the batch reads now is behind its locks.
WriteBatch(s) ==
  LET job == tx[s].job
      b == job.batch IN
  /\ tx[s].op = "BATCH_LOCKED" /\ Commits(s)
  /\ booking' = booking \cup
       {[person |-> b[n].person, appointment |-> job.appointments[n], span |-> b[n].span,
         source |-> "IMPORT"] : n \in Accepted(b)}
  /\ receipt' = receipt \cup {<<job.terminal, b>>}
  /\ UNCHANGED <<terms, approved, locked>>
=============================================================================
