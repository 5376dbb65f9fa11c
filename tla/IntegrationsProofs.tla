-------------------------- MODULE IntegrationsProofs --------------------------
(***************************************************************************)
(* Proofs about the integrations, for any people, appointments, periods,     *)
(* terminals, sources, batches and deliveries.  What a transaction has       *)
(* checked it still finds when it writes, because whoever could change it    *)
(* needs a lock that the transaction holds: of the person, of the periods,   *)
(* of the population, or of the source.                                      *)
(***************************************************************************)
EXTENDS Integrations, FiniteSetTheorems, WellFoundedInduction, TLAPS

(* A booking, or what is to become one, lies where its person is employed.  *)
Employed(b) ==
  /\ OwnerOf(b.appointment) = {b.person}
  /\ Lasts(b.appointment, b.span) /\ Covers(b.appointment, b.span)
  /\ Cardinality(UnitsOver(b.appointment, b.span)) = 1

PeriodsFor(b) == UNION {Overlapping(u, Seen(b.span)) : u \in UnitsOver(b.appointment, b.span)}

(* A transaction holds the locks of what it is about to book.               *)
Fenced(b, holds) ==
  /\ b \in Booking /\ Employed(b) /\ b.person \in holds
  /\ PeriodsFor(b) \subseteq holds /\ PeriodsFor(b) \cap locked = {}

EntryOf(job, n) ==
  [person |-> job.batch[n].person, appointment |-> job.appointments[n],
   span |-> job.batch[n].span, source |-> "IMPORT"]

(* What a transaction has read of employment and may still rely on.         *)
BookingRests(t) ==
  /\ t.op = "BOOK" => /\ Fenced(t.job, t.holds) /\ t.job.source = "WEB"
                      /\ \A c \in OfPerson(t.job.person) : ~ Overlap(c.span, t.job.span)
  /\ t.op = "BATCH_LOCKED" =>
       /\ t.job.terminal \in Terminal /\ t.job.batch \in Batch
       /\ \A n \in DOMAIN t.job.batch : Fenced(EntryOf(t.job, n), t.holds)

ImportRests(t) ==
  t.op = "IMPORT" =>
    /\ t.job \in Row /\ Population \in t.holds
    /\ \A r \in NewPeople(t.job) : WouldCount(r) \cap locked = {}

(* And what it has read of people.                                          *)
ChangeRests(t) ==
  t.op = "ASK_CHECKED" => t.job.person \in t.holds /\ PendingOf(t.job.person) = {}

ReviewRests(t) ==
  t.op = "REVIEW" => LET c == t.job.change x == change[c].person IN
    /\ c \in Change /\ t.job.status \in ReviewOutcome
    /\ change[c].status = "PENDING_APPROVAL" /\ x \in t.holds
    /\ t.job.status \in {"APPLIED", "PENDING_SYNC"} => field[x].revision = change[c].expected
    /\ t.job.status = "APPLIED" => field[x].owner = None

DeliveryRests(t) ==
  t.op = "RECONCILE" =>
    /\ t.job \in Delivery /\ t.job.source \in t.holds /\ t.job.person \in t.holds
    /\ RecordOf(t.job) = Binding(t.job)

Rests(t) ==
  BookingRests(t) /\ ImportRests(t) /\ ChangeRests(t) /\ ReviewRests(t) /\ DeliveryRests(t)

(* Locks have one holder.                                                   *)
Exclusive ==
  /\ DOMAIN tx = Request
  /\ \A q, r \in Request : q # r => tx[q].holds \cap tx[r].holds = {}

(* The name of a person is that of the field, and the field's that of its   *)
(* owner's last delivery.                                                   *)
NameAgrees(x) ==
  /\ field[x].revision > 0 => name[x] = field[x].value
  /\ field[x].revision <= written + 1
  /\ field[x].owner # None =>
       /\ field[x].owner \in Owner
       /\ \E d \in external : d.source = field[x].owner /\ d.person = x /\ d.value = field[x].value

(* A request for a change is somebody's, alone, and in the outbox with the  *)
(* status of the request.                                                   *)
ChangesAgree ==
  /\ \A c \in Change : change[c].status # "NONE" => change[c].person \in Person
  /\ \A c, e \in Change :
       /\ change[c].status \in Pending /\ change[e].status \in Pending
       /\ change[c].person = change[e].person
       => c = e
  /\ \A c \in Change : outbox[c] = "PENDING_SYNC" <=> change[c].status = "PENDING_SYNC"

IInv ==
  /\ TypeOK /\ Exclusive
  /\ \A b \in booking : Employed(b)
  /\ \A x \in Person : NameAgrees(x)
  /\ ChangesAgree
  /\ \A s \in Request : Rests(tx[s])

-----------------------------------------------------------------------------
(* Transactions.                                                            *)

LEMMA EntersIs ==
  ASSUME Exclusive, NEW s \in Request, NEW op, NEW job, NEW keys, Enters(s, op, job, keys)
  PROVE  /\ tx'[s] = [op |-> op, job |-> job, holds |-> tx[s].holds \cup keys]
         /\ \A q \in Request \ {s} : tx'[q] = tx[q]
         /\ Exclusive' /\ UNCHANGED <<records, written>>
  <1>1. /\ tx'[s] = [op |-> op, job |-> job, holds |-> tx[s].holds \cup keys]
        /\ \A q \in Request \ {s} : tx'[q] = tx[q]
        /\ DOMAIN tx' = Request
    BY DEF Enters, Exclusive
  <1>2. tx'[s].holds = tx[s].holds \cup keys /\ \A q \in Request : tx[q].holds \cap keys = {}
    BY <1>1 DEF Enters, Free
  <1>3. Exclusive'
    BY <1>1, <1>2 DEF Exclusive
  <1> QED
    BY <1>1, <1>3 DEF Enters

LEMMA IdleIs ==
  ASSUME Exclusive, NEW s \in Request, tx' = [tx EXCEPT ![s] = Idle]
  PROVE  /\ tx'[s] = Idle /\ \A q \in Request \ {s} : tx'[q] = tx[q]
         /\ Exclusive'
  <1>1. tx'[s] = Idle /\ (\A q \in Request \ {s} : tx'[q] = tx[q]) /\ DOMAIN tx' = Request
    BY DEF Exclusive
  <1>2. tx'[s].holds = {}
    BY <1>1 DEF Idle
  <1> QED
    BY <1>1, <1>2 DEF Exclusive

LEMMA IdleRests == Rests(Idle) /\ JobOK(Idle) /\ Idle.holds = {} /\ Idle.op = "NONE"
  BY DEF Rests, BookingRests, ImportRests, ChangeRests, ReviewRests, DeliveryRests, JobOK, Idle

LEMMA JobIs ==
  ASSUME NEW t, JobOK(t)
  PROVE  /\ t.op = "READ" => t.job.appointment \in Appointment /\ t.job.unit \in Unit
         /\ t.op = "READ" => t.job.person \in Person /\ t.job.span \in Span
         /\ t.op = "BOOK" => t.job \in Booking
         /\ t.op = "TERM" => /\ t.job.appointment \in Appointment /\ t.job.next \in NextTerm
                             /\ t.job.units \subseteq Unit
         /\ t.op \in {"BATCH", "BATCH_LOCKED"} =>
              /\ t.job.terminal \in Terminal /\ t.job.batch \in Batch
              /\ t.job.appointments \in [DOMAIN t.job.batch -> Appointment]
              /\ t.job.units \in [DOMAIN t.job.batch -> Unit]
         /\ t.op \in {"ASK", "ASK_CHECKED"} =>
              t.job \in [person : Person, value : Name, expected : 0 .. MaxWrites + 1]
         /\ t.op = "REVIEW" => t.job \in [change : Change, status : ReviewOutcome]
         /\ t.op = "RECONCILE" => t.job \in Delivery
         /\ t.op = "IMPORT" => t.job \in Row
  BY DEF JobOK

(* What is recorded stays: a transaction only goes on, begins or ends.      *)
RecordsStay == UNCHANGED <<records, written, receipt, personnel>>

LEMMA RestingStays ==
  ASSUME RecordsStay, NEW t, Rests(t)
  PROVE  Rests(t)'
  BY DEF RecordsStay, records, personnel, Rests, BookingRests, ImportRests, ChangeRests, ReviewRests,
         DeliveryRests, Fenced, Employed, PeriodsFor, OwnerOf, Lasts, Covers, UnitsOver, TermsOf, OfPerson,
         NewPeople, Appointed, PendingOf, RecordOf, Binding

LEMMA GoesOn ==
  ASSUME IInv, RecordsStay, NEW s \in Request, Exclusive',
         \A q \in Request \ {s} : tx'[q] = tx[q],
         JobOK(tx'[s]), tx'[s].holds \subseteq LockKey, Rests(tx'[s])
  PROVE  IInv'
  <1>1. \A q \in Request : JobOK(tx'[q]) /\ tx'[q].holds \subseteq LockKey /\ Rests(tx'[q])
    BY DEF IInv, TypeOK
  <1>2. TypeOK'
    BY <1>1 DEF IInv, RecordsStay, records, personnel, TypeOK, EmploymentTypeOK, PersonnelTypeOK, JobOK
  <1>3. \A q \in Request : Rests(tx[q])'
    BY <1>1, RestingStays
  <1>4. /\ \A b \in booking' : Employed(b)'
        /\ \A x \in Person : NameAgrees(x)'
        /\ ChangesAgree'
    BY DEF IInv, RecordsStay, records, personnel, Employed, OwnerOf, Lasts, Covers, UnitsOver, TermsOf,
           NameAgrees, ChangesAgree
  <1> QED
    BY <1>2, <1>3, <1>4 DEF IInv

-----------------------------------------------------------------------------
(* Appointments and intervals.                                              *)

LEMMA OneUnit ==
  ASSUME terms \subseteq Term, NEW b, Cardinality(UnitsOver(b.appointment, b.span)) = 1
  PROVE  \E u \in Unit : UnitsOver(b.appointment, b.span) = {u}
  <1>1. UnitsOver(b.appointment, b.span) \subseteq Unit
    BY DEF UnitsOver, TermsOf, Term
  <1>2. IsFiniteSet(UnitsOver(b.appointment, b.span))
    BY <1>1, InputsAreValid, FS_Subset
  <1> QED
    BY <1>1, <1>2, FS_Singleton

LEMMA SpansAre ==
  ASSUME NEW i \in Span
  PROVE  i.from \in Nat /\ i.to \in Nat /\ i.from < i.to /\ i.to <= Never /\ Never \in Nat
  BY SpansAreIntervals

LEMMA BookingsAre ==
  ASSUME NEW b \in Booking
  PROVE  /\ b.person \in Person /\ b.appointment \in Appointment /\ b.span \in Span
         /\ b.source \in {"WEB", "IMPORT", "MANUAL"}
  BY DEF Booking

LEMMA TermsAre ==
  ASSUME NEW t \in Term
  PROVE  /\ t.appointment \in Appointment /\ t.person \in Person /\ t.unit \in Unit
         /\ t.from \in Nat /\ t.to \in Nat /\ t.to <= Never /\ Never \in Nat
         /\ t.start \in Nat /\ t.end \in Nat
  BY SpansAreIntervals DEF Term

(* What resolves, and is locked, is fenced.                                 *)
LEMMA ResolvesIs ==
  ASSUME IInv, NEW x \in Person, NEW named, NEW i \in Span, NEW a, Resolves(x, named, i, a),
         NEW src \in {"WEB", "IMPORT"}, NEW u, u = CHOOSE v \in UnitsOver(a, i) : TRUE,
         NEW b, b = [person |-> x, appointment |-> a, span |-> i, source |-> src]
  PROVE  /\ b \in Booking /\ Employed(b) /\ u \in Unit /\ PeriodsFor(b) = Overlapping(u, Seen(i))
  <1>1. a \in Eligible(x, i) /\ Covers(a, i) /\ Cardinality(UnitsOver(a, i)) = 1
    BY DEF Resolves
  <1>2. a \in Appointment /\ OwnerOf(a) = {x} /\ Lasts(a, i) /\ Covers(a, i)
    BY <1>1 DEF Eligible
  <1>3. b \in Booking /\ Employed(b)
    BY <1>1, <1>2 DEF Booking, Employed
  <1>4. terms \subseteq Term
    BY DEF IInv, TypeOK, EmploymentTypeOK
  <1>5. PICK v \in Unit : UnitsOver(a, i) = {v}
    BY <1>1, <1>4, OneUnit
  <1>6. u = v
    BY <1>5
  <1> QED
    BY <1>3, <1>5, <1>6 DEF PeriodsFor

LEMMA PeriodsAre ==
  ASSUME NEW u, NEW i
  PROVE  Overlapping(u, i) \subseteq Period
  BY DEF Overlapping

-----------------------------------------------------------------------------
(* What a transaction reads behind its locks, it may rely on.               *)

(* Before its locks a request only remembers what it found.                 *)
LEMMA ReadKeeps ==
  ASSUME IInv, NEW s \in Request, NEW op \in {"READ", "TERM"}, NEW job, Enters(s, op, job, {}),
         JobOK([op |-> op, job |-> job, holds |-> tx[s].holds]), UNCHANGED <<receipt, personnel>>
  PROVE  IInv'
  <1>1. PICK t : t = [op |-> op, job |-> job, holds |-> tx[s].holds]
    OBVIOUS
  <1>2. /\ tx'[s] = t /\ (\A q \in Request \ {s} : tx'[q] = tx[q]) /\ Exclusive' /\ RecordsStay
    BY <1>1, EntersIs DEF IInv, RecordsStay
  <1>3. t.op = op /\ t.holds \subseteq LockKey
    BY <1>1 DEF IInv, TypeOK
  <1>4. Rests(t)
    BY <1>3 DEF Rests, BookingRests, ImportRests, ChangeRests, ReviewRests, DeliveryRests
  <1> QED
    BY <1>1, <1>2, <1>3, <1>4, GoesOn

LEMMA ReadBookingKeeps ==
  ASSUME IInv, NEW s \in Request, NEW w \in WebBooking,
         ReadBooking(s, w.person, w.appointment, w.span), UNCHANGED <<receipt, personnel>>
  PROVE  IInv'
  <1>1. PICK a, u, job :
          /\ a \in Appointment /\ u \in Unit
          /\ job = [person |-> w.person, appointment |-> a, unit |-> u, span |-> w.span]
          /\ Enters(s, "READ", job, {})
    BY DEF ReadBooking
  <1>2. JobOK([op |-> "READ", job |-> job, holds |-> tx[s].holds])
    BY <1>1, InputsAreValid DEF JobOK
  <1> QED
    BY <1>1, <1>2, ReadKeeps

LEMMA ReadTermKeeps ==
  ASSUME IInv, NEW s \in Request, NEW a \in Appointment, NEW next \in NextTerm,
         ReadTerm(s, a, next), UNCHANGED <<receipt, personnel>>
  PROVE  IInv'
  <1>1. PICK job : /\ job = [appointment |-> a, next |-> next, units |-> UnitsPast(a, next.from)]
                   /\ Enters(s, "TERM", job, {})
    BY DEF ReadTerm
  <1>2. UnitsPast(a, next.from) \subseteq Unit
    BY TermsAre DEF UnitsPast, TermsOf, IInv, TypeOK, EmploymentTypeOK
  <1>3. JobOK([op |-> "TERM", job |-> job, holds |-> tx[s].holds])
    BY <1>1, <1>2 DEF JobOK
  <1> QED
    BY <1>1, <1>3, ReadKeeps

LEMMA CheckBookingKeeps ==
  ASSUME IInv, NEW s \in Request, CheckBooking(s), UNCHANGED <<receipt, personnel>>
  PROVE  IInv'
  <1>1. PICK w, u, b :
          /\ w = tx[s].job /\ u = w.unit
          /\ b = [person |-> w.person, appointment |-> w.appointment, span |-> w.span,
                  source |-> "WEB"]
          /\ Resolves(w.person, w.appointment, w.span, w.appointment)
          /\ UnitsOver(w.appointment, w.span) = {u}
          /\ Overlapping(u, Seen(w.span)) \cap locked = {}
          /\ \A c \in OfPerson(w.person) : ~ Overlap(c.span, w.span)
          /\ Enters(s, "BOOK", b, Overlapping(u, Seen(w.span)) \cup {w.person})
    BY DEF CheckBooking
  <1>2. w.person \in Person /\ w.span \in Span
    BY <1>1, JobIs DEF CheckBooking, IInv, TypeOK
  <1>3. /\ b \in Booking /\ Employed(b) /\ PeriodsFor(b) = Overlapping(u, Seen(w.span))
        /\ b.person = w.person /\ b.span = w.span /\ b.source = "WEB"
    <2>1. u = CHOOSE v \in UnitsOver(w.appointment, w.span) : TRUE
      BY <1>1
    <2> QED
      BY <1>1, <1>2, <2>1, ResolvesIs
  <1>4. PICK keys : keys = PeriodsFor(b) \cup {b.person}
    OBVIOUS
  <1>5. PICK t : t = [op |-> "BOOK", job |-> b, holds |-> tx[s].holds \cup keys]
    OBVIOUS
  <1>6. /\ tx'[s] = t /\ (\A q \in Request \ {s} : tx'[q] = tx[q]) /\ Exclusive'
        /\ UNCHANGED <<records, written>>
    BY <1>1, <1>3, <1>4, <1>5, EntersIs DEF IInv
  <1>7. t.op = "BOOK" /\ t.job = b /\ t.holds = tx[s].holds \cup keys
    BY <1>5
  <1>8. JobOK(t) /\ t.holds \subseteq LockKey
    <2>1. JobOK(t)
      BY <1>3, <1>7 DEF JobOK
    <2>2. tx[s].holds \subseteq LockKey
      BY DEF IInv, TypeOK
    <2>3. keys \subseteq LockKey
      BY <1>2, <1>3, <1>4, PeriodsAre DEF LockKey
    <2> QED
      BY <1>7, <2>1, <2>2, <2>3
  <1>9. Fenced(b, t.holds)
    BY <1>1, <1>3, <1>4, <1>7 DEF Fenced
  <1>10. BookingRests(t)
    BY <1>1, <1>3, <1>7, <1>9 DEF BookingRests
  <1>11. Rests(t)
    BY <1>7, <1>10 DEF Rests, ImportRests, ChangeRests, ReviewRests, DeliveryRests
  <1>12. RecordsStay
    BY <1>6 DEF RecordsStay
  <1> QED
    BY <1>6, <1>8, <1>11, <1>12, GoesOn

LEMMA RollbackKeeps ==
  ASSUME IInv, NEW s \in Request, Rollback(s), UNCHANGED <<receipt, personnel>>
  PROVE  IInv'
  <1>1. /\ tx'[s] = Idle /\ (\A q \in Request \ {s} : tx'[q] = tx[q]) /\ Exclusive' /\ RecordsStay
    BY IdleIs DEF Rollback, RecordsStay, IInv
  <1> QED
    BY <1>1, IdleRests, GoesOn

(* The records of a batch, resolved.                                        *)
LEMMA BatchesAre ==
  ASSUME NEW b \in Batch
  PROVE  /\ b \in Seq(Record) /\ DOMAIN b \subseteq Nat
         /\ \A n \in DOMAIN b :
              /\ b[n].person \in Person /\ b[n].span \in Span
              /\ b[n].appointment \in Appointment \cup {None}
         /\ PeopleOf(b) \subseteq Person
  <1>1. b \in Seq(Record)
    BY BatchesAreCanonical
  <1>2. DOMAIN b \subseteq Nat /\ \A n \in DOMAIN b : b[n] \in Record
    BY <1>1
  <1>3. \A n \in DOMAIN b :
          /\ b[n].person \in Person /\ b[n].span \in Span
          /\ b[n].appointment \in Appointment \cup {None}
    BY <1>2 DEF Record
  <1> QED
    BY <1>1, <1>2, <1>3 DEF PeopleOf

LEMMA ReadBatchKeeps ==
  ASSUME IInv, NEW s \in Request, NEW d \in Terminal, NEW b \in Batch, ReadBatch(s, d, b),
         UNCHANGED personnel
  PROVE  IInv'
  <1>1. PICK f, job :
          /\ f \in Resolutions(b)
          /\ job = [terminal |-> d, batch |-> b, appointments |-> f, units |-> UnitsFor(b, f)]
          /\ Enters(s, "BATCH", job, {d})
    BY DEF ReadBatch
  <1>2. /\ tx'[s] = [op |-> "BATCH", job |-> job, holds |-> tx[s].holds \cup {d}]
        /\ (\A q \in Request \ {s} : tx'[q] = tx[q]) /\ Exclusive' /\ UNCHANGED <<records, written>>
    BY <1>1, EntersIs DEF IInv
  <1>3. tx'[s].op = "BATCH" /\ tx'[s].job = job /\ tx'[s].holds = tx[s].holds \cup {d}
    BY <1>2
  <1>4. /\ f \in [DOMAIN b -> Appointment]
        /\ \A n \in DOMAIN b : Resolves(b[n].person, b[n].appointment, b[n].span, f[n])
    BY <1>1 DEF Resolutions
  <1>5. terms \subseteq Term /\ tx[s].holds \subseteq LockKey
    BY DEF IInv, TypeOK, EmploymentTypeOK
  <1>6. UnitsFor(b, f) \in [DOMAIN b -> Unit]
    <2>1. ASSUME NEW n \in DOMAIN b
          PROVE  (CHOOSE u \in UnitsOver(f[n], b[n].span) : TRUE) \in Unit
      <3>1. PICK e, src : src = "IMPORT" /\ e = [person |-> b[n].person, appointment |-> f[n],
                                                 span |-> b[n].span, source |-> src]
        OBVIOUS
      <3>2. PICK u : u = CHOOSE v \in UnitsOver(f[n], b[n].span) : TRUE
        OBVIOUS
      <3>3. b[n].person \in Person /\ b[n].span \in Span /\ src \in {"WEB", "IMPORT"}
        BY <2>1, <3>1, BatchesAre
      <3> QED
        BY <1>4, <2>1, <3>1, <3>2, <3>3, ResolvesIs
    <2> QED
      BY <2>1 DEF UnitsFor
  <1>7. JobOK(tx'[s])
    BY <1>1, <1>3, <1>4, <1>6 DEF JobOK
  <1>8. tx'[s].holds \subseteq LockKey
    BY <1>3, <1>5 DEF LockKey
  <1>9. Rests(tx'[s])
    BY <1>3 DEF Rests, BookingRests, ImportRests, ChangeRests, ReviewRests, DeliveryRests
  <1>10. RecordsStay
    BY <1>2 DEF RecordsStay, ReadBatch
  <1> QED
    BY <1>2, <1>7, <1>8, <1>9, <1>10, GoesOn

LEMMA LockBatchKeeps ==
  ASSUME IInv, NEW s \in Request, LockBatch(s), UNCHANGED personnel
  PROVE  IInv'
  <1>1. PICK t, job, b, f :
          t = tx[s] /\ job = t.job /\ b = job.batch /\ f = job.appointments
    OBVIOUS
  <1>2. t.op = "BATCH" /\ JobOK(t) /\ t.holds \subseteq LockKey /\ terms \subseteq Term
    BY <1>1 DEF LockBatch, IInv, TypeOK, EmploymentTypeOK
  <1>3. /\ job.terminal \in Terminal /\ b \in Batch /\ job.units \in [DOMAIN b -> Unit]
        /\ f \in [DOMAIN b -> Appointment]
    BY <1>1, <1>2, JobIs
  <1>4. PICK keys : keys = PeriodsOf(b, job.units) \cup PeopleOf(b)
    OBVIOUS
  <1>5. /\ Enters(s, "BATCH_LOCKED", job, keys) /\ PeriodsOf(b, job.units) \cap locked = {}
        /\ f \in Resolutions(b) /\ UnitsFor(b, f) = job.units
    BY <1>1, <1>4 DEF LockBatch
  <1>6. /\ tx'[s] = [op |-> "BATCH_LOCKED", job |-> job, holds |-> tx[s].holds \cup keys]
        /\ (\A q \in Request \ {s} : tx'[q] = tx[q]) /\ Exclusive' /\ UNCHANGED <<records, written>>
    BY <1>5, EntersIs DEF IInv
  <1>7. tx'[s].op = "BATCH_LOCKED" /\ tx'[s].job = job /\ tx'[s].holds = t.holds \cup keys
    BY <1>1, <1>6
  <1>8. ASSUME NEW n \in DOMAIN b PROVE Fenced(EntryOf(job, n), tx'[s].holds)
    <2>1. PICK e, src : src = "IMPORT" /\ e = [person |-> b[n].person, appointment |-> f[n],
                                               span |-> b[n].span, source |-> src]
      OBVIOUS
    <2>2. PICK u : u = CHOOSE v \in UnitsOver(f[n], b[n].span) : TRUE
      OBVIOUS
    <2>3. Resolves(b[n].person, b[n].appointment, b[n].span, f[n])
      BY <1>5, <1>8 DEF Resolutions
    <2>4. /\ e \in Booking /\ Employed(e) /\ u \in Unit
          /\ PeriodsFor(e) = Overlapping(u, Seen(b[n].span))
      <3>1. b[n].person \in Person /\ b[n].span \in Span /\ src \in {"WEB", "IMPORT"}
        BY <1>3, <1>8, <2>1, BatchesAre
      <3> QED
        BY <2>1, <2>2, <2>3, <3>1, ResolvesIs
    <2>5. u = job.units[n]
      BY <1>5, <1>8, <2>2 DEF UnitsFor
    <2>6. PeriodsFor(e) \subseteq PeriodsOf(b, job.units)
      BY <1>8, <2>4, <2>5 DEF PeriodsOf
    <2>7. e = EntryOf(job, n) /\ e.person = b[n].person
      BY <1>1, <2>1 DEF EntryOf
    <2>8. e.person \in PeopleOf(b)
      BY <1>8, <2>7 DEF PeopleOf
    <2> QED
      BY <1>4, <1>5, <1>7, <2>4, <2>6, <2>7, <2>8 DEF Fenced
  <1>9. JobOK(tx'[s])
    BY <1>1, <1>3, <1>7 DEF JobOK
  <1>10. tx'[s].holds \subseteq LockKey
    <2>1. PeriodsOf(b, job.units) \subseteq Period /\ PeopleOf(b) \subseteq Person
      BY <1>3, BatchesAre, PeriodsAre DEF PeriodsOf
    <2> QED
      BY <1>2, <1>4, <1>7, <2>1 DEF LockKey
  <1>11. BookingRests(tx'[s])
    BY <1>1, <1>3, <1>7, <1>8 DEF BookingRests
  <1>12. Rests(tx'[s])
    BY <1>7, <1>11 DEF Rests, ImportRests, ChangeRests, ReviewRests, DeliveryRests
  <1>13. RecordsStay
    BY <1>6 DEF RecordsStay, LockBatch
  <1> QED
    BY <1>6, <1>9, <1>10, <1>12, <1>13, GoesOn

LEMMA AskChangeKeeps ==
  ASSUME IInv, NEW s \in Request, NEW w \in Wish, AskChange(s, w.person, w.value),
         UNCHANGED receipt
  PROVE  IInv'
  <1>1. PICK job :
          /\ job = [person |-> w.person, value |-> w.value, expected |-> field[w.person].revision]
          /\ Enters(s, "ASK", job, {})
    BY DEF AskChange
  <1>2. w.person \in Person /\ w.value \in Name
    BY PeopleAreKnown
  <1>3. field[w.person].revision \in 0 .. MaxWrites + 1
    BY <1>2 DEF IInv, TypeOK, PersonnelTypeOK
  <1>4. /\ tx'[s] = [op |-> "ASK", job |-> job, holds |-> tx[s].holds \cup {}]
        /\ (\A q \in Request \ {s} : tx'[q] = tx[q]) /\ Exclusive' /\ UNCHANGED <<records, written>>
    BY <1>1, EntersIs DEF IInv
  <1>5. tx'[s].op = "ASK" /\ tx'[s].job = job /\ tx'[s].holds = tx[s].holds
    BY <1>4
  <1>6. JobOK(tx'[s])
    BY <1>1, <1>2, <1>3, <1>5 DEF JobOK
  <1>7. tx'[s].holds \subseteq LockKey
    BY <1>5 DEF IInv, TypeOK
  <1>8. Rests(tx'[s])
    BY <1>5 DEF Rests, BookingRests, ImportRests, ChangeRests, ReviewRests, DeliveryRests
  <1>9. RecordsStay
    BY <1>4 DEF RecordsStay, AskChange
  <1> QED
    BY <1>4, <1>6, <1>7, <1>8, <1>9, GoesOn

LEMMA CheckChangeKeeps ==
  ASSUME IInv, NEW s \in Request, CheckChange(s), UNCHANGED receipt
  PROVE  IInv'
  <1>1. PICK t, job : t = tx[s] /\ job = t.job
    OBVIOUS
  <1>2. /\ t.op = "ASK" /\ PendingOf(job.person) = {}
        /\ Enters(s, "ASK_CHECKED", job, {job.person})
    BY <1>1 DEF CheckChange
  <1>3. JobOK(t) /\ t.holds \subseteq LockKey
    BY <1>1 DEF IInv, TypeOK
  <1>4. job \in [person : Person, value : Name, expected : 0 .. MaxWrites + 1]
    BY <1>1, <1>2, <1>3, JobIs
  <1>5. /\ tx'[s] = [op |-> "ASK_CHECKED", job |-> job, holds |-> tx[s].holds \cup {job.person}]
        /\ (\A q \in Request \ {s} : tx'[q] = tx[q]) /\ Exclusive' /\ UNCHANGED <<records, written>>
    BY <1>2, EntersIs DEF IInv
  <1>6. tx'[s].op = "ASK_CHECKED" /\ tx'[s].job = job /\ tx'[s].holds = t.holds \cup {job.person}
    BY <1>1, <1>5
  <1>7. JobOK(tx'[s])
    BY <1>4, <1>6 DEF JobOK
  <1>8. tx'[s].holds \subseteq LockKey
    BY <1>3, <1>4, <1>6 DEF LockKey
  <1>9. Rests(tx'[s])
    BY <1>2, <1>6 DEF Rests, BookingRests, ImportRests, ChangeRests, ReviewRests, DeliveryRests
  <1>10. RecordsStay
    BY <1>5 DEF RecordsStay, CheckChange
  <1> QED
    BY <1>5, <1>7, <1>8, <1>9, <1>10, GoesOn

LEMMA CheckReviewKeeps ==
  ASSUME IInv, NEW s \in Request, NEW c \in Change, NEW decision \in {"APPROVE", "REJECT"},
         CheckReview(s, c, decision), UNCHANGED receipt
  PROVE  IInv'
  <1>1. PICK job, x : /\ job = [change |-> c, status |-> ReviewStatus(decision, c)]
                      /\ x = change[c].person
                      /\ Enters(s, "REVIEW", job, {x})
    BY DEF CheckReview
  <1>2. change[c].status = "PENDING_APPROVAL" /\ x \in Person
    BY <1>1 DEF CheckReview, IInv, ChangesAgree
  <1>3. /\ job.change = c /\ job.status \in ReviewOutcome
        /\ job.status \in {"APPLIED", "PENDING_SYNC"} => field[x].revision = change[c].expected
        /\ job.status = "APPLIED" => field[x].owner = None
    BY <1>1 DEF ReviewStatus, ReviewOutcome
  <1>4. /\ tx'[s] = [op |-> "REVIEW", job |-> job, holds |-> tx[s].holds \cup {x}]
        /\ (\A q \in Request \ {s} : tx'[q] = tx[q]) /\ Exclusive' /\ UNCHANGED <<records, written>>
    BY <1>1, EntersIs DEF IInv
  <1>5. tx'[s].op = "REVIEW" /\ tx'[s].job = job /\ tx'[s].holds = tx[s].holds \cup {x}
    BY <1>4
  <1>6. JobOK(tx'[s])
    BY <1>1, <1>3, <1>5 DEF JobOK
  <1>7. tx'[s].holds \subseteq LockKey
    BY <1>2, <1>5 DEF LockKey, IInv, TypeOK
  <1>8. Rests(tx'[s])
    BY <1>1, <1>2, <1>3, <1>5
       DEF Rests, BookingRests, ImportRests, ChangeRests, ReviewRests, DeliveryRests
  <1>9. RecordsStay
    BY <1>4 DEF RecordsStay, CheckReview
  <1> QED
    BY <1>4, <1>6, <1>7, <1>8, <1>9, GoesOn

LEMMA CheckDeliveryKeeps ==
  ASSUME IInv, NEW s \in Request, NEW d \in Delivery, CheckDelivery(s, d), UNCHANGED receipt
  PROVE  IInv'
  <1>1. RecordOf(d) = Binding(d) /\ Enters(s, "RECONCILE", d, {d.source, d.person})
    BY DEF CheckDelivery
  <1>2. d.source \in Source /\ d.person \in Person
    BY DeliveriesAreRevisions
  <1>3. /\ tx'[s] = [op |-> "RECONCILE", job |-> d, holds |-> tx[s].holds \cup {d.source, d.person}]
        /\ (\A q \in Request \ {s} : tx'[q] = tx[q]) /\ Exclusive' /\ UNCHANGED <<records, written>>
    BY <1>1, EntersIs DEF IInv
  <1>4. /\ tx'[s].op = "RECONCILE" /\ tx'[s].job = d
        /\ tx'[s].holds = tx[s].holds \cup {d.source, d.person}
    BY <1>3
  <1>5. JobOK(tx'[s])
    BY <1>4 DEF JobOK
  <1>6. tx'[s].holds \subseteq LockKey
    BY <1>2, <1>4 DEF LockKey, IInv, TypeOK
  <1>7. Rests(tx'[s])
    BY <1>1, <1>4 DEF Rests, BookingRests, ImportRests, ChangeRests, ReviewRests, DeliveryRests
  <1>8. RecordsStay
    BY <1>3 DEF RecordsStay, CheckDelivery
  <1> QED
    BY <1>3, <1>5, <1>6, <1>7, <1>8, GoesOn

LEMMA RowsAre ==
  ASSUME NEW rows \in Row
  PROVE  /\ \A r \in rows : r.person \in Person /\ r.unit \in Unit /\ r.name \in Name
         /\ \A r \in rows : r.start \in 0 .. Never /\ r.end \in 0 .. Never
         /\ \A q, r \in rows : q.person = r.person => q = r
  BY RowsAreValid DEF Valid

LEMMA CheckImportKeeps ==
  ASSUME IInv, NEW s \in Request, NEW rows \in Row, CheckImport(s, rows), UNCHANGED receipt
  PROVE  IInv'
  <1>1. PICK keys :
          /\ keys = {Importing, Population} \cup {r.person : r \in {q \in rows : q.person \in People}}
          /\ Enters(s, "IMPORT", rows, keys)
          /\ \A r \in NewPeople(rows) : WouldCount(r) \cap locked = {}
    BY DEF CheckImport
  <1>2. keys \subseteq LockKey /\ Population \in keys
    BY <1>1, RowsAre DEF LockKey
  <1>3. /\ tx'[s] = [op |-> "IMPORT", job |-> rows, holds |-> tx[s].holds \cup keys]
        /\ (\A q \in Request \ {s} : tx'[q] = tx[q]) /\ Exclusive' /\ UNCHANGED <<records, written>>
    BY <1>1, EntersIs DEF IInv
  <1>4. tx'[s].op = "IMPORT" /\ tx'[s].job = rows /\ tx'[s].holds = tx[s].holds \cup keys
    BY <1>3
  <1>5. JobOK(tx'[s])
    BY <1>4 DEF JobOK
  <1>6. tx'[s].holds \subseteq LockKey
    BY <1>2, <1>4 DEF IInv, TypeOK
  <1>7. Rests(tx'[s])
    BY <1>1, <1>2, <1>4 DEF Rests, BookingRests, ImportRests, ChangeRests, ReviewRests, DeliveryRests
  <1>8. RecordsStay
    BY <1>3 DEF RecordsStay, CheckImport
  <1> QED
    BY <1>3, <1>5, <1>6, <1>7, <1>8, GoesOn

-----------------------------------------------------------------------------
(* Terms change, and what is booked under them does not notice.             *)

Same(b) == Employed(b)' /\ PeriodsFor(b)' = PeriodsFor(b)

LEMMA SameTerms ==
  ASSUME NEW b, TermsOf(b.appointment)' = TermsOf(b.appointment), Employed(b)
  PROVE  Same(b)
  <1>1. /\ OwnerOf(b.appointment)' = OwnerOf(b.appointment)
        /\ Lasts(b.appointment, b.span)' = Lasts(b.appointment, b.span)
        /\ Covers(b.appointment, b.span)' = Covers(b.appointment, b.span)
        /\ UnitsOver(b.appointment, b.span)' = UnitsOver(b.appointment, b.span)
    BY DEF OwnerOf, Lasts, Covers, UnitsOver
  <1> QED
    BY <1>1 DEF Same, Employed, PeriodsFor

(* New appointments.                                                        *)
LEMMA NewTermsAreOthers ==
  ASSUME terms \subseteq terms', \A t \in terms' : t \in terms \/ TermsOf(t.appointment) = {},
         NEW b, Employed(b)
  PROVE  Same(b)
  <1>1. TermsOf(b.appointment) # {}
    BY DEF Employed, OwnerOf
  <1>2. TermsOf(b.appointment)' = TermsOf(b.appointment)
    BY <1>1 DEF TermsOf
  <1> QED
    BY <1>2, SameTerms

(* What a new term does: it ends the last one, the only one that lasts on.  *)
Ends(last, old, new, next) ==
  LET a == last.appointment IN
  /\ last \in TermsOf(a) /\ last.from < next.from /\ next.from < last.to
  /\ \A t \in TermsOf(a) : next.from < t.to => t = last
  /\ old = [last EXCEPT !.to = next.from]
  /\ new = [last EXCEPT !.unit = next.unit, !.from = next.from, !.to = next.to]
  /\ terms' = (terms \ {last}) \cup {old, new}

LEMMA WriteTermIs ==
  ASSUME IInv, NEW s \in Request, WriteTerm(s)
  PROVE  \E a, next, last, old, new :
           /\ a \in Appointment /\ next \in NextTerm
           /\ tx[s].job.appointment = a /\ tx[s].job.next = next /\ tx[s].job.units \subseteq Unit
           /\ last.appointment = a /\ Ends(last, old, new, next)
  <1>1. PICK a, next : a = tx[s].job.appointment /\ next = tx[s].job.next
    OBVIOUS
  <1>2. a \in Appointment /\ next \in NextTerm /\ tx[s].job.units \subseteq Unit
    BY <1>1, JobIs DEF WriteTerm, IInv, TypeOK
  <1>3. PICK last \in TermsOf(a) :
          /\ {t \in TermsOf(a) : next.from < t.to} = {last} /\ last.from < next.from
          /\ terms' = (terms \ {last}) \cup
               {[last EXCEPT !.to = next.from],
                [last EXCEPT !.unit = next.unit, !.from = next.from, !.to = next.to]}
    BY <1>1 DEF WriteTerm
  <1>4. last.appointment = a /\ next.from < last.to
    BY <1>3 DEF TermsOf
  <1>5. \A t \in TermsOf(a) : next.from < t.to => t = last
    BY <1>3
  <1>6. PICK old, new : /\ old = [last EXCEPT !.to = next.from]
                        /\ new = [last EXCEPT !.unit = next.unit, !.from = next.from, !.to = next.to]
    OBVIOUS
  <1>7. Ends(last, old, new, next)
    BY <1>3, <1>4, <1>5, <1>6 DEF Ends
  <1> QED
    BY <1>1, <1>2, <1>4, <1>7

LEMMA EndsIs ==
  ASSUME terms \subseteq Term, NEW next \in NextTerm, NEW last, NEW old, NEW new,
         Ends(last, old, new, next)
  PROVE  /\ last \in Term /\ last.from \in Nat /\ last.to \in Nat /\ last.to <= Never
         /\ next.from \in Nat /\ next.to \in Nat /\ next.from < next.to /\ next.to <= Never
         /\ old \in Term /\ new \in Term
         /\ old.appointment = last.appointment /\ new.appointment = last.appointment
         /\ old.person = last.person /\ new.person = last.person
         /\ old.start = last.start /\ new.start = last.start
         /\ old.end = last.end /\ new.end = last.end
         /\ old.unit = last.unit /\ new.unit = next.unit
         /\ old.from = last.from /\ old.to = next.from
         /\ new.from = next.from /\ new.to = next.to
         /\ TermsOf(last.appointment)' = (TermsOf(last.appointment) \ {last}) \cup {old, new}
  <1>1. last \in Term /\ last.from \in Nat /\ last.to \in Nat /\ last.to <= Never
    BY TermsAre DEF Ends, TermsOf
  <1>2. /\ next.from \in 0 .. Never /\ next.to \in 0 .. Never /\ next.unit \in Unit
        /\ next.from < next.to /\ Never \in Nat
    BY InputsAreValid, SpansAreIntervals
  <1>3. /\ old = [last EXCEPT !.to = next.from]
        /\ new = [last EXCEPT !.unit = next.unit, !.from = next.from, !.to = next.to]
        /\ terms' = (terms \ {last}) \cup {old, new}
    BY DEF Ends
  <1>4. /\ old.appointment = last.appointment /\ new.appointment = last.appointment
        /\ old.person = last.person /\ new.person = last.person
        /\ old.start = last.start /\ new.start = last.start
        /\ old.end = last.end /\ new.end = last.end
        /\ old.unit = last.unit /\ new.unit = next.unit
        /\ old.from = last.from /\ old.to = next.from
        /\ new.from = next.from /\ new.to = next.to
    BY <1>1, <1>3 DEF Term
  <1>5. old \in Term /\ new \in Term
    BY <1>1, <1>2, <1>3 DEF Term
  <1>6. TermsOf(last.appointment)' = (TermsOf(last.appointment) \ {last}) \cup {old, new}
    BY <1>3, <1>4 DEF TermsOf
  <1> QED
    BY <1>1, <1>2, <1>4, <1>5, <1>6

(* New terms of an appointment, from an instant that nothing reaches.       *)
LEMMA NextTermsAreLater ==
  ASSUME terms \subseteq Term, NEW next \in NextTerm, NEW last, NEW old, NEW new,
         Ends(last, old, new, next),
         NEW b, Employed(b), b.span \in Span,
         b.appointment = last.appointment => b.span.to <= next.from
  PROVE  Same(b)
  <1>1. PICK a : a = last.appointment
    OBVIOUS
  <1>2. CASE b.appointment # a
    <2>1. old.appointment = a /\ new.appointment = a
      BY <1>1, EndsIs
    <2>2. terms' = (terms \ {last}) \cup {old, new}
      BY DEF Ends
    <2>3. TermsOf(b.appointment)' = TermsOf(b.appointment)
      BY <1>1, <1>2, <2>1, <2>2 DEF TermsOf
    <2> QED
      BY <2>3, SameTerms
  <1>3. CASE b.appointment = a
    <2>1. PICK i \in Span : i = b.span
      OBVIOUS
    <2>2. i.from \in Nat /\ i.to \in Nat /\ i.from < i.to /\ Never \in Nat
      BY SpansAre
    <2>3. i.to <= next.from /\ next.from < last.to /\ last.from < next.from /\ last \in TermsOf(a)
      BY <1>1, <1>3, <2>1 DEF Ends
    <2>4. last.from \in Nat /\ last.to \in Nat /\ last.to <= Never /\ next.from \in Nat
      BY EndsIs
    <2>5. i.to # Never /\ Known(i) = i
      BY <2>2, <2>3, <2>4 DEF Known
    <2>6. /\ old.person = last.person /\ new.person = last.person /\ old.unit = last.unit
          /\ old.start = last.start /\ new.start = last.start
          /\ old.end = last.end /\ new.end = last.end
          /\ old.from = last.from /\ old.to = next.from /\ new.from = next.from
          /\ TermsOf(a)' = (TermsOf(a) \ {last}) \cup {old, new}
      BY <1>1, EndsIs
    <2>7. OwnerOf(a)' = OwnerOf(a)
      BY <2>3, <2>6 DEF OwnerOf
    <2>8. Lasts(a, i)'
      <3>1. \A t \in TermsOf(a) : t.start <= i.from /\ i.to <= t.end
        BY <1>3, <2>1, <2>5 DEF Employed, Lasts
      <3>2. \A t \in TermsOf(a)' : t.start <= i.from /\ i.to <= t.end
        BY <2>3, <2>6, <3>1
      <3> QED
        BY <2>5, <3>2 DEF Lasts
    <2>9. Covers(a, i)'
      <3>1. PICK t1 \in TermsOf(a), t2 \in TermsOf(a) : t1.from <= i.from /\ i.to <= t2.to
        BY <1>3, <2>1, <2>5 DEF Employed, Covers
      <3>2. \E t \in TermsOf(a)' : t.from <= i.from
        BY <2>3, <2>6, <3>1
      <3>3. \E t \in TermsOf(a)' : i.to <= t.to
        BY <2>3, <2>6, <3>1
      <3> QED
        BY <2>5, <3>2, <3>3 DEF Covers
    <2>10. (Overlap(old, i) <=> Overlap(last, i)) /\ ~ Overlap(new, i)
      BY <2>2, <2>3, <2>4, <2>6 DEF Overlap
    <2>11. UnitsOver(a, i)' = UnitsOver(a, i)
      <3>1. \A t \in TermsOf(a)' : Overlap(t, i) =>
              \E v \in TermsOf(a) : Overlap(v, i) /\ v.unit = t.unit
        BY <2>3, <2>6, <2>10
      <3>2. \A v \in TermsOf(a) : Overlap(v, i) =>
              \E t \in TermsOf(a)' : Overlap(t, i) /\ v.unit = t.unit
        BY <2>6, <2>10
      <3> QED
        BY <2>5, <3>1, <3>2 DEF UnitsOver
    <2> QED
      BY <1>3, <2>1, <2>7, <2>8, <2>9, <2>11 DEF Same, Employed, PeriodsFor
  <1> QED
    BY <1>2, <1>3

(* What a transaction relies on stays, when nobody touches what it holds.   *)
LEMMA EmploymentRests ==
  ASSUME NEW t, BookingRests(t), ImportRests(t),
         \A b \in Booking : Employed(b) /\ b.person \in t.holds => Same(b),
         locked' \cap t.holds \subseteq locked,
         \A c \in booking' : c \in booking \/ c.person \notin t.holds,
         Population \in t.holds => terms' = terms /\ locked' \subseteq locked
  PROVE  BookingRests(t)' /\ ImportRests(t)'
  <1>1. ASSUME NEW b, Fenced(b, t.holds) PROVE Fenced(b, t.holds)'
    BY <1>1 DEF Fenced, Same
  <1>2. ASSUME NEW x, x \in t.holds, NEW i, \A c \in OfPerson(x) : ~ Overlap(c.span, i)
        PROVE  \A c \in OfPerson(x)' : ~ Overlap(c.span, i)
    BY <1>2 DEF OfPerson
  <1>3. BookingRests(t)'
    <2>1. ASSUME t.op = "BOOK"
          PROVE  /\ Fenced(t.job, t.holds)' /\ t.job.source = "WEB"
                 /\ \A c \in OfPerson(t.job.person)' : ~ Overlap(c.span, t.job.span)
      <3>1. /\ Fenced(t.job, t.holds) /\ t.job.source = "WEB"
            /\ \A c \in OfPerson(t.job.person) : ~ Overlap(c.span, t.job.span)
        BY <2>1 DEF BookingRests
      <3>2. t.job.person \in t.holds
        BY <3>1 DEF Fenced
      <3> QED
        BY <1>1, <1>2, <3>1, <3>2
    <2>2. ASSUME t.op = "BATCH_LOCKED"
          PROVE  /\ t.job.terminal \in Terminal /\ t.job.batch \in Batch
                 /\ \A n \in DOMAIN t.job.batch : Fenced(EntryOf(t.job, n), t.holds)'
      BY <1>1, <2>2 DEF BookingRests
    <2> QED
      BY <2>1, <2>2 DEF BookingRests, EntryOf
  <1>4. ImportRests(t)'
    BY DEF ImportRests, NewPeople, Appointed
  <1> QED
    BY <1>3, <1>4

LEMMA EmploymentRestsStill ==
  ASSUME UNCHANGED records, NEW t, BookingRests(t), ImportRests(t)
  PROVE  BookingRests(t)' /\ ImportRests(t)'
  BY DEF records, BookingRests, ImportRests, Fenced, Employed, PeriodsFor, OwnerOf, Lasts, Covers,
         UnitsOver, TermsOf, OfPerson, NewPeople, Appointed

(* The same of people.                                                      *)
LEMMA PeopleRest ==
  ASSUME NEW t, ChangeRests(t), ReviewRests(t), DeliveryRests(t),
         \A x \in t.holds : field'[x] = field[x],
         \A c \in Change : \/ change'[c] = change[c]
                           \/ /\ change'[c].person \notin t.holds
                              /\ change[c].status = "NONE" \/ change[c].person \notin t.holds,
         \A e : e.source \in t.holds => (e \in external' <=> e \in external)
  PROVE  ChangeRests(t)' /\ ReviewRests(t)' /\ DeliveryRests(t)'
  <1>1. ChangeRests(t)'
    BY DEF ChangeRests, PendingOf
  <1>2. ReviewRests(t)'
    BY DEF ReviewRests
  <1>3. DeliveryRests(t)'
    BY DEF DeliveryRests, RecordOf, Binding
  <1> QED
    BY <1>1, <1>2, <1>3

LEMMA PeopleRestStill ==
  ASSUME UNCHANGED <<field, change, external>>, NEW t, ChangeRests(t), ReviewRests(t), DeliveryRests(t)
  PROVE  ChangeRests(t)' /\ ReviewRests(t)' /\ DeliveryRests(t)'
  BY DEF ChangeRests, ReviewRests, DeliveryRests, PendingOf, RecordOf, Binding

-----------------------------------------------------------------------------
(* What is written.                                                         *)

Others(s) ==
  /\ tx'[s] = Idle
  /\ \A q \in Request \ {s} : tx'[q] = tx[q] /\ tx[q].holds \cap tx[s].holds = {}

LEMMA CommitsAre ==
  ASSUME IInv, NEW s \in Request, Commits(s)
  PROVE  /\ Others(s) /\ Exclusive' /\ written' = written + 1 /\ written' \in 0 .. MaxWrites
         /\ written \in Nat
  <1>1. written \in 0 .. MaxWrites /\ MaxWrites \in Nat /\ Exclusive
    BY InputsAreValid DEF IInv, TypeOK, EmploymentTypeOK
  <1>2. /\ tx'[s] = Idle /\ (\A q \in Request \ {s} : tx'[q] = tx[q]) /\ Exclusive'
    BY <1>1, IdleIs DEF Commits
  <1> QED
    BY <1>1, <1>2 DEF Commits, Others, Exclusive

(* The rows are sound, and every other transaction still rests on what it   *)
(* has read.                                                                *)
LEMMA WriteKeeps ==
  ASSUME IInv, Exclusive', EmploymentTypeOK', receipt' \subseteq Terminal \X Batch, PersonnelTypeOK',
         \A b \in booking' : Employed(b)',
         \A x \in Person : NameAgrees(x)',
         ChangesAgree',
         \A q \in Request : tx'[q] = Idle \/ tx'[q] = tx[q],
         \A q \in Request : \A t : tx[q] = t /\ tx'[q] = t /\ t # Idle => Rests(t)'
  PROVE  IInv'
  <1>1. Rests(Idle)'
    BY DEF Rests, BookingRests, ImportRests, ChangeRests, ReviewRests, DeliveryRests, Idle
  <1>2. ASSUME NEW q \in Request PROVE JobOK(tx'[q]) /\ tx'[q].holds \subseteq LockKey /\ Rests(tx[q])'
    <2>1. PICK t : t = tx'[q]
      OBVIOUS
    <2>2. JobOK(t) /\ t.holds \subseteq LockKey
      BY <2>1, IdleRests DEF IInv, TypeOK
    <2>3. Rests(t)'
      BY <1>1, <2>1
    <2> QED
      BY <2>1, <2>2, <2>3
  <1>3. TypeOK'
    BY <1>2 DEF TypeOK, JobOK
  <1> QED
    BY <1>2, <1>3 DEF IInv

(* Only what is recorded of employment is written.                          *)
LEMMA EmploymentKeeps ==
  ASSUME IInv, UNCHANGED personnel, Exclusive', EmploymentTypeOK',
         receipt' \subseteq Terminal \X Batch, written' \in Nat, written <= written',
         \A b \in booking' : Employed(b)',
         \A q \in Request : tx'[q] = Idle \/ tx'[q] = tx[q],
         \A q \in Request : tx'[q] = tx[q] /\ tx[q] # Idle =>
           /\ \A b \in Booking : Employed(b) /\ b.person \in tx[q].holds => Same(b)
           /\ locked' \cap tx[q].holds \subseteq locked
           /\ \A c \in booking' : c \in booking \/ c.person \notin tx[q].holds
           /\ Population \in tx[q].holds => terms' = terms /\ locked' \subseteq locked
  PROVE  IInv'
  <1>1. /\ PersonnelTypeOK' /\ ChangesAgree' /\ \A x \in Person : NameAgrees(x)'
    <2>1. PersonnelTypeOK' /\ ChangesAgree'
      BY DEF IInv, TypeOK, personnel, PersonnelTypeOK, ChangesAgree
    <2>2. ASSUME NEW x \in Person PROVE NameAgrees(x)'
      <3>1. field[x].revision \in Nat /\ written \in Nat /\ NameAgrees(x)
        BY InputsAreValid DEF IInv, TypeOK, PersonnelTypeOK, EmploymentTypeOK
      <3> QED
        BY <3>1 DEF NameAgrees, personnel
    <2> QED
      BY <2>1, <2>2
  <1>2. ASSUME NEW q \in Request, NEW t, tx[q] = t, tx'[q] = t, t # Idle PROVE Rests(t)'
    <2>1. Rests(t)
      BY <1>2 DEF IInv
    <2>2. BookingRests(t)' /\ ImportRests(t)'
      BY <1>2, <2>1, EmploymentRests DEF Rests
    <2>3. ChangeRests(t)' /\ ReviewRests(t)' /\ DeliveryRests(t)'
      BY <2>1, PeopleRestStill DEF Rests, personnel
    <2> QED
      BY <2>2, <2>3 DEF Rests
  <1> QED
    BY <1>1, <1>2, WriteKeeps

LEMMA CreateAppointmentKeeps ==
  ASSUME IInv, NEW a \in Appointment, NEW new \in NewTerm, CreateAppointment(a, new),
         UNCHANGED <<receipt, personnel>>
  PROVE  IInv' /\ \A b \in booking : Same(b)
  <1>1. PICK row : /\ row = [appointment |-> a, person |-> new.person, start |-> new.start,
                             end |-> new.end, unit |-> new.unit, from |-> new.from,
                             to |-> new.to, legacy |-> FALSE]
                   /\ terms' = terms \cup {row}
    BY DEF CreateAppointment
  <1>2. row \in Term /\ row.appointment = a
    BY <1>1, InputsAreValid, SpansAreIntervals DEF Term
  <1>3. /\ TermsOf(a) = {} /\ Free({Population}) /\ written' = written + 1 /\ written < MaxWrites
        /\ UNCHANGED <<booking, approved, locked, tx>>
    BY DEF CreateAppointment, Free
  <1>4. \A b : Employed(b) => Same(b)
    BY <1>1, <1>2, <1>3, NewTermsAreOthers
  <1>5. written \in Nat /\ written' \in 0 .. MaxWrites
    BY <1>3, InputsAreValid DEF IInv, TypeOK, EmploymentTypeOK
  <1>6. EmploymentTypeOK' /\ receipt' \subseteq Terminal \X Batch /\ Exclusive'
    BY <1>1, <1>2, <1>3, <1>5 DEF IInv, TypeOK, EmploymentTypeOK, Exclusive
  <1>7. \A b \in booking : Same(b)
    BY <1>4 DEF IInv
  <1>8. \A b \in booking' : Employed(b)'
    BY <1>3, <1>7 DEF Same
  <1>9. \A q \in Request : Population \notin tx[q].holds
    BY <1>3 DEF Free
  <1> QED
    BY <1>3, <1>4, <1>5, <1>6, <1>7, <1>8, <1>9, EmploymentKeeps

LEMMA WriteTermKeeps ==
  ASSUME IInv, NEW s \in Request, WriteTerm(s), UNCHANGED <<receipt, personnel>>
  PROVE  IInv' /\ \A b \in booking : Same(b)
  <1>1. PICK a, next, last, old, new :
          /\ a \in Appointment /\ next \in NextTerm
          /\ tx[s].job.appointment = a /\ tx[s].job.next = next
          /\ last.appointment = a /\ Ends(last, old, new, next)
    BY WriteTermIs
  <1>2. /\ Free(OwnerOf(a) \cup {Population}) /\ ~ Reaches(a, next.from)
        /\ Commits(s) /\ UNCHANGED <<booking, approved, locked>>
    BY <1>1 DEF WriteTerm, Free
  <1>3. terms \subseteq Term /\ booking \subseteq Booking
    BY DEF IInv, TypeOK, EmploymentTypeOK
  <1>4. /\ old \in Term /\ new \in Term /\ next.from \in Nat
        /\ terms' = (terms \ {last}) \cup {old, new}
    <2>1. old \in Term /\ new \in Term /\ next.from \in Nat
      BY <1>1, <1>3, EndsIs
    <2> QED
      BY <1>1, <2>1 DEF Ends
  <1>5. \A b \in booking : Same(b)
    <2>1. TAKE b \in booking
    <2>2. b \in Booking /\ Employed(b) /\ b.span \in Span
      BY <1>3, BookingsAre DEF IInv
    <2>3. b.appointment = last.appointment => b.span.to <= next.from
      BY <1>1, <1>2, <1>4, <2>2, SpansAre DEF Reaches
    <2> QED
      BY <1>1, <1>3, <2>2, <2>3, NextTermsAreLater
  <1>6. ASSUME NEW q \in Request, NEW b \in Booking, Employed(b), b.person \in tx[q].holds
        PROVE  Same(b)
    <2>1. b.appointment # last.appointment
      BY <1>1, <1>2, <1>6 DEF Free, Employed
    <2>2. b.span \in Span
      BY BookingsAre
    <2> QED
      BY <1>1, <1>3, <1>6, <2>1, <2>2, NextTermsAreLater
  <1>7. /\ Others(s) /\ Exclusive' /\ written' = written + 1 /\ written' \in 0 .. MaxWrites
        /\ written \in Nat /\ written' \in Nat
    BY <1>2, CommitsAre
  <1>8. EmploymentTypeOK' /\ receipt' \subseteq Terminal \X Batch
    BY <1>2, <1>4, <1>7 DEF IInv, TypeOK, EmploymentTypeOK
  <1>9. \A b \in booking' : Employed(b)'
    BY <1>2, <1>5 DEF Same
  <1>10. \A q \in Request : /\ Population \notin tx[q].holds
                            /\ tx'[q] = Idle \/ tx'[q] = tx[q]
    BY <1>2, <1>7 DEF Free, Others
  <1> QED
    BY <1>2, <1>5, <1>6, <1>7, <1>8, <1>9, <1>10, EmploymentKeeps

LEMMA UnchangedTermsAreSame ==
  ASSUME IInv, terms' = terms, NEW b, Employed(b)
  PROVE  Same(b)
  BY SameTerms DEF TermsOf

LEMMA ApproveLeaveKeeps ==
  ASSUME IInv, NEW l \in Leave, ApproveLeave(l), UNCHANGED <<receipt, personnel>>
  PROVE  IInv'
  <1>1. /\ written' = written + 1 /\ written < MaxWrites /\ approved' = approved \cup {l}
        /\ UNCHANGED <<terms, booking, locked, tx>>
    BY DEF ApproveLeave
  <1>2. written \in Nat /\ written' \in 0 .. MaxWrites
    BY <1>1, InputsAreValid DEF IInv, TypeOK, EmploymentTypeOK
  <1>3. EmploymentTypeOK' /\ receipt' \subseteq Terminal \X Batch /\ Exclusive'
    BY <1>1, <1>2 DEF IInv, TypeOK, EmploymentTypeOK, Exclusive
  <1>4. \A b : Employed(b) => Same(b)
    BY <1>1, UnchangedTermsAreSame
  <1>5. \A b \in booking' : Employed(b)'
    BY <1>1, <1>4 DEF IInv, Same
  <1> QED
    BY <1>1, <1>2, <1>3, <1>4, <1>5, EmploymentKeeps

LEMMA MovePeriodKeeps ==
  ASSUME IInv, NEW p \in Period, MovePeriod(p), UNCHANGED <<receipt, personnel>>
  PROVE  IInv'
  <1>1. /\ UNCHANGED <<terms, booking, approved, written, tx>>
        /\ \/ locked' = locked \ {p}
           \/ locked' = locked \cup {p} /\ Free({p, Population})
    BY DEF MovePeriod
  <1>2. written \in Nat
    BY DEF IInv, TypeOK, EmploymentTypeOK
  <1>3. EmploymentTypeOK' /\ receipt' \subseteq Terminal \X Batch /\ Exclusive'
    BY <1>1 DEF IInv, TypeOK, EmploymentTypeOK, Exclusive
  <1>4. \A b : Employed(b) => Same(b)
    BY <1>1, UnchangedTermsAreSame
  <1>5. \A b \in booking' : Employed(b)'
    BY <1>1, <1>4 DEF IInv, Same
  <1>6. \A q \in Request : /\ locked' \cap tx[q].holds \subseteq locked
                           /\ Population \in tx[q].holds => locked' \subseteq locked
    BY <1>1 DEF Free
  <1> QED
    BY <1>1, <1>2, <1>3, <1>4, <1>5, <1>6, EmploymentKeeps

-----------------------------------------------------------------------------
(* Bookings are written by who holds the locks of their people.             *)

LEMMA BookingsAdded ==
  ASSUME IInv, NEW s \in Request, Commits(s), UNCHANGED <<terms, approved, locked>>,
         UNCHANGED personnel, receipt' \subseteq Terminal \X Batch,
         NEW more, booking' = booking \cup more,
         \A b \in more : b \in Booking /\ Employed(b) /\ b.person \in tx[s].holds
  PROVE  IInv'
  <1>1. /\ Others(s) /\ Exclusive' /\ written' = written + 1 /\ written' \in 0 .. MaxWrites
        /\ written \in Nat /\ written' \in Nat /\ written <= written'
    BY CommitsAre
  <1>2. EmploymentTypeOK'
    BY <1>1 DEF IInv, TypeOK, EmploymentTypeOK
  <1>3. \A b : Employed(b) => Same(b)
    BY UnchangedTermsAreSame
  <1>4. \A b \in booking' : Employed(b)'
    BY <1>3 DEF IInv, Same
  <1>5. \A q \in Request : tx'[q] = Idle \/ tx'[q] = tx[q]
    BY <1>1 DEF Others
  <1>6. ASSUME NEW q \in Request, tx'[q] = tx[q], tx[q] # Idle
        PROVE  \A c \in booking' : c \in booking \/ c.person \notin tx[q].holds
    BY <1>1, <1>6 DEF Others
  <1> QED
    BY <1>1, <1>2, <1>3, <1>4, <1>5, <1>6, EmploymentKeeps

LEMMA WriteBookingKeeps ==
  ASSUME IInv, NEW s \in Request, WriteBooking(s), UNCHANGED <<receipt, personnel>>
  PROVE  IInv'
  <1>1. Fenced(tx[s].job, tx[s].holds)
    BY DEF WriteBooking, IInv, Rests, BookingRests
  <1>2. PICK more : more = {tx[s].job}
    OBVIOUS
  <1>3. /\ Commits(s) /\ UNCHANGED <<terms, approved, locked>> /\ booking' = booking \cup more
        /\ receipt' \subseteq Terminal \X Batch
    BY <1>2 DEF WriteBooking, IInv, TypeOK
  <1> QED
    BY <1>1, <1>2, <1>3, BookingsAdded DEF Fenced

(* Among naturals there is a least one, and so, one record after the other, *)
(* it can be told which are accepted: those that fit and are no conflict    *)
(* for any that was accepted before.                                        *)
LEMMA LeastNatural ==
  ASSUME NEW T \in SUBSET Nat, T # {}
  PROVE  \E n \in T : \A m \in T : n <= m
  <1>1. PICK below : below = {0 .. n : n \in T}
    OBVIOUS
  <1>2. \A c \in below : c \in SUBSET Nat /\ IsFiniteSet(c)
    <2>1. \A n \in T : IsFiniteSet(0 .. n) /\ 0 .. n \subseteq Nat
      BY FS_Interval
    <2> QED
      BY <1>1, <2>1
  <1>3. below \subseteq FiniteSubsetsOf(Nat) /\ below # {}
    BY <1>1, <1>2, Zenon DEF FiniteSubsetsOf
  <1>4. IsWellFoundedOn(StrictSubsetOrdering(Nat), FiniteSubsetsOf(Nat))
    BY FS_StrictSubsetOrderingWellFounded, Zenon
  <1>5. PICK b \in below : \A c \in below : <<c, b>> \notin StrictSubsetOrdering(Nat)
    BY <1>3, <1>4, WFMin, Zenon
  <1>6. \A c \in below : ~ (c \subseteq b /\ c # b)
    BY <1>2, <1>5, Zenon DEF StrictSubsetOrdering
  <1>7. PICK n \in T : b = 0 .. n
    BY <1>1, <1>5
  <1>8. ASSUME NEW m \in T, m < n PROVE FALSE
    <2>1. 0 .. m \in below
      BY <1>1
    <2>2. 0 .. m \subseteq 0 .. n
      BY <1>8
    <2>3. n \in 0 .. n /\ n \notin 0 .. m
      BY <1>8
    <2> QED
      BY <1>6, <1>7, <2>1, <2>2, <2>3
  <1> QED
    BY <1>8

Chosen(A, k, F, R) ==
  \A n \in 1 .. k : n \in A <=> n \in F /\ \A m \in A : <<m, n>> \notin R

LEMMA OneByOne ==
  ASSUME NEW N \in Nat, NEW F, NEW R, \A m, n \in Nat : <<m, n>> \in R => m < n
  PROVE  \E A \in SUBSET (1 .. N) : Chosen(A, N, F, R)
  <1>1. PICK T : T = {k \in Nat : ~ \E A \in SUBSET (1 .. k) : Chosen(A, k, F, R)}
    OBVIOUS
  <1>2. SUFFICES T = {}
    BY <1>1
  <1>3. SUFFICES ASSUME T # {} PROVE FALSE
    OBVIOUS
  <1>4. T \in SUBSET Nat
    BY <1>1
  <1>5. PICK k \in T : \A j \in T : k <= j
    BY <1>3, <1>4, LeastNatural
  <1>6. k \in Nat /\ ~ \E A \in SUBSET (1 .. k) : Chosen(A, k, F, R)
    BY <1>1, <1>5
  <1>7. k # 0
    <2>1. Chosen({}, 0, F, R) /\ {} \in SUBSET (1 .. 0)
      BY DEF Chosen
    <2> QED
      BY <1>6, <2>1
  <1>8. PICK j \in Nat : j + 1 = k
    BY <1>6, <1>7
  <1>9. j \notin T
    BY <1>5, <1>8
  <1>10. PICK A \in SUBSET (1 .. j) : Chosen(A, j, F, R)
    BY <1>1, <1>9
  <1>11. PICK B : B = IF k \in F /\ \A m \in A : <<m, k>> \notin R THEN A \cup {k} ELSE A
    OBVIOUS
  <1>12. B \in SUBSET (1 .. k) /\ k \notin A /\ A \subseteq Nat
    <2>1. A \subseteq 1 .. k /\ k \notin A /\ k \in 1 .. k
      BY <1>6, <1>8
    <2>2. B \subseteq A \cup {k}
      BY <1>11
    <2> QED
      BY <2>1, <2>2
  <1>13. Chosen(B, k, F, R)
    <2>1. ASSUME NEW n \in 1 .. k
          PROVE  n \in B <=> n \in F /\ \A m \in B : <<m, n>> \notin R
      <3>1. <<k, n>> \notin R
        BY <1>6, <2>1
      <3>2. (\A m \in B : <<m, n>> \notin R) <=> (\A m \in A : <<m, n>> \notin R)
        BY <1>11, <3>1
      <3>3. CASE n = k
        BY <1>11, <1>12, <3>2, <3>3
      <3>4. CASE n # k
        <4>1. n \in 1 .. j
          BY <1>8, <2>1, <3>4
        <4>2. n \in B <=> n \in A
          BY <1>11, <3>4
        <4> QED
          BY <1>10, <3>2, <4>1, <4>2 DEF Chosen
      <3> QED
        BY <3>3, <3>4
    <2> QED
      BY <2>1 DEF Chosen
  <1> QED
    BY <1>6, <1>12, <1>13

LEMMA AcceptedIs ==
  ASSUME NEW b \in Batch
  PROVE  /\ Accepted(b) \subseteq DOMAIN b
         /\ \A n \in DOMAIN b :
              n \in Accepted(b) <=>
                /\ Fits(b[n])
                /\ \A m \in Accepted(b) :
                     m < n /\ b[m].person = b[n].person => ~ Overlap(b[m].span, b[n].span)
  <1>1. PICK N \in Nat : DOMAIN b = 1 .. N
    BY BatchesAre
  <1>2. PICK F : F = {n \in 1 .. N : Fits(b[n])}
    OBVIOUS
  <1>3. PICK R : R = {p \in (1 .. N) \X (1 .. N) : /\ p[1] < p[2] /\ b[p[1]].person = b[p[2]].person
                                                   /\ Overlap(b[p[1]].span, b[p[2]].span)}
    OBVIOUS
  <1>4. \A m, n \in Nat : <<m, n>> \in R => m < n
    BY <1>3
  <1>5. PICK A \in SUBSET (1 .. N) : Chosen(A, N, F, R)
    BY <1>4, OneByOne
  <1>6. \A n \in DOMAIN b : n \in A <=>
          /\ Fits(b[n])
          /\ \A m \in A : m < n /\ b[m].person = b[n].person => ~ Overlap(b[m].span, b[n].span)
    <2>1. TAKE n \in DOMAIN b
    <2>2. n \in F <=> Fits(b[n])
      BY <1>1, <1>2
    <2>3. \A m \in A : <<m, n>> \in R <=>
            m < n /\ b[m].person = b[n].person /\ Overlap(b[m].span, b[n].span)
      BY <1>1, <1>3
    <2> QED
      BY <1>1, <1>5, <2>2, <2>3 DEF Chosen
  <1>7. A \in SUBSET DOMAIN b
    BY <1>1
  <1> QED
    BY <1>6, <1>7 DEF Accepted

LEMMA WriteBatchKeeps ==
  ASSUME IInv, NEW s \in Request, WriteBatch(s), UNCHANGED personnel
  PROVE  IInv'
  <1>1. PICK t, job, b : t = tx[s] /\ job = t.job /\ b = job.batch
    OBVIOUS
  <1>2. /\ job.terminal \in Terminal /\ b \in Batch
        /\ \A n \in DOMAIN b : Fenced(EntryOf(job, n), t.holds)
    BY <1>1 DEF WriteBatch, IInv, Rests, BookingRests
  <1>3. PICK more : more = {EntryOf(job, n) : n \in Accepted(b)}
    OBVIOUS
  <1>4. /\ Commits(s) /\ UNCHANGED <<terms, approved, locked>> /\ booking' = booking \cup more
        /\ receipt' = receipt \cup {<<job.terminal, b>>}
    BY <1>1, <1>3 DEF WriteBatch, EntryOf
  <1>5. receipt' \subseteq Terminal \X Batch
    BY <1>2, <1>4 DEF IInv, TypeOK
  <1>6. \A e \in more : e \in Booking /\ Employed(e) /\ e.person \in tx[s].holds
    BY <1>1, <1>2, <1>3, AcceptedIs DEF Fenced
  <1> QED
    BY <1>4, <1>5, <1>6, BookingsAdded

-----------------------------------------------------------------------------
(* What is known about people is written by who holds their lock.           *)

(* Only what is recorded of people is written.                              *)
LEMMA PersonnelKeeps ==
  ASSUME IInv, NEW s \in Request, Commits(s), UNCHANGED <<records, receipt>>, PersonnelTypeOK',
         \A x \in Person : NameAgrees(x)',
         ChangesAgree',
         \A q \in Request \ {s} :
           /\ \A x \in tx[q].holds : field'[x] = field[x]
           /\ \A c \in Change :
                \/ change'[c] = change[c]
                \/ /\ change'[c].person \notin tx[q].holds
                   /\ change[c].status = "NONE" \/ change[c].person \notin tx[q].holds
           /\ \A e : e.source \in tx[q].holds => (e \in external' <=> e \in external)
  PROVE  IInv'
  <1>1. /\ Others(s) /\ Exclusive' /\ written' = written + 1 /\ written' \in 0 .. MaxWrites
    BY CommitsAre
  <1>2. EmploymentTypeOK' /\ receipt' \subseteq Terminal \X Batch
    BY <1>1 DEF IInv, TypeOK, EmploymentTypeOK, records
  <1>3. \A b \in booking' : Employed(b)'
    BY DEF IInv, records, Employed, OwnerOf, Lasts, Covers, UnitsOver, TermsOf
  <1>4. \A q \in Request : tx'[q] = Idle \/ tx'[q] = tx[q]
    BY <1>1 DEF Others
  <1>5. ASSUME NEW q \in Request, NEW t, tx[q] = t, tx'[q] = t, t # Idle PROVE Rests(t)'
    <2>1. Rests(t) /\ q \in Request \ {s}
      BY <1>1, <1>5 DEF IInv, Others
    <2>2. BookingRests(t)' /\ ImportRests(t)'
      BY <2>1, EmploymentRestsStill DEF Rests
    <2>3. ChangeRests(t)' /\ ReviewRests(t)' /\ DeliveryRests(t)'
      BY <1>5, <2>1, PeopleRest DEF Rests
    <2> QED
      BY <2>2, <2>3 DEF Rests
  <1> QED
    BY <1>1, <1>2, <1>3, <1>4, <1>5, WriteKeeps

LEMMA NamesAre ==
  ASSUME IInv, NEW x \in Person
  PROVE  /\ NameAgrees(x) /\ field[x].revision \in Nat /\ written \in Nat
         /\ field[x] \in [value : Name \cup {None}, revision : 0 .. MaxWrites + 1,
                          owner : Source \cup {None}]
         /\ field[x].revision <= written + 1
  <1>1. NameAgrees(x) /\ written \in 0 .. MaxWrites /\ MaxWrites \in Nat
    BY InputsAreValid DEF IInv, TypeOK, EmploymentTypeOK
  <1>2. field[x] \in [value : Name \cup {None}, revision : 0 .. MaxWrites + 1,
                      owner : Source \cup {None}]
    BY DEF IInv, TypeOK, PersonnelTypeOK
  <1> QED
    BY <1>1, <1>2 DEF NameAgrees

(* What is not touched agrees as before.                                    *)
LEMMA NameStillAgrees ==
  ASSUME IInv, NEW x \in Person, field'[x] = field[x], name'[x] = name[x], written' \in Nat,
         written <= written',
         \A e \in external : e.person = x /\ e.source = field[x].owner => e \in external'
  PROVE  NameAgrees(x)'
  BY NamesAre DEF NameAgrees

LEMMA WriteChangeKeeps ==
  ASSUME IInv, NEW s \in Request, WriteChange(s), UNCHANGED receipt
  PROVE  IInv'
  <1>1. PICK t, job, x : t = tx[s] /\ job = t.job /\ x = job.person
    OBVIOUS
  <1>2. t.op = "ASK_CHECKED" /\ JobOK(t) /\ ChangeRests(t) /\ Commits(s)
    BY <1>1 DEF WriteChange, IInv, TypeOK, Rests
  <1>3. /\ job \in [person : Person, value : Name, expected : 0 .. MaxWrites + 1]
        /\ x \in t.holds /\ PendingOf(x) = {} /\ x \in Person
    BY <1>1, <1>2, JobIs DEF ChangeRests
  <1>4. PICK c, row :
          /\ c \in Change /\ change[c].status = "NONE"
          /\ row = [status |-> "PENDING_APPROVAL", person |-> x, value |-> job.value,
                    expected |-> job.expected, owner |-> field[x].owner]
          /\ change' = [change EXCEPT ![c] = row]
    BY <1>1 DEF WriteChange
  <1>5. UNCHANGED <<records, home, name, field, outbox, external>>
    BY DEF WriteChange
  <1>6. /\ row \in [status : Pending \cup ReviewOutcome \cup {"NONE"}, person : Person \cup {None},
                    value : Name \cup {None}, expected : 0 .. MaxWrites + 1,
                    owner : Source \cup {None}]
        /\ row.status = "PENDING_APPROVAL" /\ row.person = x
    BY <1>3, <1>4, NamesAre DEF Pending
  <1>7. /\ change'[c] = row /\ \A e \in Change \ {c} : change'[e] = change[e]
    BY <1>4 DEF IInv, TypeOK, PersonnelTypeOK
  <1>8. PersonnelTypeOK'
    BY <1>4, <1>5, <1>6 DEF IInv, TypeOK, PersonnelTypeOK
  <1>9. \A y \in Person : NameAgrees(y)'
    BY <1>2, <1>5, CommitsAre, NameStillAgrees
  <1>10. ChangesAgree'
    <2>1. ChangesAgree
      BY DEF IInv
    <2>2. \A e \in Change : e # c /\ change[e].status \in Pending => change[e].person # x
      BY <1>3 DEF PendingOf
    <2>3. outbox'[c] # "PENDING_SYNC" /\ row.status \in Pending /\ row.status # "PENDING_SYNC"
      BY <1>4, <1>5, <1>6, <2>1 DEF ChangesAgree, Pending
    <2> QED
      BY <1>3, <1>5, <1>6, <1>7, <2>1, <2>2, <2>3 DEF ChangesAgree
  <1>11. \A q \in Request \ {s} : x \notin tx[q].holds
    BY <1>1, <1>2, <1>3, CommitsAre DEF Others
  <1> QED
    BY <1>2, <1>4, <1>5, <1>6, <1>7, <1>8, <1>9, <1>10, <1>11, PersonnelKeeps

(* A request for a change takes a status, and requests agree as before, when*)
(* none becomes pending again.                                              *)
ChangeRow ==
  [status : Pending \cup ReviewOutcome \cup {"NONE"}, person : Person \cup {None},
   value : Name \cup {None}, expected : 0 .. MaxWrites + 1, owner : Source \cup {None}]

LEMMA StatusIs ==
  ASSUME NEW row \in ChangeRow, NEW status \in ReviewOutcome,
         NEW next, next = [row EXCEPT !.status = status]
  PROVE  next \in ChangeRow /\ next.status = status /\ next.person = row.person
  BY DEF ChangeRow

LEMMA ChangesStillAgree ==
  ASSUME ChangesAgree,
         \A c \in Change :
           /\ change'[c].person = change[c].person
           /\ change'[c].status \in Pending => change[c].status \in Pending
           /\ change'[c].status # "NONE" => change[c].status # "NONE"
           /\ outbox'[c] = "PENDING_SYNC" <=> change'[c].status = "PENDING_SYNC"
  PROVE  ChangesAgree'
  <1>1. \A c \in Change : change'[c].status # "NONE" => change'[c].person \in Person
    BY DEF ChangesAgree
  <1>2. ASSUME NEW c \in Change, NEW e \in Change,
               change'[c].status \in Pending, change'[e].status \in Pending,
               change'[c].person = change'[e].person
        PROVE  c = e
    <2>1. /\ change[c].status \in Pending /\ change[e].status \in Pending
          /\ change[c].person = change[e].person
      BY <1>2
    <2> QED
      BY <2>1 DEF ChangesAgree
  <1>3. \A c, e \in Change :
          /\ change'[c].status \in Pending /\ change'[e].status \in Pending
          /\ change'[c].person = change'[e].person
          => c = e
    BY <1>2
  <1>4. \A c \in Change : outbox'[c] = "PENDING_SYNC" <=> change'[c].status = "PENDING_SYNC"
    OBVIOUS
  <1> QED
    BY <1>1, <1>3, <1>4 DEF ChangesAgree

LEMMA SetsIs ==
  ASSUME IInv, NEW x \in Person, NEW v \in Name \cup {None}, NEW o \in Source \cup {None},
         NEW f, f = Sets(field[x], v, o), written < MaxWrites
  PROVE  /\ f \in [value : Name \cup {None}, revision : 0 .. MaxWrites + 1,
                   owner : Source \cup {None}]
         /\ f.value = v /\ f.revision > 0 /\ f.revision <= written + 2 /\ f.revision \in Nat
         /\ f.owner = IF field[x].revision = 0 THEN o ELSE field[x].owner
  <1>1. /\ field[x].revision \in Nat /\ written \in Nat /\ field[x].revision <= written + 1
        /\ field[x].owner \in Source \cup {None}
    BY NamesAre
  <1>2. /\ f = [value |-> v, revision |-> field[x].revision + 1,
                owner |-> IF field[x].revision = 0 THEN o ELSE field[x].owner]
    BY DEF Sets
  <1>3. field[x].revision + 1 \in 0 .. MaxWrites + 1 /\ MaxWrites \in Nat
    BY <1>1, InputsAreValid
  <1> QED
    BY <1>1, <1>2, <1>3

LEMMA WriteReviewKeeps ==
  ASSUME IInv, NEW s \in Request, WriteReview(s), UNCHANGED receipt
  PROVE  IInv'
  <1>1. PICK t, c, status, x :
          t = tx[s] /\ c = t.job.change /\ status = t.job.status /\ x = change[c].person
    OBVIOUS
  <1>2. /\ t.op = "REVIEW" /\ ReviewRests(t) /\ Commits(s) /\ written < MaxWrites
    BY <1>1 DEF WriteReview, Commits, IInv, Rests
  <1>3. /\ c \in Change /\ status \in ReviewOutcome /\ x \in t.holds
        /\ change[c].status = "PENDING_APPROVAL"
        /\ status = "APPLIED" => field[x].owner = None
    BY <1>1, <1>2 DEF ReviewRests
  <1>4. x \in Person /\ ChangesAgree
    BY <1>1, <1>3 DEF IInv, ChangesAgree
  <1>5. /\ change' = [change EXCEPT ![c].status = status]
        /\ field' = IF status = "APPLIED"
                    THEN [field EXCEPT ![x] = Sets(field[x], change[c].value, None)] ELSE field
        /\ name' = IF status = "APPLIED" THEN [name EXCEPT ![x] = change[c].value] ELSE name
        /\ outbox' = IF status = "PENDING_SYNC" THEN [outbox EXCEPT ![c] = "PENDING_SYNC"] ELSE outbox
        /\ UNCHANGED <<records, home, external>>
    BY <1>1 DEF WriteReview
  <1>6. change[c].value \in Name \cup {None}
    BY <1>3 DEF IInv, TypeOK, PersonnelTypeOK
  <1>7. PICK f, v, o : f = Sets(field[x], v, o) /\ v = change[c].value /\ o = None
    OBVIOUS
  <1>8. /\ f \in [value : Name \cup {None}, revision : 0 .. MaxWrites + 1,
                   owner : Source \cup {None}]
        /\ f.value = v /\ f.revision > 0 /\ f.revision <= written + 2
        /\ f.owner = IF field[x].revision = 0 THEN o ELSE field[x].owner
    <2>1. v \in Name \cup {None}
      BY <1>6, <1>7
    <2>2. o \in Source \cup {None}
      BY <1>7
    <2>3. f = Sets(field[x], v, o) /\ x \in Person /\ written < MaxWrites
      BY <1>2, <1>4, <1>7
    <2>4. IInv
      OBVIOUS
    <2> QED
      BY <2>1, <2>2, <2>3, <2>4, SetsIs, SMTT(60)
  <1>9. /\ change'[c].status = status /\ change'[c].person = x /\ change'[c].person = change[c].person
        /\ \A e \in Change \ {c} : change'[e] = change[e]
    BY <1>1, <1>3, <1>5 DEF IInv, TypeOK, PersonnelTypeOK
  <1>10. PersonnelTypeOK'
    <2>1. change' \in [Change -> [status : Pending \cup ReviewOutcome \cup {"NONE"},
                            person : Person \cup {None}, value : Name \cup {None},
                            expected : 0 .. MaxWrites + 1, owner : Source \cup {None}]]
      <3>1. change \in [Change -> ChangeRow]
        BY DEF IInv, TypeOK, PersonnelTypeOK, ChangeRow
      <3>2. [change[c] EXCEPT !.status = status] \in ChangeRow
        BY <1>3, <3>1, StatusIs
      <3>3. change' \in [Change -> ChangeRow]
        BY <1>3, <1>5, <3>1, <3>2
      <3> QED
        BY <3>3 DEF ChangeRow
    <2>2. field' \in [Person -> [value : Name \cup {None}, revision : 0 .. MaxWrites + 1,
                                 owner : Source \cup {None}]]
      BY <1>4, <1>5, <1>7, <1>8 DEF IInv, TypeOK, PersonnelTypeOK
    <2>3. name' \in [Person -> Name \cup {None}]
      BY <1>4, <1>5, <1>6 DEF IInv, TypeOK, PersonnelTypeOK
    <2>4. outbox' \in [Change -> {"NONE", "PENDING_SYNC", "APPLIED", "CONFLICT"}]
      BY <1>3, <1>5 DEF IInv, TypeOK, PersonnelTypeOK
    <2> QED
      BY <1>5, <2>1, <2>2, <2>3, <2>4 DEF IInv, TypeOK, PersonnelTypeOK
  <1>11. \A y \in Person \ {x} : field'[y] = field[y] /\ name'[y] = name[y]
    BY <1>4, <1>5 DEF IInv, TypeOK, PersonnelTypeOK
  <1>12. written \in Nat /\ written' = written + 1
    BY <1>2, CommitsAre
  <1>13. \A y \in Person : NameAgrees(y)'
    <2>1. ASSUME NEW y \in Person, y # x \/ status # "APPLIED" PROVE NameAgrees(y)'
      <3>1. field'[y] = field[y] /\ name'[y] = name[y]
        BY <1>5, <1>11, <2>1
      <3> QED
        BY <1>5, <1>12, <3>1, NameStillAgrees
    <2>2. CASE status = "APPLIED"
      <3>1. field'[x] = f /\ name'[x] = v
        BY <1>4, <1>5, <1>7, <2>2 DEF IInv, TypeOK, PersonnelTypeOK
      <3>2. f.owner = None
        BY <1>3, <1>7, <1>8, <2>2
      <3> QED
        BY <1>8, <1>12, <2>1, <3>1, <3>2 DEF NameAgrees
    <2> QED
      BY <2>1, <2>2
  <1>14. ChangesAgree'
    <2>1. /\ outbox'[c] = "PENDING_SYNC" <=> status = "PENDING_SYNC"
          /\ \A e \in Change \ {c} : outbox'[e] = outbox[e]
      BY <1>3, <1>4, <1>5 DEF ChangesAgree, IInv, TypeOK, PersonnelTypeOK
    <2>2. change[c].status \in Pending /\ change[c].status # "NONE"
      BY <1>3 DEF Pending
    <2>3. ASSUME NEW e \in Change, e # c
          PROVE  /\ change'[e] = change[e]
                 /\ outbox'[e] = "PENDING_SYNC" <=> change'[e].status = "PENDING_SYNC"
      BY <1>4, <1>9, <2>1, <2>3 DEF ChangesAgree
    <2> QED
      BY <1>4, <1>9, <2>1, <2>2, <2>3, ChangesStillAgree
  <1>15. \A q \in Request \ {s} : x \notin tx[q].holds
    BY <1>1, <1>2, <1>3, CommitsAre DEF Others
  <1>16. ASSUME NEW q \in Request \ {s}, NEW y \in tx[q].holds PROVE field'[y] = field[y]
    <2>1. y # x
      BY <1>15, <1>16
    <2> QED
      BY <1>5, <2>1
  <1>17. ASSUME NEW q \in Request \ {s}
         PROVE  /\ \A y \in tx[q].holds : field'[y] = field[y]
                /\ \A e \in Change :
                     \/ change'[e] = change[e]
                     \/ /\ change'[e].person \notin tx[q].holds
                        /\ change[e].status = "NONE" \/ change[e].person \notin tx[q].holds
                /\ \A e : e.source \in tx[q].holds => (e \in external' <=> e \in external)
    BY <1>5, <1>9, <1>15, <1>16, <1>17
  <1> QED
    BY <1>1, <1>2, <1>5, <1>10, <1>13, <1>14, <1>17, PersonnelKeeps

LEMMA WriteDeliveryKeeps ==
  ASSUME IInv, NEW s \in Request, WriteDelivery(s), UNCHANGED receipt
  PROVE  IInv'
  <1>1. PICK t, d, x, owns, synced :
          /\ t = tx[s] /\ d = t.job /\ x = d.person /\ owns = Owns(d.source, x)
          /\ synced = {c \in PendingOf(x) : change[c].status = "PENDING_SYNC"
                                             /\ change[c].owner = d.source}
    OBVIOUS
  <1>2. t.op = "RECONCILE" /\ DeliveryRests(t) /\ Commits(s) /\ written < MaxWrites
    BY <1>1 DEF WriteDelivery, Commits, IInv, Rests
  <1>3. /\ d \in Delivery /\ d.source \in t.holds /\ x \in t.holds /\ RecordOf(d) = Binding(d)
        /\ d.source \in Source /\ x \in Person /\ d.value \in Name
    BY <1>1, <1>2, DeliveriesAreRevisions DEF DeliveryRests
  <1>4. /\ external' = (external \ RecordOf(d)) \cup {d}
        /\ field' = IF Owns(d.source, x)
                    THEN [field EXCEPT ![x] = Sets(field[x], d.value, d.source)] ELSE field
        /\ name' = IF Owns(d.source, x) THEN [name EXCEPT ![x] = d.value] ELSE name
        /\ UNCHANGED <<records, home>>
    BY <1>1 DEF WriteDelivery
  <1>5. PICK settled \in [Change -> {"APPLIED", "CONFLICT"}], moved \in SUBSET synced :
          /\ change' = [c \in Change |-> IF c \in moved
                          THEN [change[c] EXCEPT !.status = settled[c]] ELSE change[c]]
          /\ outbox' = [c \in Change |-> IF c \in moved THEN settled[c] ELSE outbox[c]]
    <2>1. PICK settled : settled =
            [c \in Change |-> IF change[c].value = d.value THEN "APPLIED" ELSE "CONFLICT"]
      OBVIOUS
    <2>2. PICK moved : moved = {c \in synced : Owns(d.source, x)}
      OBVIOUS
    <2>3. settled \in [Change -> {"APPLIED", "CONFLICT"}] /\ moved \in SUBSET synced
      BY <2>1, <2>2
    <2>4. \A c \in Change : c \in moved <=> Owns(d.source, x) /\ c \in synced
      BY <2>2
    <2>5. change' = [c \in Change |-> IF c \in moved
                       THEN [change[c] EXCEPT !.status = settled[c]] ELSE change[c]]
      BY <1>1, <2>1, <2>4 DEF WriteDelivery
    <2>6. outbox' = [c \in Change |-> IF c \in moved THEN settled[c] ELSE outbox[c]]
      BY <1>1, <2>1, <2>4 DEF WriteDelivery
    <2> QED
      BY <2>3, <2>5, <2>6
  <1>6. \A c \in moved : c \in Change /\ change[c].person = x /\ change[c].status = "PENDING_SYNC"
    BY <1>1 DEF PendingOf
  <1>7. PICK f : f = Sets(field[x], d.value, d.source)
    OBVIOUS
  <1>8. /\ f \in [value : Name \cup {None}, revision : 0 .. MaxWrites + 1,
                   owner : Source \cup {None}]
        /\ f.value = d.value /\ f.revision > 0 /\ f.revision <= written + 2
        /\ f.owner = IF field[x].revision = 0 THEN d.source ELSE field[x].owner
    BY <1>2, <1>3, <1>7, SetsIs
  <1>9. /\ \A c \in Change : change'[c].person = change[c].person
        /\ \A c \in Change \ moved : change'[c] = change[c] /\ outbox'[c] = outbox[c]
        /\ \A c \in moved : change'[c].status \in {"APPLIED", "CONFLICT"}
                             /\ outbox'[c] \in {"APPLIED", "CONFLICT"}
    BY <1>5, <1>6 DEF IInv, TypeOK, PersonnelTypeOK
  <1>10. PersonnelTypeOK'
    <2>1. change' \in [Change -> [status : Pending \cup ReviewOutcome \cup {"NONE"},
                            person : Person \cup {None}, value : Name \cup {None},
                            expected : 0 .. MaxWrites + 1, owner : Source \cup {None}]]
      <3>1. change \in [Change -> ChangeRow]
        BY DEF IInv, TypeOK, PersonnelTypeOK, ChangeRow
      <3>2. ASSUME NEW c \in Change PROVE [change[c] EXCEPT !.status = settled[c]] \in ChangeRow
        <4>1. change[c] \in ChangeRow /\ settled[c] \in ReviewOutcome
          BY <3>1 DEF ReviewOutcome
        <4> QED
          BY <4>1, StatusIs
      <3>3. change' \in [Change -> ChangeRow]
        BY <1>5, <3>1, <3>2
      <3> QED
        BY <3>3 DEF ChangeRow
    <2>2. field' \in [Person -> [value : Name \cup {None}, revision : 0 .. MaxWrites + 1,
                                 owner : Source \cup {None}]]
      BY <1>3, <1>4, <1>7, <1>8 DEF IInv, TypeOK, PersonnelTypeOK
    <2>3. name' \in [Person -> Name \cup {None}]
      BY <1>3, <1>4 DEF IInv, TypeOK, PersonnelTypeOK
    <2>4. outbox' \in [Change -> {"NONE", "PENDING_SYNC", "APPLIED", "CONFLICT"}]
      BY <1>5 DEF IInv, TypeOK, PersonnelTypeOK
    <2>5. external' \subseteq Delivery
      BY <1>3, <1>4 DEF IInv, TypeOK, PersonnelTypeOK
    <2> QED
      BY <1>4, <2>1, <2>2, <2>3, <2>4, <2>5 DEF IInv, TypeOK, PersonnelTypeOK
  <1>11. written \in Nat /\ written' = written + 1
    BY <1>2, CommitsAre
  <1>12. \A e \in external : e \in RecordOf(d) => e.source = d.source /\ e.person = x
    BY <1>1, <1>3 DEF Binding
  <1>13. \A y \in Person : NameAgrees(y)'
    <2>1. ASSUME NEW y \in Person, y # x PROVE NameAgrees(y)'
      <3>1. field'[y] = field[y] /\ name'[y] = name[y]
        BY <1>3, <1>4, <2>1 DEF IInv, TypeOK, PersonnelTypeOK
      <3>2. \A e \in external : e.person = y => e \in external'
        BY <1>4, <1>12, <2>1
      <3> QED
        BY <1>11, <3>1, <3>2, NameStillAgrees
    <2>2. CASE Owns(d.source, x)
      <3>1. field'[x] = f /\ name'[x] = d.value
        BY <1>3, <1>4, <1>7, <2>2 DEF IInv, TypeOK, PersonnelTypeOK
      <3>2. f.owner = d.source /\ d.source \in Owner
        BY <1>8, <2>2 DEF Owns
      <3>3. d \in external' /\ d.person = x
        BY <1>1, <1>4
      <3> QED
        BY <1>8, <1>11, <2>1, <3>1, <3>2, <3>3 DEF NameAgrees
    <2>3. CASE ~ Owns(d.source, x)
      <3>1. field'[x] = field[x] /\ name'[x] = name[x]
        BY <1>4, <2>3
      <3>2. field[x].owner # None => field[x].owner \in Owner
        BY <1>3, NamesAre DEF NameAgrees
      <3>3. field[x].owner # None => field[x].owner # d.source
        BY <2>3, <3>2 DEF Owns
      <3>4. ASSUME field[x].owner # None
            PROVE  \A e \in external : e.person = x /\ e.source = field[x].owner => e \in external'
        BY <1>4, <1>12, <3>3, <3>4
      <3>5. NameAgrees(x)'
        BY <1>3, <1>11, <3>1, <3>4, NamesAre DEF NameAgrees
      <3> QED
        BY <2>1, <3>5
    <2> QED
      BY <2>2, <2>3
  <1>14. ChangesAgree'
    <2>1. ChangesAgree
      BY DEF IInv
    <2>2. /\ \A c \in Change : change'[c].status \in Pending => change[c].status \in Pending
          /\ \A c \in Change : change'[c].status # "NONE" => change[c].status # "NONE"
      BY <1>6, <1>9 DEF Pending
    <2>3. \A c \in Change : outbox'[c] = "PENDING_SYNC" <=> change'[c].status = "PENDING_SYNC"
      BY <1>9, <2>1 DEF ChangesAgree
    <2> QED
      BY <1>9, <2>1, <2>2, <2>3, ChangesStillAgree
  <1>15. \A q \in Request \ {s} : x \notin tx[q].holds /\ d.source \notin tx[q].holds
    BY <1>1, <1>2, <1>3, CommitsAre DEF Others
  <1>16. ASSUME NEW q \in Request \ {s}, NEW y \in tx[q].holds PROVE field'[y] = field[y]
    <2>1. y # x
      BY <1>15, <1>16
    <2> QED
      BY <1>4, <2>1
  <1>17. ASSUME NEW q \in Request \ {s}, NEW e, e.source \in tx[q].holds
         PROVE  e \in external' <=> e \in external
    BY <1>4, <1>12, <1>15, <1>17
  <1>18. ASSUME NEW q \in Request \ {s}, NEW c \in Change
         PROVE  change'[c] = change[c] \/ (/\ change'[c].person \notin tx[q].holds
                                           /\ change[c].person \notin tx[q].holds)
    BY <1>6, <1>9, <1>15
  <1> QED
    BY <1>2, <1>4, <1>10, <1>13, <1>14, <1>16, <1>17, <1>18, PersonnelKeeps


LEMMA WriteImportKeeps ==
  ASSUME IInv, NEW s \in Request, WriteImport(s), UNCHANGED receipt
  PROVE  IInv' /\ \A b \in booking : Same(b)
  <1>1. PICK t, rows, new : t = tx[s] /\ rows = t.job /\ new = NewPeople(rows)
    OBVIOUS
  <1>2. t.op = "IMPORT" /\ ImportRests(t) /\ Commits(s)
    BY <1>1 DEF WriteImport, IInv, Rests
  <1>3. rows \in Row /\ Population \in t.holds
    BY <1>1, <1>2 DEF ImportRests
  <1>4. PICK f \in [new -> Appointment] :
          /\ \A r \in new : TermsOf(f[r]) = {}
          /\ terms' = terms \cup {LegacyTerm(f[r], r) : r \in new}
    BY <1>1 DEF WriteImport
  <1>5. /\ UNCHANGED <<booking, approved, locked, field, change, outbox, external>>
        /\ home' = [x \in Person |-> IF {r \in rows : r.person = x} = {} THEN home[x]
                      ELSE (CHOOSE r \in {r \in rows : r.person = x} : TRUE).unit]
        /\ name' = [x \in Person |-> IF {r \in rows : r.person = x} = {} \/ field[x].revision > 0
                      THEN name[x] ELSE (CHOOSE r \in {r \in rows : r.person = x} : TRUE).name]
    BY <1>1 DEF WriteImport
  <1>6. ASSUME NEW r \in new
        PROVE  LegacyTerm(f[r], r) \in Term /\ LegacyTerm(f[r], r).appointment = f[r]
    <2>1. /\ r.person \in Person /\ r.unit \in Unit /\ f[r] \in Appointment
          /\ r.start \in 0 .. Never /\ r.end \in 0 .. Never
      BY <1>1, <1>3, RowsAre DEF NewPeople
    <2>2. 0 \in 0 .. Never /\ Never \in 0 .. Never
      BY SpansAreIntervals
    <2> QED
      BY <2>1, <2>2 DEF LegacyTerm, Term
  <1>7. /\ terms \subseteq terms' /\ terms' \subseteq terms \cup Term
        /\ \A n \in terms' : n \in terms \/ TermsOf(n.appointment) = {}
    BY <1>4, <1>6
  <1>8. \A b : Employed(b) => Same(b)
    BY <1>7, NewTermsAreOthers
  <1>9. /\ Others(s) /\ Exclusive' /\ written' = written + 1 /\ written' \in 0 .. MaxWrites
        /\ written \in Nat /\ written' \in Nat
    BY <1>2, CommitsAre
  <1>10. EmploymentTypeOK' /\ receipt' \subseteq Terminal \X Batch
    BY <1>5, <1>7, <1>9 DEF IInv, TypeOK, EmploymentTypeOK
  <1>11. PersonnelTypeOK'
    <2>1. ASSUME NEW x \in Person, NEW r, r = CHOOSE q \in {q \in rows : q.person = x} : TRUE,
                 {q \in rows : q.person = x} # {}
          PROVE  r.unit \in Unit /\ r.name \in Name
      <3>1. r \in rows
        BY <2>1
      <3> QED
        BY <1>3, <3>1, RowsAre
    <2>2. home' \in [Person -> Unit \cup {None}]
      <3>1. home \in [Person -> Unit \cup {None}]
        BY DEF IInv, TypeOK, PersonnelTypeOK
      <3> QED
        BY <1>5, <2>1, <3>1
    <2>3. name' \in [Person -> Name \cup {None}]
      <3>1. name \in [Person -> Name \cup {None}]
        BY DEF IInv, TypeOK, PersonnelTypeOK
      <3> QED
        BY <1>5, <2>1, <3>1
    <2> QED
      BY <1>5, <2>2, <2>3 DEF IInv, TypeOK, PersonnelTypeOK
  <1>12. ASSUME NEW x \in Person PROVE NameAgrees(x)'
    <2>1. field[x].revision > 0 => name'[x] = name[x]
      BY <1>5
    <2> QED
      BY <1>5, <1>9, <2>1, NamesAre DEF NameAgrees
  <1>13. ChangesAgree'
    <2>1. ChangesAgree /\ change' = change /\ outbox' = outbox
      BY <1>5 DEF IInv
    <2> QED
      BY <2>1 DEF ChangesAgree
  <1>14. \A b \in booking : Same(b)
    BY <1>8 DEF IInv
  <1>15. \A b \in booking' : Employed(b)'
    BY <1>5, <1>14 DEF Same
  <1>16. \A q \in Request : tx'[q] = Idle \/ (tx'[q] = tx[q] /\ Population \notin tx[q].holds)
    BY <1>1, <1>3, <1>9 DEF Others
  <1>17. ASSUME NEW q \in Request, NEW u, tx[q] = u, tx'[q] = u, u # Idle PROVE Rests(u)'
    <2>1. Rests(u) /\ Population \notin u.holds
      BY <1>16, <1>17 DEF IInv
    <2>2. BookingRests(u)' /\ ImportRests(u)'
      BY <1>5, <1>8, <2>1, EmploymentRests DEF Rests
    <2>3. ChangeRests(u)' /\ ReviewRests(u)' /\ DeliveryRests(u)'
      BY <1>5, <2>1, PeopleRestStill DEF Rests
    <2> QED
      BY <2>2, <2>3 DEF Rests
  <1> QED
    BY <1>9, <1>10, <1>11, <1>12, <1>13, <1>14, <1>15, <1>16, <1>17, WriteKeeps

-----------------------------------------------------------------------------
(* The invariant.                                                           *)

LEMMA NothingWrittenKeeps ==
  ASSUME IInv, UNCHANGED vars
  PROVE  IInv' /\ \A b \in booking : Same(b)
  <1>1. RecordsStay /\ UNCHANGED <<tx, booking>>
    BY DEF vars, employmentVars, records, RecordsStay
  <1>2. IInv'
    <2>1. \A q \in Request : Rests(tx[q])'
      <3>1. TAKE q \in Request
      <3>2. PICK t : t = tx[q]
        OBVIOUS
      <3>3. Rests(t)' /\ tx'[q] = t
        BY <1>1, <3>2, RestingStays DEF IInv
      <3> QED
        BY <3>3
    <2>2. TypeOK' /\ Exclusive'
      BY <1>1 DEF IInv, RecordsStay, records, personnel, TypeOK, EmploymentTypeOK, PersonnelTypeOK,
                  JobOK, Exclusive
    <2>3. (\A b \in booking' : Employed(b)') /\ ChangesAgree'
      BY <1>1 DEF IInv, RecordsStay, records, personnel, Employed, OwnerOf, Lasts, Covers, UnitsOver,
                  TermsOf, ChangesAgree
    <2>4. \A x \in Person : NameAgrees(x)'
      BY <1>1 DEF IInv, RecordsStay, personnel, NameAgrees
    <2> QED
      BY <2>1, <2>2, <2>3, <2>4 DEF IInv
  <1>3. \A b \in booking : Same(b)
    BY <1>1, UnchangedTermsAreSame DEF IInv, RecordsStay, records
  <1> QED
    BY <1>2, <1>3


LEMMA InitKeeps ==
  ASSUME Init
  PROVE  IInv
  <1>1. /\ terms = FirstTerms /\ booking = {} /\ approved = {} /\ locked = {} /\ written = 0
        /\ tx = [s \in Request |-> Idle] /\ receipt = {} /\ home = FirstHome /\ external \in Before
        /\ change = [c \in Change |-> NoChange] /\ outbox = [c \in Change |-> "NONE"]
        /\ name = [x \in Person |-> IF field[x].revision > 0 THEN field[x].value ELSE FirstName[x]]
    BY DEF Init, EmploymentInit, PersonnelInit
  <1>2. \A d \in external : /\ d \in Delivery /\ d.source \in Owner /\ d.source \in Source
                            /\ d.value \in Name /\ d.person \in Person
    BY <1>1, BeforeAreDeliveries, DeliveriesAreRevisions
  <1>3. 1 \in 0 .. MaxWrites + 1 /\ 0 \in 0 .. MaxWrites + 1 /\ 0 \in 0 .. MaxWrites
    BY InputsAreValid
  <1>4. /\ field \in [Person -> [value : Name \cup {None}, revision : 0 .. MaxWrites + 1,
                                 owner : Source \cup {None}]]
        /\ \A x \in Person :
             \/ field[x] = NoField
             \/ \E d \in external : d.person = x /\ field[x] = [value |-> d.value, revision |-> 1,
                                                                owner |-> d.source]
    <2>1. field = [x \in Person |->
            IF \E d \in external : d.person = x
            THEN [value |-> (CHOOSE d \in external : d.person = x).value, revision |-> 1,
                  owner |-> (CHOOSE d \in external : d.person = x).source]
            ELSE NoField]
      BY DEF Init, PersonnelInit
    <2>2. ASSUME NEW x \in Person
          PROVE  /\ field[x] \in [value : Name \cup {None}, revision : 0 .. MaxWrites + 1,
                                  owner : Source \cup {None}]
                 /\ \/ field[x] = NoField
                    \/ \E d \in external : d.person = x /\ field[x] =
                         [value |-> d.value, revision |-> 1, owner |-> d.source]
      <3>1. CASE \E d \in external : d.person = x
        <4>1. PICK d : d = CHOOSE e \in external : e.person = x
          OBVIOUS
        <4>2. d \in external /\ d.person = x
          BY <3>1, <4>1
        <4>3. field[x] = [value |-> d.value, revision |-> 1, owner |-> d.source]
          BY <2>1, <3>1, <4>1
        <4> QED
          BY <1>2, <1>3, <4>2, <4>3
      <3>2. CASE ~ \E d \in external : d.person = x
        BY <1>3, <2>1, <3>2 DEF NoField
      <3> QED
        BY <3>1, <3>2
    <2> QED
      BY <2>1, <2>2
  <1>5. name \in [Person -> Name \cup {None}]
    BY <1>1, <1>4, PeopleAreKnown
  <1>6. change \in [Change -> ChangeRow] /\ \A c \in Change : change[c].status = "NONE"
    BY <1>1, <1>3 DEF NoChange, ChangeRow
  <1>7. \A s \in Request : tx[s] = Idle
    BY <1>1
  <1>8. TypeOK
    <2>1. EmploymentTypeOK
      BY <1>1, <1>3, FirstTermsAreTerms DEF EmploymentTypeOK
    <2>2. PersonnelTypeOK
      BY <1>1, <1>2, <1>4, <1>5, <1>6, PeopleAreKnown DEF PersonnelTypeOK, ChangeRow
    <2>3. \A s \in Request : JobOK(tx[s]) /\ tx[s].holds \subseteq LockKey
      BY <1>7, IdleRests
    <2> QED
      BY <1>1, <2>1, <2>2, <2>3 DEF TypeOK
  <1>9. Exclusive
    BY <1>1, <1>7, IdleRests DEF Exclusive
  <1>10. ASSUME NEW x \in Person PROVE NameAgrees(x)
    <2>1. CASE field[x] = NoField
      BY <1>1, <2>1 DEF NoField, NameAgrees
    <2>2. CASE field[x] # NoField
      <3>1. PICK d \in external : d.person = x /\ field[x] =
              [value |-> d.value, revision |-> 1, owner |-> d.source]
        BY <1>4, <2>2
      <3>2. field[x].revision = 1 /\ field[x].value = d.value /\ field[x].owner = d.source
        BY <3>1
      <3> QED
        BY <1>1, <1>2, <3>1, <3>2 DEF NameAgrees
    <2> QED
      BY <2>1, <2>2
  <1>11. ChangesAgree
    BY <1>1, <1>6 DEF ChangesAgree, Pending
  <1>12. \A s \in Request : Rests(tx[s])
    BY <1>7, IdleRests
  <1> QED
    BY <1>1, <1>8, <1>9, <1>10, <1>11, <1>12 DEF IInv

LEMMA StepKeeps ==
  ASSUME IInv, [Next]_vars
  PROVE  IInv'
  <1>1. CASE UNCHANGED vars
    BY <1>1, NothingWrittenKeeps
  <1>2. ASSUME Administration, UNCHANGED <<receipt, personnel>> PROVE IInv'
    <2>1. ASSUME NEW a \in Appointment, NEW new \in NewTerm, CreateAppointment(a, new) PROVE IInv'
      BY <1>2, <2>1, CreateAppointmentKeeps
    <2>2. ASSUME NEW l \in Leave, ApproveLeave(l) PROVE IInv'
      BY <1>2, <2>2, ApproveLeaveKeeps
    <2>3. ASSUME NEW p \in Period, MovePeriod(p) PROVE IInv'
      BY <1>2, <2>3, MovePeriodKeeps
    <2> QED
      BY <1>2, <2>1, <2>2, <2>3 DEF Administration
  <1>3. ASSUME NEW s \in Request, Employment(s), UNCHANGED <<receipt, personnel>> PROVE IInv'
    BY <1>3, ReadBookingKeeps, CheckBookingKeeps, WriteBookingKeeps, RollbackKeeps, ReadTermKeeps,
       WriteTermKeeps DEF Employment
  <1>4. ASSUME NEW s \in Request, Terminals(s), UNCHANGED personnel PROVE IInv'
    BY <1>4, ReadBatchKeeps, LockBatchKeeps, WriteBatchKeeps DEF Terminals
  <1>5. ASSUME NEW s \in Request, Personnel(s), UNCHANGED receipt PROVE IInv'
    <2>1. CASE \E w \in Wish : AskChange(s, w.person, w.value)
      BY <1>5, <2>1, AskChangeKeeps
    <2>2. CASE CheckChange(s) \/ WriteChange(s)
      BY <1>5, <2>2, CheckChangeKeeps, WriteChangeKeeps
    <2>3. CASE \E c \in Change, decision \in {"APPROVE", "REJECT"} : CheckReview(s, c, decision)
      BY <1>5, <2>3, CheckReviewKeeps
    <2>4. CASE WriteReview(s) \/ WriteDelivery(s) \/ WriteImport(s)
      BY <1>5, <2>4, WriteReviewKeeps, WriteDeliveryKeeps, WriteImportKeeps
    <2>5. CASE \E d \in Delivery : CheckDelivery(s, d)
      BY <1>5, <2>5, CheckDeliveryKeeps
    <2>6. CASE \E rows \in Row : CheckImport(s, rows)
      BY <1>5, <2>6, CheckImportKeeps
    <2> QED
      BY <1>5, <2>1, <2>2, <2>3, <2>4, <2>5, <2>6 DEF Personnel
  <1> QED
    BY <1>1, <1>2, <1>3, <1>4, <1>5 DEF Next

LEMMA AlwaysSound == Spec => []IInv
  <1>1. Init => IInv
    BY InitKeeps
  <1>2. IInv /\ [Next]_vars => IInv'
    BY StepKeeps
  <1> QED
    BY <1>1, <1>2, PTL DEF Spec


(* What a step writes.                                                      *)
LEMMA StepIs ==
  ASSUME [Next]_vars
  PROVE  \/ RecordsStay
         \/ /\ UNCHANGED <<receipt, personnel>>
            /\ \/ \E a \in Appointment, new \in NewTerm : CreateAppointment(a, new)
               \/ \E l \in Leave : ApproveLeave(l)
               \/ \E p \in Period : MovePeriod(p)
               \/ \E s \in Request : WriteBooking(s) \/ WriteTerm(s)
         \/ UNCHANGED personnel /\ \E s \in Request : WriteBatch(s)
         \/ UNCHANGED receipt /\ \E s \in Request :
              WriteChange(s) \/ WriteReview(s) \/ WriteDelivery(s) \/ WriteImport(s)
  <1>1. CASE UNCHANGED vars
    BY <1>1 DEF vars, employmentVars, RecordsStay
  <1>2. CASE Administration /\ UNCHANGED <<receipt, personnel>>
    BY <1>2, InputsAreValid DEF Administration
  <1>3. ASSUME NEW s \in Request, Employment(s), UNCHANGED <<receipt, personnel>>
        PROVE  RecordsStay \/ WriteBooking(s) \/ WriteTerm(s)
    BY <1>3 DEF Employment, ReadBooking, CheckBooking, Rollback, ReadTerm, Enters, RecordsStay
  <1>4. ASSUME NEW s \in Request, Terminals(s), UNCHANGED personnel
        PROVE  RecordsStay \/ WriteBatch(s)
    BY <1>4 DEF Terminals, ReadBatch, LockBatch, Enters, RecordsStay
  <1>5. ASSUME NEW s \in Request, Personnel(s), UNCHANGED receipt
        PROVE  RecordsStay \/ WriteChange(s) \/ WriteReview(s) \/ WriteDelivery(s) \/ WriteImport(s)
    BY <1>5 DEF Personnel, AskChange, CheckChange, CheckReview, CheckDelivery, CheckImport, Enters,
                RecordsStay
  <1> QED
    BY <1>1, <1>2, <1>3, <1>4, <1>5 DEF Next

-----------------------------------------------------------------------------
(* What follows.                                                            *)

\* Every booking lies in the appointment it names, whatever terms are appended and
\* whoever is imported while it is being booked (working-interval.helper.ts,
\* terminal-batch-import.service.ts).
THEOREM BookingsLieInAppointments == Spec => []BookedWhereEmployed
  <1>1. ASSUME IInv, NEW b \in booking
        PROVE  Resolves(b.person, b.appointment, b.span, b.appointment)
    <2>1. Employed(b) /\ b.appointment \in Appointment /\ b.appointment # None
      BY <1>1, BookingsAre, KeysDiffer DEF IInv, TypeOK, EmploymentTypeOK
    <2> QED
      BY <2>1 DEF Employed, Resolves, Eligible
  <1>2. IInv => BookedWhereEmployed
    BY <1>1 DEF BookedWhereEmployed
  <1> QED
    BY <1>2, AlwaysSound, PTL

\* Names, fields, deliveries, requests and the outbox tell the same of everybody.
THEOREM ProfilesAlwaysAgree == Spec => []ProfilesAgree
  <1>1. ASSUME IInv PROVE ProfilesAgree
    <2>1. NamesAgree
      BY <1>1 DEF IInv, NameAgrees, NamesAgree
    <2>2. ASSUME NEW x \in Person PROVE Cardinality(PendingOf(x)) <= 1
      <3>1. \A c, e \in PendingOf(x) : c = e
        BY <1>1 DEF IInv, ChangesAgree, PendingOf
      <3>2. CASE PendingOf(x) = {}
        BY <3>2, FS_EmptySet
      <3>3. CASE PendingOf(x) # {}
        <4>1. PICK c : PendingOf(x) = {c}
          BY <3>1, <3>3
        <4> QED
          BY <4>1, FS_Singleton
      <3> QED
        BY <3>2, <3>3
    <2>3. OneChangeAtATime
      BY <1>1, <2>2 DEF IInv, ChangesAgree, OneChangeAtATime
    <2> QED
      BY <2>1, <2>3 DEF ProfilesAgree
  <1> QED
    BY <1>1, AlwaysSound, PTL

LEMMA ReviewsKeep ==
  ASSUME IInv, [Next]_vars, NEW c \in Change, change[c].status = "PENDING_APPROVAL",
         change'[c].status \in {"APPLIED", "PENDING_SYNC"}
  PROVE  field[change[c].person].revision = change[c].expected
  <1>1. change'[c] # change[c] /\ change \in [Change -> ChangeRow]
    BY DEF IInv, TypeOK, PersonnelTypeOK, ChangeRow
  <1>2. PICK s \in Request : WriteChange(s) \/ WriteReview(s) \/ WriteDelivery(s)
    BY <1>1, StepIs DEF RecordsStay, personnel, WriteImport
  <1>3. CASE WriteChange(s)
    BY <1>1, <1>3 DEF WriteChange
  <1>4. CASE WriteReview(s)
    <2>1. ReviewRests(tx[s]) /\ tx[s].op = "REVIEW"
      BY <1>4 DEF WriteReview, IInv, Rests
    <2>2. change' = [change EXCEPT ![tx[s].job.change].status = tx[s].job.status]
      BY <1>4 DEF WriteReview
    <2>3. c = tx[s].job.change
      BY <1>1, <2>2
    <2>4. change'[c].status = tx[s].job.status
      BY <1>1, <2>2, <2>3 DEF ChangeRow
    <2> QED
      BY <2>1, <2>3, <2>4 DEF ReviewRests
  <1>5. CASE WriteDelivery(s)
    BY <1>1, <1>5 DEF WriteDelivery
  <1> QED
    BY <1>2, <1>3, <1>4, <1>5

\* A review replaces only what was there when the change was asked for
\* (profile-changes.service.ts).
THEOREM ReviewsAreOfWhatWasSeen == Spec => ReviewedIsWhatWasSeen
  <1>1. ASSUME IInv, [Next]_vars
        PROVE  \A c \in Change :
                 /\ change[c].status = "PENDING_APPROVAL"
                 /\ change'[c].status \in {"APPLIED", "PENDING_SYNC"}
                 => field[change[c].person].revision = change[c].expected
    BY <1>1, ReviewsKeep
  <1> QED
    BY <1>1, AlwaysSound, PTL DEF Spec, ReviewedIsWhatWasSeen


(* What is free when it is written.                                         *)
FreeTime(b) ==
  /\ \A c \in booking' \ {b} : c.person = b.person => ~ Overlap(b.span, c.span)
  /\ \A l \in approved :
       /\ b.source = "IMPORT" /\ l.person = b.person
       /\ Overlap(Known(b.span), [from |-> l.from, to |-> l.to + Day])
       => b.span.from > l.to

LEMMA OverlapIsMutual ==
  ASSUME NEW i \in Span, NEW j \in Span
  PROVE  Overlap(i, j) <=> Overlap(j, i)
  <1>1. i.from \in Nat /\ i.to \in Nat /\ j.from \in Nat /\ j.to \in Nat
    BY SpansAre
  <1> QED
    BY <1>1 DEF Overlap

LEMMA BlocksIs ==
  ASSUME NEW l \in Leave, NEW i \in Span, ~ Blocks(l, i),
         Overlap(Known(i), [from |-> l.from, to |-> l.to + Day])
  PROVE  i.from > l.to
  <1>1. /\ i.from \in Nat /\ i.to \in Nat /\ l.from \in Nat /\ l.to \in Nat /\ Day \in Nat
        /\ Never \in Nat
    BY SpansAreIntervals, InputsAreValid
  <1>2. Seen(i).to = IF i.to = Never THEN i.from ELSE i.to
    <2>1. i \in [from : 0 .. Never, to : 0 .. Never]
      BY SpansAreIntervals
    <2> QED
      BY <2>1 DEF Seen
  <1>3. Known(i).to = IF i.to = Never THEN i.from + 1 ELSE i.to
    BY DEF Known
  <1>4. Known(i).to > l.from
    BY DEF Overlap
  <1>5. l.from > Seen(i).to \/ l.to < i.from
    BY <1>1, <1>2 DEF Blocks
  <1> QED
    BY <1>1, <1>2, <1>3, <1>4, <1>5

LEMMA BookingKeepsFree ==
  ASSUME IInv, NEW s \in Request, WriteBooking(s), NEW b \in booking' \ booking
  PROVE  FreeTime(b)
  <1>1. PICK t : t = tx[s]
    OBVIOUS
  <1>2. /\ b = t.job /\ booking' = booking \cup {b} /\ t.op = "BOOK" /\ BookingRests(t)
    BY <1>1 DEF WriteBooking, IInv, Rests
  <1>3. /\ b \in Booking /\ b.source = "WEB"
        /\ \A c \in OfPerson(b.person) : ~ Overlap(c.span, b.span)
    BY <1>2 DEF BookingRests, Fenced
  <1>4. ASSUME NEW c \in booking' \ {b}, c.person = b.person
        PROVE  ~ Overlap(b.span, c.span)
    <2>1. c \in OfPerson(b.person) /\ c \in Booking
      BY <1>2, <1>4 DEF OfPerson, IInv, TypeOK, EmploymentTypeOK
    <2>2. c.span \in Span /\ b.span \in Span
      BY <1>3, <2>1, BookingsAre
    <2> QED
      BY <1>3, <2>1, <2>2, OverlapIsMutual
  <1> QED
    BY <1>3, <1>4 DEF FreeTime

LEMMA BatchKeepsFree ==
  ASSUME IInv, NEW s \in Request, WriteBatch(s), NEW b \in booking' \ booking
  PROVE  FreeTime(b)
  <1>1. PICK t, job, batch : t = tx[s] /\ job = t.job /\ batch = job.batch
    OBVIOUS
  <1>2. booking' = booking \cup {EntryOf(job, n) : n \in Accepted(batch)} /\ batch \in Batch
    BY <1>1 DEF WriteBatch, EntryOf, IInv, Rests, BookingRests
  <1>3. PICK n \in Accepted(batch) : b = EntryOf(job, n)
    BY <1>2
  <1>4. \A m \in Accepted(batch) :
          /\ m \in DOMAIN batch /\ m \in Nat /\ Fits(batch[m]) /\ batch[m].span \in Span
          /\ EntryOf(job, m).person = batch[m].person /\ EntryOf(job, m).span = batch[m].span
          /\ EntryOf(job, m).source = "IMPORT"
    BY <1>1, <1>2, AcceptedIs, BatchesAre DEF EntryOf
  <1>5. ASSUME NEW c \in booking' \ {b}, c.person = b.person
        PROVE  ~ Overlap(b.span, c.span)
    <2>1. CASE c \in booking
      <3>1. c \in OfPerson(batch[n].person)
        BY <1>3, <1>4, <1>5, <2>1 DEF OfPerson
      <3> QED
        BY <1>3, <1>4, <3>1 DEF Fits
    <2>2. CASE c \notin booking
      <3>1. PICK m \in Accepted(batch) : c = EntryOf(job, m)
        BY <1>2, <1>5, <2>2
      <3>2. m # n /\ batch[m].person = batch[n].person
        BY <1>3, <1>4, <1>5, <3>1
      <3>3. CASE n < m
        BY <1>2, <1>3, <1>4, <3>1, <3>2, <3>3, AcceptedIs
      <3>4. CASE m < n
        <4>1. ~ Overlap(batch[m].span, batch[n].span)
          BY <1>2, <1>4, <3>2, <3>4, AcceptedIs
        <4>2. batch[m].span \in Span /\ batch[n].span \in Span
          BY <1>4
        <4> QED
          BY <1>3, <1>4, <3>1, <4>1, <4>2, OverlapIsMutual
      <3>5. m \in Nat /\ n \in Nat
        BY <1>4
      <3> QED
        BY <3>2, <3>3, <3>4, <3>5
    <2> QED
      BY <2>1, <2>2
  <1>6. ASSUME NEW l \in approved, l.person = b.person,
               Overlap(Known(b.span), [from |-> l.from, to |-> l.to + Day])
        PROVE  b.span.from > l.to
    <2>1. l \in Leave /\ b.span \in Span
      BY <1>3, <1>4 DEF IInv, TypeOK, EmploymentTypeOK
    <2>2. ~ Blocks(l, b.span)
      BY <1>3, <1>4, <1>6 DEF Fits
    <2> QED
      BY <1>6, <2>1, <2>2, BlocksIs
  <1> QED
    BY <1>5, <1>6 DEF FreeTime

\* Who books, a person or a terminal, books time that is free of the person's other
\* bookings, and a terminal none on a day of approved leave but, after its midnight,
\* the last (terminal-batch-import.service.ts).
THEOREM BookingsTakeFreeTime == Spec => BookedOnFreeTime
  <1>1. ASSUME IInv, [Next]_vars
        PROVE  \A b \in booking' \ booking : FreeTime(b)
    <2>1. TAKE b \in booking' \ booking
    <2>2. PICK s \in Request : WriteBooking(s) \/ WriteBatch(s)
      BY <1>1, StepIs DEF RecordsStay, records, CreateAppointment, WriteTerm, ApproveLeave,
                          MovePeriod, WriteChange, WriteReview, WriteDelivery, WriteImport
    <2> QED
      BY <1>1, <2>2, BookingKeepsFree, BatchKeepsFree
  <1>2. IInv /\ [Next]_vars =>
          \A b \in booking' \ booking :
            /\ \A c \in booking' \ {b} : c.person = b.person => ~ Overlap(b.span, c.span)
            /\ \A l \in approved :
                 /\ b.source = "IMPORT" /\ l.person = b.person
                 /\ Overlap(Known(b.span), [from |-> l.from, to |-> l.to + Day])
                 => b.span.from > l.to
    BY <1>1 DEF FreeTime
  <1> QED
    BY <1>2, AlwaysSound, PTL DEF Spec, BookedOnFreeTime

-----------------------------------------------------------------------------
(* What a closing period has locked.                                        *)

LEMMA BookedIs ==
  ASSUME NEW p
  PROVE  /\ BookedIn(p) = {b \in booking : p \in PeriodsFor(b)}
         /\ BookedIn(p)' = {b \in booking' : p \in PeriodsFor(b)'}
  BY DEF BookedIn, PeriodsFor

LEMMA BookedStays ==
  ASSUME NEW p, booking \subseteq booking', \A b \in booking : Same(b),
         \A b \in booking' : b \in booking \/ p \notin PeriodsFor(b)'
  PROVE  BookedIn(p)' = BookedIn(p)
  <1>1. \A b \in booking : PeriodsFor(b)' = PeriodsFor(b)
    BY DEF Same
  <1> QED
    BY <1>1, BookedIs

Names(t) == <<t.person, t.appointment>>

LEMMA EmployedIs ==
  ASSUME NEW p
  PROVE  /\ EmployedIn(p) = {Names(t) : t \in {u \in terms : Counts(u, p)}}
         /\ EmployedIn(p)' = {Names(t) : t \in {u \in terms' : Counts(u, p)}}
  BY DEF EmployedIn, Names, Counts, Employs, Overlapping, Touches

LEMMA EmployedStays ==
  ASSUME NEW p,
         \A t \in terms' : Counts(t, p) => \E u \in terms : Counts(u, p) /\ Names(u) = Names(t),
         \A t \in terms : Counts(t, p) => \E u \in terms' : Counts(u, p) /\ Names(u) = Names(t)
  PROVE  EmployedIn(p)' = EmployedIn(p)
  BY EmployedIs

(* What stays of who is employed in a period.                               *)
Fewer(p) ==
  /\ EmployedIn(p)' \subseteq EmployedIn(p)
  /\ \A e \in EmployedIn(p) \ EmployedIn(p)' : e[2] \in Unasked(p)

LEMMA SameIsFewer ==
  ASSUME NEW p, EmployedIn(p)' = EmployedIn(p)
  PROVE  Fewer(p)
  BY DEF Fewer

(* A term is asked for up to its end, in its unit and those that were read. *)
LEMMA WriteTermSpares ==
  ASSUME IInv, NEW s \in Request, WriteTerm(s), NEW p \in locked
  PROVE  Fewer(p)
  <1>1. PICK a, next, last, old, new :
          /\ a \in Appointment /\ next \in NextTerm
          /\ tx[s].job.appointment = a /\ tx[s].job.next = next
          /\ last.appointment = a /\ Ends(last, old, new, next)
    BY WriteTermIs
  <1>2. \A u \in tx[s].job.units \cup {next.unit} : p \notin Overlapping(u, next)
    BY <1>1 DEF WriteTerm
  <1>3. terms \subseteq Term /\ p \in Period /\ s \in Request /\ tx[s].op = "TERM" /\ tx'[s] = Idle
    BY CommitsAre DEF IInv, TypeOK, EmploymentTypeOK, WriteTerm, Others
  <1>4. /\ last.from \in Nat /\ last.to \in Nat /\ next.from \in Nat /\ next.to \in Nat
        /\ next.from < next.to
        /\ old.appointment = a /\ new.appointment = a
        /\ old.person = last.person /\ new.person = last.person
        /\ old.start = last.start /\ new.start = last.start
        /\ old.end = last.end /\ new.end = last.end
        /\ old.unit = last.unit /\ new.unit = next.unit
        /\ old.from = last.from /\ old.to = next.from
        /\ new.from = next.from /\ new.to = next.to
    BY <1>1, <1>3, EndsIs
  <1>5. /\ last \in TermsOf(a) /\ last.from < next.from /\ next.from < last.to
        /\ terms' = (terms \ {last}) \cup {old, new}
    BY <1>1 DEF Ends
  <1>6. /\ PeriodSpan[p].from \in Nat /\ PeriodSpan[p].to \in Nat
        /\ PeriodSpan[p].from <= PeriodSpan[p].to
    BY <1>3, SpansAreIntervals
  <1>7. ~ Counts(new, p)
    <2>1. p \in Overlapping(new.unit, new) <=> p \in Overlapping(next.unit, next)
      BY <1>4 DEF Overlapping, Touches
    <2> QED
      BY <1>2, <2>1 DEF Counts
  <1>8. Counts(old, p) => Counts(last, p)
    BY <1>4, <1>5, <1>6 DEF Counts, Employs, Overlapping, Touches
  <1>9. Names(old) = Names(last) /\ Names(last)[2] = a /\ last \in terms
    BY <1>1, <1>4, <1>5 DEF Names, TermsOf
  <1>10. EmployedIn(p)' \subseteq EmployedIn(p)
    <2>1. \A t \in terms' : Counts(t, p) => \E u \in terms : Counts(u, p) /\ Names(u) = Names(t)
      BY <1>5, <1>7, <1>8, <1>9
    <2> QED
      BY <2>1, EmployedIs
  <1>11. CASE a \in Unasked(p)
    <2>1. ASSUME NEW e \in EmployedIn(p), e \notin EmployedIn(p)' PROVE e[2] = a
      <3>1. PICK t \in terms : Counts(t, p) /\ e = Names(t)
        BY <2>1, EmployedIs
      <3>2. t \notin terms'
        BY <2>1, <3>1, EmployedIs
      <3> QED
        BY <1>5, <1>9, <3>1, <3>2
    <2> QED
      BY <1>10, <1>11, <2>1 DEF Fewer
  <1>12. CASE a \notin Unasked(p)
    <2>1. PeriodSpan[p].from <= next.to /\ UnitsPast(a, next.from) = tx[s].job.units
      BY <1>1, <1>3, <1>4, <1>6, <1>12 DEF Unasked
    <2>2. last.unit \in tx[s].job.units
      BY <1>5, <2>1 DEF UnitsPast
    <2>3. p \notin Overlapping(last.unit, next)
      BY <1>2, <2>2
    <2>4. Counts(last, p) => Counts(old, p)
      BY <1>3, <1>4, <1>5, <1>6, <2>1, <2>3 DEF Counts, Employs, Overlapping, Touches
    <2>5. \A t \in terms : Counts(t, p) => \E u \in terms' : Counts(u, p) /\ Names(u) = Names(t)
      BY <1>5, <1>9, <2>4
    <2>6. EmployedIn(p) \subseteq EmployedIn(p)'
      BY <2>5, EmployedIs
    <2> QED
      BY <1>10, <2>6 DEF Fewer
  <1> QED
    BY <1>11, <1>12

LEMMA NewTermsSpare ==
  ASSUME NEW p, terms \subseteq terms',
         \A t \in terms' : t \in terms \/ ~ Counts(t, p)
  PROVE  EmployedIn(p)' = EmployedIn(p)
  BY EmployedStays

LEMMA ImportSpares ==
  ASSUME IInv, NEW s \in Request, WriteImport(s), NEW p \in locked
  PROVE  EmployedIn(p)' = EmployedIn(p)
  <1>1. PICK t, rows : t = tx[s] /\ rows = t.job
    OBVIOUS
  <1>2. \A r \in NewPeople(rows) : p \notin WouldCount(r)
    BY <1>1 DEF WriteImport, IInv, Rests, ImportRests
  <1>3. PICK f : terms' = terms \cup {LegacyTerm(f[r], r) : r \in NewPeople(rows)}
    BY <1>1 DEF WriteImport
  <1>4. ASSUME NEW r \in NewPeople(rows), NEW n, n = LegacyTerm(f[r], r)
        PROVE  ~ Counts(n, p)
    <2>1. n.unit = r.unit /\ n.start = r.start /\ n.end = r.end
      BY <1>4 DEF LegacyTerm
    <2>2. p \notin WouldCount(r)
      BY <1>2
    <2> QED
      BY <2>1, <2>2 DEF WouldCount, Counts, Employs, Overlapping
  <1> QED
    BY <1>3, <1>4, NewTermsSpare

LEMMA CreateAppointmentSpares ==
  ASSUME NEW a, NEW new, CreateAppointment(a, new), NEW p \in locked
  PROVE  EmployedIn(p)' = EmployedIn(p)
  <1>1. PICK row : /\ row = [appointment |-> a, person |-> new.person, start |-> new.start,
                             end |-> new.end, unit |-> new.unit, from |-> new.from,
                             to |-> new.to, legacy |-> FALSE]
                   /\ terms' = terms \cup {row}
    BY DEF CreateAppointment
  <1>2. row.unit = new.unit /\ row.from = new.from /\ row.to = new.to
    BY <1>1
  <1>3. ~ Counts(row, p)
    BY <1>2 DEF CreateAppointment, Counts, Overlapping, Touches
  <1> QED
    BY <1>1, <1>3, NewTermsSpare

LEMMA SameBookingsStay ==
  ASSUME NEW p, booking' = booking, \A b \in booking : Same(b)
  PROVE  BookedIn(p)' = BookedIn(p)
  BY BookedStays

LEMMA SameTermsSpare ==
  ASSUME NEW p, terms' = terms
  PROVE  EmployedIn(p)' = EmployedIn(p)
  BY NewTermsSpare

(* Bookings are fenced, and the terms they lie under stay.                  *)
LEMMA WrittenSpares ==
  ASSUME IInv, NEW s \in Request, WriteBooking(s) \/ WriteBatch(s), NEW p \in locked
  PROVE  BookedIn(p)' = BookedIn(p)
  <1>1. terms' = terms /\ booking \subseteq booking'
    BY DEF WriteBooking, WriteBatch
  <1>2. \A b : Employed(b) => Same(b)
    BY <1>1, UnchangedTermsAreSame
  <1>3. ASSUME NEW b \in booking', b \notin booking
        PROVE  \E holds : Fenced(b, holds)
    <2>1. CASE WriteBooking(s)
      BY <1>3, <2>1 DEF WriteBooking, IInv, Rests, BookingRests
    <2>2. CASE WriteBatch(s)
      <3>1. PICK t, job, batch : t = tx[s] /\ job = t.job /\ batch = job.batch
        OBVIOUS
      <3>2. /\ batch \in Batch /\ \A n \in DOMAIN batch : Fenced(EntryOf(job, n), t.holds)
            /\ booking' = booking \cup {EntryOf(job, n) : n \in Accepted(batch)}
        BY <2>2, <3>1 DEF WriteBatch, EntryOf, IInv, Rests, BookingRests
      <3> QED
        BY <1>3, <3>2, AcceptedIs
    <2> QED
      BY <2>1, <2>2
  <1>4. ASSUME NEW b \in booking', b \notin booking
        PROVE  p \notin PeriodsFor(b)'
    <2>1. PeriodsFor(b) \cap locked = {} /\ PeriodsFor(b)' = PeriodsFor(b)
      BY <1>2, <1>3, <1>4 DEF Fenced, Same
    <2> QED
      BY <2>1
  <1> QED
    BY <1>1, <1>2, <1>4, BookedStays DEF IInv

LEMMA LockedKeep ==
  ASSUME IInv, [Next]_vars, NEW p \in locked
  PROVE  Fewer(p) /\ BookedIn(p)' = BookedIn(p)
  <1>1. CASE terms' = terms /\ booking' = booking
    <2>1. \A b \in booking : Same(b)
      BY <1>1, UnchangedTermsAreSame DEF IInv
    <2> QED
      BY <1>1, <2>1, SameTermsSpare, SameIsFewer, SameBookingsStay
  <1>2. ASSUME NEW s \in Request, WriteBooking(s) \/ WriteBatch(s)
        PROVE  Fewer(p) /\ BookedIn(p)' = BookedIn(p)
    <2>1. terms' = terms
      BY <1>2 DEF WriteBooking, WriteBatch
    <2> QED
      BY <1>2, <2>1, WrittenSpares, SameTermsSpare, SameIsFewer
  <1>3. ASSUME NEW s \in Request, WriteImport(s), UNCHANGED receipt
        PROVE  Fewer(p) /\ BookedIn(p)' = BookedIn(p)
    <2>1. booking' = booking
      BY <1>3 DEF WriteImport
    <2> QED
      BY <1>3, <2>1, ImportSpares, SameIsFewer, WriteImportKeeps, SameBookingsStay
  <1>4. ASSUME UNCHANGED <<receipt, personnel>>,
               NEW a \in Appointment, NEW new \in NewTerm, CreateAppointment(a, new)
        PROVE  Fewer(p) /\ BookedIn(p)' = BookedIn(p)
    <2>1. booking' = booking
      BY <1>4 DEF CreateAppointment
    <2> QED
      BY <1>4, <2>1, CreateAppointmentSpares, SameIsFewer, CreateAppointmentKeeps, SameBookingsStay
  <1>5. ASSUME UNCHANGED <<receipt, personnel>>, NEW s \in Request, WriteTerm(s)
        PROVE  Fewer(p) /\ BookedIn(p)' = BookedIn(p)
    <2>1. booking' = booking
      BY <1>5 DEF WriteTerm
    <2> QED
      BY <1>5, <2>1, WriteTermSpares, WriteTermKeeps, SameBookingsStay
  <1>6. \/ terms' = terms /\ booking' = booking
        \/ \E s \in Request : WriteBooking(s) \/ WriteBatch(s)
        \/ UNCHANGED receipt /\ \E s \in Request : WriteImport(s)
        \/ UNCHANGED <<receipt, personnel>> /\ \E a \in Appointment, new \in NewTerm :
             CreateAppointment(a, new)
        \/ UNCHANGED <<receipt, personnel>> /\ \E s \in Request : WriteTerm(s)
    BY StepIs DEF RecordsStay, records, ApproveLeave, MovePeriod, WriteChange, WriteReview,
                  WriteDelivery
  <1> QED
    BY <1>1, <1>2, <1>3, <1>4, <1>5, <1>6

\* Nobody comes to be employed or books in what a closing period has locked, and
\* nobody ceases to be employed there but by a new term that ends before the period
\* or takes time from other units than were read (closing-lock.helper.ts,
\* employment-management.service.ts, legacy-employment.ts, terminal-batch-import.service.ts).
THEOREM LockedRecordsAlwaysStay == Spec => LockedRecordsStay
  <1>1. ASSUME IInv, [Next]_vars
        PROVE  \A p \in locked : Fewer(p) /\ BookedIn(p)' = BookedIn(p)
    BY <1>1, LockedKeep
  <1>2. ASSUME IInv, [Next]_vars
        PROVE  \A p \in locked :
                 /\ BookedIn(p)' = BookedIn(p)
                 /\ EmployedIn(p)' \subseteq EmployedIn(p)
                 /\ \A e \in EmployedIn(p) \ EmployedIn(p)' : e[2] \in Unasked(p)
    BY <1>1, <1>2 DEF Fewer
  <1> QED
    BY <1>2, AlwaysSound, PTL DEF Spec, LockedRecordsStay
=============================================================================
