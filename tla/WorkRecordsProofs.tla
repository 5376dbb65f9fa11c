-------------------------- MODULE WorkRecordsProofs --------------------------
(***************************************************************************)
(* Proofs about what is recorded of work, for any people, appointments,      *)
(* periods, rotations and projects and any number of requests at once.       *)
(* Whoever changes what a transaction has read needs a lock that it holds:   *)
(* of the person, of a period, or of the project.                            *)
(***************************************************************************)
EXTENDS WorkRecords, FiniteSetTheorems, WellFoundedInduction, TLAPS

(* An interval, and one that lies under terms of one unit of an appointment *)
(* of a person.                                                             *)
Interval(i) == i.from \in Nat /\ i.to \in Nat /\ i.from < i.to /\ i.to <= Never
Lies(x, a, i) ==
  /\ a \in Appointment /\ OwnerOf(a) = {x}
  /\ Lasts(a, i) /\ Covers(a, i) /\ Cardinality(UnitsOver(a, i)) = 1
LiesWell(b) == Lies(b.person, b.appointment, b.span)

PeriodsFor(b) == UNION {Overlapping(u, Seen(b.span)) : u \in UnitsOver(b.appointment, b.span)}

(* A transaction holds the locks of what it is about to book.               *)
Fenced(b, holds) ==
  /\ b \in Booking /\ LiesWell(b) /\ b.person \in holds
  /\ PeriodsFor(b) \subseteq holds /\ PeriodsFor(b) \cap locked = {}

Apart(x, i, others) == \A c \in OfPerson(x) \ others : ~ Overlap(c.span, i)

(* A rotation as it is planned.                                             *)
RotationRow == [person : Person, appointment : Appointment, unit : Unit,
                from : 0 .. Never, to : 0 .. Never]
Planned(rot) ==
  /\ rot \in RotationRow /\ rot.from < rot.to
  /\ Lies(rot.person, rot.appointment, rot) /\ UnitsOver(rot.appointment, rot) = {rot.unit}

(* What a transaction has read of bookings and rotations and may still      *)
(* rely on.                                                                 *)
BookRests(t) ==
  t.op = "BOOK" => Fenced(t.job, t.holds) /\ Apart(t.job.person, t.job.span, {})

DutyBooking(job) ==
  [person |-> job.person, appointment |-> job.appointment, span |-> job.span, source |-> "MANUAL"]

DutyRests(t) ==
  /\ t.op = "ROTATE" => Planned(t.job) /\ t.job.person \in t.holds
  /\ t.op = "MOVE" => LET r == t.job.rotation next == t.job.next IN
       /\ r \in Rotations /\ Planned(next) /\ next.person \in t.holds
       /\ rotation[r].person = next.person
       /\ \A d \in deployment : d.rotation = r => Within(d.span, next)
  /\ t.op = "DEPLOY" => LET r == t.job.rotation IN
       /\ t.job \in [rotation : Rotation, person : Person, appointment : Appointment, span : DutySpan]
       /\ r \in Rotations /\ rotation[r].person = t.job.person /\ Within(t.job.span, rotation[r])
       /\ Fenced(DutyBooking(t.job), t.holds) /\ Apart(t.job.person, t.job.span, {})

(* And what it has read of projects and effort.                             *)
Corrected(job) == [job.of EXCEPT !.span = job.span]

EffortRests(t) ==
  t.op = "ALLOCATE" => LET b == t.job.booking p == t.job.project n == t.job.amount IN
    /\ t.job \in [booking : Booking, project : Project, amount : 0 .. Never]
    /\ b \in booking /\ {b.person, p} \subseteq t.holds
    /\ n > 0 => b.span.to <= now /\ p \notin archived /\ Covering(b, p) # {}
    /\ AllocatedTo(b, Project \ {p}) + n <= Length(b)

MemberRests(t) ==
  /\ t.op = "JOIN" =>
       t.job \in NewMember /\ t.job.project \in t.holds /\ t.job.project \notin archived
  /\ t.op = "LEAVE" => LET m == t.job.of at == t.job.at IN
       /\ m \in member /\ m.project \in t.holds /\ at \in 0 .. now
       /\ \A e \in effort : e.project = m.project /\ e.amount > 0 => e.booking.span.to <= at

CorrectionRests(t) ==
  t.op = "CORRECT" => LET b == t.job.of IN
    /\ b \in booking /\ t.job.span \in Span /\ b.span # t.job.span
    /\ PeriodsFor(b) \subseteq t.holds /\ PeriodsFor(b) \cap locked = {}
    /\ Fenced(Corrected(t.job), t.holds) /\ Apart(b.person, t.job.span, {b})
    /\ \A e \in effort : e.booking = b => e.amount = 0

Ops == {"NONE", "READ", "BOOK", "TERM", "ROTATE", "MOVE", "DEPLOY", "ALLOCATE", "JOIN", "LEAVE",
        "CORRECT"}
Rests(t) ==
  /\ t.op \in Ops /\ BookRests(t) /\ DutyRests(t)
  /\ EffortRests(t) /\ MemberRests(t) /\ CorrectionRests(t)

(* Locks have one holder.                                                   *)
Exclusive ==
  /\ DOMAIN tx = Request
  /\ \A q, r \in Request : q # r => tx[q].holds \cap tx[r].holds = {}

(* Bookings lie where their people are employed and do not overlap,         *)
(* rotations as well, and deployments lie in their rotations.               *)
BookingsLie ==
  /\ \A b \in booking : LiesWell(b)
  /\ \A b, c \in booking : b # c /\ b.person = c.person => ~ Overlap(b.span, c.span)
DutyLies ==
  /\ \A r \in Rotations : Planned(rotation[r])
  /\ \A d \in deployment : Within(d.span, rotation[d.rotation])

(* There is one row of effort for each booking and project, and what counts *)
(* is of bookings that have ended.                                          *)
EffortIsKept ==
  /\ IsFiniteSet(effort)
  /\ \A e, f \in effort : e.booking = f.booking /\ e.project = f.project => e = f
  /\ \A e \in effort : e.amount > 0 => e.booking.span.to <= now

RowsOK == EmploymentTypeOK /\ DutyTypeOK /\ ProjectTypeOK

IInv ==
  /\ TypeOK /\ Exclusive
  /\ BookingsLie /\ DutyLies /\ EffortIsCovered /\ EffortIsKept
  /\ \A s \in Request : Rests(tx[s])

-----------------------------------------------------------------------------

(* What a set of effort sums up to.  The sum of the library is a recursive  *)
(* function that takes out one chosen element after the other; that there   *)
(* is such a function, and that the choice does not matter, is shown here   *)
(* with a smallest set for which it would fail.                             *)
Total(S) == MapThenSumSet(LAMBDA e : e.amount, S)
First(s) == CHOOSE x \in s : TRUE
Rule(S, g) ==
  [s \in SUBSET S |-> IF s = {} THEN 0 ELSE LET x == First(s) IN x.amount + g[s \ {x}]]

LEMMA TotalIs ==
  ASSUME NEW S
  PROVE  Total(S) = (CHOOSE g : g = Rule(S, g))[S]
  BY DEF Total, MapThenSumSet, MapThenFoldSet, Rule, First

LEMMA SmallestSet ==
  ASSUME NEW S, IsFiniteSet(S), NEW T \in SUBSET (SUBSET S), T # {}
  PROVE  \E t \in T : \A c \in T : c \subseteq t => c = t
  <1>1. T \subseteq FiniteSubsetsOf(S)
    BY FS_Subset DEF FiniteSubsetsOf
  <1>2. IsWellFoundedOn(StrictSubsetOrdering(S), FiniteSubsetsOf(S))
    BY FS_StrictSubsetOrderingWellFounded, Zenon
  <1>3. PICK t \in T : \A c \in T : <<c, t>> \notin StrictSubsetOrdering(S)
    BY <1>1, <1>2, WFMin, Zenon
  <1> QED
    BY <1>3, Zenon DEF StrictSubsetOrdering

LEMMA RuleAt ==
  ASSUME NEW S, NEW g, g = Rule(S, g), NEW s \in SUBSET S
  PROVE  /\ s = {} => g[s] = 0
         /\ s # {} => First(s) \in s /\ g[s] = First(s).amount + g[s \ {First(s)}]
  <1>1. g[s] = IF s = {} THEN 0 ELSE First(s).amount + g[s \ {First(s)}]
    BY Zenon DEF Rule
  <1>2. s # {} => First(s) \in s
    BY DEF First
  <1> QED
    BY <1>1, <1>2

LEMMA RulesAgree ==
  ASSUME NEW A, NEW B, NEW g, NEW h, g = Rule(A, g), h = Rule(B, h),
         NEW s, s \subseteq A, s \subseteq B, IsFiniteSet(s)
  PROVE  g[s] = h[s]
  <1>1. PICK T : T = {t \in SUBSET s : g[t] # h[t]}
    OBVIOUS
  <1>2. ASSUME T # {} PROVE FALSE
    <2>1. PICK t \in T : \A c \in T : c \subseteq t => c = t
      BY <1>1, <1>2, SmallestSet
    <2>2. t \subseteq s /\ g[t] # h[t] /\ t \in SUBSET A /\ t \in SUBSET B
      BY <1>1, <2>1
    <2>3. t # {}
      BY <2>2, RuleAt
    <2>4. /\ First(t) \in t /\ g[t] = First(t).amount + g[t \ {First(t)}]
          /\ h[t] = First(t).amount + h[t \ {First(t)}]
      BY <2>2, <2>3, RuleAt
    <2>5. g[t \ {First(t)}] = h[t \ {First(t)}]
      <3>1. t \ {First(t)} \in SUBSET s /\ t \ {First(t)} \notin T
        BY <2>1, <2>2, <2>4
      <3> QED
        BY <1>1, <3>1
    <2> QED
      BY <2>2, <2>4, <2>5
  <1> QED
    BY <1>1, <1>2

Solved(S) == \E g : g = Rule(S, g)

LEMMA SolvedTotal ==
  ASSUME NEW S, NEW s \in SUBSET S, IsFiniteSet(S), NEW g, g = Rule(S, g), Solved(s)
  PROVE  Total(s) = g[s]
  <1>1. PICK h : h = CHOOSE f : f = Rule(s, f)
    OBVIOUS
  <1>2. h = Rule(s, h)
    BY <1>1, Zenon DEF Solved
  <1>3. IsFiniteSet(s)
    BY FS_Subset
  <1>4. g[s] = h[s]
    BY <1>2, <1>3, RulesAgree
  <1> QED
    BY <1>1, <1>4, TotalIs

LEMMA SumsExist ==
  ASSUME NEW S, IsFiniteSet(S)
  PROVE  \A s \in SUBSET S : Solved(s)
  <1>1. PICK T : T = {t \in SUBSET S : ~ Solved(t)}
    OBVIOUS
  <1>2. ASSUME T # {} PROVE FALSE
    <2>1. PICK t \in T : \A c \in T : c \subseteq t => c = t
      BY <1>1, <1>2, SmallestSet
    <2>2. t \in SUBSET S /\ ~ Solved(t) /\ IsFiniteSet(t)
      BY <1>1, <2>1, FS_Subset
    <2>3. \A c \in SUBSET t : c # t => Solved(c) /\ IsFiniteSet(c)
      BY <1>1, <2>1, <2>2, FS_Subset
    <2>4. PICK g : g = [c \in SUBSET t |-> IF c = {} THEN 0
                                         ELSE First(c).amount + Total(c \ {First(c)})]
      OBVIOUS
    <2>5. \A c \in SUBSET t : c # {} => First(c) \in c
      BY DEF First
    <2>6. ASSUME NEW c \in SUBSET t, c # t PROVE Total(c) = g[c]
      <3>1. PICK h : h = CHOOSE f : f = Rule(c, f)
        OBVIOUS
      <3>2. h = Rule(c, h) /\ IsFiniteSet(c) /\ Total(c) = h[c]
        BY <2>3, <2>6, <3>1, TotalIs, Zenon DEF Solved
      <3>3. CASE c = {}
        BY <2>4, <3>2, <3>3, RuleAt
      <3>4. CASE c # {}
        <4>1. First(c) \in c /\ h[c] = First(c).amount + h[c \ {First(c)}]
          BY <3>2, <3>4, RuleAt
        <4>2. c \ {First(c)} \in SUBSET c /\ c \ {First(c)} \in SUBSET t /\ c \ {First(c)} # t
          BY <2>6, <4>1
        <4>3. Total(c \ {First(c)}) = h[c \ {First(c)}]
          BY <2>3, <3>2, <4>2, SolvedTotal
        <4> QED
          BY <2>4, <3>2, <3>4, <4>1, <4>3
      <3> QED
        BY <3>3, <3>4
    <2>7. ASSUME NEW c \in SUBSET t, c # {} PROVE Total(c \ {First(c)}) = g[c \ {First(c)}]
      <3>1. c \ {First(c)} \in SUBSET t /\ c \ {First(c)} # t
        BY <2>5, <2>7
      <3> QED
        BY <2>6, <3>1
    <2>8. g = Rule(t, g)
      <3>1. \A c \in SUBSET t : g[c] = IF c = {} THEN 0 ELSE First(c).amount + g[c \ {First(c)}]
        BY <2>4, <2>7
      <3>2. g = [c \in SUBSET t |-> g[c]]
        BY <2>4
      <3>3. g = [c \in SUBSET t |-> IF c = {} THEN 0 ELSE First(c).amount + g[c \ {First(c)}]]
        BY <3>1, <3>2
      <3> QED
        BY <3>3 DEF Rule
    <2> QED
      BY <2>2, <2>8 DEF Solved
  <1> QED
    BY <1>1, <1>2

LEMMA TotalStep ==
  ASSUME NEW S, IsFiniteSet(S)
  PROVE  /\ S = {} => Total(S) = 0
         /\ S # {} => First(S) \in S /\ Total(S) = First(S).amount + Total(S \ {First(S)})
  <1>1. S \in SUBSET S /\ Solved(S) /\ \A s \in SUBSET S : Solved(s)
    BY SumsExist
  <1>2. PICK g : g = Rule(S, g)
    BY <1>1 DEF Solved
  <1>3. \A s \in SUBSET S : Total(s) = g[s]
    BY <1>1, <1>2, SolvedTotal
  <1>4. /\ S = {} => g[S] = 0
        /\ S # {} => First(S) \in S /\ g[S] = First(S).amount + g[S \ {First(S)}]
    <2>1. \A s \in SUBSET S : /\ s = {} => g[s] = 0
                              /\ s # {} => First(s) \in s /\ g[s] = First(s).amount + g[s \ {First(s)}]
      BY <1>2, RuleAt
    <2> QED
      BY <1>1, <2>1
  <1>5. S \ {First(S)} \in SUBSET S
    OBVIOUS
  <1> QED
    BY <1>1, <1>3, <1>4, <1>5

Amounts(S) == \A e \in S : e.amount \in Nat

LEMMA TotalIsNat ==
  ASSUME NEW S, IsFiniteSet(S), Amounts(S)
  PROVE  Total(S) \in Nat
  <1>1. PICK T : T = {t \in SUBSET S : Total(t) \notin Nat}
    OBVIOUS
  <1>2. ASSUME T # {} PROVE FALSE
    <2>1. PICK t \in T : \A c \in T : c \subseteq t => c = t
      BY <1>1, <1>2, SmallestSet
    <2>2. t \in SUBSET S /\ Total(t) \notin Nat /\ IsFiniteSet(t)
      BY <1>1, <2>1, FS_Subset
    <2>3. t # {} /\ First(t) \in t /\ Total(t) = First(t).amount + Total(t \ {First(t)})
      BY <2>2, TotalStep
    <2>4. First(t).amount \in Nat
      BY <2>2, <2>3 DEF Amounts
    <2>5. Total(t \ {First(t)}) \in Nat
      BY <1>1, <2>1, <2>2, <2>3
    <2> QED
      BY <2>2, <2>3, <2>4, <2>5
  <1> QED
    BY <1>1, <1>2

LEMMA TotalWithout ==
  ASSUME NEW S, IsFiniteSet(S), Amounts(S), NEW e \in S
  PROVE  /\ Total(S) = e.amount + Total(S \ {e})
         /\ e.amount \in Nat /\ Total(S) \in Nat /\ Total(S \ {e}) \in Nat
  <1>1. \A t \in SUBSET S : IsFiniteSet(t) /\ Amounts(t) /\ Total(t) \in Nat
    BY FS_Subset, TotalIsNat DEF Amounts
  <1>2. PICK T : T = {t \in SUBSET S : \E x \in t : Total(t) # x.amount + Total(t \ {x})}
    OBVIOUS
  <1>3. ASSUME T # {} PROVE FALSE
    <2>1. PICK t \in T : \A c \in T : c \subseteq t => c = t
      <3>1. T \in SUBSET (SUBSET S)
        BY <1>2
      <3> QED
        BY <1>3, <3>1, SmallestSet
    <2>2. PICK x \in t : Total(t) # x.amount + Total(t \ {x})
      BY <1>2, <2>1
    <2>3. t \in SUBSET S /\ IsFiniteSet(t)
      BY <1>1, <1>2, <2>1
    <2>4. PICK y : y = First(t)
      OBVIOUS
    <2>5. y \in t /\ Total(t) = y.amount + Total(t \ {y}) /\ y # x
      BY <2>2, <2>3, <2>4, TotalStep
    <2>6. Total(t \ {y}) = x.amount + Total((t \ {y}) \ {x})
      <3>1. t \ {y} \notin T /\ x \in t \ {y} /\ t \ {y} \in SUBSET S
        BY <2>1, <2>2, <2>3, <2>5
      <3> QED
        BY <1>2, <3>1
    <2>7. Total(t \ {x}) = y.amount + Total((t \ {x}) \ {y})
      <3>1. t \ {x} \notin T /\ y \in t \ {x} /\ t \ {x} \in SUBSET S
        BY <2>1, <2>2, <2>3, <2>5
      <3> QED
        BY <1>2, <3>1
    <2>8. (t \ {x}) \ {y} = (t \ {y}) \ {x}
      OBVIOUS
    <2>9. x.amount \in Nat /\ y.amount \in Nat /\ Total((t \ {y}) \ {x}) \in Nat
      BY <1>1, <2>2, <2>3, <2>5 DEF Amounts
    <2>10. PICK n \in Nat : n = Total((t \ {y}) \ {x})
      BY <2>9
    <2>11. Total(t \ {y}) = x.amount + n /\ Total(t \ {x}) = y.amount + n
      BY <2>6, <2>7, <2>8, <2>10
    <2>12. y.amount + (x.amount + n) = x.amount + (y.amount + n)
      BY <2>9
    <2> QED
      BY <2>2, <2>5, <2>11, <2>12
  <1>4. S \notin T /\ S \in SUBSET S /\ S \ {e} \in SUBSET S
    BY <1>3
  <1> QED
    BY <1>1, <1>2, <1>4 DEF Amounts

LEMMA NoTotal ==
  ASSUME NEW S, IsFiniteSet(S), Amounts(S)
  PROVE  Total(S) = 0 <=> \A e \in S : e.amount = 0
  <1>1. ASSUME Total(S) = 0, NEW e \in S PROVE e.amount = 0
    <2>1. PICK n \in Nat : n = Total(S \ {e}) /\ Total(S) = e.amount + n /\ e.amount \in Nat
      BY TotalWithout
    <2> QED
      BY <1>1, <2>1
  <1>2. ASSUME \A e \in S : e.amount = 0, Total(S) # 0 PROVE FALSE
    <2>1. PICK T : T = {t \in SUBSET S : Total(t) # 0}
      OBVIOUS
    <2>2. PICK t \in T : \A c \in T : c \subseteq t => c = t
      <3>1. T # {} /\ T \in SUBSET (SUBSET S)
        BY <1>2, <2>1
      <3> QED
        BY <3>1, SmallestSet
    <2>3. t \in SUBSET S /\ Total(t) # 0 /\ IsFiniteSet(t)
      BY <2>1, <2>2, FS_Subset
    <2>4. t # {} /\ First(t) \in t /\ Total(t) = First(t).amount + Total(t \ {First(t)})
      BY <2>3, TotalStep
    <2>5. Total(t \ {First(t)}) = 0
      BY <2>1, <2>2, <2>3, <2>4
    <2> QED
      BY <1>2, <2>3, <2>4, <2>5
  <1> QED
    BY <1>1, <1>2

(* What is allocated of a booking, in these words.                          *)
Rows(b) == {e \in effort : e.booking = b}
Beside(b, p) == {e \in effort : e.booking = b /\ e.project # p}

LEMMA AllocatedIs ==
  ASSUME NEW b, NEW P
  PROVE  AllocatedTo(b, P) = Total({e \in effort : e.booking = b /\ e.project \in P})
  BY DEF AllocatedTo, Total

LEMMA AllocatedNext ==
  ASSUME NEW b, NEW P
  PROVE  AllocatedTo(b, P)' = Total({e \in effort' : e.booking = b /\ e.project \in P})
  <1>1. AllocatedTo(b, P) = Total({e \in effort : e.booking = b /\ e.project \in P})
    BY AllocatedIs
  <1>2. (AllocatedTo(b, P) = Total({e \in effort : e.booking = b /\ e.project \in P}))'
    BY <1>1, PTL
  <1> QED
    BY <1>2

LEMMA RowsSum ==
  ASSUME effort \subseteq [booking : Booking, project : Project, amount : 0 .. Never],
         Never \in Nat, IsFiniteSet(effort), NEW S \in SUBSET effort
  PROVE  IsFiniteSet(S) /\ Amounts(S) /\ Total(S) \in Nat
  <1>1. IsFiniteSet(S) /\ Amounts(S)
    BY FS_Subset DEF Amounts
  <1> QED
    BY <1>1, TotalIsNat

-----------------------------------------------------------------------------
(* Transactions.                                                            *)

LEMMA EntersIs ==
  ASSUME Exclusive, NEW s \in Request, NEW op, NEW job, NEW keys, Enters(s, op, job, keys)
  PROVE  /\ tx'[s] = [op |-> op, job |-> job, holds |-> tx[s].holds \cup keys]
         /\ \A q \in Request \ {s} : tx'[q] = tx[q]
         /\ Exclusive' /\ UNCHANGED <<records, written>>
  <1>1. /\ tx'[s] = [op |-> op, job |-> job, holds |-> tx[s].holds \cup keys]
        /\ \A q \in Request \ {s} : tx'[q] = tx[q]
        /\ DOMAIN tx' = Request
    BY DEF Enters, Exclusive
  <1>2. tx'[s].holds = tx[s].holds \cup keys /\ \A q \in Request : tx[q].holds \cap keys = {}
    BY <1>1 DEF Enters, Free
  <1>3. Exclusive'
    BY <1>1, <1>2 DEF Exclusive
  <1> QED
    BY <1>1, <1>3 DEF Enters

LEMMA IdleIs ==
  ASSUME Exclusive, NEW s \in Request, tx' = [tx EXCEPT ![s] = Idle]
  PROVE  /\ tx'[s] = Idle /\ \A q \in Request \ {s} : tx'[q] = tx[q]
         /\ Exclusive'
  <1>1. tx'[s] = Idle /\ (\A q \in Request \ {s} : tx'[q] = tx[q]) /\ DOMAIN tx' = Request
    BY DEF Exclusive
  <1>2. tx'[s].holds = {}
    BY <1>1 DEF Idle
  <1> QED
    BY <1>1, <1>2 DEF Exclusive

LEMMA IdleRests == (Rests(Idle) /\ JobOK(Idle))' /\ Idle.holds = {} /\ Idle.op = "NONE"
  BY DEF Rests, BookRests, DutyRests, EffortRests, MemberRests, CorrectionRests, Ops, JobOK, Idle

LEMMA JobIs ==
  ASSUME NEW t, JobOK(t), t.op \in Ops
  PROVE  /\ t.op = "NONE" => t = Idle
         /\ t.op = "READ" =>
              t.job \in [person : Person, appointment : Appointment, unit : Unit, span : Span]
         /\ t.op = "BOOK" => t.job \in Booking
         /\ t.op = "TERM" =>
              t.job \in [appointment : Appointment, next : NextTerm, units : SUBSET Unit]
         /\ t.op = "ROTATE" => t.job.person \in Person /\ t.job.appointment \in Appointment
         /\ t.op = "DEPLOY" => t.job.span \in DutySpan
         /\ t.op = "ALLOCATE" => t.job.amount \in Amount \cup {0}
         /\ t.op = "JOIN" => t.job \in NewMember
         /\ t.op = "CORRECT" => t.job.span \in Span
  BY DEF JobOK, Ops

(* The rest of what a job remembers is a row that is still there.           *)
LEMMA JobStays ==
  ASSUME NEW t, JobOK(t), t.op \in Ops,
         t.op \in {"MOVE", "DEPLOY"} => (t.job.rotation \in Rotations)',
         t.op = "ALLOCATE" => (t.job.booking \in booking)',
         t.op = "LEAVE" => (t.job.of \in member /\ t.job.at \in 0 .. now)',
         t.op = "CORRECT" => (t.job.of \in booking)'
  PROVE  JobOK(t)'
  BY JobIs DEF JobOK, Ops

-----------------------------------------------------------------------------
(* Appointments and intervals.                                              *)

LEMMA LiesIs ==
  ASSUME NEW x, NEW a, NEW i
  PROVE  /\ Resolves(x, a, i, a) <=> Lies(x, a, i)
         /\ (Resolves(x, a, i, a) <=> Lies(x, a, i))'
  BY KeysDiffer DEF Resolves, Eligible, Lies

LEMMA ResolvesIs ==
  ASSUME NEW x, NEW named, NEW i, NEW a, Resolves(x, named, i, a)
  PROVE  Lies(x, a, i)
  BY DEF Resolves, Eligible, Lies

LEMMA Alike ==
  ASSUME NEW x, NEW a, NEW i, NEW j, i.from = j.from, i.to = j.to
  PROVE  (Lies(x, a, i) <=> Lies(x, a, j)) /\ UnitsOver(a, i) = UnitsOver(a, j)
  <1>1. Known(i).from = Known(j).from /\ Known(i).to = Known(j).to
    BY DEF Known
  <1>2. UnitsOver(a, i) = UnitsOver(a, j)
    BY <1>1 DEF UnitsOver, Overlap
  <1> QED
    BY <1>1, <1>2 DEF Lies, Lasts, Covers

LEMMA OneUnit ==
  ASSUME terms \subseteq Term, NEW x, NEW a, NEW i, Lies(x, a, i)
  PROVE  \E u \in Unit : UnitsOver(a, i) = {u}
  <1>1. UnitsOver(a, i) \subseteq Unit
    BY DEF UnitsOver, TermsOf, Term
  <1>2. IsFiniteSet(UnitsOver(a, i))
    BY <1>1, InputsAreValid, FS_Subset
  <1> QED
    BY <1>1, <1>2, FS_Singleton DEF Lies

LEMMA SpansAre ==
  ASSUME NEW i \in Span
  PROVE  i.from \in Nat /\ i.to \in Nat /\ i.from < i.to /\ i.to <= Never /\ Never \in Nat
  BY SpansAreIntervals

LEMMA BookingsAre ==
  ASSUME NEW b \in Booking
  PROVE  /\ b.person \in Person /\ b.appointment \in Appointment /\ b.span \in Span
         /\ b.source \in {"WEB", "IMPORT", "MANUAL"}
  BY DEF Booking

LEMMA TermsAre ==
  ASSUME NEW t \in Term
  PROVE  /\ t.appointment \in Appointment /\ t.person \in Person /\ t.unit \in Unit
         /\ t.from \in Nat /\ t.to \in Nat /\ t.to <= Never /\ Never \in Nat
         /\ t.start \in Nat /\ t.end \in Nat
  BY SpansAreIntervals DEF Term

LEMMA RotationsAre ==
  ASSUME NEW r, r \in RotationRow
  PROVE  /\ r.person \in Person /\ r.appointment \in Appointment /\ r.unit \in Unit
         /\ r.from \in Nat /\ r.to \in Nat /\ r.to <= Never /\ Never \in Nat /\ r # NoRotation
  BY SpansAreIntervals, KeysDiffer DEF RotationRow, NoRotation

(* The periods of one interval of a booking lie in one unit.                *)
LEMMA PeriodsAre ==
  ASSUME NEW b, NEW u, UnitsOver(b.appointment, b.span) = {u}
  PROVE  PeriodsFor(b) = Overlapping(u, Seen(b.span))
  BY DEF PeriodsFor

LEMMA OverlapIs ==
  ASSUME NEW i \in Span, NEW j \in Span
  PROVE  (Overlap(i, j) <=> Overlap(j, i)) /\ Overlap(i, i)
  BY SpansAre DEF Overlap

(* What the invariant says of the rows, by name.                            *)
LEMMA RowsAre ==
  ASSUME IInv
  PROVE  /\ terms \subseteq Term /\ booking \subseteq Booking /\ locked \subseteq Period
         /\ written \in Nat /\ MaxWrites \in Nat /\ Never \in Nat /\ now \in Nat /\ MaxNow \in Nat
         /\ effort \subseteq [booking : Booking, project : Project, amount : 0 .. Never]
         /\ IsFiniteSet(effort) /\ Exclusive
         /\ \A s \in Request : JobOK(tx[s]) /\ tx[s].op \in Ops /\ tx[s].holds \subseteq LockKey
  BY InputsAreValid, SpansAreIntervals, AmountsAreNumbers
  DEF IInv, TypeOK, EmploymentTypeOK, DutyTypeOK, ProjectTypeOK, EffortIsKept, Rests

-----------------------------------------------------------------------------
(* What a transaction relies on stays, when nobody touches what it holds.   *)

Same(a, i) ==
  /\ OwnerOf(a)' = OwnerOf(a) /\ Lasts(a, i)' = Lasts(a, i)
  /\ Covers(a, i)' = Covers(a, i) /\ UnitsOver(a, i)' = UnitsOver(a, i)

EmploymentStays(h) ==
  /\ \A x \in h : \A a, i : Lies(x, a, i) => Same(a, i)
  /\ locked' \cap h \subseteq locked
  /\ \A b : b.person \in h => (b \in booking' <=> b \in booking)
DutyStays(h) ==
  /\ \A r \in Rotations : rotation[r].person \in h => rotation'[r] = rotation[r]
  /\ \A d \in deployment' : d \in deployment \/ rotation[d.rotation].person \notin h
ProjectStays(h) ==
  /\ \A m : m.project \in h => (m \in member' <=> m \in member)
  /\ \A e : e.booking.person \in h => (e \in effort' <=> e \in effort)
  /\ \A e \in effort' : e.project \in h /\ e.amount > 0 => e \in effort
  /\ archived' \cap h \subseteq archived
  /\ now' \in Nat /\ now <= now'
Undisturbed(h) == EmploymentStays(h) /\ DutyStays(h) /\ ProjectStays(h)

LEMMA LiesStays ==
  ASSUME NEW x, NEW a, NEW i, Lies(x, a, i), Same(a, i)
  PROVE  Lies(x, a, i)'
  BY DEF Lies, Same

LEMMA PeriodsStay ==
  ASSUME NEW b, Same(b.appointment, b.span)
  PROVE  PeriodsFor(b)' = PeriodsFor(b)
  BY DEF PeriodsFor, Same

LEMMA FencedStays ==
  ASSUME NEW h, EmploymentStays(h), NEW b, Fenced(b, h)
  PROVE  Fenced(b, h)'
  <1>1. /\ b \in Booking /\ b.person \in h /\ Lies(b.person, b.appointment, b.span)
        /\ PeriodsFor(b) \subseteq h /\ PeriodsFor(b) \cap locked = {}
    BY DEF Fenced, LiesWell
  <1>2. Same(b.appointment, b.span)
    BY <1>1 DEF EmploymentStays
  <1>3. Lies(b.person, b.appointment, b.span)' /\ PeriodsFor(b)' = PeriodsFor(b)
    BY <1>1, <1>2, LiesStays, PeriodsStay
  <1> QED
    BY <1>1, <1>3 DEF Fenced, LiesWell, EmploymentStays

LEMMA ApartStays ==
  ASSUME NEW h, EmploymentStays(h), NEW x \in h, NEW i, NEW others, Apart(x, i, others)
  PROVE  Apart(x, i, others)'
  BY DEF Apart, OfPerson, EmploymentStays

LEMMA PlannedStays ==
  ASSUME NEW rot, Planned(rot), Same(rot.appointment, rot)
  PROVE  Planned(rot)'
  <1>1. Lies(rot.person, rot.appointment, rot)'
    BY LiesStays DEF Planned
  <1> QED
    BY <1>1 DEF Planned, Same

LEMMA RotationStays ==
  ASSUME NEW h, DutyStays(h), NEW r \in Rotations, rotation[r].person \in h
  PROVE  (r \in Rotations)' /\ rotation'[r] = rotation[r]
  BY DEF DutyStays, Rotations, NoRotation

LEMMA BookRestsStay ==
  ASSUME NEW t, BookRests(t), EmploymentStays(t.holds)
  PROVE  BookRests(t)'
  <1>1. ASSUME t.op = "BOOK"
        PROVE  (Fenced(t.job, t.holds) /\ Apart(t.job.person, t.job.span, {}))'
    <2>1. Fenced(t.job, t.holds) /\ Apart(t.job.person, t.job.span, {})
      BY <1>1 DEF BookRests
    <2>2. t.job.person \in t.holds
      BY <2>1 DEF Fenced
    <2> QED
      BY <2>1, <2>2, FencedStays, ApartStays
  <1> QED
    BY <1>1 DEF BookRests

LEMMA DutyRestsStay ==
  ASSUME NEW t, DutyRests(t), EmploymentStays(t.holds), DutyStays(t.holds)
  PROVE  DutyRests(t)'
  <1>1. ASSUME t.op = "ROTATE" PROVE Planned(t.job)' /\ t.job.person \in t.holds
    <2>1. Planned(t.job) /\ t.job.person \in t.holds
      BY <1>1 DEF DutyRests
    <2>2. Same(t.job.appointment, t.job)
      BY <2>1 DEF Planned, EmploymentStays
    <2> QED
      BY <2>1, <2>2, PlannedStays
  <1>2. ASSUME t.op = "MOVE", NEW r, r = t.job.rotation, NEW next, next = t.job.next
        PROVE  (/\ r \in Rotations /\ Planned(next) /\ next.person \in t.holds
                /\ rotation[r].person = next.person
                /\ \A d \in deployment : d.rotation = r => Within(d.span, next))'
    <2>1. /\ r \in Rotations /\ Planned(next) /\ next.person \in t.holds
          /\ rotation[r].person = next.person
          /\ \A d \in deployment : d.rotation = r => Within(d.span, next)
      BY <1>2 DEF DutyRests
    <2>2. Same(next.appointment, next)
      BY <2>1 DEF Planned, EmploymentStays
    <2>3. Planned(next)' /\ (r \in Rotations)' /\ rotation'[r] = rotation[r]
      BY <2>1, <2>2, PlannedStays, RotationStays
    <2>4. \A d \in deployment' : d.rotation = r => Within(d.span, next)
      BY <2>1 DEF DutyStays
    <2> QED
      BY <2>1, <2>3, <2>4 DEF Within
  <1>3. ASSUME t.op = "DEPLOY", NEW r, r = t.job.rotation, NEW job, job = t.job
        PROVE  (/\ job \in [rotation : Rotation, person : Person, appointment : Appointment,
                            span : DutySpan]
                /\ r \in Rotations /\ rotation[r].person = job.person /\ Within(job.span, rotation[r])
                /\ Fenced(DutyBooking(job), t.holds) /\ Apart(job.person, job.span, {}))'
    <2>1. /\ job \in [rotation : Rotation, person : Person, appointment : Appointment,
                      span : DutySpan]
          /\ r \in Rotations /\ rotation[r].person = job.person /\ Within(job.span, rotation[r])
          /\ Fenced(DutyBooking(job), t.holds) /\ Apart(job.person, job.span, {})
      BY <1>3 DEF DutyRests
    <2>2. job.person \in t.holds
      BY <2>1 DEF Fenced, DutyBooking
    <2>3. Fenced(DutyBooking(job), t.holds)' /\ Apart(job.person, job.span, {})'
      <3>1. PICK b : b = DutyBooking(job)
        OBVIOUS
      <3> QED
        BY <2>1, <2>2, <3>1, FencedStays, ApartStays DEF DutyBooking
    <2>4. (r \in Rotations)' /\ rotation'[r] = rotation[r]
      BY <2>1, <2>2, RotationStays
    <2> QED
      BY <2>1, <2>3, <2>4 DEF Within
  <1> QED
    BY <1>1, <1>2, <1>3 DEF DutyRests

LEMMA EffortRestsStay ==
  ASSUME NEW t, EffortRests(t), EmploymentStays(t.holds), ProjectStays(t.holds), now \in Nat
  PROVE  EffortRests(t)'
  <1>1. ASSUME t.op = "ALLOCATE", NEW b, b = t.job.booking, NEW p, p = t.job.project,
               NEW n, n = t.job.amount
        PROVE  /\ t.job \in [booking : Booking, project : Project, amount : 0 .. Never]
               /\ b \in booking' /\ {b.person, p} \subseteq t.holds
               /\ n > 0 => b.span.to <= now' /\ p \notin archived' /\ Covering(b, p)' # {}
               /\ AllocatedTo(b, Project \ {p})' + n <= Length(b)
    <2>1. /\ t.job \in [booking : Booking, project : Project, amount : 0 .. Never]
          /\ b \in booking /\ {b.person, p} \subseteq t.holds
          /\ n > 0 => b.span.to <= now /\ p \notin archived /\ Covering(b, p) # {}
          /\ AllocatedTo(b, Project \ {p}) + n <= Length(b)
      BY <1>1 DEF EffortRests
    <2>2. b \in booking' /\ (n > 0 => p \notin archived')
      BY <2>1 DEF EmploymentStays, ProjectStays
    <2>3. n > 0 => b.span.to <= now'
      <3>1. b.span.to \in Nat
        BY <1>1, <2>1, BookingsAre, SpansAre
      <3> QED
        BY <2>1, <3>1 DEF ProjectStays
    <2>4. Covering(b, p)' = Covering(b, p)
      BY <2>1 DEF Covering, ProjectStays
    <2>5. AllocatedTo(b, Project \ {p})' = AllocatedTo(b, Project \ {p})
      <3>1. {e \in effort' : e.booking = b /\ e.project \in Project \ {p}}
              = {e \in effort : e.booking = b /\ e.project \in Project \ {p}}
        BY <2>1 DEF ProjectStays
      <3> QED
        BY <3>1, AllocatedIs, AllocatedNext
    <2> QED
      BY <2>1, <2>2, <2>3, <2>4, <2>5
  <1> QED
    BY <1>1 DEF EffortRests, Length

LEMMA MemberRestsStay ==
  ASSUME NEW t, MemberRests(t), ProjectStays(t.holds), now \in Nat
  PROVE  MemberRests(t)'
  <1>1. ASSUME t.op = "JOIN"
        PROVE  t.job \in NewMember /\ t.job.project \in t.holds /\ t.job.project \notin archived'
    BY <1>1 DEF MemberRests, ProjectStays
  <1>2. ASSUME t.op = "LEAVE", NEW m, m = t.job.of, NEW at, at = t.job.at
        PROVE  /\ m \in member' /\ m.project \in t.holds /\ at \in 0 .. now'
               /\ \A e \in effort' : e.project = m.project /\ e.amount > 0 => e.booking.span.to <= at
    <2>1. /\ m \in member /\ m.project \in t.holds /\ at \in 0 .. now
          /\ \A e \in effort : e.project = m.project /\ e.amount > 0 => e.booking.span.to <= at
      BY <1>2 DEF MemberRests
    <2>2. at \in 0 .. now'
      BY <2>1 DEF ProjectStays
    <2> QED
      BY <2>1, <2>2 DEF ProjectStays
  <1> QED
    BY <1>1, <1>2 DEF MemberRests

LEMMA CorrectionRestsStay ==
  ASSUME NEW t, CorrectionRests(t), EmploymentStays(t.holds), ProjectStays(t.holds), BookingsLie
  PROVE  CorrectionRests(t)'
  <1>1. ASSUME t.op = "CORRECT", NEW b, b = t.job.of, NEW c, c = Corrected(t.job)
        PROVE  /\ b \in booking' /\ t.job.span \in Span /\ b.span # t.job.span
               /\ PeriodsFor(b)' \subseteq t.holds /\ PeriodsFor(b)' \cap locked' = {}
               /\ Fenced(c, t.holds)' /\ Apart(b.person, t.job.span, {b})'
               /\ \A e \in effort' : e.booking = b => e.amount = 0
    <2>1. /\ b \in booking /\ t.job.span \in Span /\ b.span # t.job.span
          /\ PeriodsFor(b) \subseteq t.holds /\ PeriodsFor(b) \cap locked = {}
          /\ Fenced(c, t.holds) /\ Apart(b.person, t.job.span, {b})
          /\ \A e \in effort : e.booking = b => e.amount = 0
      BY <1>1 DEF CorrectionRests
    <2>2. b.person \in t.holds
      <3>1. c.person = b.person \/ c = b
        BY <1>1 DEF Corrected
      <3> QED
        BY <2>1, <3>1 DEF Fenced
    <2>3. PeriodsFor(b)' = PeriodsFor(b)
      <3>1. Lies(b.person, b.appointment, b.span)
        BY <2>1 DEF BookingsLie, LiesWell
      <3> QED
        BY <2>2, <3>1, PeriodsStay DEF EmploymentStays
    <2>4. Fenced(c, t.holds)' /\ Apart(b.person, t.job.span, {b})'
      BY <2>1, <2>2, FencedStays, ApartStays
    <2>5. b \in booking' /\ locked' \cap t.holds \subseteq locked
      BY <2>1, <2>2 DEF EmploymentStays
    <2>6. \A e \in effort' : e.booking = b => e.amount = 0
      BY <2>1, <2>2 DEF ProjectStays
    <2> QED
      BY <2>1, <2>3, <2>4, <2>5, <2>6
  <1> QED
    BY <1>1 DEF CorrectionRests

LEMMA RestsStay ==
  ASSUME NEW t, Rests(t), JobOK(t), Undisturbed(t.holds), BookingsLie, now \in Nat
  PROVE  Rests(t)' /\ JobOK(t)'
  <1>1. /\ BookRests(t)' /\ DutyRests(t)' /\ EffortRests(t)' /\ MemberRests(t)'
        /\ CorrectionRests(t)' /\ t.op \in Ops
    BY BookRestsStay, DutyRestsStay, EffortRestsStay, MemberRestsStay, CorrectionRestsStay
    DEF Rests, Undisturbed
  <1>2. Rests(t)'
    BY <1>1 DEF Rests, Ops
  <1>3. t.op \in {"MOVE", "DEPLOY"} => (t.job.rotation \in Rotations)'
    BY <1>1 DEF DutyRests
  <1>4. t.op = "ALLOCATE" => (t.job.booking \in booking)'
    BY <1>1 DEF EffortRests
  <1>5. t.op = "LEAVE" => (t.job.of \in member /\ t.job.at \in 0 .. now)'
    BY <1>1 DEF MemberRests
  <1>6. t.op = "CORRECT" => (t.job.of \in booking)'
    BY <1>1 DEF CorrectionRests
  <1> QED
    BY <1>1, <1>2, <1>3, <1>4, <1>5, <1>6, JobStays

-----------------------------------------------------------------------------
(* What keeps the invariant.                                                *)

LEMMA SameTerms ==
  ASSUME NEW a, TermsOf(a)' = TermsOf(a), NEW i
  PROVE  Same(a, i)
  BY DEF Same, OwnerOf, Lasts, Covers, UnitsOver

LEMMA UnchangedTermsAreSame ==
  ASSUME terms' = terms, NEW a, NEW i
  PROVE  Same(a, i)
  BY SameTerms DEF TermsOf

RowsStay == UNCHANGED <<records, written, duty, now, project>>

LEMMA Untouched ==
  ASSUME RowsStay, now \in Nat, NEW h
  PROVE  Undisturbed(h)
  <1>1. EmploymentStays(h)
    BY UnchangedTermsAreSame DEF RowsStay, records, EmploymentStays
  <1>2. DutyStays(h) /\ ProjectStays(h)
    BY DEF RowsStay, duty, project, DutyStays, ProjectStays
  <1> QED
    BY <1>1, <1>2 DEF Undisturbed

(* The rows are sound, and every transaction is over, or goes on and is     *)
(* undisturbed in what it holds.                                            *)
LEMMA RowsKeep ==
  ASSUME IInv, Exclusive', RowsOK', BookingsLie', DutyLies', EffortIsCovered', EffortIsKept',
         \A q \in Request : \A t : tx'[q] = t =>
           /\ t.holds \subseteq LockKey
           /\ (Rests(t) /\ JobOK(t))'
  PROVE  IInv'
  <1>1. ASSUME NEW q \in Request
        PROVE  (JobOK(tx[q]) /\ tx[q].holds \subseteq LockKey /\ Rests(tx[q]))'
    <2>1. PICK t : t = tx'[q]
      OBVIOUS
    <2>2. t.holds \subseteq LockKey /\ (Rests(t) /\ JobOK(t))'
      BY <2>1
    <2> QED
      BY <2>1, <2>2 DEF LockKey
  <1> QED
    BY <1>1 DEF IInv, TypeOK, RowsOK

LEMMA WritesKeep ==
  ASSUME IInv, Exclusive', RowsOK', BookingsLie', DutyLies', EffortIsCovered', EffortIsKept',
         \A q \in Request : tx'[q] = Idle \/ (tx'[q] = tx[q] /\ Undisturbed(tx[q].holds))
  PROVE  IInv'
  <1>1. ASSUME NEW q \in Request, NEW t, tx'[q] = t
        PROVE  t.holds \subseteq LockKey /\ (Rests(t) /\ JobOK(t))'
    <2>1. CASE t = Idle
      BY <2>1, IdleRests
    <2>2. CASE t # Idle
      <3>1. tx[q] = t /\ Undisturbed(t.holds)
        BY <1>1, <2>2
      <3>2. Rests(t) /\ JobOK(t) /\ t.holds \subseteq LockKey /\ BookingsLie /\ now \in Nat
        BY <3>1, RowsAre DEF IInv
      <3> QED
        BY <3>1, <3>2, RestsStay
    <2> QED
      BY <2>1, <2>2
  <1> QED
    BY <1>1, RowsKeep

LEMMA RowsStayKeeps ==
  ASSUME IInv, RowsStay
  PROVE  /\ RowsOK' /\ BookingsLie' /\ DutyLies' /\ EffortIsCovered' /\ EffortIsKept'
  <1>1. RowsOK'
    BY DEF IInv, TypeOK, RowsOK, RowsStay, records, duty, project, EmploymentTypeOK, DutyTypeOK, ProjectTypeOK
  <1>2. BookingsLie'
    BY DEF IInv, RowsStay, records, BookingsLie, LiesWell, Lies, OwnerOf, Lasts, Covers,
           UnitsOver, TermsOf
  <1>3. DutyLies'
    BY DEF IInv, RowsStay, records, duty, DutyLies, Rotations, Planned, Lies, OwnerOf,
           Lasts, Covers, UnitsOver, TermsOf
  <1>4. EffortIsKept'
    BY DEF IInv, RowsStay, project, EffortIsKept
  <1>5. EffortIsCovered'
    <2>1. /\ UNCHANGED <<booking, member, effort>>
      BY DEF RowsStay, records, project
    <2>2. \A b : AllocatedTo(b, Project)' = AllocatedTo(b, Project)
      BY <2>1, AllocatedIs, AllocatedNext
    <2> QED
      BY <2>1, <2>2 DEF IInv, EffortIsCovered, Covering, Length
  <1> QED
    BY <1>1, <1>2, <1>3, <1>4, <1>5

(* A transaction begins, goes on or ends, and nothing is written.           *)
LEMMA GoesOn ==
  ASSUME IInv, RowsStay, NEW s \in Request, Exclusive',
         \A q \in Request \ {s} : tx'[q] = tx[q],
         JobOK(tx'[s]), tx'[s].holds \subseteq LockKey, Rests(tx'[s])
  PROVE  IInv'
  <1>1. ASSUME NEW q \in Request, NEW t, tx'[q] = t
        PROVE  t.holds \subseteq LockKey /\ (Rests(t) /\ JobOK(t))'
    <2>1. Rests(t) /\ JobOK(t) /\ t.holds \subseteq LockKey /\ BookingsLie /\ now \in Nat
      BY <1>1, RowsAre DEF IInv
    <2> QED
      BY <2>1, Untouched, RestsStay
  <1> QED
    BY <1>1, RowsKeep, RowsStayKeeps

LEMMA Begins ==
  ASSUME IInv, NEW s \in Request, tx[s].op = "NONE", NEW op, NEW job, NEW keys,
         Enters(s, op, job, keys), UNCHANGED <<duty, now, project>>,
         keys \subseteq LockKey, NEW t, t = [op |-> op, job |-> job, holds |-> keys],
         JobOK(t), Rests(t)
  PROVE  IInv'
  <1>1. tx[s] = Idle /\ tx[s].holds = {}
    BY RowsAre, JobIs, IdleRests
  <1>2. tx[s].holds \cup keys = keys
    BY <1>1
  <1>3. /\ tx'[s] = t /\ \A q \in Request \ {s} : tx'[q] = tx[q]
        /\ Exclusive' /\ UNCHANGED <<records, written>>
    BY <1>2, RowsAre, EntersIs
  <1> QED
    BY <1>3, GoesOn DEF RowsStay

LEMMA RollbackKeeps ==
  ASSUME IInv, NEW s \in Request, Rollback(s), UNCHANGED <<duty, now, project>>
  PROVE  IInv'
  <1>1. /\ tx'[s] = Idle /\ (\A q \in Request \ {s} : tx'[q] = tx[q]) /\ Exclusive'
    BY RowsAre, IdleIs DEF Rollback
  <1>2. RowsStay /\ now \in Nat
    BY RowsAre DEF Rollback, RowsStay
  <1> QED
    BY <1>1, <1>2, Untouched, WritesKeep, RowsStayKeeps

-----------------------------------------------------------------------------
(* What a transaction reads behind its locks, it may rely on.               *)

(* What is booked is fenced, by the periods of its interval in a unit.      *)
LEMMA FencedIs ==
  ASSUME terms \subseteq Term, NEW b \in Booking, LiesWell(b), NEW u,
         u \in UnitsOver(b.appointment, b.span), NEW P, Overlapping(u, Seen(b.span)) \subseteq P,
         P \cap locked = {}, NEW holds, P \subseteq holds, b.person \in holds
  PROVE  Fenced(b, holds) /\ PeriodsFor(b) \subseteq P
  <1>1. PICK v \in Unit : UnitsOver(b.appointment, b.span) = {v}
    BY OneUnit DEF LiesWell
  <1>2. PeriodsFor(b) = Overlapping(u, Seen(b.span))
    BY <1>1, PeriodsAre
  <1> QED
    BY <1>2 DEF Fenced

LEMMA UnitIs ==
  ASSUME terms \subseteq Term, NEW x, NEW a, NEW i, Lies(x, a, i), NEW u,
         u = CHOOSE v \in UnitsOver(a, i) : TRUE
  PROVE  u \in UnitsOver(a, i)
  <1>1. \E v \in Unit : UnitsOver(a, i) = {v}
    BY OneUnit
  <1> QED
    BY <1>1

(* Before its locks a request only remembers what it found.                 *)
LEMMA OnlyRead ==
  ASSUME NEW t, t.op \in {"READ", "TERM"}
  PROVE  Rests(t)
  BY DEF Rests, BookRests, DutyRests, EffortRests, MemberRests, CorrectionRests, Ops

LEMMA ReadBookingKeeps ==
  ASSUME IInv, NEW s \in Request, NEW w \in WebBooking,
         ReadBooking(s, w.person, w.appointment, w.span), UNCHANGED <<duty, now, project>>
  PROVE  IInv'
  <1>1. PICK a, u, job, keys, t :
          /\ a \in Appointment /\ u \in Unit /\ tx[s].op = "NONE" /\ keys = {}
          /\ job = [person |-> w.person, appointment |-> a, unit |-> u, span |-> w.span]
          /\ Enters(s, "READ", job, keys)
          /\ t = [op |-> "READ", job |-> job, holds |-> keys]
    BY DEF ReadBooking
  <1>2. JobOK(t) /\ t.op = "READ"
    BY <1>1, InputsAreValid DEF JobOK
  <1>3. Rests(t) /\ keys \subseteq LockKey
    BY <1>1, <1>2, OnlyRead
  <1>4. /\ tx[s].op = "NONE" /\ Enters(s, "READ", job, keys)
        /\ t = [op |-> "READ", job |-> job, holds |-> keys]
    BY <1>1
  <1> QED
    BY <1>2, <1>3, <1>4, Begins

LEMMA ReadTermKeeps ==
  ASSUME IInv, NEW s \in Request, NEW a \in Appointment, NEW next \in NextTerm,
         ReadTerm(s, a, next), UNCHANGED <<duty, now, project>>
  PROVE  IInv'
  <1>1. PICK job, keys, t :
          /\ tx[s].op = "NONE" /\ keys = {}
          /\ job = [appointment |-> a, next |-> next, units |-> UnitsPast(a, next.from)]
          /\ Enters(s, "TERM", job, keys)
          /\ t = [op |-> "TERM", job |-> job, holds |-> keys]
    BY DEF ReadTerm
  <1>2. UnitsPast(a, next.from) \subseteq Unit
    BY RowsAre, TermsAre DEF UnitsPast, TermsOf
  <1>3. JobOK(t) /\ t.op = "TERM"
    BY <1>1, <1>2 DEF JobOK
  <1> QED
    BY <1>1, <1>3, OnlyRead, Begins

LEMMA CheckBookingKeeps ==
  ASSUME IInv, NEW s \in Request, CheckBooking(s), UNCHANGED <<duty, now, project>>
  PROVE  IInv'
  <1>1. PICK w, u, b, keys, t :
          /\ w = tx[s].job /\ u = w.unit /\ tx[s].op = "READ"
          /\ b = [person |-> w.person, appointment |-> w.appointment, span |-> w.span,
                  source |-> "WEB"]
          /\ Resolves(w.person, w.appointment, w.span, w.appointment)
          /\ UnitsOver(w.appointment, w.span) = {u}
          /\ Overlapping(u, Seen(w.span)) \cap locked = {}
          /\ \A c \in OfPerson(w.person) : ~ Overlap(c.span, w.span)
          /\ keys = Overlapping(u, Seen(w.span)) \cup {w.person}
          /\ Enters(s, "BOOK", b, keys)
          /\ t = [op |-> "BOOK", job |-> b, holds |-> tx[s].holds \cup keys]
    BY DEF CheckBooking
  <1>2. w \in [person : Person, appointment : Appointment, unit : Unit, span : Span]
    BY <1>1, RowsAre, JobIs
  <1>3. w.person \in Person /\ w.span \in Span /\ Lies(w.person, w.appointment, w.span)
    BY <1>1, <1>2, ResolvesIs
  <1>4. /\ b \in Booking /\ LiesWell(b) /\ b.person = w.person /\ b.span = w.span
        /\ b.appointment = w.appointment
    BY <1>1, <1>2, <1>3 DEF Booking, LiesWell
  <1>5. Fenced(b, tx[s].holds \cup keys) /\ tx[s].holds \cup keys \subseteq LockKey
    <2>1. keys \subseteq LockKey /\ tx[s].holds \subseteq LockKey
      BY <1>1, <1>3, RowsAre DEF Overlapping, LockKey
    <2>2. u \in UnitsOver(b.appointment, b.span) /\ terms \subseteq Term
      BY <1>1, <1>4, RowsAre
    <2>3. /\ Overlapping(u, Seen(b.span)) \cap locked = {} /\ b.person \in tx[s].holds \cup keys
          /\ Overlapping(u, Seen(b.span)) \subseteq tx[s].holds \cup keys
      BY <1>1, <1>4
    <2> QED
      BY <1>4, <2>1, <2>2, <2>3, FencedIs
  <1>6. /\ t.op = "BOOK" /\ t.job = b /\ t.holds = tx[s].holds \cup keys
    BY <1>1
  <1>7. Rests(t) /\ JobOK(t)
    <2>1. BookRests(t)
      BY <1>1, <1>4, <1>5, <1>6 DEF BookRests, Apart
    <2>2. Rests(t)
      BY <1>6, <2>1 DEF Rests, DutyRests, EffortRests, MemberRests, CorrectionRests, Ops
    <2> QED
      BY <1>4, <1>6, <2>2 DEF JobOK
  <1>8. /\ tx'[s] = t /\ (\A q \in Request \ {s} : tx'[q] = tx[q]) /\ Exclusive' /\ RowsStay
    BY <1>1, RowsAre, EntersIs DEF RowsStay
  <1> QED
    BY <1>5, <1>6, <1>7, <1>8, GoesOn

LEMMA CheckRotationKeeps ==
  ASSUME IInv, NEW s \in Request, NEW new \in NewRotation, CheckRotation(s, new),
         UNCHANGED <<now, project>>
  PROVE  IInv'
  <1>1. PICK keys, t :
          /\ tx[s].op = "NONE" /\ Resolves(new.person, new.appointment, new, new.appointment)
          /\ UnitsOver(new.appointment, new) = {new.unit} /\ keys = {new.person}
          /\ Enters(s, "ROTATE", new, keys)
          /\ t = [op |-> "ROTATE", job |-> new, holds |-> keys]
    BY DEF CheckRotation, InUnit
  <1>2. new \in RotationRow /\ new.from < new.to
    BY RotationsAreIntervals DEF RotationRow
  <1>3. Planned(new)
    BY <1>1, <1>2, ResolvesIs DEF Planned
  <1>4. keys \subseteq LockKey
    BY <1>1, <1>2, RotationsAre DEF LockKey
  <1>5. Rests(t)
    <2>1. t.op = "ROTATE" /\ t.job = new /\ new.person \in t.holds
      BY <1>1
    <2> QED
      BY <1>3, <2>1 DEF Rests, BookRests, DutyRests, EffortRests, MemberRests, CorrectionRests, Ops
  <1>6. JobOK(t)
    BY <1>1, <1>2, RotationsAre DEF JobOK
  <1>7. UNCHANGED <<duty, now, project>>
    BY DEF CheckRotation
  <1> QED
    BY <1>1, <1>4, <1>5, <1>6, <1>7, Begins

LEMMA CheckWindowKeeps ==
  ASSUME IInv, NEW s \in Request, NEW r \in Rotation, NEW w \in Window, CheckWindow(s, r, w),
         UNCHANGED <<now, project>>
  PROVE  IInv'
  <1>1. PICK next, job, keys, t :
          /\ next = Moved(rotation[r], w) /\ tx[s].op = "NONE" /\ r \in Rotations
          /\ next.from < next.to /\ Resolves(next.person, next.appointment, next, next.appointment)
          /\ UnitsOver(next.appointment, next) = {next.unit}
          /\ \A d \in deployment : d.rotation = r => Within(d.span, next)
          /\ job = [rotation |-> r, next |-> next] /\ keys = {next.person}
          /\ Enters(s, "MOVE", job, keys)
          /\ t = [op |-> "MOVE", job |-> job, holds |-> keys]
    BY DEF CheckWindow, InUnit
  <1>2. rotation[r] \in RotationRow /\ w \in [from : (0 .. Never) \cup {None}, to : (0 .. Never) \cup {None}]
    BY <1>1, RotationsAreIntervals DEF IInv, DutyLies, Planned
  <1>3. next \in RotationRow /\ next.person = rotation[r].person
    <2>1. PICK f, g : /\ f = IF w.from = None THEN rotation[r].from ELSE w.from
                      /\ g = IF w.to = None THEN rotation[r].to ELSE w.to
      OBVIOUS
    <2>2. f \in 0 .. Never /\ g \in 0 .. Never
      BY <1>2, <2>1 DEF RotationRow
    <2>3. next = [rotation[r] EXCEPT !.from = f, !.to = g]
      BY <1>1, <1>2, <2>1 DEF Moved, RotationRow
    <2> QED
      BY <1>2, <2>2, <2>3 DEF RotationRow
  <1>4. Planned(next)
    BY <1>1, <1>3, ResolvesIs DEF Planned
  <1>5. keys \subseteq LockKey
    BY <1>1, <1>3, RotationsAre DEF LockKey
  <1>6. Rests(t)
    BY <1>1, <1>3, <1>4 DEF Rests, BookRests, DutyRests, EffortRests, MemberRests, CorrectionRests, Ops
  <1>7. JobOK(t)
    BY <1>1 DEF JobOK
  <1>8. UNCHANGED <<duty, now, project>>
    BY DEF CheckWindow
  <1> QED
    BY <1>1, <1>5, <1>6, <1>7, <1>8, Begins

LEMMA CheckDeploymentKeeps ==
  ASSUME IInv, NEW s \in Request, NEW r \in Rotation, NEW i \in DutySpan, CheckDeployment(s, r, i),
         UNCHANGED <<now, project>>
  PROVE  IInv'
  <1>1. PICK rot, x, a, job, b, keys, t :
          /\ rot = rotation[r] /\ x = rot.person /\ a = rot.appointment
          /\ tx[s].op = "NONE" /\ r \in Rotations /\ Within(i, rot)
          /\ Resolves(x, a, i, a) /\ UnitsOver(a, i) = {rot.unit}
          /\ Overlapping(rot.unit, i) \cap locked = {}
          /\ \A c \in OfPerson(x) : ~ Overlap(c.span, i)
          /\ job = [rotation |-> r, person |-> x, appointment |-> a, span |-> i]
          /\ b = DutyBooking(job)
          /\ keys = Overlapping(rot.unit, i) \cup {x}
          /\ Enters(s, "DEPLOY", job, keys)
          /\ t = [op |-> "DEPLOY", job |-> job, holds |-> keys]
    BY DEF CheckDeployment, InUnit
  <1>2. rot \in RotationRow /\ x \in Person /\ a \in Appointment /\ i \in Span
    BY <1>1, RotationsAreIntervals, RotationsAre DEF IInv, DutyLies, Planned
  <1>3. /\ b \in Booking /\ b.person = x /\ b.appointment = a /\ b.span = i /\ LiesWell(b)
        /\ job \in [rotation : Rotation, person : Person, appointment : Appointment, span : DutySpan]
        /\ job.person = x /\ job.span = i /\ job.rotation = r
    BY <1>1, <1>2, ResolvesIs DEF DutyBooking, Booking, LiesWell
  <1>4. Overlapping(rot.unit, Seen(i)) \subseteq Overlapping(rot.unit, i)
    <2>1. /\ i.from \in Nat /\ i.to \in Nat /\ i.from < i.to /\ Never \in Nat
          /\ i \in [from : 0 .. Never, to : 0 .. Never]
      BY <1>2, SpansAre, SpansAreIntervals
    <2>2. Seen(i).from = i.from /\ Seen(i).to \in Nat /\ Seen(i).to <= i.to
      BY <2>1 DEF Seen
    <2>3. \A p \in Period : PeriodSpan[p].from \in Nat
      BY SpansAreIntervals
    <2> QED
      BY <2>1, <2>2, <2>3 DEF Overlapping, Touches
  <1>5. Fenced(b, keys) /\ keys \subseteq LockKey
    <2>1. keys \subseteq LockKey
      BY <1>1, <1>2 DEF Overlapping, LockKey
    <2>2. rot.unit \in UnitsOver(b.appointment, b.span) /\ terms \subseteq Term
      BY <1>1, <1>3, RowsAre
    <2>3. /\ Overlapping(rot.unit, Seen(b.span)) \subseteq Overlapping(rot.unit, i)
          /\ Overlapping(rot.unit, i) \subseteq keys /\ b.person \in keys
      BY <1>1, <1>3, <1>4
    <2> QED
      BY <1>1, <1>3, <2>1, <2>2, <2>3, FencedIs
  <1>6. Rests(t)
    BY <1>1, <1>3, <1>5 DEF Rests, BookRests, DutyRests, EffortRests, MemberRests, CorrectionRests,
                            Ops, Apart
  <1>7. JobOK(t)
    BY <1>1, <1>3 DEF JobOK
  <1>8. UNCHANGED <<duty, now, project>>
    BY DEF CheckDeployment
  <1> QED
    BY <1>1, <1>5, <1>6, <1>7, <1>8, Begins

(* Of a booking, a project takes its row and the others the rest.           *)
LEMMA AllocatedSplits ==
  ASSUME IInv, NEW b, NEW p \in Project
  PROVE  /\ AllocatedTo(b, Project) \in Nat /\ AllocatedTo(b, Project \ {p}) \in Nat
         /\ \A e \in effort : e.booking = b /\ e.project = p =>
              AllocatedTo(b, Project) = e.amount + AllocatedTo(b, Project \ {p})
  <1>1. PICK R, S : /\ R = {e \in effort : e.booking = b /\ e.project \in Project}
                    /\ S = {e \in effort : e.booking = b /\ e.project \in Project \ {p}}
    OBVIOUS
  <1>2. R \in SUBSET effort /\ S \in SUBSET effort
    BY <1>1
  <1>3. IsFiniteSet(R) /\ Amounts(R) /\ Total(R) \in Nat /\ Total(S) \in Nat
    BY <1>2, RowsAre, RowsSum
  <1>4. AllocatedTo(b, Project) = Total(R) /\ AllocatedTo(b, Project \ {p}) = Total(S)
    BY <1>1, AllocatedIs
  <1>5. ASSUME NEW e \in effort, e.booking = b, e.project = p
        PROVE  AllocatedTo(b, Project) = e.amount + AllocatedTo(b, Project \ {p})
    <2>1. R \ {e} = S /\ e \in R
      BY <1>1, <1>5 DEF IInv, EffortIsKept
    <2> QED
      BY <1>3, <1>4, <2>1, TotalWithout
  <1> QED
    BY <1>3, <1>4, <1>5

LEMMA LengthIs ==
  ASSUME NEW b \in Booking
  PROVE  Length(b) \in Nat /\ Length(b) <= Never /\ Never \in Nat
  BY BookingsAre, SpansAre DEF Length

LEMMA CheckEffortKeeps ==
  ASSUME IInv, NEW s \in Request, NEW b \in booking, NEW p \in Project, NEW n \in Amount,
         CheckEffort(s, b, p, n), UNCHANGED duty
  PROVE  IInv'
  <1>1. PICK job, keys, t :
          /\ tx[s].op = "NONE" /\ p \notin archived /\ b.span.to <= now /\ Covering(b, p) # {}
          /\ AllocatedTo(b, Project \ {p}) + n <= Length(b)
          /\ job = [booking |-> b, project |-> p, amount |-> n] /\ keys = {b.person, p}
          /\ Enters(s, "ALLOCATE", job, keys)
          /\ t = [op |-> "ALLOCATE", job |-> job, holds |-> keys]
    BY DEF CheckEffort
  <1>2. b \in Booking /\ b.person \in Person
    BY RowsAre, BookingsAre
  <1>3. n \in 0 .. Never
    <2>1. AllocatedTo(b, Project \ {p}) \in Nat /\ n \in Nat
      BY AllocatedSplits, AmountsAreNumbers
    <2> QED
      BY <1>1, <1>2, <2>1, LengthIs
  <1>4. keys \subseteq LockKey
    BY <1>1, <1>2 DEF LockKey
  <1>5. job \in [booking : Booking, project : Project, amount : 0 .. Never]
    BY <1>1, <1>2, <1>3
  <1>6. Rests(t)
    BY <1>1, <1>5 DEF Rests, BookRests, DutyRests, EffortRests, MemberRests, CorrectionRests, Ops
  <1>7. JobOK(t)
    BY <1>1 DEF JobOK
  <1>8. UNCHANGED <<duty, now, project>>
    BY DEF CheckEffort
  <1> QED
    BY <1>1, <1>4, <1>6, <1>7, <1>8, Begins

LEMMA CheckReleaseKeeps ==
  ASSUME IInv, NEW s \in Request, NEW e \in effort, CheckRelease(s, e), UNCHANGED duty
  PROVE  IInv'
  <1>1. PICK job, keys, t :
          /\ tx[s].op = "NONE"
          /\ job = [e EXCEPT !.amount = 0] /\ keys = {e.booking.person, e.project}
          /\ Enters(s, "ALLOCATE", job, keys)
          /\ t = [op |-> "ALLOCATE", job |-> job, holds |-> keys]
    BY DEF CheckRelease
  <1>2. PICK b \in booking, p \in Project : b = e.booking /\ p = e.project /\ b \in Booking
    BY RowsAre DEF IInv, EffortIsCovered
  <1>3. /\ job \in [booking : Booking, project : Project, amount : 0 .. Never]
        /\ job.booking = b /\ job.project = p /\ job.amount = 0
    BY <1>1, <1>2, RowsAre
  <1>4. AllocatedTo(b, Project \ {p}) + 0 <= Length(b)
    <2>1. AllocatedTo(b, Project) <= Length(b)
      BY <1>2 DEF IInv, EffortIsCovered
    <2>2. AllocatedTo(b, Project) = e.amount + AllocatedTo(b, Project \ {p})
      BY <1>2, AllocatedSplits
    <2>3. /\ AllocatedTo(b, Project \ {p}) \in Nat /\ e.amount \in Nat /\ Length(b) \in Nat
      BY <1>2, AllocatedSplits, LengthIs, RowsAre
    <2> QED
      BY <2>1, <2>2, <2>3
  <1>5. keys \subseteq LockKey
    BY <1>1, <1>2, BookingsAre DEF LockKey
  <1>6. Rests(t)
    <2>1. /\ t.op = "ALLOCATE" /\ t.job = job /\ t.holds = keys /\ keys = {b.person, p}
          /\ ~ (0 > 0)
      BY <1>1, <1>2
    <2>2. EffortRests(t)
      BY <1>2, <1>3, <1>4, <2>1 DEF EffortRests
    <2> QED
      BY <2>1, <2>2 DEF Rests, BookRests, DutyRests, MemberRests, CorrectionRests, Ops
  <1>7. JobOK(t)
    BY <1>1, <1>2, <1>3 DEF JobOK
  <1>8. UNCHANGED <<duty, now, project>>
    BY DEF CheckRelease
  <1> QED
    BY <1>1, <1>5, <1>6, <1>7, <1>8, Begins

LEMMA CheckMemberKeeps ==
  ASSUME IInv, NEW s \in Request, NEW m \in NewMember, CheckMember(s, m), UNCHANGED duty
  PROVE  IInv'
  <1>1. PICK keys, t :
          /\ tx[s].op = "NONE" /\ m.project \notin archived /\ keys = {m.person, m.project}
          /\ Enters(s, "JOIN", m, keys)
          /\ t = [op |-> "JOIN", job |-> m, holds |-> keys]
    BY DEF CheckMember
  <1>2. keys \subseteq LockKey
    BY <1>1, MembersAreIntervals DEF LockKey
  <1>3. Rests(t)
    BY <1>1 DEF Rests, BookRests, DutyRests, EffortRests, MemberRests, CorrectionRests, Ops
  <1>4. JobOK(t)
    BY <1>1 DEF JobOK
  <1>5. UNCHANGED <<duty, now, project>>
    BY DEF CheckMember
  <1> QED
    BY <1>1, <1>2, <1>3, <1>4, <1>5, Begins

LEMMA MembersAre ==
  ASSUME ProjectTypeOK, NEW m \in member
  PROVE  /\ m.project \in Project /\ m.person \in Person /\ m.appointment \in Appointment
         /\ m.from \in Nat /\ m.to \in 0 .. Never
  <1>1. PICK n \in NewMember : m = [n EXCEPT !.to = m.to] /\ m.to \in 0 .. Never
    BY DEF ProjectTypeOK
  <1>2. n \in [project : Project, person : Person, appointment : Appointment,
               from : 0 .. Never, to : 0 .. Never]
    BY MembersAreIntervals
  <1>3. PICK at : at = m.to
    OBVIOUS
  <1>4. m = [n EXCEPT !.to = at] /\ at \in 0 .. Never
    BY <1>1, <1>3
  <1> QED
    BY <1>2, <1>4

LEMMA CheckEndKeeps ==
  ASSUME IInv, NEW s \in Request, NEW m \in member, CheckEnd(s, m), UNCHANGED duty
  PROVE  IInv'
  <1>1. PICK job, keys, t :
          /\ tx[s].op = "NONE" /\ job = [of |-> m, at |-> now] /\ keys = {m.person, m.project}
          /\ Enters(s, "LEAVE", job, keys)
          /\ t = [op |-> "LEAVE", job |-> job, holds |-> keys]
    BY DEF CheckEnd
  <1>2. keys \subseteq LockKey
    BY <1>1, MembersAre DEF LockKey, IInv, TypeOK
  <1>3. now \in 0 .. now
    BY RowsAre
  <1>4. Rests(t)
    BY <1>1, <1>3 DEF Rests, BookRests, DutyRests, EffortRests, MemberRests, CorrectionRests, Ops,
                      IInv, EffortIsKept
  <1>5. JobOK(t)
    BY <1>1, <1>3 DEF JobOK
  <1>6. UNCHANGED <<duty, now, project>>
    BY DEF CheckEnd
  <1> QED
    BY <1>1, <1>2, <1>4, <1>5, <1>6, Begins

LEMMA CheckCorrectionKeeps ==
  ASSUME IInv, NEW s \in Request, NEW b \in booking, NEW i \in Span, CheckCorrection(s, b, i),
         UNCHANGED duty
  PROVE  IInv'
  <1>1. PICK job, keys, t, c :
          /\ tx[s].op = "NONE" /\ b.span # i
          /\ Resolves(b.person, b.appointment, i, b.appointment)
          /\ Touched(b, i) \cap locked = {}
          /\ \A d \in OfPerson(b.person) \ {b} : ~ Overlap(d.span, i)
          /\ AllocatedTo(b, Project) = 0
          /\ job = [of |-> b, span |-> i] /\ keys = Touched(b, i) \cup {b.person}
          /\ Enters(s, "CORRECT", job, keys)
          /\ t = [op |-> "CORRECT", job |-> job, holds |-> keys]
          /\ c = [b EXCEPT !.span = i]
    BY DEF CheckCorrection
  <1>2. /\ b \in Booking /\ b.person \in Person /\ c \in Booking /\ c.person = b.person
        /\ c.appointment = b.appointment /\ c.span = i
    BY <1>1, RowsAre, BookingsAre DEF Booking
  <1>3. PeriodsFor(b) \subseteq Touched(b, i) /\ PeriodsFor(c) \subseteq Touched(b, i)
    BY <1>2 DEF PeriodsFor, Touched
  <1>4. Fenced(c, keys)
    BY <1>1, <1>2, <1>3, LiesIs DEF Fenced, LiesWell
  <1>5. \A e \in effort : e.booking = b => e.amount = 0
    <2>1. PICK R : R = {e \in effort : e.booking = b /\ e.project \in Project}
      OBVIOUS
    <2>2. IsFiniteSet(R) /\ Amounts(R) /\ Total(R) = 0
      BY <1>1, <2>1, AllocatedIs, RowsAre, RowsSum
    <2>3. \A e \in R : e.amount = 0
      BY <2>2, NoTotal
    <2> QED
      BY <2>1, <2>3, RowsAre
  <1>6. keys \subseteq LockKey
    BY <1>1, <1>2 DEF LockKey, Touched, Overlapping
  <1>7. Rests(t)
    <2>1. /\ t.op = "CORRECT" /\ t.job = job /\ t.holds = keys /\ job.of = b /\ job.span = i
          /\ Corrected(job) = c
      BY <1>1 DEF Corrected
    <2>2. CorrectionRests(t)
      BY <1>1, <1>3, <1>4, <1>5, <2>1 DEF CorrectionRests, Apart
    <2> QED
      BY <2>1, <2>2 DEF Rests, BookRests, DutyRests, EffortRests, MemberRests, Ops
  <1>8. JobOK(t)
    BY <1>1 DEF JobOK
  <1>9. UNCHANGED <<duty, now, project>>
    BY DEF CheckCorrection
  <1> QED
    BY <1>1, <1>6, <1>7, <1>8, <1>9, Begins

-----------------------------------------------------------------------------
(* Terms, closing periods, time and the end of projects.                    *)

LEMMA CommittedIs ==
  ASSUME IInv, written < MaxWrites, written' = written + 1
  PROVE  written' \in 0 .. MaxWrites
  BY RowsAre

(* Effort stays covered, where what it rests on stays.                      *)
LEMMA EffortStays ==
  ASSUME IInv, UNCHANGED <<member, effort>>, booking \subseteq booking', now' \in Nat, now <= now'
  PROVE  EffortIsCovered' /\ EffortIsKept'
  <1>1. \A b : AllocatedTo(b, Project)' = AllocatedTo(b, Project)
    BY AllocatedIs, AllocatedNext
  <1>2. EffortIsCovered'
    BY <1>1 DEF IInv, EffortIsCovered, Covering, Length
  <1>3. EffortIsKept'
    <2>1. \A e \in effort : e.booking.span.to \in Nat
      BY RowsAre, BookingsAre, SpansAre
    <2>2. \A e \in effort : e.amount > 0 => e.booking.span.to <= now'
      BY <2>1, RowsAre DEF IInv, EffortIsKept
    <2> QED
      BY <2>2 DEF IInv, EffortIsKept
  <1> QED
    BY <1>2, <1>3

LEMMA BookingsStay ==
  ASSUME IInv, booking' = booking, \A b \in booking : Same(b.appointment, b.span)
  PROVE  BookingsLie'
  BY LiesStays DEF IInv, BookingsLie, LiesWell

LEMMA DutyStaysSound ==
  ASSUME IInv, UNCHANGED <<rotation, deployment>>,
         \A i : (\E r \in Rotations : i = rotation[r]) => Same(i.appointment, i)
  PROVE  DutyLies'
  <1>1. ASSUME NEW r \in Rotations PROVE Planned(rotation[r])'
    <2>1. PICK i : i = rotation[r]
      OBVIOUS
    <2>2. Planned(i)'
      BY <2>1, PlannedStays DEF IInv, DutyLies
    <2> QED
      BY <2>1, <2>2
  <1> QED
    BY <1>1 DEF IInv, DutyLies, Rotations

LEMMA RecordsKeep ==
  ASSUME IInv, UNCHANGED <<booking, rotation, deployment, member, effort>>, RowsOK', Exclusive',
         \A q \in Request : tx'[q] = Idle \/ tx'[q] = tx[q],
         now' \in Nat, now <= now',
         \A b \in booking : Same(b.appointment, b.span),
         \A i : (\E r \in Rotations : i = rotation[r]) => Same(i.appointment, i),
         \A q \in Request :
           /\ \A x \in tx[q].holds : \A a, i : Lies(x, a, i) => Same(a, i)
           /\ locked' \cap tx[q].holds \subseteq locked
           /\ archived' \cap tx[q].holds \subseteq archived
  PROVE  IInv'
  <1>1. \A q \in Request : \A h : h = tx[q].holds => Undisturbed(h)
    BY DEF Undisturbed, EmploymentStays, DutyStays, ProjectStays
  <1>2. \A q \in Request : tx'[q] = Idle \/ (tx'[q] = tx[q] /\ Undisturbed(tx[q].holds))
    <2>1. TAKE q \in Request
    <2>2. PICK h : h = tx[q].holds
      OBVIOUS
    <2> QED
      BY <1>1, <2>2
  <1> QED
    BY <1>2, EffortStays, BookingsStay, DutyStaysSound, WritesKeep

(* What is one step leaves every transaction as it is.                      *)
LEMMA NobodyElse ==
  ASSUME IInv, UNCHANGED tx
  PROVE  Exclusive' /\ \A q \in Request : tx'[q] = Idle \/ tx'[q] = tx[q]
  BY DEF IInv, Exclusive

LEMMA MovePeriodKeeps ==
  ASSUME IInv, NEW p \in Period, MovePeriod(p), UNCHANGED <<duty, now, project>>
  PROVE  IInv'
  <1>1. /\ UNCHANGED <<terms, booking, approved, written, tx, rotation, deployment, member, effort,
                       archived, now>>
        /\ \/ locked' = locked \ {p}
           \/ locked' = locked \cup {p} /\ Free({p, Population})
    BY DEF MovePeriod, duty, project
  <1>2. RowsOK'
    BY <1>1 DEF IInv, TypeOK, RowsOK, EmploymentTypeOK, DutyTypeOK, ProjectTypeOK
  <1>3. \A q \in Request : locked' \cap tx[q].holds \subseteq locked
    BY <1>1 DEF Free
  <1> QED
    BY <1>1, <1>2, <1>3, UnchangedTermsAreSame, NobodyElse, RowsAre, RecordsKeep

LEMMA TickKeeps ==
  ASSUME IInv, Tick, UNCHANGED duty
  PROVE  IInv'
  <1>1. /\ UNCHANGED <<terms, booking, approved, locked, written, tx, rotation, deployment, member,
                       effort, archived>>
        /\ now' = now + 1 /\ now < MaxNow /\ now \in Nat /\ MaxNow \in Nat
    BY RowsAre DEF Tick, employmentVars, records, duty, project
  <1>2. now' \in 0 .. MaxNow /\ now' \in Nat /\ now <= now'
    BY <1>1
  <1>3. RowsOK'
    BY <1>1, <1>2 DEF IInv, TypeOK, RowsOK, EmploymentTypeOK, DutyTypeOK, ProjectTypeOK
  <1> QED
    BY <1>1, <1>2, <1>3, UnchangedTermsAreSame, NobodyElse, RecordsKeep

LEMMA ArchiveKeeps ==
  ASSUME IInv, NEW p \in Project, Archive(p), UNCHANGED duty
  PROVE  IInv'
  <1>1. /\ UNCHANGED <<terms, booking, approved, locked, tx, rotation, deployment, member, effort, now>>
        /\ archived' = archived \cup {p} /\ Free({p}) /\ written < MaxWrites /\ written' = written + 1
    BY DEF Archive, records, duty
  <1>2. RowsOK'
    BY <1>1, CommittedIs
    DEF IInv, TypeOK, RowsOK, EmploymentTypeOK, DutyTypeOK, ProjectTypeOK
  <1>3. \A q \in Request : archived' \cap tx[q].holds \subseteq archived
    BY <1>1 DEF Free
  <1> QED
    BY <1>1, <1>2, <1>3, UnchangedTermsAreSame, NobodyElse, RowsAre, RecordsKeep

(* New appointments.                                                        *)
LEMMA NewTermsAreOthers ==
  ASSUME terms \subseteq terms', \A t \in terms' : t \in terms \/ TermsOf(t.appointment) = {},
         NEW x, NEW a, NEW i, Lies(x, a, i)
  PROVE  Same(a, i)
  <1>1. TermsOf(a) # {}
    BY DEF Lies, OwnerOf
  <1>2. TermsOf(a)' = TermsOf(a)
    BY <1>1 DEF TermsOf
  <1> QED
    BY <1>2, SameTerms

LEMMA CreateAppointmentKeeps ==
  ASSUME IInv, NEW a \in Appointment, NEW new \in NewTerm, CreateAppointment(a, new),
         UNCHANGED <<duty, now, project>>
  PROVE  IInv' /\ \A b \in booking : Same(b.appointment, b.span)
  <1>1. PICK row : /\ row = [appointment |-> a, person |-> new.person, start |-> new.start,
                             end |-> new.end, unit |-> new.unit, from |-> new.from,
                             to |-> new.to, legacy |-> FALSE]
                   /\ terms' = terms \cup {row}
    BY DEF CreateAppointment
  <1>2. row \in Term /\ row.appointment = a
    BY <1>1, InputsAreValid, SpansAreIntervals DEF Term
  <1>3. /\ TermsOf(a) = {} /\ written' = written + 1 /\ written < MaxWrites
        /\ UNCHANGED <<booking, approved, locked, tx, rotation, deployment, member, effort, archived, now>>
    BY DEF CreateAppointment, duty, project
  <1>4. \A x, c, i : Lies(x, c, i) => Same(c, i)
    BY <1>1, <1>2, <1>3, NewTermsAreOthers
  <1>5. RowsOK'
    BY <1>1, <1>2, <1>3, CommittedIs
    DEF IInv, TypeOK, RowsOK, EmploymentTypeOK, DutyTypeOK, ProjectTypeOK
  <1>6. \A b \in booking : Same(b.appointment, b.span)
    BY <1>4 DEF IInv, BookingsLie, LiesWell
  <1>7. \A i : (\E r \in Rotations : i = rotation[r]) => Same(i.appointment, i)
    BY <1>4 DEF IInv, DutyLies, Planned
  <1> QED
    BY <1>3, <1>4, <1>5, <1>6, <1>7, NobodyElse, RowsAre, RecordsKeep

(* What a new term does: it ends the last one, the only one that lasts on.  *)
Ends(last, old, new, next) ==
  LET a == last.appointment IN
  /\ last \in TermsOf(a) /\ last.from < next.from /\ next.from < last.to
  /\ \A t \in TermsOf(a) : next.from < t.to => t = last
  /\ old = [last EXCEPT !.to = next.from]
  /\ new = [last EXCEPT !.unit = next.unit, !.from = next.from, !.to = next.to]
  /\ terms' = (terms \ {last}) \cup {old, new}

LEMMA WriteTermIs ==
  ASSUME IInv, NEW s \in Request, WriteTerm(s)
  PROVE  \E a, next, last, old, new :
           /\ a \in Appointment /\ next \in NextTerm
           /\ tx[s].job.appointment = a /\ tx[s].job.next = next /\ tx[s].job.units \subseteq Unit
           /\ last.appointment = a /\ Ends(last, old, new, next)
  <1>1. PICK a, next : a = tx[s].job.appointment /\ next = tx[s].job.next
    OBVIOUS
  <1>2. a \in Appointment /\ next \in NextTerm /\ tx[s].job.units \subseteq Unit
    BY <1>1, RowsAre, JobIs DEF WriteTerm
  <1>3. PICK last \in TermsOf(a) :
          /\ {t \in TermsOf(a) : next.from < t.to} = {last} /\ last.from < next.from
          /\ terms' = (terms \ {last}) \cup
               {[last EXCEPT !.to = next.from],
                [last EXCEPT !.unit = next.unit, !.from = next.from, !.to = next.to]}
    BY <1>1 DEF WriteTerm
  <1>4. last.appointment = a /\ next.from < last.to
    BY <1>3 DEF TermsOf
  <1>5. \A t \in TermsOf(a) : next.from < t.to => t = last
    BY <1>3
  <1>6. PICK old, new : /\ old = [last EXCEPT !.to = next.from]
                        /\ new = [last EXCEPT !.unit = next.unit, !.from = next.from, !.to = next.to]
    OBVIOUS
  <1>7. Ends(last, old, new, next)
    BY <1>3, <1>4, <1>5, <1>6 DEF Ends
  <1> QED
    BY <1>1, <1>2, <1>4, <1>7

LEMMA EndsIs ==
  ASSUME terms \subseteq Term, NEW next \in NextTerm, NEW last, NEW old, NEW new,
         Ends(last, old, new, next)
  PROVE  /\ last \in Term /\ last.from \in Nat /\ last.to \in Nat /\ last.to <= Never
         /\ next.from \in Nat /\ next.to \in Nat /\ next.from < next.to /\ next.to <= Never
         /\ old \in Term /\ new \in Term
         /\ old.appointment = last.appointment /\ new.appointment = last.appointment
         /\ old.person = last.person /\ new.person = last.person
         /\ old.start = last.start /\ new.start = last.start
         /\ old.end = last.end /\ new.end = last.end
         /\ old.unit = last.unit /\ new.unit = next.unit
         /\ old.from = last.from /\ old.to = next.from
         /\ new.from = next.from /\ new.to = next.to
         /\ TermsOf(last.appointment)' = (TermsOf(last.appointment) \ {last}) \cup {old, new}
  <1>1. last \in Term /\ last.from \in Nat /\ last.to \in Nat /\ last.to <= Never
    BY TermsAre DEF Ends, TermsOf
  <1>2. /\ next.from \in 0 .. Never /\ next.to \in 0 .. Never /\ next.unit \in Unit
        /\ next.from < next.to /\ Never \in Nat
    BY InputsAreValid, SpansAreIntervals
  <1>3. /\ old = [last EXCEPT !.to = next.from]
        /\ new = [last EXCEPT !.unit = next.unit, !.from = next.from, !.to = next.to]
        /\ terms' = (terms \ {last}) \cup {old, new}
    BY DEF Ends
  <1>4. /\ old.appointment = last.appointment /\ new.appointment = last.appointment
        /\ old.person = last.person /\ new.person = last.person
        /\ old.start = last.start /\ new.start = last.start
        /\ old.end = last.end /\ new.end = last.end
        /\ old.unit = last.unit /\ new.unit = next.unit
        /\ old.from = last.from /\ old.to = next.from
        /\ new.from = next.from /\ new.to = next.to
    BY <1>1, <1>3 DEF Term
  <1>5. old \in Term /\ new \in Term
    BY <1>1, <1>2, <1>3 DEF Term
  <1>6. TermsOf(last.appointment)' = (TermsOf(last.appointment) \ {last}) \cup {old, new}
    BY <1>3, <1>4 DEF TermsOf
  <1> QED
    BY <1>1, <1>2, <1>4, <1>5, <1>6

(* New terms of an appointment, from an instant that nothing reaches.       *)
LEMMA NextTermsAreLater ==
  ASSUME terms \subseteq Term, NEW next \in NextTerm, NEW last, NEW old, NEW new,
         Ends(last, old, new, next),
         NEW x, NEW c, NEW i, Lies(x, c, i), c = last.appointment => Interval(i) /\ i.to <= next.from
  PROVE  Same(c, i)
  <1>1. PICK a : a = last.appointment
    OBVIOUS
  <1>2. CASE c # a
    <2>1. old.appointment = a /\ new.appointment = a
      BY <1>1, EndsIs
    <2>2. terms' = (terms \ {last}) \cup {old, new}
      BY DEF Ends
    <2>3. TermsOf(c)' = TermsOf(c)
      BY <1>1, <1>2, <2>1, <2>2 DEF TermsOf
    <2> QED
      BY <2>3, SameTerms
  <1>3. CASE c = a
    <2>1. i.from \in Nat /\ i.to \in Nat /\ i.from < i.to /\ i.to <= next.from /\ Never \in Nat
      BY <1>1, <1>3, SpansAreIntervals DEF Interval
    <2>2. next.from < last.to /\ last.from < next.from /\ last \in TermsOf(a)
      BY <1>1 DEF Ends
    <2>3. last.from \in Nat /\ last.to \in Nat /\ last.to <= Never /\ next.from \in Nat
      BY EndsIs
    <2>4. i.to # Never /\ Known(i) = i
      BY <2>1, <2>2, <2>3 DEF Known
    <2>5. /\ old.person = last.person /\ new.person = last.person /\ old.unit = last.unit
          /\ old.start = last.start /\ new.start = last.start
          /\ old.end = last.end /\ new.end = last.end
          /\ old.from = last.from /\ old.to = next.from /\ new.from = next.from
          /\ TermsOf(a)' = (TermsOf(a) \ {last}) \cup {old, new}
      BY <1>1, EndsIs
    <2>6. OwnerOf(a)' = OwnerOf(a)
      BY <2>2, <2>5 DEF OwnerOf
    <2>7. Lasts(a, i) /\ Lasts(a, i)'
      <3>1. Lasts(a, i)
        BY <1>3 DEF Lies
      <3>2. \A t \in TermsOf(a) : t.start <= i.from /\ i.to <= t.end
        BY <2>4, <3>1 DEF Lasts
      <3>3. \A t \in TermsOf(a)' : t.start <= i.from /\ i.to <= t.end
        BY <2>2, <2>5, <3>2
      <3> QED
        BY <2>4, <3>1, <3>3 DEF Lasts
    <2>8. Covers(a, i) /\ Covers(a, i)'
      <3>1. Covers(a, i)
        BY <1>3 DEF Lies
      <3>2. PICK t1 \in TermsOf(a), t2 \in TermsOf(a) : t1.from <= i.from /\ i.to <= t2.to
        BY <2>4, <3>1 DEF Covers
      <3>3. \E t \in TermsOf(a)' : t.from <= i.from
        BY <2>2, <2>5, <3>2
      <3>4. \E t \in TermsOf(a)' : i.to <= t.to
        BY <2>1, <2>5, <3>2
      <3> QED
        BY <2>4, <3>1, <3>3, <3>4 DEF Covers
    <2>9. (Overlap(old, i) <=> Overlap(last, i)) /\ ~ Overlap(new, i)
      BY <2>1, <2>2, <2>3, <2>5 DEF Overlap
    <2>10. UnitsOver(a, i)' = UnitsOver(a, i)
      <3>1. \A t \in TermsOf(a)' : Overlap(t, i) =>
              \E v \in TermsOf(a) : Overlap(v, i) /\ v.unit = t.unit
        BY <2>2, <2>5, <2>9
      <3>2. \A v \in TermsOf(a) : Overlap(v, i) =>
              \E t \in TermsOf(a)' : Overlap(t, i) /\ v.unit = t.unit
        BY <2>5, <2>9
      <3> QED
        BY <2>4, <3>1, <3>2 DEF UnitsOver
    <2> QED
      BY <1>3, <2>6, <2>7, <2>8, <2>10 DEF Same
  <1> QED
    BY <1>2, <1>3

-----------------------------------------------------------------------------
(* What is written.                                                         *)

LEMMA CommitsAre ==
  ASSUME IInv, NEW s \in Request, Commits(s)
  PROVE  /\ tx'[s] = Idle /\ Exclusive' /\ written' \in 0 .. MaxWrites
         /\ \A q \in Request \ {s} : tx'[q] = tx[q] /\ tx[q].holds \cap tx[s].holds = {}
  <1>1. /\ tx'[s] = Idle /\ (\A q \in Request \ {s} : tx'[q] = tx[q]) /\ Exclusive'
    BY RowsAre, IdleIs DEF Commits
  <1> QED
    BY <1>1, RowsAre, CommittedIs DEF Commits, Exclusive

LEMMA CommitKeeps ==
  ASSUME IInv, NEW s \in Request, Commits(s), RowsOK', BookingsLie', DutyLies', EffortIsCovered',
         EffortIsKept', \A h : h \cap tx[s].holds = {} => Undisturbed(h)
  PROVE  IInv'
  <1>1. ASSUME NEW q \in Request PROVE tx'[q] = Idle \/ (tx'[q] = tx[q] /\ Undisturbed(tx[q].holds))
    <2>1. CASE q = s
      <3>1. tx'[s] = Idle
        BY CommitsAre
      <3> QED
        BY <2>1, <3>1
    <2>2. CASE q # s
      <3>1. PICK h : h = tx[q].holds
        OBVIOUS
      <3>2. Undisturbed(h) /\ tx'[q] = tx[q]
        BY <2>2, <3>1, CommitsAre
      <3>3. Undisturbed(tx[q].holds)
        BY <3>1, <3>2 DEF Undisturbed, EmploymentStays, DutyStays, ProjectStays
      <3> QED
        BY <3>2, <3>3
    <2> QED
      BY <2>1, <2>2
  <1> QED
    BY <1>1, CommitsAre, WritesKeep

LEMMA WriteTermKeeps ==
  ASSUME IInv, NEW s \in Request, WriteTermBeside(s), UNCHANGED <<now, project>>
  PROVE  IInv' /\ \A b \in booking : Same(b.appointment, b.span)
  <1>1. PICK a, next, last, old, new :
          /\ a \in Appointment /\ next \in NextTerm
          /\ tx[s].job.appointment = a /\ tx[s].job.next = next
          /\ last.appointment = a /\ Ends(last, old, new, next)
    BY WriteTermIs DEF WriteTermBeside
  <1>2. /\ Free(OwnerOf(a)) /\ ~ Reaches(a, next.from) /\ Commits(s)
        /\ \A r \in Rotations : rotation[r].appointment = a => rotation[r].to <= next.from
        /\ UNCHANGED <<booking, approved, locked, rotation, deployment, member, effort, archived, now>>
    BY <1>1 DEF WriteTermBeside, WriteTerm, Free, duty, project
  <1>3. terms \subseteq Term /\ booking \subseteq Booking
    BY RowsAre
  <1>4. /\ old \in Term /\ new \in Term /\ next.from \in Nat
        /\ terms' = (terms \ {last}) \cup {old, new}
    <2>1. old \in Term /\ new \in Term /\ next.from \in Nat
      BY <1>1, <1>3, EndsIs
    <2> QED
      BY <1>1, <2>1 DEF Ends
  <1>5. \A b \in booking : Same(b.appointment, b.span)
    <2>1. TAKE b \in booking
    <2>2. b \in Booking /\ Lies(b.person, b.appointment, b.span) /\ b.span \in Span
      BY <1>3, BookingsAre DEF IInv, BookingsLie, LiesWell
    <2>3. b.appointment = last.appointment => b.span.to <= next.from
      BY <1>1, <1>2, <1>4, <2>2, SpansAre DEF Reaches
    <2>4. Interval(b.span)
      BY <2>2, SpansAre DEF Interval
    <2> QED
      BY <1>1, <1>3, <2>2, <2>3, <2>4, NextTermsAreLater
  <1>6. \A i : (\E r \in Rotations : i = rotation[r]) => Same(i.appointment, i)
    <2>1. SUFFICES ASSUME NEW i, NEW r \in Rotations, i = rotation[r] PROVE Same(i.appointment, i)
      OBVIOUS
    <2>2. Planned(i)
      BY <2>1 DEF IInv, DutyLies
    <2>3. Lies(i.person, i.appointment, i) /\ Interval(i)
      BY <2>2, RotationsAre DEF Planned, Interval
    <2>4. i.appointment = last.appointment => i.to <= next.from
      BY <1>1, <1>2, <2>1
    <2> QED
      BY <1>1, <1>3, <2>3, <2>4, NextTermsAreLater
  <1>7. ASSUME NEW q \in Request, NEW x \in tx[q].holds, NEW c, NEW i, Lies(x, c, i)
        PROVE  Same(c, i)
    <2>1. c # last.appointment
      BY <1>1, <1>2, <1>7 DEF Free, Lies
    <2> QED
      BY <1>1, <1>3, <1>7, <2>1, NextTermsAreLater
  <1>8. Exclusive' /\ \A q \in Request : tx'[q] = Idle \/ tx'[q] = tx[q]
    BY <1>2, CommitsAre
  <1>9. RowsOK'
    BY <1>2, <1>4, CommitsAre
    DEF IInv, TypeOK, RowsOK, EmploymentTypeOK, DutyTypeOK, ProjectTypeOK
  <1>10. IInv'
    BY <1>2, <1>5, <1>6, <1>7, <1>8, <1>9, RowsAre, RecordsKeep
  <1> QED
    BY <1>5, <1>10

(* A booking is written, in place of another or of none.                    *)
BookingWritten(n, out, holds) ==
  /\ UNCHANGED <<terms, locked>>
  /\ Fenced(n, holds) /\ Apart(n.person, n.span, out)
  /\ \A b \in out : b \in booking /\ b.person = n.person
  /\ booking' = (booking \ out) \cup {n}

LEMMA BookingLies ==
  ASSUME IInv, NEW n, NEW out, NEW holds, BookingWritten(n, out, holds)
  PROVE  /\ BookingsLie' /\ booking' \subseteq Booking /\ n \notin booking \ out
         /\ \A h : h \cap holds = {} => EmploymentStays(h)
  <1>1. /\ n \in Booking /\ Lies(n.person, n.appointment, n.span) /\ n.person \in holds
        /\ booking \subseteq Booking /\ terms' = terms
    BY RowsAre DEF BookingWritten, Fenced, LiesWell
  <1>2. \A b \in booking' : LiesWell(b)'
    <2>1. \A b : LiesWell(b) => LiesWell(b)'
      BY <1>1, UnchangedTermsAreSame, LiesStays DEF LiesWell
    <2> QED
      BY <1>1, <2>1 DEF BookingWritten, LiesWell, IInv, BookingsLie
  <1>3. \A b \in booking \ out : b.person = n.person => ~ Overlap(b.span, n.span) /\ ~ Overlap(n.span, b.span)
    BY <1>1, BookingsAre, OverlapIs DEF BookingWritten, Apart, OfPerson
  <1>4. \A b, c \in booking' : b # c /\ b.person = c.person => ~ Overlap(b.span, c.span)
    BY <1>3 DEF BookingWritten, IInv, BookingsLie
  <1>5. n \notin booking \ out
    BY <1>1, <1>3, BookingsAre, OverlapIs
  <1>6. ASSUME NEW h, h \cap holds = {} PROVE EmploymentStays(h)
    <2>1. n.person \notin h
      BY <1>1, <1>6
    <2> QED
      BY <1>1, <2>1, UnchangedTermsAreSame DEF EmploymentStays, BookingWritten
  <1> QED
    BY <1>1, <1>2, <1>4, <1>5, <1>6 DEF BookingsLie, BookingWritten

LEMMA EmploymentUntouched ==
  ASSUME UNCHANGED <<terms, booking, locked>>, NEW h
  PROVE  EmploymentStays(h)
  BY UnchangedTermsAreSame DEF EmploymentStays

LEMMA DutyUntouched ==
  ASSUME UNCHANGED duty, NEW h
  PROVE  DutyStays(h)
  BY DEF duty, DutyStays

LEMMA ProjectUntouched ==
  ASSUME IInv, UNCHANGED <<now, project>>, NEW h
  PROVE  ProjectStays(h)
  BY RowsAre DEF project, ProjectStays

LEMMA DutyUntouchedLies ==
  ASSUME IInv, UNCHANGED duty, terms' = terms
  PROVE  DutyLies'
  BY UnchangedTermsAreSame, DutyStaysSound DEF duty

LEMMA EffortUntouched ==
  ASSUME IInv, UNCHANGED <<now, project>>, booking \subseteq booking'
  PROVE  EffortIsCovered' /\ EffortIsKept'
  BY RowsAre, EffortStays DEF project

LEMMA BookingsUntouched ==
  ASSUME IInv, UNCHANGED <<terms, booking>>
  PROVE  BookingsLie'
  BY UnchangedTermsAreSame, BookingsStay

LEMMA WriteBookingIs ==
  ASSUME IInv, NEW s \in Request, WriteBooking(s)
  PROVE  BookingWritten(tx[s].job, {}, tx[s].holds)
  BY DEF WriteBooking, BookingWritten, IInv, Rests, BookRests

LEMMA WriteBookingKeeps ==
  ASSUME IInv, NEW s \in Request, WriteBooking(s), UNCHANGED <<duty, now, project>>
  PROVE  IInv'
  <1>1. PICK n, holds : n = tx[s].job /\ holds = tx[s].holds
    OBVIOUS
  <1>2. BookingWritten(n, {}, holds)
    BY <1>1, WriteBookingIs
  <1>3. /\ BookingsLie' /\ booking' \subseteq Booking
        /\ \A h : h \cap tx[s].holds = {} => EmploymentStays(h)
    BY <1>1, <1>2, BookingLies
  <1>4. Commits(s) /\ UNCHANGED <<terms, approved, locked>> /\ booking \subseteq booking'
    BY DEF WriteBooking
  <1>5. RowsOK'
    BY <1>3, <1>4, CommitsAre
    DEF IInv, TypeOK, RowsOK, EmploymentTypeOK, DutyTypeOK, ProjectTypeOK, duty, project
  <1>6. \A h : h \cap tx[s].holds = {} => Undisturbed(h)
    BY <1>3, DutyUntouched, ProjectUntouched DEF Undisturbed
  <1> QED
    BY <1>3, <1>4, <1>5, <1>6, DutyUntouchedLies, EffortUntouched, CommitKeeps

LEMMA WriteRotationKeeps ==
  ASSUME IInv, NEW s \in Request, WriteRotation(s), UNCHANGED <<now, project>>
  PROVE  IInv'
  <1>1. PICK r, job :
          /\ r \in Rotation \ Rotations /\ job = tx[s].job /\ Planned(job) /\ Commits(s)
          /\ UNCHANGED <<records, deployment>>
          /\ rotation' = [rotation EXCEPT ![r] = job]
    BY DEF WriteRotation, IInv, Rests, DutyRests
  <1>2. UNCHANGED <<terms, booking, approved, locked, deployment>> /\ Planned(job)'
    BY <1>1, UnchangedTermsAreSame, PlannedStays DEF records
  <1>3. /\ rotation \in [Rotation -> [person : Person \cup {None}, appointment : Appointment \cup {None},
                                      unit : Unit \cup {None}, from : 0 .. Never, to : 0 .. Never]]
        /\ deployment \subseteq [rotation : Rotation, person : Person, appointment : Appointment,
                                 span : DutySpan]
    BY DEF IInv, TypeOK, DutyTypeOK
  <1>4. rotation'[r] = job /\ \A q \in Rotation \ {r} : rotation'[q] = rotation[q]
    BY <1>1, <1>3
  <1>5. job \in RotationRow
    BY <1>1 DEF Planned
  <1>6. RowsOK'
    <2>1. rotation' \in [Rotation -> [person : Person \cup {None}, appointment : Appointment \cup {None},
                                      unit : Unit \cup {None}, from : 0 .. Never, to : 0 .. Never]]
      BY <1>1, <1>3, <1>5 DEF RotationRow
    <2> QED
      BY <1>1, <1>2, <2>1, CommitsAre
      DEF IInv, TypeOK, RowsOK, EmploymentTypeOK, DutyTypeOK, ProjectTypeOK, project
  <1>7. DutyLies'
    <2>1. ASSUME NEW q \in Rotations' PROVE Planned(rotation[q])'
      <3>1. PICK i : i = rotation'[q]
        OBVIOUS
      <3>2. Planned(i)'
        <4>1. CASE q = r
          BY <1>2, <1>4, <3>1, <4>1
        <4>2. CASE q # r
          <5>1. q \in Rotations /\ i = rotation[q]
            BY <1>4, <2>1, <3>1, <4>2 DEF Rotations
          <5>2. Planned(i) /\ Same(i.appointment, i)
            BY <1>2, <5>1, UnchangedTermsAreSame DEF IInv, DutyLies
          <5> QED
            BY <5>2, PlannedStays
        <4> QED
          BY <4>1, <4>2
      <3> QED
        BY <3>1, <3>2
    <2>2. ASSUME NEW d \in deployment PROVE d.rotation # r /\ Within(d.span, rotation[d.rotation])
      <3>1. Within(d.span, rotation[d.rotation])
        BY DEF IInv, DutyLies
      <3>2. d.span \in Span
        BY <1>3, RotationsAreIntervals
      <3>3. ~ Within(d.span, NoRotation)
        BY <3>2, SpansAre DEF Within, NoRotation
      <3>4. rotation[r] = NoRotation
        BY <1>1 DEF Rotations
      <3> QED
        BY <3>1, <3>3, <3>4
    <2>3. \A d \in deployment' : Within(d.span, rotation[d.rotation])'
      BY <1>2, <1>3, <1>4, <2>2 DEF Within
    <2> QED
      BY <2>1, <2>3 DEF DutyLies
  <1>8. \A h : DutyStays(h)
    BY <1>1, <1>2, <1>4 DEF DutyStays, Rotations
  <1>9. \A h : Undisturbed(h)
    BY <1>2, <1>8, EmploymentUntouched, ProjectUntouched DEF Undisturbed
  <1> QED
    BY <1>1, <1>2, <1>6, <1>7, <1>9, BookingsUntouched, EffortUntouched, CommitKeeps

LEMMA WriteWindowKeeps ==
  ASSUME IInv, NEW s \in Request, WriteWindow(s), UNCHANGED <<now, project>>
  PROVE  IInv'
  <1>1. PICK r, next :
          /\ r \in Rotations /\ Planned(next) /\ next.person \in tx[s].holds
          /\ rotation[r].person = next.person
          /\ \A d \in deployment : d.rotation = r => Within(d.span, next)
          /\ Commits(s) /\ UNCHANGED <<records, deployment>>
          /\ rotation' = [rotation EXCEPT ![r] = next]
    BY DEF WriteWindow, IInv, Rests, DutyRests
  <1>2. UNCHANGED <<terms, booking, approved, locked, deployment>> /\ Planned(next)'
    BY <1>1, UnchangedTermsAreSame, PlannedStays DEF records
  <1>3. /\ rotation \in [Rotation -> [person : Person \cup {None}, appointment : Appointment \cup {None},
                                      unit : Unit \cup {None}, from : 0 .. Never, to : 0 .. Never]]
        /\ deployment \subseteq [rotation : Rotation, person : Person, appointment : Appointment,
                                 span : DutySpan]
    BY DEF IInv, TypeOK, DutyTypeOK
  <1>4. r \in Rotation /\ rotation'[r] = next /\ \A q \in Rotation \ {r} : rotation'[q] = rotation[q]
    BY <1>1, <1>3 DEF Rotations
  <1>5. next \in RotationRow
    BY <1>1 DEF Planned
  <1>6. RowsOK'
    <2>1. rotation' \in [Rotation -> [person : Person \cup {None}, appointment : Appointment \cup {None},
                                      unit : Unit \cup {None}, from : 0 .. Never, to : 0 .. Never]]
      BY <1>1, <1>3, <1>5 DEF RotationRow
    <2> QED
      BY <1>1, <1>2, <2>1, CommitsAre
      DEF IInv, TypeOK, RowsOK, EmploymentTypeOK, DutyTypeOK, ProjectTypeOK, project
  <1>7. DutyLies'
    <2>1. ASSUME NEW q \in Rotations' PROVE Planned(rotation[q])'
      <3>1. PICK i : i = rotation'[q]
        OBVIOUS
      <3>2. Planned(i)'
        <4>1. CASE q = r
          BY <1>2, <1>4, <3>1, <4>1
        <4>2. CASE q # r
          <5>1. q \in Rotations /\ i = rotation[q]
            BY <1>4, <2>1, <3>1, <4>2 DEF Rotations
          <5>2. Planned(i) /\ Same(i.appointment, i)
            BY <1>2, <5>1, UnchangedTermsAreSame DEF IInv, DutyLies
          <5> QED
            BY <5>2, PlannedStays
        <4> QED
          BY <4>1, <4>2
      <3> QED
        BY <3>1, <3>2
    <2>2. \A d \in deployment' : Within(d.span, rotation[d.rotation])'
      <3>1. \A d \in deployment : Within(d.span, rotation'[d.rotation])
        BY <1>1, <1>3, <1>4 DEF IInv, DutyLies
      <3> QED
        BY <1>2, <3>1 DEF Within
    <2> QED
      BY <2>1, <2>2 DEF DutyLies
  <1>8. \A h : h \cap tx[s].holds = {} => DutyStays(h)
    BY <1>1, <1>2, <1>4 DEF DutyStays, Rotations
  <1>9. \A h : h \cap tx[s].holds = {} => Undisturbed(h)
    BY <1>2, <1>8, EmploymentUntouched, ProjectUntouched DEF Undisturbed
  <1> QED
    BY <1>1, <1>2, <1>6, <1>7, <1>9, BookingsUntouched, EffortUntouched, CommitKeeps

LEMMA WriteDeploymentIs ==
  ASSUME IInv, NEW s \in Request, WriteDeployment(s)
  PROVE  BookingWritten(DutyBooking(tx[s].job), {}, tx[s].holds)
  <1>1. PICK job : job = tx[s].job
    OBVIOUS
  <1>2. /\ Fenced(DutyBooking(job), tx[s].holds) /\ Apart(job.person, job.span, {})
        /\ UNCHANGED <<terms, locked>> /\ booking' = booking \cup {DutyBooking(job)}
    BY <1>1 DEF WriteDeployment, IInv, Rests, DutyRests, DutyBooking
  <1>3. DutyBooking(job).person = job.person /\ DutyBooking(job).span = job.span
    BY DEF DutyBooking
  <1> QED
    BY <1>1, <1>2, <1>3 DEF BookingWritten

LEMMA WriteDeploymentKeeps ==
  ASSUME IInv, NEW s \in Request, WriteDeployment(s), UNCHANGED <<now, project>>
  PROVE  IInv'
  <1>1. PICK job, holds, n :
          /\ job = tx[s].job /\ holds = tx[s].holds /\ n = DutyBooking(job)
          /\ job \in [rotation : Rotation, person : Person, appointment : Appointment, span : DutySpan]
          /\ job.rotation \in Rotations /\ rotation[job.rotation].person = job.person
          /\ Within(job.span, rotation[job.rotation])
          /\ Commits(s) /\ UNCHANGED <<terms, approved, locked, rotation>>
          /\ deployment' = deployment \cup {job}
    BY DEF WriteDeployment, IInv, Rests, DutyRests
  <1>2. BookingWritten(n, {}, holds)
    BY <1>1, WriteDeploymentIs
  <1>3. /\ BookingsLie' /\ booking' \subseteq Booking /\ booking \subseteq booking'
        /\ \A h : h \cap tx[s].holds = {} => EmploymentStays(h)
    <2>1. booking \subseteq booking'
      BY <1>2 DEF BookingWritten
    <2>2. /\ BookingsLie' /\ booking' \subseteq Booking
          /\ \A h : h \cap holds = {} => EmploymentStays(h)
      BY <1>2, BookingLies
    <2> QED
      BY <1>1, <2>1, <2>2
  <1>4. job.person \in holds
    BY <1>1, <1>2 DEF BookingWritten, Fenced, DutyBooking
  <1>5. RowsOK'
    BY <1>1, <1>3, CommitsAre
    DEF IInv, TypeOK, RowsOK, EmploymentTypeOK, DutyTypeOK, ProjectTypeOK, project
  <1>6. DutyLies'
    <2>1. ASSUME NEW r \in Rotations PROVE Planned(rotation[r])'
      <3>1. PICK i : i = rotation[r]
        OBVIOUS
      <3>2. Planned(i) /\ Same(i.appointment, i)
        BY <1>1, <3>1, UnchangedTermsAreSame DEF IInv, DutyLies
      <3> QED
        BY <1>1, <3>1, <3>2, PlannedStays
    <2>2. \A d \in deployment' : Within(d.span, rotation[d.rotation])'
      BY <1>1 DEF IInv, DutyLies, Within
    <2> QED
      BY <1>1, <2>1, <2>2 DEF DutyLies, Rotations
  <1>7. \A h : h \cap tx[s].holds = {} => DutyStays(h)
    BY <1>1, <1>4 DEF DutyStays
  <1>8. \A h : h \cap tx[s].holds = {} => Undisturbed(h)
    BY <1>3, <1>7, ProjectUntouched DEF Undisturbed
  <1> QED
    BY <1>1, <1>3, <1>5, <1>6, <1>8, EffortUntouched, CommitKeeps

(* Effort takes the place of what was allocated to the project before.      *)
LEMMA WriteEffortIs ==
  ASSUME IInv, NEW s \in Request, WriteEffort(s), NEW job, job = tx[s].job,
         NEW b, b = job.booking, NEW p, p = job.project
  PROVE  /\ job \in [booking : Booking, project : Project, amount : 0 .. Never]
         /\ b \in booking /\ {b.person, p} \subseteq tx[s].holds
         /\ job.amount > 0 => b.span.to <= now /\ p \notin archived /\ Covering(b, p) # {}
         /\ AllocatedTo(b, Project \ {p}) + job.amount <= Length(b)
         /\ effort' = {e \in effort : e.booking # b \/ e.project # p} \cup {job}
         /\ Commits(s) /\ UNCHANGED <<terms, booking, approved, locked, now, archived, member>>
  <1>1. /\ tx[s].op = "ALLOCATE" /\ EffortRests(tx[s]) /\ Commits(s)
        /\ UNCHANGED <<terms, booking, approved, locked, now, archived, member>>
        /\ effort' = (effort \ {e \in effort : e.booking = b /\ e.project = p}) \cup {job}
    BY DEF WriteEffort, records, IInv, Rests
  <1>2. effort' = {e \in effort : e.booking # b \/ e.project # p} \cup {job}
    BY <1>1
  <1> QED
    BY <1>1, <1>2 DEF EffortRests

LEMMA WriteEffortKeeps ==
  ASSUME IInv, NEW s \in Request, WriteEffort(s), UNCHANGED duty
  PROVE  IInv'
  <1>1. PICK job, b, p, n :
          job = tx[s].job /\ b = job.booking /\ p = job.project /\ n = job.amount
    OBVIOUS
  <1>2. /\ job \in [booking : Booking, project : Project, amount : 0 .. Never]
        /\ b \in booking /\ {b.person, p} \subseteq tx[s].holds
        /\ n > 0 => b.span.to <= now /\ p \notin archived /\ Covering(b, p) # {}
        /\ AllocatedTo(b, Project \ {p}) + n <= Length(b)
        /\ effort' = {e \in effort : e.booking # b \/ e.project # p} \cup {job}
        /\ Commits(s) /\ UNCHANGED <<terms, booking, approved, locked, now, archived, member>>
    BY <1>1, WriteEffortIs
  <1>3. b \in Booking /\ p \in Project /\ n \in 0 .. Never
    BY <1>1, <1>2
  <1>4. RowsOK'
    <2>1. effort' \subseteq [booking : Booking, project : Project, amount : 0 .. Never]
      BY <1>2, RowsAre
    <2> QED
      BY <1>2, <2>1, CommitsAre
      DEF IInv, TypeOK, RowsOK, EmploymentTypeOK, DutyTypeOK, ProjectTypeOK, duty
  <1>5. EffortIsKept'
    <2>1. IsFiniteSet(effort')
      <3>1. IsFiniteSet({e \in effort : e.booking # b \/ e.project # p})
        BY RowsAre, FS_Subset
      <3> QED
        BY <1>2, <3>1, FS_AddElement
    <2>2. \A e, f \in effort' : e.booking = f.booking /\ e.project = f.project => e = f
      BY <1>1, <1>2 DEF IInv, EffortIsKept
    <2>3. \A e \in effort' : e.amount > 0 => e.booking.span.to <= now'
      BY <1>1, <1>2 DEF IInv, EffortIsKept
    <2> QED
      BY <2>1, <2>2, <2>3 DEF EffortIsKept
  <1>6. AllocatedTo(b, Project)' <= Length(b)
    <2>1. PICK R, S : /\ R = {e \in effort' : e.booking = b /\ e.project \in Project}
                      /\ S = {e \in effort : e.booking = b /\ e.project \in Project \ {p}}
      OBVIOUS
    <2>2. R \ {job} = S /\ job \in R
      BY <1>1, <1>2, <1>3, <2>1, RowsAre
    <2>3. IsFiniteSet(R) /\ Amounts(R)
      <3>1. \A e \in R : e \in effort' /\ e.amount \in Nat
        BY <1>2, <2>1, RowsAre
      <3>2. IsFiniteSet(effort')
        BY <1>5 DEF EffortIsKept
      <3> QED
        BY <3>1, <3>2, FS_Subset DEF Amounts
    <2>4. Total(R) = n + Total(S) /\ Total(S) \in Nat
      BY <1>1, <2>2, <2>3, TotalWithout
    <2>5. AllocatedTo(b, Project)' = Total(R) /\ AllocatedTo(b, Project \ {p}) = Total(S)
      BY <2>1, AllocatedIs, AllocatedNext
    <2> QED
      BY <1>2, <1>3, <2>4, <2>5
  <1>7. ASSUME NEW c, c # b PROVE AllocatedTo(c, Project)' = AllocatedTo(c, Project)
    <2>1. {e \in effort' : e.booking = c /\ e.project \in Project}
            = {e \in effort : e.booking = c /\ e.project \in Project}
      BY <1>1, <1>2, <1>7
    <2> QED
      BY <2>1, AllocatedIs, AllocatedNext
  <1>8. EffortIsCovered'
    <2>1. ASSUME NEW e \in effort'
          PROVE  /\ e.booking \in booking /\ AllocatedTo(e.booking, Project)' <= Length(e.booking)
                 /\ e.amount > 0 => Covering(e.booking, e.project) # {}
      <3>1. CASE e = job
        BY <1>1, <1>2, <1>6, <3>1
      <3>2. CASE e # job
        <4>1. e \in effort
          BY <1>2, <3>2
        <4>2. /\ e.booking \in booking /\ AllocatedTo(e.booking, Project) <= Length(e.booking)
              /\ e.amount > 0 => Covering(e.booking, e.project) # {}
          BY <4>1 DEF IInv, EffortIsCovered
        <4>3. CASE e.booking = b
          BY <1>6, <4>2, <4>3
        <4>4. CASE e.booking # b
          BY <1>7, <4>2, <4>4
        <4> QED
          BY <4>3, <4>4, <4>2
      <3> QED
        BY <3>1, <3>2
    <2>2. \A c, q : Covering(c, q)' = Covering(c, q)
      BY <1>2 DEF Covering
    <2>3. ASSUME NEW c \in {e.booking : e \in effort'}
          PROVE  /\ c \in booking' /\ AllocatedTo(c, Project)' <= Length(c)
                 /\ \A e \in effort' : e.booking = c /\ e.amount > 0 => Covering(c, e.project)' # {}
      BY <1>2, <2>1, <2>2
    <2> QED
      BY <2>3 DEF EffortIsCovered, Length
  <1>9. \A h : h \cap tx[s].holds = {} => Undisturbed(h)
    <2>1. SUFFICES ASSUME NEW h, h \cap tx[s].holds = {} PROVE Undisturbed(h)
      OBVIOUS
    <2>2. b.person \notin h /\ p \notin h
      BY <1>2, <2>1
    <2>3. ProjectStays(h)
      BY <1>1, <1>2, <2>2, RowsAre DEF ProjectStays
    <2> QED
      BY <1>2, <2>3, EmploymentUntouched, DutyUntouched DEF Undisturbed
  <1> QED
    BY <1>2, <1>4, <1>5, <1>8, <1>9, BookingsUntouched, DutyUntouchedLies, CommitKeeps

(* Members come, and leave what has been worked covered.                    *)
LEMMA MembersKeep ==
  ASSUME IInv, NEW s \in Request, Commits(s), UNCHANGED duty,
         UNCHANGED <<terms, booking, approved, locked, now, archived, effort>>,
         \A m \in member' : \E n \in NewMember : m = [n EXCEPT !.to = m.to] /\ m.to \in 0 .. Never,
         \A m : m.project \notin tx[s].holds => (m \in member' <=> m \in member),
         \A e \in effort : e.amount > 0 /\ Covering(e.booking, e.project) # {}
                             => Covering(e.booking, e.project)' # {}
  PROVE  IInv'
  <1>1. RowsOK'
    BY CommitsAre DEF IInv, TypeOK, RowsOK, EmploymentTypeOK, DutyTypeOK, ProjectTypeOK, duty
  <1>2. EffortIsKept'
    BY DEF IInv, EffortIsKept
  <1>3. EffortIsCovered'
    <2>1. \A b : AllocatedTo(b, Project)' = AllocatedTo(b, Project)
      BY AllocatedIs, AllocatedNext
    <2> QED
      BY <2>1 DEF IInv, EffortIsCovered, Length
  <1>4. \A h : h \cap tx[s].holds = {} => Undisturbed(h)
    <2>1. SUFFICES ASSUME NEW h, h \cap tx[s].holds = {} PROVE Undisturbed(h)
      OBVIOUS
    <2>2. ProjectStays(h)
      BY <2>1, RowsAre DEF ProjectStays
    <2> QED
      BY <2>2, EmploymentUntouched, DutyUntouched DEF Undisturbed
  <1> QED
    BY <1>1, <1>2, <1>3, <1>4, BookingsUntouched, DutyUntouchedLies, CommitKeeps

LEMMA WriteMemberKeeps ==
  ASSUME IInv, NEW s \in Request, WriteMember(s), UNCHANGED duty
  PROVE  IInv'
  <1>1. PICK m : /\ m = tx[s].job /\ m \in NewMember /\ m.project \in tx[s].holds
                 /\ Commits(s) /\ member' = member \cup {m}
                 /\ UNCHANGED <<terms, booking, approved, locked, now, archived, effort>>
    BY DEF WriteMember, records, IInv, Rests, MemberRests
  <1>2. m = [m EXCEPT !.to = m.to] /\ m.to \in 0 .. Never
    BY <1>1, MembersAreIntervals
  <1>3. \A o \in member' : \E n \in NewMember : o = [n EXCEPT !.to = o.to] /\ o.to \in 0 .. Never
    BY <1>1, <1>2 DEF IInv, TypeOK, ProjectTypeOK
  <1>4. \A b, p : Covering(b, p) \subseteq Covering(b, p)'
    BY <1>1 DEF Covering
  <1> QED
    BY <1>1, <1>3, <1>4, MembersKeep

(* The membership that ends, when it ends, and what is left of it.          *)
Leaves(s, m, at, left) ==
  /\ m \in member /\ m.project \in tx[s].holds /\ at \in 0 .. Never /\ at \in Nat
  /\ \A e \in effort : e.project = m.project /\ e.amount > 0 => e.booking.span.to <= at
  /\ Commits(s) /\ member' = (member \ {m}) \cup {left}
  /\ UNCHANGED <<terms, booking, approved, locked, now, archived, effort>>
  /\ left.project = m.project /\ left.person = m.person /\ left.appointment = m.appointment
  /\ left.from = m.from /\ left.to = at
  /\ \E n \in NewMember : left = [n EXCEPT !.to = left.to]

LEMMA WriteEndIs ==
  ASSUME IInv, NEW s \in Request, WriteEnd(s)
  PROVE  \E m, at, left : Leaves(s, m, at, left)
  <1> PICK m, at, left : m = tx[s].job.of /\ at = tx[s].job.at /\ left = [m EXCEPT !.to = at]
    OBVIOUS
  <1>1. /\ m \in member /\ m.project \in tx[s].holds /\ at \in 0 .. now
        /\ \A e \in effort : e.project = m.project /\ e.amount > 0 => e.booking.span.to <= at
        /\ Commits(s) /\ member' = (member \ {m}) \cup {left}
        /\ UNCHANGED <<terms, booking, approved, locked, now, archived, effort>>
    BY DEF WriteEnd, records, IInv, Rests, MemberRests
  <1>2. at \in 0 .. Never /\ at \in Nat
    BY <1>1, AmountsAreNumbers, SpansAreIntervals DEF IInv, TypeOK, ProjectTypeOK
  <1>3. PICK k \in NewMember : m = [k EXCEPT !.to = m.to] /\ m.to \in 0 .. Never
    BY <1>1 DEF IInv, TypeOK, ProjectTypeOK
  <1>4. k \in [project : Project, person : Person, appointment : Appointment,
               from : 0 .. Never, to : 0 .. Never]
    BY MembersAreIntervals
  <1>5. PICK to : to = m.to
    OBVIOUS
  <1>6. m = [k EXCEPT !.to = to]
    BY <1>3, <1>5
  <1>7. left = [k EXCEPT !.to = at]
    BY <1>4, <1>6
  <1>8. left.to = at /\ left = [k EXCEPT !.to = left.to]
    BY <1>4, <1>7
  <1>9. /\ left.project = m.project /\ left.person = m.person /\ left.appointment = m.appointment
        /\ left.from = m.from
    BY <1>4, <1>6, <1>7
  <1>10. Leaves(s, m, at, left)
    BY <1>1, <1>2, <1>3, <1>8, <1>9 DEF Leaves
  <1> QED
    BY <1>10

LEMMA WriteEndKeeps ==
  ASSUME IInv, NEW s \in Request, WriteEnd(s), UNCHANGED duty
  PROVE  IInv'
  <1>1. PICK m, at, left : Leaves(s, m, at, left)
    BY WriteEndIs
  <1>2. \A o \in member' : \E n \in NewMember : o = [n EXCEPT !.to = o.to] /\ o.to \in 0 .. Never
    BY <1>1 DEF Leaves, IInv, TypeOK, ProjectTypeOK
  <1>3. \A o : o.project \notin tx[s].holds => (o \in member' <=> o \in member)
    BY <1>1 DEF Leaves
  <1>4. ASSUME NEW e \in effort, e.amount > 0, Covering(e.booking, e.project) # {}
        PROVE  Covering(e.booking, e.project)' # {}
    <2>1. PICK o \in member :
            /\ o.project = e.project /\ o.person = e.booking.person
            /\ o.appointment = e.booking.appointment
            /\ o.from <= e.booking.span.from /\ e.booking.span.to <= o.to
      BY <1>4 DEF Covering
    <2>2. CASE o # m
      BY <1>1, <2>1, <2>2 DEF Leaves, Covering
    <2>3. CASE o = m
      <3>1. e.booking.span.to <= at
        BY <1>1, <1>4, <2>1, <2>3 DEF Leaves
      <3> QED
        BY <1>1, <2>1, <2>3, <3>1 DEF Leaves, Covering
    <2> QED
      BY <2>2, <2>3
  <1> QED
    BY <1>1, <1>2, <1>3, <1>4, MembersKeep DEF Leaves

(* A correction moves a booking, and its row of effort that counts nothing. *)
Moves(s, b, c, i) ==
  /\ b \in booking /\ b.span # i /\ i \in Span /\ c \in Booking
  /\ c = [b EXCEPT !.span = i] /\ c.person = b.person /\ c.span = i
  /\ b.person \in tx[s].holds
  /\ PeriodsFor(b) \cap locked = {} /\ PeriodsFor(c) \cap locked = {}
  /\ BookingWritten(c, {b}, tx[s].holds)
  /\ \A e \in effort : e.booking = b => e.amount = 0
  /\ Commits(s) /\ UNCHANGED <<terms, approved, locked, now, archived, member>>
  /\ effort' = {IF e.booking = b THEN [e EXCEPT !.booking = c] ELSE e : e \in effort}

LEMMA WriteCorrectionIs ==
  ASSUME IInv, NEW s \in Request, WriteCorrection(s)
  PROVE  \E b, c, i : Moves(s, b, c, i)
  <1> PICK job, b, i, c : job = tx[s].job /\ b = job.of /\ i = job.span /\ c = [b EXCEPT !.span = i]
    OBVIOUS
  <1>1. /\ b \in booking /\ i \in Span /\ b.span # i
        /\ PeriodsFor(b) \cap locked = {} /\ Fenced(Corrected(job), tx[s].holds)
        /\ Apart(b.person, i, {b}) /\ \A e \in effort : e.booking = b => e.amount = 0
    BY DEF WriteCorrection, IInv, Rests, CorrectionRests
  <1>2. Corrected(job) = c
    BY DEF Corrected
  <1>3. /\ Commits(s) /\ UNCHANGED <<terms, approved, locked, now, archived, member>>
        /\ booking' = (booking \ {b}) \cup {c}
        /\ effort' = {IF e.booking = b THEN [e EXCEPT !.booking = c] ELSE e : e \in effort}
    BY DEF WriteCorrection
  <1>4. c \in Booking /\ c.person = b.person /\ c.span = i
    <2>1. b \in Booking
      BY <1>1, RowsAre
    <2> QED
      BY <1>1, <2>1 DEF Booking
  <1>5. Fenced(c, tx[s].holds)
    BY <1>1, <1>2
  <1>6. b.person \in tx[s].holds /\ PeriodsFor(c) \cap locked = {}
    BY <1>4, <1>5 DEF Fenced
  <1>7. BookingWritten(c, {b}, tx[s].holds)
    BY <1>1, <1>3, <1>4, <1>5 DEF BookingWritten
  <1>8. Moves(s, b, c, i)
    BY <1>1, <1>3, <1>4, <1>6, <1>7 DEF Moves
  <1> QED
    BY <1>8

LEMMA WriteCorrectionKeeps ==
  ASSUME IInv, NEW s \in Request, WriteCorrection(s), UNCHANGED duty
  PROVE  IInv'
  <1>1. PICK b, c, i : Moves(s, b, c, i)
    BY WriteCorrectionIs
  <1>2. /\ b \in booking /\ b.span # i /\ c \in Booking /\ c.person = b.person /\ c.span = i
        /\ b.person \in tx[s].holds /\ b # c /\ Commits(s)
        /\ \A e \in effort : e.booking = b => e.amount = 0
        /\ UNCHANGED <<terms, approved, locked, now, archived, member>>
        /\ BookingWritten(c, {b}, tx[s].holds)
    BY <1>1 DEF Moves
  <1>3. /\ BookingsLie' /\ booking' \subseteq Booking /\ c \notin booking \ {b}
        /\ \A h : h \cap tx[s].holds = {} => EmploymentStays(h)
    <2>1. PICK holds : holds = tx[s].holds
      OBVIOUS
    <2> QED
      BY <1>2, <2>1, BookingLies
  <1>4. c \notin booking /\ booking' = (booking \ {b}) \cup {c}
    BY <1>2, <1>3 DEF BookingWritten
  <1>5. /\ effort \subseteq [booking : Booking, project : Project, amount : 0 .. Never]
        /\ \A e \in effort : e.booking \in booking
    BY RowsAre DEF IInv, EffortIsCovered
  <1>6. PICK To : To = [e \in effort |-> IF e.booking = b THEN [e EXCEPT !.booking = c] ELSE e]
    OBVIOUS
  <1>7. \A e \in effort :
          /\ e.booking # b => To[e] = e
          /\ e.booking = b => /\ To[e] \in [booking : Booking, project : Project, amount : 0 .. Never]
                              /\ To[e].booking = c /\ To[e].project = e.project /\ To[e].amount = 0
    BY <1>2, <1>5, <1>6
  <1>8. effort' = {To[e] : e \in effort}
    BY <1>1, <1>6 DEF Moves
  <1>9. /\ effort' \subseteq [booking : Booking, project : Project, amount : 0 .. Never]
        /\ \A e : e.booking \notin {b, c} => (e \in effort' <=> e \in effort)
        /\ \A e \in effort' : e.amount > 0 => e \in effort
        /\ \A e \in effort' : e.booking # b /\ e.booking \in booking'
        /\ \A e \in effort' : e.booking = c => e.amount = 0
    BY <1>2, <1>4, <1>5, <1>7, <1>8
  <1>10. RowsOK'
    BY <1>2, <1>3, <1>9, CommitsAre
    DEF IInv, TypeOK, RowsOK, EmploymentTypeOK, DutyTypeOK, ProjectTypeOK, duty
  <1>11. EffortIsKept'
    <2>1. IsFiniteSet(effort')
      <3>1. To \in Surjection(effort, effort')
        BY <1>6, <1>8 DEF Surjection
      <3> QED
        BY <3>1, RowsAre, FS_Surjection
    <2>2. \A e, f \in effort' : e.booking = f.booking /\ e.project = f.project => e = f
      <3>1. \A e, f \in effort : e.booking = f.booking /\ e.project = f.project => e = f
        BY DEF IInv, EffortIsKept
      <3>2. \A e, f \in effort :
              To[e].booking = To[f].booking /\ To[e].project = To[f].project => To[e] = To[f]
        <4>1. \A e \in effort : To[e].project = e.project
          BY <1>7
        <4>2. \A e, f \in effort : To[e].booking = To[f].booking => e.booking = f.booking
          BY <1>4, <1>5, <1>7
        <4> QED
          BY <3>1, <4>1, <4>2
      <3> QED
        BY <1>8, <3>2
    <2>3. \A e \in effort' : e.amount > 0 => e.booking.span.to <= now'
      BY <1>2, <1>9 DEF IInv, EffortIsKept
    <2> QED
      BY <2>1, <2>2, <2>3 DEF EffortIsKept
  <1>12. AllocatedTo(c, Project)' <= Length(c)
    <2>1. PICK R : R = {e \in effort' : e.booking = c /\ e.project \in Project}
      OBVIOUS
    <2>2. IsFiniteSet(R) /\ Amounts(R) /\ \A e \in R : e.amount = 0
      BY <1>9, <1>11, <2>1, FS_Subset DEF EffortIsKept, Amounts
    <2>3. AllocatedTo(c, Project)' = 0
      BY <2>1, <2>2, NoTotal, AllocatedNext
    <2> QED
      BY <1>2, <2>3, LengthIs
  <1>13. ASSUME NEW d, d \notin {b, c} PROVE AllocatedTo(d, Project)' = AllocatedTo(d, Project)
    <2>1. {e \in effort' : e.booking = d /\ e.project \in Project}
            = {e \in effort : e.booking = d /\ e.project \in Project}
      BY <1>9, <1>13
    <2> QED
      BY <2>1, AllocatedIs, AllocatedNext
  <1>14. EffortIsCovered'
    <2>1. \A d, q : Covering(d, q)' = Covering(d, q)
      BY <1>2 DEF Covering
    <2>2. ASSUME NEW d \in {e.booking : e \in effort'}
          PROVE  /\ d \in booking' /\ AllocatedTo(d, Project)' <= Length(d)
                 /\ \A e \in effort' : e.booking = d /\ e.amount > 0 => Covering(d, e.project)' # {}
      <3>1. d # b /\ d \in booking'
        BY <1>9
      <3>2. \A e \in effort' : e.booking = d /\ e.amount > 0 => Covering(d, e.project)' # {}
        BY <1>9, <2>1 DEF IInv, EffortIsCovered
      <3>3. AllocatedTo(d, Project)' <= Length(d)
        <4>1. CASE d = c
          BY <1>12, <4>1
        <4>2. CASE d # c
          <5>1. PICK e \in effort : e.booking = d
            BY <1>9, <3>1, <4>2
          <5>2. AllocatedTo(d, Project) <= Length(d)
            BY <5>1 DEF IInv, EffortIsCovered
          <5> QED
            BY <1>13, <3>1, <4>2, <5>2
        <4> QED
          BY <4>1, <4>2
      <3> QED
        BY <3>1, <3>2, <3>3
    <2> QED
      BY <2>2 DEF EffortIsCovered, Length
  <1>15. \A h : h \cap tx[s].holds = {} => Undisturbed(h)
    <2>1. SUFFICES ASSUME NEW h, h \cap tx[s].holds = {} PROVE Undisturbed(h)
      OBVIOUS
    <2>2. b.person \notin h /\ c.person \notin h
      BY <1>2, <2>1
    <2>3. ProjectStays(h)
      <3>1. \A e : e.booking.person \in h => e.booking \notin {b, c}
        BY <2>2
      <3> QED
        BY <1>2, <1>9, <3>1, RowsAre DEF ProjectStays
    <2> QED
      BY <1>3, <2>1, <2>3, DutyUntouched DEF Undisturbed
  <1> QED
    BY <1>2, <1>3, <1>10, <1>11, <1>14, <1>15, DutyUntouchedLies, CommitKeeps

-----------------------------------------------------------------------------
(* The invariant.                                                           *)

LEMMA InitIsSound ==
  ASSUME Init
  PROVE  IInv
  <1>1. /\ terms = FirstTerms /\ booking = {} /\ approved = {} /\ locked = {} /\ written = 0
        /\ tx = [s \in Request |-> Idle] /\ deployment = {} /\ now = 0 /\ archived = {}
        /\ rotation = [r \in Rotation |-> NoRotation] /\ member = FirstMember /\ effort = {}
    BY DEF Init, EmploymentInit, DutyInit, ProjectInit
  <1>2. EmploymentTypeOK
    BY <1>1, FirstTermsAreTerms, InputsAreValid DEF EmploymentTypeOK
  <1>3. DutyTypeOK /\ Rotations = {}
    <2>1. NoRotation \in [person : Person \cup {None}, appointment : Appointment \cup {None},
                          unit : Unit \cup {None}, from : 0 .. Never, to : 0 .. Never]
      BY SpansAreIntervals DEF NoRotation
    <2> QED
      BY <1>1, <2>1 DEF DutyTypeOK, Rotations
  <1>4. ProjectTypeOK
    <2>1. ASSUME NEW m \in member PROVE \E n \in NewMember : m = [n EXCEPT !.to = m.to] /\ m.to \in 0 .. Never
      <3>1. m \in NewMember /\ m = [m EXCEPT !.to = m.to] /\ m.to \in 0 .. Never
        BY <1>1, MembersAreIntervals
      <3> QED
        BY <3>1
    <2> QED
      BY <1>1, <2>1, AmountsAreNumbers, SpansAreIntervals DEF ProjectTypeOK
  <1>5. \A s \in Request : tx[s] = Idle
    BY <1>1
  <1>6. Rests(Idle) /\ JobOK(Idle) /\ Idle.holds = {}
    BY DEF Rests, BookRests, DutyRests, EffortRests, MemberRests, CorrectionRests, Ops, JobOK, Idle
  <1>7. TypeOK /\ Exclusive /\ \A s \in Request : Rests(tx[s])
    BY <1>1, <1>2, <1>3, <1>4, <1>5, <1>6 DEF TypeOK, Exclusive
  <1>8. BookingsLie /\ DutyLies /\ EffortIsCovered /\ EffortIsKept
    BY <1>1, <1>3, FS_EmptySet DEF BookingsLie, DutyLies, EffortIsCovered, EffortIsKept
  <1> QED
    BY <1>7, <1>8 DEF IInv

LEMMA EmploymentKeeps ==
  ASSUME IInv, NEW s \in Request, Employment(s), UNCHANGED <<duty, now, project>>
  PROVE  IInv'
  BY ReadBookingKeeps, CheckBookingKeeps, WriteBookingKeeps, RollbackKeeps, ReadTermKeeps
  DEF Employment

LEMMA AdministrationKeeps ==
  ASSUME IInv, Administration, UNCHANGED <<duty, now, project>>
  PROVE  IInv'
  BY CreateAppointmentKeeps, MovePeriodKeeps DEF Administration

LEMMA OnCallKeeps ==
  ASSUME IInv, NEW s \in Request, OnCall(s), UNCHANGED <<now, project>>
  PROVE  IInv'
  BY CheckRotationKeeps, CheckWindowKeeps, CheckDeploymentKeeps, WriteRotationKeeps,
     WriteWindowKeeps, WriteDeploymentKeeps, WriteTermKeeps
  DEF OnCall

LEMMA ProjectsKeep ==
  ASSUME IInv, NEW s \in Request, Projects(s), UNCHANGED duty
  PROVE  IInv'
  BY CheckEffortKeeps, CheckReleaseKeeps, CheckMemberKeeps, CheckEndKeeps, CheckCorrectionKeeps,
     WriteEffortKeeps, WriteMemberKeeps, WriteEndKeeps, WriteCorrectionKeeps
  DEF Projects

LEMMA StutterKeeps ==
  ASSUME IInv, UNCHANGED vars
  PROVE  IInv'
  <1>1. RowsStay /\ tx' = tx /\ now \in Nat
    BY RowsAre DEF vars, employmentVars, RowsStay
  <1>2. Exclusive'
    BY <1>1, RowsAre DEF Exclusive
  <1>3. \A q \in Request : \A t : tx'[q] = t => t.holds \subseteq LockKey /\ (Rests(t) /\ JobOK(t))'
    BY <1>1, RowsAre, Untouched, RestsStay DEF IInv
  <1> QED
    BY <1>1, <1>2, <1>3, RowsStayKeeps, RowsKeep

LEMMA NextKeeps ==
  ASSUME IInv, [Next]_vars
  PROVE  IInv'
  <1>1. CASE (Administration \/ \E s \in Request : Employment(s)) /\ UNCHANGED <<duty, now, project>>
    BY <1>1, AdministrationKeeps, EmploymentKeeps
  <1>2. CASE (\E s \in Request : OnCall(s)) /\ UNCHANGED <<now, project>>
    BY <1>2, OnCallKeeps
  <1>3. CASE (Tick \/ \E s \in Request : Projects(s)) /\ UNCHANGED duty
    BY <1>3, TickKeeps, ProjectsKeep
  <1>4. CASE \E p \in Project : Archive(p) /\ UNCHANGED duty
    BY <1>4, ArchiveKeeps
  <1>5. CASE UNCHANGED vars
    BY <1>5, StutterKeeps
  <1> QED
    BY <1>1, <1>2, <1>3, <1>4, <1>5 DEF Next

LEMMA AlwaysSound == Spec => []IInv
  <1>1. Init => IInv
    BY InitIsSound
  <1>2. IInv /\ [Next]_vars => IInv'
    BY NextKeeps
  <1> QED
    BY <1>1, <1>2, PTL DEF Spec

(* Every row of what is recorded of work has the form it should have, and   *)
(* what a transaction remembers of what it read is still there.             *)
THEOREM WorkRecordsTyped == Spec => []TypeOK
  <1>1. IInv => TypeOK
    BY DEF IInv
  <1> QED
    BY <1>1, AlwaysSound, PTL

(* Bookings, rotations and deployments fit the employment of their people,  *)
(* no two bookings of a person overlap, and what is allocated of a booking  *)
(* to projects is no more than the booking, and by members only.            *)
THEOREM WorkAlwaysFits == Spec => []WorkAndEffortFit
  <1>1. ASSUME IInv PROVE WorkAndEffortFit
    <2>1. \A b \in booking : Resolves(b.person, b.appointment, b.span, b.appointment)
      BY <1>1, LiesIs DEF IInv, BookingsLie, LiesWell
    <2>2. \A i : Planned(i) => InUnit(i.person, i.appointment, i, i.unit)
      BY LiesIs DEF Planned, InUnit
    <2>3. \A r \in Rotations : LET rot == rotation[r] IN InUnit(rot.person, rot.appointment, rot, rot.unit)
      BY <1>1, <2>2 DEF IInv, DutyLies
    <2> QED
      BY <1>1, <2>1, <2>3 DEF WorkAndEffortFit, WorkIsEmployed, IInv, BookingsLie, DutyLies
  <1> QED
    BY <1>1, AlwaysSound, PTL

-----------------------------------------------------------------------------
(* What is closed.                                                          *)

LEMMA BookedIs ==
  ASSUME NEW p
  PROVE  /\ BookedIn(p) = {b \in booking : p \in PeriodsFor(b)}
         /\ BookedIn(p)' = {b \in booking' : p \in PeriodsFor(b)'}
  BY DEF BookedIn, PeriodsFor

LEMMA SameBookingsStay ==
  ASSUME NEW p, booking' = booking, \A b \in booking : Same(b.appointment, b.span)
  PROVE  BookedIn(p)' = BookedIn(p)
  <1>1. \A b \in booking : PeriodsFor(b)' = PeriodsFor(b)
    BY PeriodsStay
  <1>2. {b \in booking : p \in PeriodsFor(b)} = {b \in booking' : p \in PeriodsFor(b)'}
    BY <1>1
  <1> QED
    BY <1>2, BookedIs

LEMMA WrittenSpares ==
  ASSUME NEW p \in locked, NEW n, NEW out, NEW holds, BookingWritten(n, out, holds),
         \A b \in out : PeriodsFor(b) \cap locked = {}
  PROVE  BookedIn(p)' = BookedIn(p)
  <1>1. \A b : PeriodsFor(b)' = PeriodsFor(b)
    BY UnchangedTermsAreSame, PeriodsStay DEF BookingWritten
  <1>2. p \notin PeriodsFor(n) /\ \A b \in out : p \notin PeriodsFor(b)
    BY DEF BookingWritten, Fenced
  <1> QED
    BY <1>1, <1>2, BookedIs DEF BookingWritten

(* The bookings of a closing period change by none of the steps.            *)
LEMMA BookedStays ==
  ASSUME IInv, [Next]_vars, NEW p \in locked
  PROVE  BookedIn(p)' = BookedIn(p)
  <1>1. CASE UNCHANGED <<terms, booking>>
    BY <1>1, UnchangedTermsAreSame, SameBookingsStay
  <1>2. ASSUME NEW s \in Request, WriteBooking(s) PROVE BookedIn(p)' = BookedIn(p)
    <2>1. PICK n, holds : n = tx[s].job /\ holds = tx[s].holds
      OBVIOUS
    <2> QED
      BY <1>2, <2>1, WriteBookingIs, WrittenSpares
  <1>3. ASSUME NEW s \in Request, WriteDeployment(s) PROVE BookedIn(p)' = BookedIn(p)
    <2>1. PICK n, holds : n = DutyBooking(tx[s].job) /\ holds = tx[s].holds
      OBVIOUS
    <2> QED
      BY <1>3, <2>1, WriteDeploymentIs, WrittenSpares
  <1>4. ASSUME NEW s \in Request, WriteCorrection(s) PROVE BookedIn(p)' = BookedIn(p)
    <2>1. PICK b, c, i, holds : Moves(s, b, c, i) /\ holds = tx[s].holds
      BY <1>4, WriteCorrectionIs
    <2>2. BookingWritten(c, {b}, holds) /\ PeriodsFor(b) \cap locked = {}
      BY <2>1 DEF Moves
    <2> QED
      BY <2>2, WrittenSpares
  <1>5. ASSUME NEW s \in Request, Employment(s) PROVE BookedIn(p)' = BookedIn(p)
    <2>1. WriteBooking(s) \/ UNCHANGED <<terms, booking>>
      BY <1>5 DEF Employment, ReadBooking, CheckBooking, ReadTerm, Enters, Rollback, records
    <2> QED
      BY <1>1, <1>2, <2>1
  <1>6. ASSUME NEW s \in Request, OnCall(s), UNCHANGED <<now, project>>
        PROVE  BookedIn(p)' = BookedIn(p)
    <2>1. WriteDeployment(s) \/ WriteTermBeside(s) \/ UNCHANGED <<terms, booking>>
      BY <1>6 DEF OnCall, CheckRotation, CheckWindow, CheckDeployment, WriteRotation, WriteWindow,
                  Enters, records
    <2>2. CASE WriteTermBeside(s)
      <3>1. booking' = booking
        BY <2>2 DEF WriteTermBeside, WriteTerm
      <3>2. \A b \in booking : Same(b.appointment, b.span)
        BY <1>6, <2>2, WriteTermKeeps
      <3> QED
        BY <3>1, <3>2, SameBookingsStay
    <2> QED
      BY <1>1, <1>3, <2>1, <2>2
  <1>7. ASSUME NEW s \in Request, Projects(s) PROVE BookedIn(p)' = BookedIn(p)
    <2>1. WriteCorrection(s) \/ UNCHANGED <<terms, booking>>
      BY <1>7 DEF Projects, CheckEffort, CheckRelease, CheckMember, CheckEnd, CheckCorrection,
                  WriteEffort, WriteMember, WriteEnd, Enters, records
    <2> QED
      BY <1>1, <1>4, <2>1
  <1>8. ASSUME Administration, UNCHANGED <<duty, now, project>> PROVE BookedIn(p)' = BookedIn(p)
    <2>1. CASE \E a \in Appointment, new \in NewTerm : CreateAppointment(a, new)
      <3>1. booking' = booking
        BY <2>1 DEF CreateAppointment
      <3>2. \A b \in booking : Same(b.appointment, b.span)
        BY <1>8, <2>1, CreateAppointmentKeeps
      <3> QED
        BY <3>1, <3>2, SameBookingsStay
    <2>2. CASE \E q \in Period : MovePeriod(q)
      BY <1>1, <2>2 DEF MovePeriod
    <2> QED
      BY <1>8, <2>1, <2>2 DEF Administration
  <1>9. ASSUME Tick \/ (\E q \in Project : Archive(q)) \/ UNCHANGED vars
         PROVE  BookedIn(p)' = BookedIn(p)
    BY <1>1, <1>9 DEF Tick, Archive, vars, employmentVars, records
  <1> QED
    BY <1>5, <1>6, <1>7, <1>8, <1>9 DEF Next

(* An archived project gets nothing.                                        *)
LEMMA ArchivedStays ==
  ASSUME IInv, [Next]_vars, NEW p \in archived
  PROVE  /\ {m.appointment : m \in {n \in member' : n.project = p}}
              \subseteq {m.appointment : m \in {n \in member : n.project = p}}
         /\ \A e \in effort' : e.project = p /\ e.amount > 0 => e \in effort
  <1> DEFINE Spared ==
        /\ {m.appointment : m \in {n \in member' : n.project = p}}
             \subseteq {m.appointment : m \in {n \in member : n.project = p}}
        /\ \A e \in effort' : e.project = p /\ e.amount > 0 => e \in effort
  <1>1. CASE UNCHANGED <<member, effort>>
    BY <1>1
  <1>2. ASSUME NEW s \in Request, WriteEffort(s) PROVE Spared
    <2>1. PICK job : job = tx[s].job
      OBVIOUS
    <2>2. /\ job.amount > 0 => job.project \notin archived
          /\ effort' \subseteq effort \cup {job} /\ member' = member
      BY <1>2, <2>1 DEF WriteEffort, IInv, Rests, EffortRests
    <2> QED
      BY <2>1, <2>2
  <1>3. ASSUME NEW s \in Request, WriteMember(s) PROVE Spared
    <2>1. /\ tx[s].job.project \notin archived /\ member' = member \cup {tx[s].job} /\ effort' = effort
      BY <1>3 DEF WriteMember, IInv, Rests, MemberRests
    <2> QED
      BY <2>1
  <1>4. ASSUME NEW s \in Request, WriteEnd(s) PROVE Spared
    <2>1. PICK m, at, left : Leaves(s, m, at, left)
      BY <1>4, WriteEndIs
    <2>2. /\ m \in member /\ member' = (member \ {m}) \cup {left} /\ effort' = effort
          /\ left.project = m.project /\ left.appointment = m.appointment
      BY <2>1 DEF Leaves
    <2> QED
      BY <2>2
  <1>5. ASSUME NEW s \in Request, WriteCorrection(s) PROVE Spared
    <2>1. PICK b, c, i : Moves(s, b, c, i)
      BY <1>5, WriteCorrectionIs
    <2>2. /\ \A e \in effort : e.booking = b => e.amount = 0
          /\ effort' = {IF e.booking = b THEN [e EXCEPT !.booking = c] ELSE e : e \in effort}
          /\ effort \subseteq [booking : Booking, project : Project, amount : 0 .. Never]
          /\ member' = member
      BY <2>1, RowsAre DEF Moves
    <2>3. \A e \in effort : e.booking = b => [e EXCEPT !.booking = c].amount = 0
      BY <2>2
    <2>4. \A e \in effort' : e.amount > 0 => e \in effort
      <3>1. ASSUME NEW e \in effort', e.amount > 0 PROVE e \in effort
        <4>1. PICK f \in effort : e = IF f.booking = b THEN [f EXCEPT !.booking = c] ELSE f
          BY <2>2
        <4> QED
          BY <2>3, <3>1, <4>1
      <3> QED
        BY <3>1
    <2> QED
      BY <2>2, <2>4
  <1>6. ASSUME NEW s \in Request, Projects(s) PROVE Spared
    <2>1. \/ WriteEffort(s) \/ WriteMember(s) \/ WriteEnd(s) \/ WriteCorrection(s)
          \/ UNCHANGED <<member, effort>>
      BY <1>6 DEF Projects, CheckEffort, CheckRelease, CheckMember, CheckEnd, CheckCorrection, project
    <2> QED
      BY <1>1, <1>2, <1>3, <1>4, <1>5, <2>1
  <1>7. CASE UNCHANGED project \/ Tick \/ (\E q \in Project : Archive(q)) \/ UNCHANGED vars
    BY <1>1, <1>7 DEF Tick, Archive, vars, project
  <1> QED
    BY <1>6, <1>7 DEF Next

(* No booking comes to or goes from a locked period, and an archived        *)
(* project gets no member and no effort beyond what it has.                 *)
THEOREM ClosedTakesNothingMore == Spec => ClosedTakesNothing
  <1>1. ASSUME IInv, [Next]_vars
        PROVE  [/\ \A p \in locked : BookedIn(p)' = BookedIn(p)
                /\ \A p \in archived :
                     /\ {m.appointment : m \in {n \in member' : n.project = p}}
                          \subseteq {m.appointment : m \in {n \in member : n.project = p}}
                     /\ \A e \in effort' : e.project = p /\ e.amount > 0 => e \in effort]_vars
    BY <1>1, BookedStays, ArchivedStays
  <1> QED
    BY <1>1, AlwaysSound, PTL DEF Spec, ClosedTakesNothing
=============================================================================
