------------------------ MODULE ClosingPeriodProofs ------------------------
(***************************************************************************)
(* Proofs about the monthly closing, for any periods, people, units and    *)
(* formats, and any number of transactions at once: the locks exclude each *)
(* other, what a transaction has read under them stays true until it       *)
(* commits, and so the properties of ClosingPeriod follow.                 *)
(***************************************************************************)
EXTENDS ClosingPeriod, TLAPS

PeriodOps == {"PREPARE", "REVIEW", "CUTOFF", "LEAD", "APPROVE", "EXPORT", "REOPEN",
              "POST_CLOSE", "CORRECT"}

WriteOps == {"BOOK", "HIRE"}

(* No advisory lock has two holders.                                       *)
Exclusive ==
  \A s, t \in Process : s # t => tx[s].holds \cap tx[t].holds = {}

(* An empty slot is empty; a transaction is about one person or period.    *)
Shape(s) ==
  /\ tx[s].op = "NONE" => tx[s] = Idle
  /\ tx[s].op \in WriteOps \cup {"CORRECT"} => \E x \in Person : tx[s].person = {x}
  /\ tx[s].op \in PeriodOps => \E p \in Period : tx[s].period = {p}
  /\ tx[s].stage = "barrier" => tx[s].op \in WriteOps

(* A writer behind the barrier holds every covering period, all OPEN.      *)
WriterKnows(s, x) ==
  /\ Covering(x) \subseteq tx[s].holds
  /\ \A p \in Covering(x) : ~ Locked(p)
  /\ tx[s].stage = "ready" =>
       /\ x \in tx[s].holds
       /\ tx[s].op = "HIRE" => Population \in tx[s].holds
       /\ booked[x] + tx[s].minutes <= MaxMinutes

(* A preparation holds the people of its plan: their bookings stay.        *)
PreparationKnows(s) ==
  /\ Population \in tx[s].holds
  /\ tx[s].stage = "ready" =>
       \A x \in Planned(s) : x \in tx[s].holds /\ tx[s].plan[x] = booked[x]

(* What is known of an account: that it is the bookings rounded once, or   *)
(* that it is as far from them as its corrections can have brought it.     *)
Exactly(p, x) == account[x] = Hundredths(booked[x]) \/ CorrectedElsewhere(p, x)

Drift(x) == 600 * account[x] - 1000 * booked[x]

Nearly(p, x) ==
  \/ /\ added[x] = 0 => account[x] = Hundredths(booked[x])
     /\ Drift(x) <= 300 + 303 * added[x] /\ - Drift(x) <= 300 + 303 * added[x]
  \/ CorrectedElsewhere(p, x)

Plans(s, p, x) ==
  tx[s].plan[x] # -1 /\ (tx[s].plan[x] = booked[x] \/ CorrectedElsewhere(p, x))

Shows(s, p, x) == tx[s].rows[x] = account[x] \/ CorrectedElsewhere(p, x)

ApprovalKnows(s, p) ==
  /\ p \in tx[s].holds
  /\ status[p] = "REVIEW"
  /\ Scope[p] # Everyone => leadApproved[p]
  /\ tx[s].stage \in {"planned", "ready"} => Population \in tx[s].holds
  /\ tx[s].stage = "planned" => \A x \in Covered(p) : Plans(s, p, x)
  /\ tx[s].stage = "ready" =>
       \A x \in Covered(p) : account[x] # NoAccount /\ Exactly(p, x)

ExportKnows(s, p) ==
  /\ p \in tx[s].holds
  /\ tx[s].was = status[p]
  /\ tx[s].stage # "locked" => Population \in tx[s].holds
  /\ tx[s].stage = "ready" =>
       /\ status[p] \in {"CLOSED", "EXPORTED"}
       /\ \A x \in Covered(p) : Shows(s, p, x)
       /\ \A x \in Person \ Covered(p) : tx[s].rows[x] = NoAccount

CorrectionKnows(s, p, x) ==
  /\ {p, x} \subseteq tx[s].holds
  /\ status[p] \in {"REVIEW", "EXPORTED"}
  /\ "APPROVED" \in workflow[p]
  /\ x \in Covered(p)
  /\ account[x] # NoAccount
  /\ booked[x] + tx[s].minutes <= MaxMinutes
  /\ tx[s].minutes \in Minutes

(* What the transaction of s knows under its locks.                        *)
Sound(s) ==
  /\ Shape(s)
  /\ tx[s].op \in WriteOps /\ tx[s].stage # "begin" =>
       \A x \in tx[s].person : WriterKnows(s, x)
  /\ tx[s].op = "PREPARE" => PreparationKnows(s)
  /\ tx[s].op \in DOMAIN ActionOf => \A p \in tx[s].period :
       p \in tx[s].holds /\ status[p] \in Transition[ActionOf[tx[s].op]].from
  /\ tx[s].op = "CUTOFF" => \A p \in tx[s].period :
       p \in tx[s].holds /\ (tx[s].stage = "ready" => tx[s].was = status[p])
  /\ tx[s].op = "LEAD" => \A p \in tx[s].period :
       p \in tx[s].holds /\ status[p] = "REVIEW" /\ Scope[p] # Everyone
  /\ tx[s].op = "APPROVE" /\ tx[s].stage \notin {"preview", "previewed"} =>
       \A p \in tx[s].period : ApprovalKnows(s, p)
  /\ tx[s].op = "EXPORT" => \A p \in tx[s].period : ExportKnows(s, p)
  /\ tx[s].op = "CORRECT" => \A p \in tx[s].period, x \in tx[s].person :
       CorrectionKnows(s, p, x)

(* The signatures that go with a status.                                   *)
Signed(p) ==
  /\ status[p] = "OPEN" => ~ leadApproved[p] /\ ~ hrApproved[p]
  /\ status[p] \in {"CLOSED", "EXPORTED"} => hrApproved[p]

(* A CLOSED period is complete to the hundredth.  In an EXPORTED one each  *)
(* correction moves an account at most 303 six-hundredths of a hundredth   *)
(* further away from the bookings.                                         *)
Closed(p) ==
  /\ status[p] \in {"CLOSED", "EXPORTED"} => \A x \in Covered(p) : account[x] # NoAccount
  /\ status[p] = "CLOSED" => \A x \in Covered(p) : Exactly(p, x)
  /\ status[p] = "EXPORTED" => \A x \in Covered(p) : Nearly(p, x)

IInv ==
  /\ TypeOK
  /\ \A x \in Person : account[x] \in Nat \cup {NoAccount}
  /\ Exclusive
  /\ \A s \in Process : Sound(s)
  /\ \A p \in Period : Signed(p) /\ Closed(p)

-----------------------------------------------------------------------------
(* What each way to write a transaction makes of its fields.               *)

KeepsInput(s) ==
  /\ tx'[s].op = tx[s].op /\ tx'[s].period = tx[s].period
  /\ tx'[s].person = tx[s].person /\ tx'[s].minutes = tx[s].minutes

OthersWait(s) == \A t \in Process \ {s} : tx'[t] = tx[t]

LEMMA TakePoints ==
  ASSUME TypeOK, NEW s \in Process, NEW keys \in SUBSET LockKey, NEW stage \in Stage,
         Take(s, keys, stage)
  PROVE  /\ tx' \in [Process -> Transaction]
         /\ OthersWait(s) /\ KeepsInput(s) /\ Free(keys)
         /\ tx'[s].holds = tx[s].holds \cup keys /\ tx'[s].stage = stage
         /\ tx'[s].was = tx[s].was /\ tx'[s].plan = tx[s].plan /\ tx'[s].rows = tx[s].rows
  <1>1. tx \in [Process -> Transaction]
    BY DEF TypeOK
  <1> DEFINE held == tx[s].holds \cup keys
             r == [tx[s] EXCEPT !.holds = held, !.stage = stage]
  <1>2. tx' = [tx EXCEPT ![s] = r]
    BY <1>1 DEF Take, Transaction
  <1>3. held \in SUBSET LockKey /\ tx[s] \in Transaction
    BY <1>1 DEF Transaction
  <1> HIDE DEF held
  <1>4. /\ r \in Transaction /\ r.op = tx[s].op /\ r.period = tx[s].period
        /\ r.person = tx[s].person /\ r.minutes = tx[s].minutes
        /\ r.holds = held /\ r.stage = stage
        /\ r.was = tx[s].was /\ r.plan = tx[s].plan /\ r.rows = tx[s].rows
    BY <1>3 DEF Transaction
  <1> HIDE DEF r
  <1>5. OthersWait(s) /\ tx'[s] = r /\ tx' \in [Process -> Transaction]
    BY <1>1, <1>2, <1>4 DEF OthersWait
  <1> QED
    BY <1>4, <1>5 DEF KeepsInput, Take, held

LEMMA TransitionsAre ==
  /\ Transition[ActionOf["REVIEW"]].from = {"OPEN"}
  /\ Transition[ActionOf["REOPEN"]].from = {"REVIEW", "CLOSED"}
  /\ Transition[ActionOf["POST_CLOSE"]].from = {"EXPORTED"}
  /\ Transition.ADVANCE_TO_REVIEW.to = "REVIEW" /\ Transition.REOPEN.to = "OPEN"
  /\ Transition.APPROVE.from = {"REVIEW"} /\ Transition.APPROVE.to = "CLOSED"
  /\ Transition.EXPORT.from = {"CLOSED"} /\ Transition.EXPORT.to = "EXPORTED"
  /\ Transition.POST_CLOSE_CORRECTION.to = "REVIEW"
  /\ DOMAIN ActionOf = {"REVIEW", "REOPEN", "POST_CLOSE"}
  BY DEF Transition, ActionOf

LEMMA ReadingPoints ==
  ASSUME TypeOK, NEW s \in Process, NEW keys \in SUBSET LockKey, NEW stage \in Stage,
         NEW plan \in Plan, TakeReading(s, keys, stage, plan)
  PROVE  /\ tx' \in [Process -> Transaction]
         /\ OthersWait(s) /\ KeepsInput(s) /\ Free(keys)
         /\ tx'[s].holds = tx[s].holds \cup keys /\ tx'[s].stage = stage
         /\ tx'[s].was = tx[s].was /\ tx'[s].plan = plan /\ tx'[s].rows = tx[s].rows
  <1>1. tx \in [Process -> Transaction]
    BY DEF TypeOK
  <1> DEFINE held == tx[s].holds \cup keys
             r == [tx[s] EXCEPT !.holds = held, !.stage = stage, !.plan = plan]
  <1>2. tx' = [tx EXCEPT ![s] = r]
    BY <1>1 DEF TakeReading, Transaction
  <1>3. held \in SUBSET LockKey /\ tx[s] \in Transaction
    BY <1>1 DEF Transaction
  <1> HIDE DEF held
  <1>4. /\ r \in Transaction /\ r.op = tx[s].op /\ r.period = tx[s].period
        /\ r.person = tx[s].person /\ r.minutes = tx[s].minutes
        /\ r.holds = held /\ r.stage = stage
        /\ r.was = tx[s].was /\ r.plan = plan /\ r.rows = tx[s].rows
    BY <1>3 DEF Transaction
  <1> HIDE DEF r
  <1>5. OthersWait(s) /\ tx'[s] = r /\ tx' \in [Process -> Transaction]
    BY <1>1, <1>2, <1>4 DEF OthersWait
  <1> QED
    BY <1>4, <1>5 DEF KeepsInput, TakeReading, held

LEMMA StartsPoints ==
  ASSUME TypeOK, NEW s \in Process, NEW op \in Op, NEW p \in Period,
         NEW keys \in SUBSET LockKey, NEW stage \in Stage, Starts(s, op, p, keys, stage)
  PROVE  /\ tx' \in [Process -> Transaction] /\ OthersWait(s) /\ Free(keys)
         /\ tx'[s].op = op /\ tx'[s].period = {p} /\ tx'[s].person = tx[s].person
         /\ tx'[s].holds = keys /\ tx'[s].stage = stage /\ tx'[s].was = status[p]
  <1>1. tx \in [Process -> Transaction] /\ status[p] \in Status
    BY DEF TypeOK
  <1> DEFINE was == status[p]
             r == [tx[s] EXCEPT !.op = op, !.period = {p}, !.stage = stage,
                                !.holds = keys, !.was = was]
  <1>2. tx' = [tx EXCEPT ![s] = r]
    BY <1>1 DEF Starts, Transaction
  <1>3. was \in Status /\ tx[s] \in Transaction /\ {p} \in SUBSET Period
    BY <1>1
  <1> HIDE DEF was
  <1>4. /\ r \in Transaction /\ r.op = op /\ r.period = {p}
        /\ r.person = tx[s].person
        /\ r.holds = keys /\ r.stage = stage /\ r.was = was
    BY <1>3 DEF Transaction
  <1> HIDE DEF r
  <1>5. OthersWait(s) /\ tx'[s] = r /\ tx' \in [Process -> Transaction]
    BY <1>1, <1>2, <1>4 DEF OthersWait
  <1> QED
    BY <1>4, <1>5 DEF Starts, was

LEMMA EndsPoints ==
  ASSUME TypeOK, NEW s \in Process, Ends(s)
  PROVE  tx' \in [Process -> Transaction] /\ OthersWait(s) /\ tx'[s] = Idle
  <1>1. Idle \in Transaction
    BY SetsAreSmall DEF Idle, Transaction, Op, Stage, Status, Plan, NoPlan, Rows, NoRows, NoAccount
  <1> QED
    BY <1>1 DEF TypeOK, Ends, OthersWait

(* The steps that write a transaction in a way of their own.               *)
(* A request has come in for person x.                                     *)
Asked(s, op, x) ==
  /\ tx' \in [Process -> Transaction] /\ OthersWait(s)
  /\ tx'[s].op = op /\ tx'[s].person = {x}
  /\ tx'[s].holds = tx[s].holds /\ tx'[s].stage = tx[s].stage

LEMMA BookingPoints ==
  ASSUME TypeOK, NEW s \in Process, NEW x \in Person, NEW m \in Minutes, AskBooking(s, x, m)
  PROVE  Asked(s, "BOOK", x)
  <1>1. tx \in [Process -> Transaction] /\ tx[s] \in Transaction
    BY DEF TypeOK
  <1> DEFINE r == [tx[s] EXCEPT !.op = "BOOK", !.person = {x}, !.minutes = m]
  <1>2. tx' = [tx EXCEPT ![s] = r]
    BY <1>1 DEF AskBooking, Transaction
  <1>3. m \in Nat /\ "BOOK" \in Op
    BY SetsAreSmall DEF Op
  <1>4. /\ r \in Transaction /\ r.op = "BOOK" /\ r.person = {x}
        /\ r.holds = tx[s].holds /\ r.stage = tx[s].stage
    BY <1>1, <1>3 DEF Transaction
  <1> HIDE DEF r
  <1> QED
    BY <1>1, <1>2, <1>4 DEF OthersWait, Asked

LEMMA HirePoints ==
  ASSUME TypeOK, NEW s \in Process, NEW x \in Person, AskHire(s, x)
  PROVE  Asked(s, "HIRE", x)
  <1>1. tx \in [Process -> Transaction] /\ tx[s] \in Transaction
    BY DEF TypeOK
  <1> DEFINE r == [tx[s] EXCEPT !.op = "HIRE", !.person = {x}]
  <1>2. tx' = [tx EXCEPT ![s] = r]
    BY <1>1 DEF AskHire, Transaction
  <1>3. "HIRE" \in Op
    BY DEF Op
  <1>4. /\ r \in Transaction /\ r.op = "HIRE" /\ r.person = {x}
        /\ r.holds = tx[s].holds /\ r.stage = tx[s].stage
    BY <1>1, <1>3 DEF Transaction
  <1> HIDE DEF r
  <1> QED
    BY <1>1, <1>2, <1>4 DEF OthersWait, Asked

LEMMA PopulationPoints ==
  ASSUME TypeOK, NEW s \in Process, NEW p \in Period, tx[s].period = {p}, ScanPopulation(s)
  PROVE  /\ tx' \in [Process -> Transaction]
         /\ OthersWait(s) /\ KeepsInput(s) /\ Free({Population})
         /\ tx'[s].holds = tx[s].holds \cup {Population} /\ tx'[s].stage = "ready"
         /\ tx'[s].was = status[p]
  <1>1. tx \in [Process -> Transaction] /\ tx[s] \in Transaction /\ status[p] \in Status
    BY DEF TypeOK
  <1> DEFINE held == tx[s].holds \cup {Population}
             was == status[p]
             r == [tx[s] EXCEPT !.holds = held, !.stage = "ready", !.was = was]
  <1>2. tx' = [tx EXCEPT ![s] = r]
    BY <1>1 DEF ScanPopulation, Transaction
  <1>3. held \in SUBSET LockKey /\ was \in Status /\ "ready" \in Stage
    BY <1>1 DEF Transaction, LockKey, Stage
  <1> HIDE DEF held, was
  <1>4. /\ r \in Transaction /\ r.op = tx[s].op /\ r.period = tx[s].period
        /\ r.person = tx[s].person /\ r.minutes = tx[s].minutes
        /\ r.holds = held /\ r.stage = "ready" /\ r.was = was
    BY <1>1, <1>3 DEF Transaction
  <1> HIDE DEF r
  <1>5. OthersWait(s) /\ tx'[s] = r /\ tx' \in [Process -> Transaction]
    BY <1>1, <1>2, <1>4 DEF OthersWait
  <1> QED
    BY <1>4, <1>5 DEF KeepsInput, ScanPopulation, held, was

LEMMA PreviewedPoints ==
  ASSUME TypeOK, NEW s \in Process, ApprovePreviewed(s)
  PROVE  /\ tx' \in [Process -> Transaction] /\ OthersWait(s) /\ KeepsInput(s)
         /\ tx'[s].holds = {} /\ tx'[s].stage = "previewed"
  <1>1. tx \in [Process -> Transaction] /\ tx[s] \in Transaction /\ "previewed" \in Stage /\ "OPEN" \in Status
    BY DEF TypeOK, Stage, Status
  <1> DEFINE r == [tx[s] EXCEPT !.holds = {}, !.stage = "previewed", !.was = "OPEN"]
  <1>2. tx' = [tx EXCEPT ![s] = r]
    BY <1>1 DEF ApprovePreviewed, Transaction
  <1>3. /\ r \in Transaction /\ r.op = tx[s].op /\ r.period = tx[s].period
        /\ r.person = tx[s].person /\ r.minutes = tx[s].minutes
        /\ r.holds = {} /\ r.stage = "previewed"
    BY <1>1 DEF Transaction
  <1> HIDE DEF r
  <1> QED
    BY <1>1, <1>2, <1>3 DEF OthersWait, KeepsInput

LEMMA CoveragePoints ==
  ASSUME TypeOK, NEW s \in Process, ReadCoverage(s)
  PROVE  /\ tx' \in [Process -> Transaction] /\ OthersWait(s) /\ KeepsInput(s)
         /\ tx'[s].holds = tx[s].holds /\ tx'[s].was = tx[s].was
         /\ tx[s].op = "APPROVE" => tx'[s].stage = "ready"
         /\ tx[s].op = "EXPORT" => tx'[s].stage = "covered"
  <1>1. tx \in [Process -> Transaction] /\ tx[s] \in Transaction
    BY DEF TypeOK
  <1> DEFINE stage == IF tx[s].op = "APPROVE" THEN "ready" ELSE "covered"
             r == [tx[s] EXCEPT !.stage = stage, !.plan = NoPlan]
  <1>2. tx' = [tx EXCEPT ![s] = r]
    BY <1>1 DEF ReadCoverage, Transaction
  <1>3. stage \in Stage /\ NoPlan \in Plan
    BY SetsAreSmall DEF Stage, NoPlan, Plan
  <1>4. /\ tx[s].op = "APPROVE" => stage = "ready"
        /\ tx[s].op = "EXPORT" => stage = "covered"
    OBVIOUS
  <1> HIDE DEF stage
  <1>5. /\ r \in Transaction /\ r.op = tx[s].op /\ r.period = tx[s].period
        /\ r.person = tx[s].person /\ r.minutes = tx[s].minutes
        /\ r.holds = tx[s].holds /\ r.was = tx[s].was /\ r.stage = stage
    BY <1>1, <1>3 DEF Transaction
  <1> HIDE DEF r
  <1> QED
    BY <1>1, <1>2, <1>4, <1>5 DEF OthersWait, KeepsInput

LEMMA ArtifactPoints ==
  ASSUME TypeOK, NEW s \in Process, NEW p \in Period, tx[s].period = {p}, BuildArtifact(s)
  PROVE  /\ tx' \in [Process -> Transaction] /\ OthersWait(s) /\ KeepsInput(s)
         /\ tx'[s].holds = tx[s].holds /\ tx'[s].was = tx[s].was /\ tx'[s].stage = "ready"
         /\ tx'[s].rows = [x \in Person |-> IF x \in Covered(p) THEN account[x] ELSE NoAccount]
  <1>1. tx \in [Process -> Transaction] /\ tx[s] \in Transaction /\ "ready" \in Stage
    BY DEF TypeOK, Stage
  <1> DEFINE rows == [x \in Person |-> IF x \in Covered(p) THEN account[x] ELSE NoAccount]
             r == [tx[s] EXCEPT !.stage = "ready", !.rows = rows]
  <1>2. tx' = [tx EXCEPT ![s] = r]
    BY <1>1 DEF BuildArtifact, Transaction
  <1>3. rows \in Rows
    BY DEF TypeOK, Rows, NoAccount
  <1> HIDE DEF rows
  <1>4. /\ r \in Transaction /\ r.op = tx[s].op /\ r.period = tx[s].period
        /\ r.person = tx[s].person /\ r.minutes = tx[s].minutes
        /\ r.holds = tx[s].holds /\ r.was = tx[s].was /\ r.stage = "ready" /\ r.rows = rows
    BY <1>1, <1>3 DEF Transaction
  <1> HIDE DEF r
  <1> QED
    BY <1>1, <1>2, <1>4 DEF OthersWait, KeepsInput, rows

LEMMA CorrectionPoints ==
  ASSUME TypeOK, NEW s \in Process, NEW p \in Period, NEW x \in Person, NEW m \in Minutes,
         CorrectionLock(s, p, x, m)
  PROVE  /\ tx' \in [Process -> Transaction] /\ OthersWait(s) /\ Free({p, x})
         /\ tx'[s].op = "CORRECT" /\ tx'[s].period = {p} /\ tx'[s].person = {x}
         /\ tx'[s].minutes = m /\ tx'[s].stage = "ready" /\ tx'[s].holds = {p, x}
  <1>1. tx \in [Process -> Transaction] /\ tx[s] \in Transaction /\ status[p] \in Status
    BY DEF TypeOK
  <1> DEFINE was == status[p]
             r == [tx[s] EXCEPT !.op = "CORRECT", !.period = {p}, !.person = {x}, !.minutes = m,
                                !.stage = "ready", !.holds = {p, x}, !.was = was]
  <1>2. tx' = [tx EXCEPT ![s] = r]
    BY <1>1 DEF CorrectionLock, Transaction
  <1>3. /\ m \in Nat /\ "CORRECT" \in Op /\ "ready" \in Stage /\ was \in Status
        /\ {p, x} \in SUBSET LockKey /\ {p} \in SUBSET Period /\ {x} \in SUBSET Person
    BY <1>1, SetsAreSmall DEF Op, Stage, LockKey
  <1> HIDE DEF was
  <1>4. /\ r \in Transaction /\ r.op = "CORRECT" /\ r.period = {p} /\ r.person = {x}
        /\ r.minutes = m /\ r.stage = "ready" /\ r.holds = {p, x}
    BY <1>1, <1>3 DEF Transaction
  <1> HIDE DEF r
  <1>5. OthersWait(s) /\ tx'[s] = r /\ tx' \in [Process -> Transaction]
    BY <1>1, <1>2, <1>4 DEF OthersWait
  <1> QED
    BY <1>4, <1>5 DEF CorrectionLock

-----------------------------------------------------------------------------
(* What a step that holds the locks in h may do to the shared state.       *)

(* A correction is allowed for x under one of the locks.                   *)
Corrects(h, x) == \E q \in Covering(x) \cap h :
  status[q] \in {"REVIEW", "EXPORTED"} /\ "APPROVED" \in workflow[q]

(* Every period of x is locked by the step, and was found OPEN.            *)
Fences(h, x) == Covering(x) \subseteq h /\ \A p \in Covering(x) : ~ Locked(p)

Touches(h) ==
  /\ \A p \in Period \ h : /\ status'[p] = status[p]
                           /\ leadApproved'[p] = leadApproved[p]
  /\ \A p \in Period : "APPROVED" \in workflow[p] => "APPROVED" \in workflow'[p]
  /\ employed \subseteq employed'
  /\ \A x \in employed' \ employed : Population \in h /\ Fences(h, x)
  /\ \A x \in Person : booked'[x] # booked[x] => x \in h /\ (Fences(h, x) \/ Corrects(h, x))
  /\ \A x \in Person : account'[x] # account[x] =>
       /\ account'[x] # NoAccount
       /\ Corrects(h, x) \/ (Population \in h /\ account'[x] = Hundredths(booked'[x]))

(* What the transaction of t has read stays true while another one, with   *)
(* other locks, takes a step.                                              *)
Undisturbed(h, t) ==
  /\ IInv /\ TypeOK' /\ Touches(h)
  /\ h \cap tx[t].holds = {}
  /\ tx'[t] = tx[t]

LEMMA WriterUndisturbed ==
  ASSUME NEW h, NEW t \in Process, Undisturbed(h, t), NEW x \in Person, WriterKnows(t, x)
  PROVE  WriterKnows(t, x)'
  BY DEF Undisturbed, WriterKnows, Touches, Covering, Locked, InScope

LEMMA PreparationUndisturbed ==
  ASSUME NEW h, NEW t \in Process, Undisturbed(h, t), PreparationKnows(t)
  PROVE  PreparationKnows(t)'
  BY DEF Undisturbed, PreparationKnows, Touches, Planned

LEMMA CorrectedStays ==
  ASSUME NEW h, Touches(h), NEW p \in Period, NEW x \in Person
  PROVE  /\ CorrectedElsewhere(p, x) => CorrectedElsewhere(p, x)'
         /\ p \notin h /\ Corrects(h, x) => CorrectedElsewhere(p, x)
  BY DEF Touches, CorrectedElsewhere, Corrects, Covering, InScope

LEMMA NobodyJoins ==
  ASSUME NEW h, Touches(h), NEW p \in Period \ h, TypeOK'
  PROVE  Covered(p)' = Covered(p)
  BY DEF Touches, Covered, Fences, Covering, InScope, TypeOK

LEMMA ApprovalUndisturbed ==
  ASSUME NEW h, NEW t \in Process, Undisturbed(h, t), NEW p \in Period, ApprovalKnows(t, p)
  PROVE  ApprovalKnows(t, p)'
  <1>1. p \notin h /\ p \in tx[t].holds /\ Touches(h)
    BY DEF Undisturbed, ApprovalKnows
  <1>2. Covered(p)' = Covered(p) /\ Covered(p) \subseteq Person
    BY <1>1, NobodyJoins DEF Undisturbed, Covered, IInv, TypeOK
  <1>3. /\ (p \in tx[t].holds /\ status[p] = "REVIEW")'
        /\ (Scope[p] # Everyone => leadApproved[p])'
        /\ (tx[t].stage \in {"planned", "ready"} => Population \in tx[t].holds)'
    BY <1>1 DEF Undisturbed, ApprovalKnows, Touches
  <1>4. ASSUME tx[t].stage = "planned", NEW x \in Covered(p)
        PROVE  Plans(t, p, x)'
    <2>1. Plans(t, p, x) /\ x \in Person /\ p \in Covering(x)
      BY <1>2, <1>4 DEF ApprovalKnows, Covered, Covering
    <2>2. CASE booked'[x] = booked[x]
      BY <1>1, <2>1, <2>2, CorrectedStays DEF Undisturbed, Plans
    <2>3. CASE booked'[x] # booked[x]
      <3>1. Corrects(h, x)
        BY <1>1, <2>1, <2>3 DEF Touches, Fences
      <3> QED
        BY <1>1, <2>1, <3>1, CorrectedStays DEF Undisturbed, Plans
    <2> QED
      BY <2>2, <2>3
  <1>5. ASSUME tx[t].stage = "ready", NEW x \in Covered(p)
        PROVE  (account[x] # NoAccount /\ Exactly(p, x))'
    <2>1. /\ account[x] # NoAccount /\ Exactly(p, x) /\ x \in Person
          /\ p \in Covering(x) /\ Population \notin h
      BY <1>2, <1>5 DEF Undisturbed, ApprovalKnows, Covered, Covering
    <2>2. CASE booked'[x] = booked[x] /\ account'[x] = account[x]
      BY <1>1, <2>1, <2>2, CorrectedStays DEF Exactly
    <2>3. CASE booked'[x] # booked[x] \/ account'[x] # account[x]
      <3>1. Corrects(h, x) /\ account'[x] # NoAccount
        BY <1>1, <2>1, <2>3 DEF Touches, Fences
      <3> QED
        BY <1>1, <2>1, <3>1, CorrectedStays DEF Exactly
    <2> QED
      BY <2>2, <2>3
  <1> QED
    BY <1>2, <1>3, <1>4, <1>5 DEF ApprovalKnows, Undisturbed

LEMMA ExportUndisturbed ==
  ASSUME NEW h, NEW t \in Process, Undisturbed(h, t), NEW p \in Period, ExportKnows(t, p)
  PROVE  ExportKnows(t, p)'
  <1>1. p \notin h /\ p \in tx[t].holds /\ Touches(h)
    BY DEF Undisturbed, ExportKnows
  <1>2. Covered(p)' = Covered(p) /\ Covered(p) \subseteq Person
    BY <1>1, NobodyJoins DEF Undisturbed, Covered, IInv, TypeOK
  <1>3. ASSUME tx[t].stage = "ready", NEW x \in Covered(p)
        PROVE  Shows(t, p, x)'
    <2>1. Shows(t, p, x) /\ x \in Person /\ Population \notin h
      BY <1>2, <1>3 DEF Undisturbed, ExportKnows
    <2>2. CASE account'[x] = account[x]
      BY <1>1, <2>1, <2>2, CorrectedStays DEF Shows, Undisturbed
    <2>3. CASE account'[x] # account[x]
      <3>1. Corrects(h, x)
        BY <1>1, <2>1, <2>3 DEF Touches
      <3> QED
        BY <1>1, <2>1, <3>1, CorrectedStays DEF Shows
    <2> QED
      BY <2>2, <2>3
  <1>4. status'[p] = status[p] /\ tx'[t] = tx[t]
    BY <1>1 DEF Undisturbed, Touches
  <1> QED
    BY <1>1, <1>2, <1>3, <1>4 DEF ExportKnows

LEMMA CorrectionUndisturbed ==
  ASSUME NEW h, NEW t \in Process, Undisturbed(h, t), NEW p \in Period, NEW x \in Person,
         CorrectionKnows(t, p, x)
  PROVE  CorrectionKnows(t, p, x)'
  BY DEF Undisturbed, CorrectionKnows, Touches, Covered

LEMMA OthersUndisturbed ==
  ASSUME NEW h, NEW t \in Process, Undisturbed(h, t)
  PROVE  Sound(t)'
  <1>1. Sound(t) /\ tx'[t] = tx[t]
    BY DEF Undisturbed, IInv
  <1>2. tx[t].person \subseteq Person /\ tx[t].period \subseteq Period
    BY DEF Undisturbed, IInv, TypeOK, Transaction
  <1>3. Shape(t)'
    BY <1>1 DEF Sound, Shape
  <1>4. \A p \in Period : p \in tx[t].holds => status'[p] = status[p]
    BY DEF Undisturbed, Touches
  <1>5. (tx[t].op \in WriteOps /\ tx[t].stage # "begin" =>
           \A x \in tx[t].person : WriterKnows(t, x))'
    BY <1>1, <1>2, WriterUndisturbed DEF Sound
  <1>6. (tx[t].op = "PREPARE" => PreparationKnows(t))'
    BY <1>1, PreparationUndisturbed DEF Sound
  <1>7. /\ (tx[t].op \in DOMAIN ActionOf => \A p \in tx[t].period :
              p \in tx[t].holds /\ status[p] \in Transition[ActionOf[tx[t].op]].from)'
        /\ (tx[t].op = "CUTOFF" => \A p \in tx[t].period :
              p \in tx[t].holds /\ (tx[t].stage = "ready" => tx[t].was = status[p]))'
        /\ (tx[t].op = "LEAD" => \A p \in tx[t].period :
              p \in tx[t].holds /\ status[p] = "REVIEW" /\ Scope[p] # Everyone)'
    BY <1>1, <1>2, <1>4 DEF Sound
  <1>8. (tx[t].op = "APPROVE" /\ tx[t].stage \notin {"preview", "previewed"} =>
           \A p \in tx[t].period : ApprovalKnows(t, p))'
    BY <1>1, <1>2, ApprovalUndisturbed DEF Sound
  <1>9. (tx[t].op = "EXPORT" => \A p \in tx[t].period : ExportKnows(t, p))'
    BY <1>1, <1>2, ExportUndisturbed DEF Sound
  <1>10. (tx[t].op = "CORRECT" => \A p \in tx[t].period, x \in tx[t].person :
            CorrectionKnows(t, p, x))'
    BY <1>1, <1>2, CorrectionUndisturbed DEF Sound
  <1> QED
    BY <1>3, <1>5, <1>6, <1>7, <1>8, <1>9, <1>10 DEF Sound

-----------------------------------------------------------------------------
(* What a step of s must do to keep the invariant.                         *)
Behaves(s) ==
  /\ TypeOK'
  /\ \A x \in Person : account'[x] \in Nat \cup {NoAccount}
  /\ OthersWait(s)
  /\ \A t \in Process \ {s} : tx'[s].holds \cap tx[t].holds = {}
  /\ Touches(tx[s].holds)
  /\ Sound(s)'
  /\ \A p \in Period : Signed(p)' /\ Closed(p)'

LEMMA BehavingKeeps ==
  ASSUME IInv, NEW s \in Process, Behaves(s)
  PROVE  IInv'
  <1>1. ASSUME NEW t \in Process
        PROVE  Sound(t)'
    <2>1. CASE t = s
      BY <2>1 DEF Behaves
    <2>2. CASE t # s
      <3>1. Undisturbed(tx[s].holds, t)
        BY <2>2 DEF Behaves, Undisturbed, OthersWait, IInv, Exclusive
      <3> QED
        BY <3>1, OthersUndisturbed
    <2> QED
      BY <2>1, <2>2
  <1>2. Exclusive'
    BY DEF Behaves, Exclusive, OthersWait, IInv
  <1> QED
    BY <1>1, <1>2 DEF IInv, Behaves

(* A step that writes nothing shared.                                      *)
LEMMA StillTouches ==
  ASSUME UNCHANGED <<periods, books>>, NEW h
  PROVE  Touches(h)
  BY DEF Touches, periods, books

LEMMA ReadingBehaves ==
  ASSUME IInv, NEW s \in Process, UNCHANGED <<periods, books, exportRuns, queue>>,
         tx' \in [Process -> Transaction], OthersWait(s), NEW keys, Free(keys),
         tx'[s].holds \subseteq tx[s].holds \cup keys, Sound(s)'
  PROVE  Behaves(s)
  <1>1. TypeOK' /\ \A x \in Person : account'[x] \in Nat \cup {NoAccount}
    BY DEF IInv, TypeOK, periods, books
  <1>2. \A t \in Process \ {s} : tx'[s].holds \cap tx[t].holds = {}
    BY DEF IInv, Exclusive, Free
  <1>3. Touches(tx[s].holds)
    BY StillTouches
  <1>4. \A p \in Period : Signed(p)' /\ Closed(p)'
    BY DEF IInv, Signed, Closed, Covered, Exactly, Nearly, Drift, CorrectedElsewhere,
           Covering, InScope, periods, books
  <1> QED
    BY <1>1, <1>2, <1>3, <1>4 DEF Behaves

LEMMA IdleIsSound ==
  ASSUME NEW s \in Process, tx'[s] = Idle
  PROVE  Sound(s)' /\ tx'[s].holds = {}
  <1>1. Idle.op = "NONE" /\ Idle.stage = "begin" /\ Idle.holds = {}
    BY DEF Idle
  <1> QED
    BY <1>1, TransitionsAre DEF Sound, Shape, WriteOps, PeriodOps

LEMMA FreeSlotIsIdle ==
  ASSUME IInv, NEW s \in Process, tx[s].op = "NONE"
  PROVE  tx[s].stage = "begin" /\ tx[s].holds = {}
  BY DEF IInv, Sound, Shape, Idle

-----------------------------------------------------------------------------
(* Requests that come in.                                                  *)

LEMMA AskingBehaves ==
  ASSUME IInv, NEW s \in Process, tx[s].op = "NONE", NEW x \in Person,
         \/ \E m \in Minutes : AskBooking(s, x, m)
         \/ AskHire(s, x)
  PROVE  Behaves(s)
  <1>1. TypeOK
    BY DEF IInv
  <1>2. PICK op \in WriteOps : Asked(s, op, x)
    BY <1>1, BookingPoints, HirePoints DEF WriteOps
  <1>3. tx'[s].stage = "begin" /\ tx'[s].holds = {}
    BY <1>2, FreeSlotIsIdle DEF Asked
  <1>4. Sound(s)'
    BY <1>2, <1>3, TransitionsAre DEF Asked, Sound, Shape, WriteOps, PeriodOps
  <1>5. UNCHANGED <<periods, books, exportRuns, queue>>
    BY DEF AskBooking, AskHire
  <1>6. Free({}) /\ tx'[s].holds \subseteq tx[s].holds \cup {}
    BY <1>3 DEF Free
  <1> QED
    BY <1>2, <1>4, <1>5, <1>6, ReadingBehaves DEF Asked

LEMMA PreparingBehaves ==
  ASSUME IInv, NEW s \in Process, tx[s].op = "NONE", NEW p \in Period, PrepareLock(s, p)
  PROVE  Behaves(s)
  <1> DEFINE keys == {p, Population}
  <1>1. /\ TypeOK /\ "PREPARE" \in Op /\ "locked" \in Stage
        /\ keys \in SUBSET LockKey /\ Starts(s, "PREPARE", p, keys, "locked")
    BY DEF IInv, Op, Stage, LockKey, PrepareLock
  <1>2. /\ tx' \in [Process -> Transaction] /\ OthersWait(s) /\ Free(keys)
        /\ tx'[s].op = "PREPARE" /\ tx'[s].period = {p}
        /\ tx'[s].holds = keys /\ tx'[s].stage = "locked"
    BY <1>1, StartsPoints
  <1>3. Sound(s)'
    BY <1>2, TransitionsAre DEF Sound, Shape, WriteOps, PeriodOps, PreparationKnows
  <1>4. UNCHANGED <<periods, books, exportRuns, queue>> /\ tx'[s].holds \subseteq tx[s].holds \cup keys
    BY <1>2 DEF PrepareLock
  <1> HIDE DEF keys
  <1> QED
    BY <1>2, <1>3, <1>4, ReadingBehaves

LEMMA MovingBehaves ==
  ASSUME IInv, NEW s \in Process, tx[s].op = "NONE", NEW p \in Period,
         NEW op \in DOMAIN ActionOf, MoveLock(s, op, p)
  PROVE  Behaves(s)
  <1>1. TypeOK /\ op \in Op /\ "ready" \in Stage
    BY TransitionsAre DEF IInv, Op, Stage
  <1>2. PICK keys \in SUBSET LockKey : p \in keys /\ Starts(s, op, p, keys, "ready")
    BY DEF LockKey, MoveLock
  <1>3. /\ tx' \in [Process -> Transaction] /\ OthersWait(s) /\ Free(keys)
        /\ tx'[s].op = op /\ tx'[s].period = {p}
        /\ tx'[s].holds = keys /\ tx'[s].stage = "ready"
    BY <1>1, <1>2, StartsPoints
  <1>4. status'[p] \in Transition[ActionOf[op]].from /\ UNCHANGED <<periods, books, exportRuns, queue>>
    BY DEF MoveLock, periods
  <1>5. Sound(s)'
    BY <1>2, <1>3, <1>4, TransitionsAre DEF Sound, Shape, WriteOps, PeriodOps
  <1>6. tx'[s].holds \subseteq tx[s].holds \cup keys
    BY <1>3
  <1> QED
    BY <1>3, <1>4, <1>5, <1>6, ReadingBehaves

LEMMA SigningBehaves ==
  ASSUME IInv, NEW s \in Process, tx[s].op = "NONE", NEW p \in Period, LeadLock(s, p)
  PROVE  Behaves(s)
  <1> DEFINE keys == {p}
  <1>1. /\ TypeOK /\ "LEAD" \in Op /\ "ready" \in Stage
        /\ keys \in SUBSET LockKey /\ Starts(s, "LEAD", p, keys, "ready")
    BY DEF IInv, Op, Stage, LockKey, LeadLock
  <1>0. p \in keys
    OBVIOUS
  <1> HIDE DEF keys
  <1>2. /\ tx' \in [Process -> Transaction] /\ OthersWait(s) /\ Free(keys)
        /\ tx'[s].op = "LEAD" /\ tx'[s].period = {p}
        /\ tx'[s].holds = keys /\ tx'[s].stage = "ready"
    BY <1>1, StartsPoints
  <1>3. /\ status'[p] = "REVIEW" /\ Scope[p] # Everyone
        /\ UNCHANGED <<periods, books, exportRuns, queue>>
    BY DEF LeadLock, periods
  <1>4. Sound(s)'
    BY <1>0, <1>2, <1>3, TransitionsAre DEF Sound, Shape, WriteOps, PeriodOps
  <1>5. tx'[s].holds \subseteq tx[s].holds \cup keys
    BY <1>2
  <1> QED
    BY <1>2, <1>3, <1>4, <1>5, ReadingBehaves

LEMMA PreviewingBehaves ==
  ASSUME IInv, NEW s \in Process, tx[s].op = "NONE", NEW p \in Period, ApprovePreview(s, p)
  PROVE  Behaves(s)
  <1> DEFINE keys == {p, Population}
  <1>1. /\ TypeOK /\ "APPROVE" \in Op /\ "preview" \in Stage
        /\ keys \in SUBSET LockKey /\ Starts(s, "APPROVE", p, keys, "preview")
    BY DEF IInv, Op, Stage, LockKey, ApprovePreview
  <1> HIDE DEF keys
  <1>2. /\ tx' \in [Process -> Transaction] /\ OthersWait(s) /\ Free(keys)
        /\ tx'[s].op = "APPROVE" /\ tx'[s].period = {p}
        /\ tx'[s].holds = keys /\ tx'[s].stage = "preview"
    BY <1>1, StartsPoints
  <1>3. Sound(s)'
    BY <1>2, TransitionsAre DEF Sound, Shape, WriteOps, PeriodOps
  <1>4. UNCHANGED <<periods, books, exportRuns, queue>> /\ tx'[s].holds \subseteq tx[s].holds \cup keys
    BY <1>2 DEF ApprovePreview
  <1> QED
    BY <1>2, <1>3, <1>4, ReadingBehaves

LEMMA ExportingBehaves ==
  ASSUME IInv, NEW s \in Process, tx[s].op = "NONE", NEW p \in Period, ExportLock(s, p)
  PROVE  Behaves(s)
  <1>1. TypeOK /\ "EXPORT" \in Op /\ "locked" \in Stage
    BY DEF IInv, Op, Stage
  <1>2. PICK keys \in SUBSET LockKey : p \in keys /\ Starts(s, "EXPORT", p, keys, "locked")
    BY DEF LockKey, ExportLock
  <1>3. /\ tx' \in [Process -> Transaction] /\ OthersWait(s) /\ Free(keys)
        /\ tx'[s].op = "EXPORT" /\ tx'[s].period = {p}
        /\ tx'[s].holds = keys /\ tx'[s].stage = "locked" /\ tx'[s].was = status[p]
    BY <1>1, <1>2, StartsPoints
  <1>4. status' = status /\ UNCHANGED <<periods, books, exportRuns, queue>>
    BY DEF ExportLock, periods
  <1>5. ExportKnows(s, p)'
    BY <1>2, <1>3, <1>4 DEF ExportKnows
  <1>6. Sound(s)'
    BY <1>3, <1>5, TransitionsAre DEF Sound, Shape, WriteOps, PeriodOps
  <1>7. tx'[s].holds \subseteq tx[s].holds \cup keys
    BY <1>3
  <1> QED
    BY <1>3, <1>4, <1>6, <1>7, ReadingBehaves

LEMMA CorrectingBehaves ==
  ASSUME IInv, NEW s \in Process, tx[s].op = "NONE", NEW p \in Period, NEW x \in Person,
         NEW m \in Minutes, CorrectionLock(s, p, x, m)
  PROVE  Behaves(s)
  <1>1. /\ tx' \in [Process -> Transaction] /\ OthersWait(s) /\ Free({p, x})
        /\ tx'[s].op = "CORRECT" /\ tx'[s].period = {p} /\ tx'[s].person = {x}
        /\ tx'[s].minutes = m /\ tx'[s].stage = "ready" /\ tx'[s].holds = {p, x}
    BY CorrectionPoints DEF IInv
  <1>2. UNCHANGED <<periods, books, exportRuns, queue>>
    BY DEF CorrectionLock
  <1>3. CorrectionKnows(s, p, x)'
    BY <1>1, <1>2 DEF CorrectionKnows, CorrectionLock, Covered, InScope, periods, books
  <1>4. Sound(s)'
    BY <1>1, <1>3, TransitionsAre DEF Sound, Shape, WriteOps, PeriodOps
  <1>5. tx'[s].holds \subseteq tx[s].holds \cup {p, x}
    BY <1>1
  <1> QED
    BY <1>1, <1>2, <1>4, <1>5, ReadingBehaves

LEMMA ArrivalBehaves ==
  ASSUME IInv, NEW s \in Process, Arrival(s)
  PROVE  Behaves(s)
  BY AskingBehaves, PreparingBehaves, MovingBehaves, SigningBehaves, PreviewingBehaves,
     ExportingBehaves, CorrectingBehaves DEF Arrival

-----------------------------------------------------------------------------
(* Steps of a transaction that take locks or read.                         *)

LEMMA HundredthsAre ==
  ASSUME NEW m \in Nat
  PROVE  Hundredths(m) \in Nat /\ Hundredths(m) # NoAccount
  BY DEF Hundredths, NoAccount

(* The hundredths of b minutes are half a hundredth away at most.          *)
LEMMA NearestHundredth ==
  ASSUME NEW b \in Nat
  PROVE  600 * Hundredths(b) - 1000 * b <= 300 /\ 1000 * b - 600 * Hundredths(b) <= 300
  BY DEF Hundredths

LEMMA ExactIsNear ==
  ASSUME TypeOK, NEW p \in Period, NEW x \in Person, Exactly(p, x)
  PROVE  Nearly(p, x)
  <1>1. booked[x] \in Nat /\ added[x] \in Nat
    BY DEF TypeOK
  <1>2. Hundredths(booked[x]) \in Nat
    BY <1>1, HundredthsAre
  <1>3. 303 * added[x] \in Nat
    BY <1>1
  <1>4. CASE account[x] = Hundredths(booked[x])
    <2>1. Drift(x) \in Int /\ Drift(x) <= 300 /\ - Drift(x) <= 300
      BY <1>1, <1>2, <1>4, NearestHundredth DEF Drift
    <2> QED
      BY <1>3, <1>4, <2>1 DEF Nearly
  <1> QED
    BY <1>4 DEF Exactly, Nearly

LEMMA BarrierBehaves ==
  ASSUME IInv, NEW s \in Process, Barrier(s)
  PROVE  Behaves(s)
  <1>1. tx[s].op \in WriteOps /\ TypeOK
    BY DEF Barrier, IInv, WriteOps
  <1>2. PICK x \in Person : tx[s].person = {x}
    BY <1>1 DEF IInv, Sound, Shape
  <1>3. /\ Take(s, Covering(x), "barrier") /\ \A p \in Covering(x) : ~ Locked(p)
        /\ UNCHANGED <<periods, books, exportRuns, queue>>
    BY <1>2 DEF Barrier
  <1>4. Covering(x) \in SUBSET LockKey /\ "barrier" \in Stage
    BY DEF Covering, LockKey, Stage
  <1>5. /\ tx' \in [Process -> Transaction]
        /\ OthersWait(s) /\ KeepsInput(s) /\ Free(Covering(x))
        /\ tx'[s].holds = tx[s].holds \cup Covering(x) /\ tx'[s].stage = "barrier"
    BY <1>1, <1>3, <1>4, TakePoints
  <1>6. WriterKnows(s, x)'
    BY <1>3, <1>5 DEF WriterKnows, Locked, Covering, InScope, periods
  <1>7. Sound(s)'
    BY <1>1, <1>2, <1>5, <1>6, TransitionsAre DEF Sound, Shape, WriteOps, PeriodOps, KeepsInput
  <1> QED
    BY <1>3, <1>5, <1>7, ReadingBehaves

LEMMA LockingBehaves ==
  ASSUME IInv, NEW s \in Process, LockWriter(s)
  PROVE  Behaves(s)
  <1>1. tx[s].op \in WriteOps /\ tx[s].stage = "barrier" /\ TypeOK
    BY DEF LockWriter, IInv, Sound, Shape
  <1>2. PICK x \in Person : tx[s].person = {x}
    BY <1>1 DEF IInv, Sound, Shape
  <1>3. PICK keys \in SUBSET LockKey :
          /\ x \in keys
          /\ tx[s].op = "HIRE" => Population \in keys
          /\ Take(s, keys, "ready")
    BY <1>2 DEF LockWriter, LockKey
  <1>4. WriterKnows(s, x) /\ "ready" \in Stage
    BY <1>1, <1>2 DEF IInv, Sound, Stage
  <1>5. /\ tx' \in [Process -> Transaction]
        /\ OthersWait(s) /\ KeepsInput(s) /\ Free(keys)
        /\ tx'[s].holds = tx[s].holds \cup keys /\ tx'[s].stage = "ready"
    BY <1>1, <1>3, <1>4, TakePoints
  <1>6. /\ UNCHANGED <<periods, books, exportRuns, queue>>
        /\ booked[x] + tx[s].minutes <= MaxMinutes
    BY <1>2 DEF LockWriter
  <1>7. WriterKnows(s, x)'
    BY <1>3, <1>4, <1>5, <1>6 DEF WriterKnows, Locked, Covering, InScope, KeepsInput, periods, books
  <1>8. Sound(s)'
    BY <1>1, <1>2, <1>5, <1>7, TransitionsAre DEF Sound, Shape, WriteOps, PeriodOps, KeepsInput
  <1> QED
    BY <1>5, <1>6, <1>8, ReadingBehaves

LEMMA PlanIs ==
  ASSUME TypeOK, NEW p \in Period
  PROVE  /\ BuildPlan(p) \in Plan
         /\ \A x \in Person : BuildPlan(p)[x] # -1 <=> x \in Covered(p)
         /\ \A x \in Covered(p) : x \in Person /\ BuildPlan(p)[x] = booked[x]
  BY SetsAreSmall DEF TypeOK, BuildPlan, Plan, Covered

LEMMA PlanningBehaves ==
  ASSUME IInv, NEW s \in Process, PreparePlan(s)
  PROVE  Behaves(s)
  <1>1. tx[s].op = "PREPARE" /\ TypeOK
    BY DEF PreparePlan, IInv, At
  <1>2. PICK p \in Period : tx[s].period = {p}
    BY <1>1 DEF IInv, Sound, Shape, PeriodOps
  <1>3. PICK plan \in Plan : plan = BuildPlan(p)
    BY <1>1, PlanIs
  <1>4. /\ TakeReading(s, Covered(p), "ready", plan)
        /\ UNCHANGED <<periods, books, exportRuns, queue>>
    BY <1>2, <1>3 DEF PreparePlan
  <1>5. Covered(p) \in SUBSET LockKey /\ "ready" \in Stage
    BY <1>1 DEF Covered, LockKey, Stage, TypeOK
  <1>6. /\ tx' \in [Process -> Transaction]
        /\ OthersWait(s) /\ KeepsInput(s) /\ Free(Covered(p))
        /\ tx'[s].holds = tx[s].holds \cup Covered(p) /\ tx'[s].stage = "ready"
        /\ tx'[s].plan = plan
    BY <1>1, <1>4, <1>5, ReadingPoints
  <1>7. Population \in tx[s].holds
    BY <1>1 DEF IInv, Sound, PreparationKnows
  <1>8. PreparationKnows(s)'
    BY <1>1, <1>3, <1>4, <1>6, <1>7, PlanIs DEF PreparationKnows, Planned, books
  <1>9. Sound(s)'
    BY <1>1, <1>2, <1>6, <1>8, TransitionsAre DEF Sound, Shape, WriteOps, PeriodOps, KeepsInput
  <1> QED
    BY <1>4, <1>6, <1>9, ReadingBehaves

LEMMA PreviewedBehaves ==
  ASSUME IInv, NEW s \in Process, ApprovePreviewed(s)
  PROVE  Behaves(s)
  <1>1. tx[s].op = "APPROVE" /\ TypeOK /\ UNCHANGED <<periods, books, exportRuns, queue>>
    BY DEF ApprovePreviewed, IInv, At
  <1>2. PICK p \in Period : tx[s].period = {p}
    BY <1>1 DEF IInv, Sound, Shape, PeriodOps
  <1>3. /\ tx' \in [Process -> Transaction] /\ OthersWait(s) /\ KeepsInput(s)
        /\ tx'[s].holds = {} /\ tx'[s].stage = "previewed"
    BY <1>1, PreviewedPoints
  <1>4. Sound(s)'
    BY <1>1, <1>2, <1>3, TransitionsAre DEF Sound, Shape, WriteOps, PeriodOps, KeepsInput
  <1>5. Free({}) /\ tx'[s].holds \subseteq tx[s].holds \cup {}
    BY <1>3 DEF Free
  <1> QED
    BY <1>1, <1>3, <1>4, <1>5, ReadingBehaves

LEMMA ApproveLockBehaves ==
  ASSUME IInv, NEW s \in Process, ApproveLock(s)
  PROVE  Behaves(s)
  <1>1. tx[s].op = "APPROVE" /\ TypeOK /\ UNCHANGED <<periods, books, exportRuns, queue>>
    BY DEF ApproveLock, IInv, At
  <1>2. PICK p \in Period : tx[s].period = {p}
    BY <1>1 DEF IInv, Sound, Shape, PeriodOps
  <1>3. PICK keys \in SUBSET LockKey : p \in keys /\ Take(s, keys, "locked")
    BY <1>2 DEF ApproveLock, LockKey
  <1>4. status[p] = "REVIEW" /\ (Scope[p] # Everyone => leadApproved[p]) /\ "locked" \in Stage
    BY <1>2, TransitionsAre DEF ApproveLock, Stage
  <1>5. /\ tx' \in [Process -> Transaction]
        /\ OthersWait(s) /\ KeepsInput(s) /\ Free(keys)
        /\ tx'[s].holds = tx[s].holds \cup keys /\ tx'[s].stage = "locked"
    BY <1>1, <1>3, <1>4, TakePoints
  <1>6. ApprovalKnows(s, p)'
    BY <1>1, <1>3, <1>4, <1>5 DEF ApprovalKnows, periods
  <1>7. Sound(s)'
    BY <1>1, <1>2, <1>5, <1>6, TransitionsAre DEF Sound, Shape, WriteOps, PeriodOps, KeepsInput
  <1> QED
    BY <1>1, <1>5, <1>7, ReadingBehaves

LEMMA ReadPlanBehaves ==
  ASSUME IInv, NEW s \in Process, ReadPlan(s)
  PROVE  Behaves(s)
  <1>1. /\ tx[s].op \in {"APPROVE", "EXPORT"} /\ tx[s].stage = "locked" /\ TypeOK
        /\ UNCHANGED <<periods, books, exportRuns, queue>>
    BY DEF ReadPlan, IInv
  <1>2. PICK p \in Period : tx[s].period = {p}
    BY <1>1 DEF IInv, Sound, Shape, PeriodOps
  <1>3. PICK plan \in Plan : plan = BuildPlan(p)
    BY <1>1, PlanIs
  <1>4. PICK keys \in SUBSET LockKey :
          Population \in keys /\ TakeReading(s, keys, "planned", plan)
    BY <1>2, <1>3 DEF ReadPlan, LockKey
  <1>5. "planned" \in Stage
    BY DEF Stage
  <1>6. /\ tx' \in [Process -> Transaction]
        /\ OthersWait(s) /\ KeepsInput(s) /\ Free(keys)
        /\ tx'[s].holds = tx[s].holds \cup keys /\ tx'[s].stage = "planned"
        /\ tx'[s].plan = plan /\ tx'[s].was = tx[s].was
    BY <1>1, <1>4, <1>5, ReadingPoints
  <1>7. ASSUME tx[s].op = "APPROVE"
        PROVE  Sound(s)'
    <2>1. ApprovalKnows(s, p)
      BY <1>1, <1>2, <1>7 DEF IInv, Sound
    <2>2. \A x \in Covered(p) : Plans(s, p, x)'
      BY <1>1, <1>3, <1>6, PlanIs DEF Plans, books
    <2>3. ApprovalKnows(s, p)'
      BY <1>1, <1>4, <1>6, <2>1, <2>2 DEF ApprovalKnows, Covered, periods, books
    <2> QED
      BY <1>2, <1>6, <1>7, <2>3, TransitionsAre DEF Sound, Shape, WriteOps, PeriodOps, KeepsInput
  <1>8. ASSUME tx[s].op = "EXPORT"
        PROVE  Sound(s)'
    <2>1. ExportKnows(s, p)
      BY <1>2, <1>8 DEF IInv, Sound
    <2>2. ExportKnows(s, p)'
      BY <1>1, <1>4, <1>6, <2>1 DEF ExportKnows, periods
    <2> QED
      BY <1>2, <1>6, <1>8, <2>2, TransitionsAre DEF Sound, Shape, WriteOps, PeriodOps, KeepsInput
  <1> QED
    BY <1>1, <1>6, <1>7, <1>8, ReadingBehaves

(* Between its two reads only a correction elsewhere can have come.        *)
LEMMA ReadCoverageBehaves ==
  ASSUME IInv, NEW s \in Process, ReadCoverage(s)
  PROVE  Behaves(s)
  <1>1. /\ tx[s].op \in {"APPROVE", "EXPORT"} /\ tx[s].stage = "planned" /\ TypeOK
        /\ Complete(tx[s].plan) /\ UNCHANGED <<periods, books, exportRuns, queue>>
    BY DEF ReadCoverage, IInv
  <1>2. PICK p \in Period : tx[s].period = {p}
    BY <1>1 DEF IInv, Sound, Shape, PeriodOps
  <1>3. /\ tx' \in [Process -> Transaction] /\ OthersWait(s) /\ KeepsInput(s)
        /\ tx'[s].holds = tx[s].holds /\ tx'[s].was = tx[s].was
        /\ tx[s].op = "APPROVE" => tx'[s].stage = "ready"
        /\ tx[s].op = "EXPORT" => tx'[s].stage = "covered"
    BY <1>1, CoveragePoints
  <1>4. ASSUME tx[s].op = "APPROVE"
        PROVE  Sound(s)'
    <2>1. ApprovalKnows(s, p)
      BY <1>1, <1>2, <1>4 DEF IInv, Sound
    <2>2. ASSUME NEW x \in Covered(p)
          PROVE  account[x] # NoAccount /\ Exactly(p, x)
      <3>1. Plans(s, p, x) /\ x \in Person /\ tx[s].plan \in Plan
        BY <1>1, <2>1 DEF ApprovalKnows, Covered, TypeOK, Transaction
      <3>2. tx[s].plan[x] \in Nat
        BY <3>1 DEF Plans, Plan
      <3>3. account[x] = Hundredths(tx[s].plan[x])
        BY <1>1, <3>1 DEF Complete, Plans
      <3> QED
        BY <3>1, <3>2, <3>3, HundredthsAre DEF Plans, Exactly
    <2>3. ApprovalKnows(s, p)'
      BY <1>1, <1>3, <1>4, <2>1, <2>2
      DEF ApprovalKnows, Covered, Exactly, CorrectedElsewhere, Covering, InScope, periods, books
    <2> QED
      BY <1>2, <1>3, <1>4, <2>3, TransitionsAre DEF Sound, Shape, WriteOps, PeriodOps, KeepsInput
  <1>5. ASSUME tx[s].op = "EXPORT"
        PROVE  Sound(s)'
    <2>1. ExportKnows(s, p)
      BY <1>2, <1>5 DEF IInv, Sound
    <2>2. ExportKnows(s, p)'
      BY <1>1, <1>3, <1>5, <2>1 DEF ExportKnows, periods
    <2> QED
      BY <1>2, <1>3, <1>5, <2>2, TransitionsAre DEF Sound, Shape, WriteOps, PeriodOps, KeepsInput
  <1>6. Free({}) /\ tx'[s].holds \subseteq tx[s].holds \cup {}
    BY <1>3 DEF Free
  <1> QED
    BY <1>1, <1>3, <1>4, <1>5, <1>6, ReadingBehaves

LEMMA BuildingBehaves ==
  ASSUME IInv, NEW s \in Process, BuildArtifact(s)
  PROVE  Behaves(s)
  <1>1. /\ tx[s].op = "EXPORT" /\ tx[s].stage = "covered" /\ TypeOK
        /\ tx[s].was \in {"CLOSED", "EXPORTED"} /\ UNCHANGED <<periods, books, exportRuns, queue>>
    BY TransitionsAre DEF BuildArtifact, IInv, At
  <1>2. PICK p \in Period : tx[s].period = {p}
    BY <1>1 DEF IInv, Sound, Shape, PeriodOps
  <1>3. /\ tx' \in [Process -> Transaction] /\ OthersWait(s) /\ KeepsInput(s)
        /\ tx'[s].holds = tx[s].holds /\ tx'[s].was = tx[s].was /\ tx'[s].stage = "ready"
        /\ tx'[s].rows = [x \in Person |-> IF x \in Covered(p) THEN account[x] ELSE NoAccount]
    BY <1>1, <1>2, ArtifactPoints
  <1>4. ExportKnows(s, p)
    BY <1>1, <1>2 DEF IInv, Sound
  <1>5. /\ \A x \in Covered(p) : Shows(s, p, x)'
        /\ \A x \in Person \ Covered(p) : tx'[s].rows[x] = NoAccount
    BY <1>1, <1>3 DEF Shows, Covered, TypeOK, books
  <1>6. ExportKnows(s, p)'
    BY <1>1, <1>3, <1>4, <1>5 DEF ExportKnows, Covered, periods, books
  <1>7. Sound(s)'
    BY <1>1, <1>2, <1>3, <1>6, TransitionsAre DEF Sound, Shape, WriteOps, PeriodOps, KeepsInput
  <1>8. Free({}) /\ tx'[s].holds \subseteq tx[s].holds \cup {}
    BY <1>3 DEF Free
  <1> QED
    BY <1>1, <1>3, <1>7, <1>8, ReadingBehaves

LEMMA ScanLockBehaves ==
  ASSUME IInv, NEW s \in Process, ScanLock(s)
  PROVE  Behaves(s)
  <1>1. TypeOK /\ "CUTOFF" \in Op /\ "begin" \in Stage
    BY DEF IInv, Op, Stage
  <1>2. PICK p \in Period : Starts(s, "CUTOFF", p, {p}, "begin")
    BY DEF ScanLock
  <1>3. PICK keys \in SUBSET LockKey : p \in keys /\ Starts(s, "CUTOFF", p, keys, "begin")
    BY <1>2 DEF LockKey
  <1>4. /\ tx' \in [Process -> Transaction] /\ OthersWait(s) /\ Free(keys)
        /\ tx'[s].op = "CUTOFF" /\ tx'[s].period = {p}
        /\ tx'[s].holds = keys /\ tx'[s].stage = "begin"
    BY <1>1, <1>2, <1>3, StartsPoints
  <1>5. Sound(s)'
    BY <1>3, <1>4, TransitionsAre DEF Sound, Shape, WriteOps, PeriodOps
  <1>6. UNCHANGED <<periods, books, exportRuns, queue>> /\ tx'[s].holds \subseteq tx[s].holds \cup keys
    BY <1>4 DEF ScanLock
  <1> QED
    BY <1>4, <1>5, <1>6, ReadingBehaves

LEMMA ScanPopulationBehaves ==
  ASSUME IInv, NEW s \in Process, ScanPopulation(s)
  PROVE  Behaves(s)
  <1>1. tx[s].op = "CUTOFF" /\ TypeOK /\ UNCHANGED <<periods, books, exportRuns, queue>>
    BY DEF ScanPopulation, IInv, At
  <1>2. PICK p \in Period : tx[s].period = {p}
    BY <1>1 DEF IInv, Sound, Shape, PeriodOps
  <1>3. /\ tx' \in [Process -> Transaction]
        /\ OthersWait(s) /\ KeepsInput(s) /\ Free({Population})
        /\ tx'[s].holds = tx[s].holds \cup {Population} /\ tx'[s].stage = "ready"
        /\ tx'[s].was = status[p]
    BY <1>1, <1>2, PopulationPoints
  <1>4. p \in tx[s].holds /\ status'[p] = status[p]
    BY <1>1, <1>2 DEF IInv, Sound, periods
  <1>5. Sound(s)'
    BY <1>1, <1>2, <1>3, <1>4, TransitionsAre DEF Sound, Shape, WriteOps, PeriodOps, KeepsInput
  <1> QED
    BY <1>1, <1>3, <1>5, ReadingBehaves

-----------------------------------------------------------------------------
(* Steps that commit.                                                      *)

LEMMA EndingBehaves ==
  ASSUME IInv, NEW s \in Process, Ends(s), TypeOK',
         \A x \in Person : account'[x] \in Nat \cup {NoAccount},
         Touches(tx[s].holds), \A p \in Period : Signed(p)' /\ Closed(p)'
  PROVE  Behaves(s)
  <1>1. OthersWait(s) /\ tx'[s] = Idle
    BY EndsPoints DEF IInv
  <1>2. Sound(s)' /\ tx'[s].holds = {}
    BY <1>1, IdleIsSound
  <1> QED
    BY <1>1, <1>2 DEF Behaves

(* A commit that changes nothing but the period p.                         *)
MovesOnly(p) ==
  /\ status' \in [Period -> Status] /\ leadApproved' \in [Period -> BOOLEAN]
  /\ hrApproved' \in [Period -> BOOLEAN]
  /\ workflow' \in [Period -> SUBSET {"PENDING", "APPROVED"}]
  /\ \A q \in Period \ {p} :
       /\ status'[q] = status[q] /\ leadApproved'[q] = leadApproved[q]
       /\ hrApproved'[q] = hrApproved[q] /\ workflow'[q] = workflow[q]
  /\ "APPROVED" \in workflow[p] => "APPROVED" \in workflow'[p]
  /\ UNCHANGED books
  /\ exportRuns' \subseteq [period : Period, format : Format, rows : Rows]
  /\ queue' \in [Scanner -> SUBSET Period]

LEMMA MoveBehaves ==
  ASSUME IInv, NEW s \in Process, Ends(s), NEW p \in Period, p \in tx[s].holds,
         MovesOnly(p), Signed(p)', Closed(p)'
  PROVE  Behaves(s)
  <1>1. TypeOK' /\ \A x \in Person : account'[x] \in Nat \cup {NoAccount}
    BY EndsPoints DEF IInv, TypeOK, MovesOnly, books
  <1>2. Touches(tx[s].holds)
    BY DEF Touches, MovesOnly, books
  <1>3. ASSUME NEW q \in Period, q # p
        PROVE  Signed(q)' /\ Closed(q)'
    <2>1. Signed(q) /\ Closed(q) /\ status'[q] = status[q]
      BY <1>3 DEF IInv, MovesOnly
    <2>2. \A x \in Person : /\ Exactly(q, x) => Exactly(q, x)'
                            /\ Nearly(q, x) => Nearly(q, x)'
      BY <1>2, <1>3, CorrectedStays DEF Exactly, Nearly, Drift, MovesOnly, books
    <2>3. Covered(q)' = Covered(q) /\ Covered(q) \subseteq Person /\ account' = account
      BY DEF Covered, MovesOnly, books, IInv, TypeOK
    <2>4. Closed(q)'
      BY <2>1, <2>2, <2>3 DEF Closed
    <2> QED
      BY <1>3, <2>1, <2>4 DEF Signed, MovesOnly
  <1> QED
    BY <1>1, <1>2, <1>3, EndingBehaves

(* What a commit writes to the one period of its transaction.              *)
LEMMA WritesOne ==
  ASSUME TypeOK, NEW s \in Process, NEW p \in Period, tx[s].period = {p}, NEW to, Moves(s, to)
  PROVE  status' = [status EXCEPT ![p] = to]
  BY DEF TypeOK, Moves

(* Each transition leaves from the status that its action in transitions.ts *)
(* allows, as it is at the commit.                                         *)
LEMMA ReviewWrites ==
  ASSUME IInv, NEW s \in Process, StartReview(s)
  PROVE  \E p \in Period :
           /\ p \in tx[s].holds /\ status[p] = "OPEN"
           /\ status' = [status EXCEPT ![p] = "REVIEW"]
           /\ UNCHANGED <<leadApproved, hrApproved, workflow, books, exportRuns, queue>>
  <1>1. tx[s].op = "REVIEW" /\ TypeOK
    BY DEF StartReview, IInv, At
  <1>2. PICK p \in Period : tx[s].period = {p}
    BY <1>1 DEF IInv, Sound, Shape, PeriodOps
  <1>3. p \in tx[s].holds /\ status[p] = "OPEN"
    BY <1>1, <1>2, TransitionsAre DEF IInv, Sound
  <1>4. /\ status' = [status EXCEPT ![p] = "REVIEW"]
        /\ UNCHANGED <<leadApproved, hrApproved, workflow, books, exportRuns, queue>>
    BY <1>1, <1>2, WritesOne, TransitionsAre DEF StartReview
  <1> QED
    BY <1>3, <1>4

LEMMA ReviewBehaves ==
  ASSUME IInv, NEW s \in Process, StartReview(s)
  PROVE  Behaves(s)
  <1>1. PICK p \in Period :
          /\ p \in tx[s].holds /\ status[p] = "OPEN"
          /\ status' = [status EXCEPT ![p] = "REVIEW"]
          /\ UNCHANGED <<leadApproved, hrApproved, workflow, books, exportRuns, queue>>
    BY ReviewWrites
  <1>2. TypeOK /\ Ends(s)
    BY DEF IInv, StartReview
  <1>3. MovesOnly(p)
    BY <1>1, <1>2 DEF MovesOnly, TypeOK, Status
  <1>4. Signed(p)' /\ Closed(p)'
    BY <1>1, <1>2 DEF Signed, Closed, TypeOK
  <1> QED
    BY <1>1, <1>2, <1>3, <1>4, MoveBehaves

LEMMA ReopenWrites ==
  ASSUME IInv, NEW s \in Process, Reopen(s)
  PROVE  \E p \in Period :
           /\ p \in tx[s].holds /\ status[p] \in {"REVIEW", "CLOSED"}
           /\ status' = [status EXCEPT ![p] = "OPEN"]
           /\ leadApproved' = [leadApproved EXCEPT ![p] = FALSE]
           /\ hrApproved' = [hrApproved EXCEPT ![p] = FALSE]
           /\ UNCHANGED <<workflow, books, exportRuns, queue>>
  <1>1. tx[s].op = "REOPEN" /\ TypeOK
    BY DEF Reopen, IInv, At
  <1>2. PICK p \in Period : tx[s].period = {p}
    BY <1>1 DEF IInv, Sound, Shape, PeriodOps
  <1>3. p \in tx[s].holds /\ status[p] \in {"REVIEW", "CLOSED"}
    BY <1>1, <1>2, TransitionsAre DEF IInv, Sound
  <1>4. status' = [status EXCEPT ![p] = "OPEN"] /\ UNCHANGED <<workflow, books, exportRuns, queue>>
    BY <1>1, <1>2, WritesOne, TransitionsAre DEF Reopen
  <1>5. /\ leadApproved' = [leadApproved EXCEPT ![p] = FALSE]
        /\ hrApproved' = [hrApproved EXCEPT ![p] = FALSE]
    BY <1>1, <1>2 DEF Reopen, Sets, TypeOK
  <1> QED
    BY <1>3, <1>4, <1>5

LEMMA ReopenBehaves ==
  ASSUME IInv, NEW s \in Process, Reopen(s)
  PROVE  Behaves(s)
  <1>1. PICK p \in Period :
          /\ p \in tx[s].holds
          /\ status' = [status EXCEPT ![p] = "OPEN"]
          /\ leadApproved' = [leadApproved EXCEPT ![p] = FALSE]
          /\ hrApproved' = [hrApproved EXCEPT ![p] = FALSE]
          /\ UNCHANGED <<workflow, books, exportRuns, queue>>
    BY ReopenWrites
  <1>2. TypeOK /\ Ends(s)
    BY DEF IInv, Reopen
  <1>3. MovesOnly(p)
    BY <1>1, <1>2 DEF MovesOnly, TypeOK, Status
  <1>4. Signed(p)' /\ Closed(p)'
    BY <1>1, <1>2 DEF Signed, Closed, TypeOK
  <1> QED
    BY <1>1, <1>2, <1>3, <1>4, MoveBehaves

LEMMA PostCloseWrites ==
  ASSUME IInv, NEW s \in Process, PostCloseCorrection(s)
  PROVE  \E p \in Period :
           /\ p \in tx[s].holds /\ status[p] = "EXPORTED"
           /\ status' = [status EXCEPT ![p] = "REVIEW"]
           /\ hrApproved' = [hrApproved EXCEPT ![p] = FALSE]
           /\ workflow' = [workflow EXCEPT ![p] = workflow[p] \cup {"PENDING"}]
           /\ UNCHANGED <<leadApproved, books, exportRuns, queue>>
  <1>1. tx[s].op = "POST_CLOSE" /\ TypeOK
    BY DEF PostCloseCorrection, IInv, At
  <1>2. PICK p \in Period : tx[s].period = {p}
    BY <1>1 DEF IInv, Sound, Shape, PeriodOps
  <1>3. p \in tx[s].holds /\ status[p] = "EXPORTED"
    BY <1>1, <1>2, TransitionsAre DEF IInv, Sound
  <1>4. /\ status' = [status EXCEPT ![p] = "REVIEW"]
        /\ UNCHANGED <<leadApproved, books, exportRuns, queue>>
    BY <1>1, <1>2, WritesOne, TransitionsAre DEF PostCloseCorrection
  <1>5. /\ hrApproved' = [hrApproved EXCEPT ![p] = FALSE]
        /\ workflow' = [workflow EXCEPT ![p] = workflow[p] \cup {"PENDING"}]
    BY <1>1, <1>2 DEF PostCloseCorrection, Sets, TypeOK
  <1> QED
    BY <1>3, <1>4, <1>5

LEMMA PostCloseBehaves ==
  ASSUME IInv, NEW s \in Process, PostCloseCorrection(s)
  PROVE  Behaves(s)
  <1>1. PICK p \in Period :
          /\ p \in tx[s].holds
          /\ status' = [status EXCEPT ![p] = "REVIEW"]
          /\ hrApproved' = [hrApproved EXCEPT ![p] = FALSE]
          /\ workflow' = [workflow EXCEPT ![p] = workflow[p] \cup {"PENDING"}]
          /\ UNCHANGED <<leadApproved, books, exportRuns, queue>>
    BY PostCloseWrites
  <1>2. TypeOK /\ Ends(s)
    BY DEF IInv, PostCloseCorrection
  <1>3. MovesOnly(p)
    BY <1>1, <1>2 DEF MovesOnly, TypeOK, Status
  <1>4. Signed(p)' /\ Closed(p)'
    BY <1>1, <1>2 DEF Signed, Closed, TypeOK
  <1> QED
    BY <1>1, <1>2, <1>3, <1>4, MoveBehaves

LEMMA LeadWrites ==
  ASSUME IInv, NEW s \in Process, LeadApprove(s)
  PROVE  \E p \in Period :
           /\ p \in tx[s].holds /\ status[p] = "REVIEW" /\ Scope[p] # Everyone
           /\ leadApproved' = [leadApproved EXCEPT ![p] = TRUE]
           /\ UNCHANGED <<status, hrApproved, workflow, books, exportRuns, queue>>
  <1>1. tx[s].op = "LEAD" /\ TypeOK
    BY DEF LeadApprove, IInv, At
  <1>2. PICK p \in Period : tx[s].period = {p}
    BY <1>1 DEF IInv, Sound, Shape, PeriodOps
  <1>3. p \in tx[s].holds /\ status[p] = "REVIEW" /\ Scope[p] # Everyone
    BY <1>1, <1>2 DEF IInv, Sound
  <1>4. /\ leadApproved' = [leadApproved EXCEPT ![p] = TRUE]
        /\ UNCHANGED <<status, hrApproved, workflow, books, exportRuns, queue>>
    BY <1>1, <1>2 DEF LeadApprove, Sets, TypeOK
  <1> QED
    BY <1>3, <1>4

LEMMA LeadBehaves ==
  ASSUME IInv, NEW s \in Process, LeadApprove(s)
  PROVE  Behaves(s)
  <1>1. PICK p \in Period :
          /\ p \in tx[s].holds /\ status[p] = "REVIEW"
          /\ leadApproved' = [leadApproved EXCEPT ![p] = TRUE]
          /\ UNCHANGED <<status, hrApproved, workflow, books, exportRuns, queue>>
    BY LeadWrites
  <1>2. TypeOK /\ Ends(s)
    BY DEF IInv, LeadApprove
  <1>3. MovesOnly(p)
    BY <1>1, <1>2 DEF MovesOnly, TypeOK
  <1>4. Signed(p)' /\ Closed(p)'
    BY <1>1 DEF Signed, Closed
  <1> QED
    BY <1>1, <1>2, <1>3, <1>4, MoveBehaves

LEMMA ApproveWrites ==
  ASSUME IInv, NEW s \in Process, Approve(s)
  PROVE  \E p \in Period :
           /\ ApprovalKnows(s, p) /\ tx[s].stage = "ready"
           /\ status' = [status EXCEPT ![p] = "CLOSED"]
           /\ hrApproved' = [hrApproved EXCEPT ![p] = TRUE]
           /\ UNCHANGED <<leadApproved, workflow, books, exportRuns, queue>>
  <1>1. tx[s].op = "APPROVE" /\ tx[s].stage = "ready" /\ TypeOK
    BY DEF Approve, IInv, At
  <1>2. PICK p \in Period : tx[s].period = {p}
    BY <1>1 DEF IInv, Sound, Shape, PeriodOps
  <1>3. ApprovalKnows(s, p)
    BY <1>1, <1>2 DEF IInv, Sound
  <1>4. /\ status' = [status EXCEPT ![p] = "CLOSED"]
        /\ UNCHANGED <<leadApproved, workflow, books, exportRuns, queue>>
    BY <1>1, <1>2, WritesOne, TransitionsAre DEF Approve
  <1>5. hrApproved' = [hrApproved EXCEPT ![p] = TRUE]
    BY <1>1, <1>2 DEF Approve, Sets, TypeOK
  <1> QED
    BY <1>1, <1>3, <1>4, <1>5

LEMMA ApproveBehaves ==
  ASSUME IInv, NEW s \in Process, Approve(s)
  PROVE  Behaves(s)
  <1>1. PICK p \in Period :
          /\ ApprovalKnows(s, p) /\ tx[s].stage = "ready"
          /\ status' = [status EXCEPT ![p] = "CLOSED"]
          /\ hrApproved' = [hrApproved EXCEPT ![p] = TRUE]
          /\ UNCHANGED <<leadApproved, workflow, books, exportRuns, queue>>
    BY ApproveWrites
  <1>2. TypeOK /\ Ends(s)
    BY DEF IInv, Approve
  <1>3. MovesOnly(p)
    BY <1>1, <1>2 DEF MovesOnly, TypeOK, Status
  <1>4. Signed(p)' /\ status'[p] = "CLOSED"
    BY <1>1, <1>2 DEF Signed, TypeOK
  <1>5. \A x \in Covered(p) : account[x] # NoAccount /\ Exactly(p, x)
    BY <1>1 DEF ApprovalKnows
  <1>6. Closed(p)'
    BY <1>1, <1>4, <1>5
    DEF Closed, Covered, Exactly, CorrectedElsewhere, Covering, InScope, books
  <1> QED
    BY <1>1, <1>2, <1>3, <1>4, <1>6, MoveBehaves DEF ApprovalKnows

LEMMA ExportWrites ==
  ASSUME IInv, NEW s \in Process, NEW f \in Format, Export(s, f)
  PROVE  \E p \in Period :
           /\ ExportKnows(s, p) /\ tx[s].stage = "ready"
           /\ status' = [status EXCEPT ![p] = "EXPORTED"]
           /\ exportRuns' = [period : {p}, format : {f}, rows : {tx[s].rows}]
           /\ UNCHANGED <<leadApproved, hrApproved, workflow, books, queue>>
  <1>1. tx[s].op = "EXPORT" /\ tx[s].stage = "ready" /\ TypeOK
    BY DEF Export, IInv, At
  <1>2. PICK p \in Period : tx[s].period = {p}
    BY <1>1 DEF IInv, Sound, Shape, PeriodOps
  <1>3. ExportKnows(s, p)
    BY <1>1, <1>2 DEF IInv, Sound
  <1>4. /\ status' = [status EXCEPT ![p] = "EXPORTED"]
        /\ UNCHANGED <<leadApproved, hrApproved, workflow, books, queue>>
    BY <1>1, <1>2, WritesOne, TransitionsAre DEF Export
  <1>5. exportRuns' = [period : {p}, format : {f}, rows : {tx[s].rows}]
    BY <1>2 DEF Export, RunOf
  <1> QED
    BY <1>1, <1>3, <1>4, <1>5

LEMMA ExportBehaves ==
  ASSUME IInv, NEW s \in Process, NEW f \in Format, Export(s, f)
  PROVE  Behaves(s)
  <1>1. PICK p \in Period :
          /\ ExportKnows(s, p) /\ tx[s].stage = "ready"
          /\ status' = [status EXCEPT ![p] = "EXPORTED"]
          /\ exportRuns' = [period : {p}, format : {f}, rows : {tx[s].rows}]
          /\ UNCHANGED <<leadApproved, hrApproved, workflow, books, queue>>
    BY ExportWrites
  <1>2. TypeOK /\ Ends(s)
    BY DEF IInv, Export
  <1>3. exportRuns' \subseteq [period : Period, format : Format, rows : Rows]
    BY <1>1, <1>2 DEF TypeOK, Transaction
  <1>4. MovesOnly(p)
    BY <1>1, <1>2, <1>3 DEF MovesOnly, TypeOK, Status
  <1>5. Signed(p) /\ Closed(p) /\ status[p] \in {"CLOSED", "EXPORTED"}
    BY <1>1 DEF IInv, ExportKnows
  <1>6. \A x \in Covered(p) : account[x] # NoAccount /\ Nearly(p, x)
    BY <1>2, <1>5, ExactIsNear DEF Closed, Covered, TypeOK
  <1>7. status'[p] = "EXPORTED" /\ UNCHANGED books /\ workflow' = workflow
    BY <1>1, <1>2 DEF TypeOK
  <1>8. Closed(p)'
    BY <1>6, <1>7
    DEF Closed, Covered, Nearly, Drift, CorrectedElsewhere, Covering, InScope, books
  <1>9. Signed(p)'
    BY <1>1, <1>5, <1>7 DEF Signed
  <1> QED
    BY <1>1, <1>2, <1>4, <1>8, <1>9, MoveBehaves DEF ExportKnows

LEMMA ScanWrites ==
  ASSUME IInv, NEW s \in Process, ScanCommit(s)
  PROVE  \E p \in Period :
           /\ p \in tx[s].holds
           /\ \/ status' = status
              \/ status[p] = "OPEN" /\ status' = [status EXCEPT ![p] = "REVIEW"]
           /\ UNCHANGED <<leadApproved, hrApproved, workflow, books, exportRuns>>
           /\ queue' \in [Scanner -> SUBSET Period]
  <1>1. tx[s].op = "CUTOFF" /\ tx[s].stage = "ready" /\ TypeOK
    BY DEF ScanCommit, IInv, At
  <1>2. PICK p \in Period : tx[s].period = {p}
    BY <1>1 DEF IInv, Sound, Shape, PeriodOps
  <1>3. p \in tx[s].holds /\ tx[s].was = status[p]
    BY <1>1, <1>2 DEF IInv, Sound
  <1>4. /\ status' = status \/ (tx[s].was = "OPEN" /\ Moves(s, "REVIEW"))
        /\ UNCHANGED <<leadApproved, hrApproved, workflow, books, exportRuns>>
        /\ queue' \in [Scanner -> SUBSET Period]
    BY <1>1 DEF ScanCommit, TypeOK
  <1>5. Moves(s, "REVIEW") => status' = [status EXCEPT ![p] = "REVIEW"]
    BY <1>1, <1>2, WritesOne
  <1> QED
    BY <1>3, <1>4, <1>5

LEMMA ScanCommitBehaves ==
  ASSUME IInv, NEW s \in Process, ScanCommit(s)
  PROVE  Behaves(s)
  <1>1. PICK p \in Period :
          /\ p \in tx[s].holds
          /\ \/ status' = status
             \/ status[p] = "OPEN" /\ status' = [status EXCEPT ![p] = "REVIEW"]
          /\ UNCHANGED <<leadApproved, hrApproved, workflow, books, exportRuns>>
          /\ queue' \in [Scanner -> SUBSET Period]
    BY ScanWrites
  <1>2. TypeOK /\ Ends(s) /\ Signed(p) /\ Closed(p)
    BY DEF IInv, ScanCommit
  <1>3. MovesOnly(p)
    BY <1>1, <1>2 DEF MovesOnly, TypeOK, Status
  <1>4. Signed(p)'
    BY <1>1, <1>2 DEF Signed, TypeOK
  <1>5. Closed(p)'
    BY <1>1, <1>2
    DEF Closed, TypeOK, Covered, Exactly, Nearly, Drift, CorrectedElsewhere, Covering,
        InScope, books
  <1> QED
    BY <1>1, <1>2, <1>3, <1>4, <1>5, MoveBehaves

LEMMA BookingBehaves ==
  ASSUME IInv, NEW s \in Process, WriteBooking(s)
  PROVE  Behaves(s)
  <1>1. /\ tx[s].op = "BOOK" /\ tx[s].stage = "ready" /\ TypeOK /\ Ends(s)
        /\ UNCHANGED <<periods, employed, account, added, exportRuns, queue>>
    BY DEF WriteBooking, IInv, At
  <1>2. PICK x \in Person : tx[s].person = {x}
    BY <1>1 DEF IInv, Sound, Shape, WriteOps
  <1>3. WriterKnows(s, x)
    BY <1>1, <1>2 DEF IInv, Sound, WriteOps
  <1>4. PICK m \in Nat : m = tx[s].minutes
    BY <1>1 DEF TypeOK, Transaction
  <1>5. booked' = [booked EXCEPT ![x] = booked[x] + m]
    BY <1>1, <1>2, <1>4 DEF WriteBooking, TypeOK
  <1>6. booked' \in [Person -> 0 .. MaxMinutes]
    BY <1>1, <1>3, <1>4, <1>5, SetsAreSmall DEF TypeOK, WriterKnows
  <1>7. TypeOK' /\ \A y \in Person : account'[y] \in Nat \cup {NoAccount}
    BY <1>1, <1>6, EndsPoints DEF IInv, TypeOK, periods
  <1>8. Fences(tx[s].holds, x) /\ x \in tx[s].holds
    BY <1>1, <1>3 DEF Fences, WriterKnows
  <1>9. \A y \in Person : booked'[y] # booked[y] => y = x
    BY <1>1, <1>5 DEF TypeOK
  <1>10. Touches(tx[s].holds)
    BY <1>1, <1>8, <1>9 DEF Touches, periods
  <1>11. ASSUME NEW p \in Period
         PROVE  Signed(p)' /\ Closed(p)'
    <2>1. Signed(p) /\ Closed(p) /\ Covered(p) \subseteq Person
      BY <1>1 DEF IInv, Covered, TypeOK
    <2>2. status[p] \in {"CLOSED", "EXPORTED"} => x \notin Covered(p)
      BY <1>8 DEF Fences, Covering, Covered, Locked
    <2>3. Closed(p)'
      BY <1>1, <1>9, <2>1, <2>2
      DEF Closed, Covered, Exactly, Nearly, Drift, CorrectedElsewhere, Covering, InScope,
          periods
    <2> QED
      BY <1>1, <2>1, <2>3 DEF Signed, periods
  <1> QED
    BY <1>1, <1>7, <1>10, <1>11, EndingBehaves

LEMMA HireBehaves ==
  ASSUME IInv, NEW s \in Process, WriteHire(s)
  PROVE  Behaves(s)
  <1>1. /\ tx[s].op = "HIRE" /\ tx[s].stage = "ready" /\ TypeOK /\ Ends(s)
        /\ UNCHANGED <<periods, booked, account, added, exportRuns, queue>>
    BY DEF WriteHire, IInv, At
  <1>2. PICK x \in Person : tx[s].person = {x}
    BY <1>1 DEF IInv, Sound, Shape, WriteOps
  <1>3. WriterKnows(s, x) /\ employed' = employed \cup {x}
    BY <1>1, <1>2 DEF IInv, Sound, WriteOps, WriteHire
  <1>4. TypeOK' /\ \A y \in Person : account'[y] \in Nat \cup {NoAccount}
    BY <1>1, <1>3, EndsPoints DEF IInv, TypeOK, periods
  <1>5. Fences(tx[s].holds, x) /\ Population \in tx[s].holds
    BY <1>1, <1>3 DEF Fences, WriterKnows
  <1>6. Touches(tx[s].holds)
    BY <1>1, <1>3, <1>5 DEF Touches, periods
  <1>7. ASSUME NEW p \in Period
        PROVE  Signed(p)' /\ Closed(p)'
    <2>1. Signed(p) /\ Closed(p)
      BY DEF IInv
    <2>2. status[p] \in {"CLOSED", "EXPORTED"} => Covered(p)' = Covered(p)
      BY <1>3, <1>5 DEF Fences, Covering, Covered, Locked, InScope
    <2>3. Closed(p)'
      BY <1>1, <2>1, <2>2
      DEF Closed, Exactly, Nearly, Drift, CorrectedElsewhere, Covering, InScope, periods
    <2> QED
      BY <1>1, <2>1, <2>3 DEF Signed, periods
  <1> QED
    BY <1>1, <1>4, <1>6, <1>7, EndingBehaves

(* What a preparation writes is what the bookings say at its commit.       *)
LEMMA AccountsBehave ==
  ASSUME IInv, NEW s \in Process, WriteAccounts(s)
  PROVE  Behaves(s)
  <1>1. /\ tx[s].op = "PREPARE" /\ tx[s].stage = "ready" /\ TypeOK /\ Ends(s)
        /\ UNCHANGED <<periods, employed, booked, exportRuns, queue>>
    BY DEF WriteAccounts, IInv, At
  <1>2. PreparationKnows(s)
    BY <1>1 DEF IInv, Sound
  <1>3. ASSUME NEW x \in Person
        PROVE  \/ account'[x] = account[x] /\ added'[x] = added[x]
               \/ account'[x] = Hundredths(booked[x]) /\ added'[x] = 0
    BY <1>1, <1>2 DEF WriteAccounts, PreparationKnows, Planned
  <1>4. \A x \in Person : Hundredths(booked[x]) \in Nat /\ Hundredths(booked[x]) # NoAccount
    BY <1>1, HundredthsAre DEF TypeOK
  <1>5. account' \in [Person -> Int] /\ \A x \in Person : account'[x] \in Nat \cup {NoAccount}
    <2>1. account' = [x \in Person |-> account'[x]]
      BY DEF WriteAccounts
    <2>2. \A x \in Person : account'[x] \in Nat \cup {NoAccount}
      BY <1>3, <1>4 DEF IInv
    <2> QED
      BY <2>1, <2>2 DEF NoAccount
  <1>6. TypeOK'
    <2>1. added' \in [Person -> Nat]
      BY <1>1 DEF WriteAccounts, TypeOK
    <2> QED
      BY <1>1, <1>5, <2>1, EndsPoints DEF TypeOK, periods
  <1>7. Touches(tx[s].holds)
    BY <1>1, <1>2, <1>3, <1>4 DEF Touches, PreparationKnows, periods
  <1>8. ASSUME NEW p \in Period
        PROVE  Signed(p)' /\ Closed(p)'
    <2>1. Signed(p) /\ Closed(p) /\ Covered(p) \subseteq Person
      BY <1>1 DEF IInv, Covered, TypeOK
    <2>2. ASSUME NEW x \in Person, account[x] # NoAccount
          PROVE  /\ account'[x] # NoAccount
                 /\ Exactly(p, x) => Exactly(p, x)'
                 /\ Nearly(p, x) => Nearly(p, x)'
      <3>1. CASE account'[x] = account[x] /\ added'[x] = added[x]
        BY <1>1, <2>2, <3>1
        DEF Exactly, Nearly, Drift, CorrectedElsewhere, Covering, InScope, periods
      <3>2. CASE account'[x] = Hundredths(booked[x]) /\ added'[x] = 0
        <4>1. booked'[x] = booked[x] /\ booked[x] \in Nat
          BY <1>1 DEF TypeOK
        <4>2. Exactly(p, x)' /\ account'[x] # NoAccount
          BY <1>4, <3>2, <4>1 DEF Exactly
        <4>3. Drift(x)' <= 300 /\ - Drift(x)' <= 300 /\ 303 * added'[x] = 0
          BY <1>4, <3>2, <4>1, NearestHundredth DEF Drift
        <4>4. Nearly(p, x)'
          BY <3>2, <4>1, <4>3 DEF Nearly
        <4> QED
          BY <4>2, <4>4
      <3> QED
        BY <1>3, <3>1, <3>2
    <2>3. Closed(p)'
      BY <1>1, <2>1, <2>2 DEF Closed, Covered, periods
    <2> QED
      BY <1>1, <2>1, <2>3 DEF Signed, periods
  <1> QED
    BY <1>1, <1>5, <1>6, <1>7, <1>8, EndingBehaves

LEMMA IncreasedIs ==
  ASSUME NEW a \in Nat, NEW m \in Nat
  PROVE  Increased(a, m) \in Nat /\ Increased(a, m) # NoAccount
  BY DEF Increased, NoAccount

(* Adding m minutes where the account is stored errs by 303 six-hundredths  *)
(* of a hundredth at most: half a hundredth, and the cut to four decimals.  *)
LEMMA IncreaseErrs ==
  ASSUME NEW a \in Nat, NEW m \in Nat
  PROVE  /\ 600 * Increased(a, m) <= 600 * a + 1000 * m + 303
         /\ 600 * a + 1000 * m <= 600 * Increased(a, m) + 303
  <1>1. PICK q \in Nat : /\ q = (20000 * m + 60) \div 120
                         /\ 120 * q <= 20000 * m + 60 /\ 20000 * m + 60 <= 120 * q + 119
    <2>1. (20000 * m + 60) \div 120 \in Nat
      OBVIOUS
    <2> QED
      BY <2>1
  <1>2. PICK n \in Nat : n = 100 * a + q + 50
    BY <1>1
  <1>3. PICK r \in Nat : r = n \div 100 /\ 100 * r <= n /\ n <= 100 * r + 99
    <2>1. n \div 100 \in Nat
      BY <1>2
    <2> QED
      BY <1>2, <2>1
  <1>4. Increased(a, m) = r
    BY <1>1, <1>2, <1>3 DEF Increased
  <1> QED
    BY <1>1, <1>2, <1>3, <1>4

(* So n corrections leave an account n hundredths away at most.            *)
LEMMA NearIsWithin ==
  ASSUME NEW a \in Nat, NEW h \in Nat, NEW b \in Nat, NEW n \in Nat \ {0},
         600 * a - 1000 * b <= 300 + 303 * n, 1000 * b - 600 * a <= 300 + 303 * n,
         600 * h - 1000 * b <= 300, 1000 * b - 600 * h <= 300
  PROVE  a - h \in -n .. n
  OBVIOUS

LEMMA CorrectionBehaves ==
  ASSUME IInv, NEW s \in Process, WriteCorrection(s)
  PROVE  Behaves(s)
  <1>1. /\ tx[s].op = "CORRECT" /\ tx[s].stage = "ready" /\ TypeOK /\ Ends(s)
        /\ UNCHANGED <<periods, employed, exportRuns, queue>>
    BY DEF WriteCorrection, IInv, At
  <1>2. PICK x \in Person : tx[s].person = {x}
    BY <1>1 DEF IInv, Sound, Shape
  <1>3. PICK p \in Period : tx[s].period = {p}
    BY <1>1 DEF IInv, Sound, Shape, PeriodOps
  <1>4. CorrectionKnows(s, p, x)
    BY <1>1, <1>2, <1>3 DEF IInv, Sound
  <1>5. PICK m \in Nat : m = tx[s].minutes
    BY <1>1 DEF TypeOK, Transaction
  <1>6. PICK a \in Nat : a = Increased(account[x], m) /\ a # NoAccount
    BY <1>4, <1>5, IncreasedIs DEF IInv, CorrectionKnows
  <1>7. /\ booked' = [booked EXCEPT ![x] = booked[x] + m]
        /\ account' = [account EXCEPT ![x] = a]
        /\ added' = [added EXCEPT ![x] = added[x] + 1]
    BY <1>1, <1>2, <1>5, <1>6 DEF WriteCorrection, TypeOK
  <1>8. booked' \in [Person -> 0 .. MaxMinutes]
    BY <1>1, <1>4, <1>5, <1>7, SetsAreSmall DEF TypeOK, CorrectionKnows
  <1>9. TypeOK' /\ \A y \in Person : account'[y] \in Nat \cup {NoAccount}
    BY <1>1, <1>6, <1>7, <1>8, EndsPoints DEF IInv, TypeOK, periods
  <1>10. \A y \in Person : y # x =>
           booked'[y] = booked[y] /\ account'[y] = account[y] /\ added'[y] = added[y]
    BY <1>1, <1>7 DEF TypeOK
  <1>11. Corrects(tx[s].holds, x) /\ x \in tx[s].holds /\ account'[x] # NoAccount
    BY <1>1, <1>4, <1>6, <1>7 DEF Corrects, CorrectionKnows, Covering, Covered, TypeOK
  <1>12. Touches(tx[s].holds)
    BY <1>1, <1>10, <1>11 DEF Touches, periods
  <1>13. ASSUME NEW q \in Period
         PROVE  Signed(q)' /\ Closed(q)'
    <2>1. Signed(q) /\ Closed(q) /\ Covered(q) \subseteq Person
      BY <1>1 DEF IInv, Covered, TypeOK
    <2>2. q # p => CorrectedElsewhere(q, x)
      BY <1>4 DEF CorrectionKnows, CorrectedElsewhere, Covering, Covered
    <2>3. status[p] # "CLOSED"
      BY <1>4 DEF CorrectionKnows
    <2>4. Nearly(q, x) => Nearly(q, x)'
      <3>1. CASE CorrectedElsewhere(q, x)
        BY <1>1, <3>1 DEF Nearly, CorrectedElsewhere, Covering, InScope, periods
      <3>2. CASE Nearly(q, x) /\ ~ CorrectedElsewhere(q, x)
        <4>1. PICK b \in Nat, c \in Nat, n \in Nat :
                b = booked[x] /\ c = account[x] /\ n = added[x]
          BY <1>1, <1>4 DEF CorrectionKnows, IInv, TypeOK
        <4>2. /\ booked'[x] = b + m /\ account'[x] = a /\ added'[x] = n + 1
              /\ a = Increased(c, m)
          BY <1>1, <1>6, <1>7, <4>1 DEF TypeOK
        <4>3. 600 * c - 1000 * b <= 300 + 303 * n /\ 1000 * b - 600 * c <= 300 + 303 * n
          BY <3>2, <4>1 DEF Nearly, Drift
        <4>4. 600 * a <= 600 * c + 1000 * m + 303 /\ 600 * c + 1000 * m <= 600 * a + 303
          <5>1. /\ 600 * Increased(c, m) <= 600 * c + 1000 * m + 303
                /\ 600 * c + 1000 * m <= 600 * Increased(c, m) + 303
            BY IncreaseErrs
          <5> QED
            BY <4>2, <5>1
        <4>5. /\ 600 * a - 1000 * (b + m) <= 300 + 303 * (n + 1)
              /\ - (600 * a - 1000 * (b + m)) <= 300 + 303 * (n + 1)
          BY <4>1, <4>3, <4>4
        <4>6. n + 1 # 0
          BY <4>1
        <4> QED
          BY <4>2, <4>5, <4>6 DEF Nearly, Drift
      <3> QED
        BY <3>1, <3>2
    <2>5. Exactly(q, x) /\ status[q] = "CLOSED" => Exactly(q, x)'
      BY <1>1, <2>2, <2>3 DEF Exactly, CorrectedElsewhere, Covering, InScope, periods
    <2>6. \A y \in Person \ {x} : /\ Exactly(q, y) => Exactly(q, y)'
                                  /\ Nearly(q, y) => Nearly(q, y)'
      BY <1>1, <1>10
      DEF Exactly, Nearly, Drift, CorrectedElsewhere, Covering, InScope, periods
    <2>7. Closed(q)'
      BY <1>1, <1>10, <1>11, <2>1, <2>4, <2>5, <2>6 DEF Closed, Covered, periods
    <2> QED
      BY <1>1, <2>1, <2>7 DEF Signed, periods
  <1> QED
    BY <1>1, <1>9, <1>12, <1>13, EndingBehaves

(* A transaction that ends with nothing written.                           *)
LEMMA NothingBehaves ==
  ASSUME IInv, NEW s \in Process, Ends(s), UNCHANGED <<periods, books, exportRuns>>,
         queue' \in [Scanner -> SUBSET Period]
  PROVE  Behaves(s)
  <1>1. TypeOK' /\ \A x \in Person : account'[x] \in Nat \cup {NoAccount}
    BY EndsPoints DEF IInv, TypeOK, periods, books
  <1>2. Touches(tx[s].holds)
    BY StillTouches
  <1>3. \A p \in Period : Signed(p)' /\ Closed(p)'
    BY DEF IInv, Signed, Closed, Covered, Exactly, Nearly, Drift, CorrectedElsewhere,
           Covering, InScope, periods, books
  <1> QED
    BY <1>1, <1>2, <1>3, EndingBehaves

LEMMA ProgressBehaves ==
  ASSUME IInv, NEW s \in Process, Progress(s)
  PROVE  Behaves(s)
  BY BarrierBehaves, LockingBehaves, BookingBehaves, HireBehaves, PlanningBehaves,
     AccountsBehave, ReviewBehaves, ReopenBehaves, PostCloseBehaves, LeadBehaves,
     PreviewedBehaves, ApproveLockBehaves, ReadPlanBehaves, ReadCoverageBehaves,
     ApproveBehaves, BuildingBehaves, ExportBehaves, CorrectionBehaves DEF Progress

-----------------------------------------------------------------------------
(* The invariant.                                                          *)

(* A step without a transaction: a scan looks around, or a workflow is     *)
(* decided.                                                                *)
LEMMA OutsideKeeps ==
  ASSUME IInv, UNCHANGED <<tx, books, exportRuns, status, leadApproved, hrApproved>>,
         workflow' \in [Period -> SUBSET {"PENDING", "APPROVED"}],
         \A p \in Period : "APPROVED" \in workflow[p] => "APPROVED" \in workflow'[p],
         queue' \in [Scanner -> SUBSET Period]
  PROVE  IInv'
  <1>1. TypeOK' /\ \A x \in Person : account'[x] \in Nat \cup {NoAccount}
    BY DEF IInv, TypeOK, books
  <1>2. Touches({})
    BY DEF Touches, books
  <1>3. ASSUME NEW t \in Process
        PROVE  Sound(t)'
    BY <1>1, <1>2, OthersUndisturbed DEF Undisturbed
  <1>4. Exclusive'
    BY DEF IInv, Exclusive
  <1>5. ASSUME NEW p \in Period
        PROVE  Signed(p)' /\ Closed(p)'
    <2>1. Signed(p) /\ Closed(p) /\ Covered(p) \subseteq Person
      BY DEF IInv, Covered, TypeOK
    <2>2. \A x \in Person : /\ Exactly(p, x) => Exactly(p, x)'
                            /\ Nearly(p, x) => Nearly(p, x)'
      BY <1>2, CorrectedStays DEF Exactly, Nearly, Drift, books
    <2>3. Closed(p)'
      BY <2>1, <2>2 DEF Closed, Covered, books
    <2> QED
      BY <2>1, <2>3 DEF Signed
  <1> QED
    BY <1>1, <1>3, <1>4, <1>5 DEF IInv

LEMMA DecidingKeeps ==
  ASSUME IInv, NEW p \in Period, NEW approved \in BOOLEAN, DecideWorkflow(p, approved)
  PROVE  IInv'
  <1>1. PICK set : set = (workflow[p] \ {"PENDING"}) \cup (IF approved THEN {"APPROVED"} ELSE {})
    OBVIOUS
  <1>2. /\ UNCHANGED <<tx, books, exportRuns, status, leadApproved, hrApproved>>
        /\ queue' \in [Scanner -> SUBSET Period]
    BY DEF DecideWorkflow, IInv, TypeOK
  <1>3. /\ workflow' \in [Period -> SUBSET {"PENDING", "APPROVED"}]
        /\ \A q \in Period : "APPROVED" \in workflow[q] => "APPROVED" \in workflow'[q]
    <2>1. workflow \in [Period -> SUBSET {"PENDING", "APPROVED"}]
      BY DEF IInv, TypeOK
    <2>2. /\ set \in SUBSET {"PENDING", "APPROVED"}
          /\ "APPROVED" \in workflow[p] => "APPROVED" \in set
      BY <1>1, <2>1
    <2>3. workflow' = [workflow EXCEPT ![p] = set]
      BY <1>1 DEF DecideWorkflow
    <2> QED
      BY <2>1, <2>2, <2>3
  <1> QED
    BY <1>2, <1>3, OutsideKeeps

LEMMA LookingKeeps ==
  ASSUME IInv, NEW c \in Scanner, StartScan(c) \/ ScanBusy(c)
  PROVE  IInv'
  <1>1. UNCHANGED <<tx, books, exportRuns, status, leadApproved, hrApproved, workflow>>
    BY DEF StartScan, ScanBusy, periods
  <1>2. /\ queue' \in [Scanner -> SUBSET Period]
        /\ workflow' \in [Period -> SUBSET {"PENDING", "APPROVED"}]
    BY SetsAreSmall DEF StartScan, ScanBusy, IInv, TypeOK, periods
  <1> QED
    BY <1>1, <1>2, OutsideKeeps

LEMMA ScanStepKeeps ==
  ASSUME IInv, NEW c \in Scanner, ScanStep(c) \/ ScanFails(c)
  PROVE  IInv'
  <1>1. c \in Process
    BY DEF Process
  <1>2. CASE StartScan(c) \/ ScanBusy(c)
    BY <1>2, LookingKeeps
  <1>3. CASE ScanAborted(c) \/ ScanFails(c)
    <2>1. Ends(c) /\ UNCHANGED <<periods, books, exportRuns>>
      BY <1>3 DEF ScanAborted, ScanFails
    <2>2. queue' \in [Scanner -> SUBSET Period]
      BY <1>3 DEF ScanAborted, ScanFails, IInv, TypeOK
    <2> QED
      BY <1>1, <2>1, <2>2, NothingBehaves, BehavingKeeps
  <1>4. CASE ScanLock(c) \/ ScanPopulation(c) \/ ScanCommit(c)
    BY <1>1, <1>4, ScanLockBehaves, ScanPopulationBehaves, ScanCommitBehaves, BehavingKeeps
  <1> QED
    BY <1>2, <1>3, <1>4 DEF ScanStep

LEMMA StepKeeps == IInv /\ [Next]_vars => IInv'
  <1> SUFFICES ASSUME IInv, [Next]_vars
      PROVE  IInv'
    OBVIOUS
  <1>1. ASSUME NEW s \in Request, Arrival(s) \/ Progress(s)
        PROVE  IInv'
    BY <1>1, ArrivalBehaves, ProgressBehaves, BehavingKeeps DEF Process
  <1>2. ASSUME NEW s \in Request, Rollback(s)
        PROVE  IInv'
    <2>1. Ends(s) /\ UNCHANGED <<periods, books, exportRuns>> /\ s \in Process
      BY <1>2 DEF Rollback, Process
    <2>2. queue' \in [Scanner -> SUBSET Period]
      BY <1>2 DEF Rollback, IInv, TypeOK
    <2> QED
      BY <2>1, <2>2, NothingBehaves, BehavingKeeps
  <1>3. CASE UNCHANGED vars
    <2>1. /\ UNCHANGED <<tx, books, exportRuns, status, leadApproved, hrApproved, workflow>>
          /\ queue' = queue
      BY <1>3 DEF vars, periods
    <2> QED
      BY <2>1, OutsideKeeps DEF IInv, TypeOK
  <1> QED
    BY <1>1, <1>2, <1>3, ScanStepKeeps, DecidingKeeps DEF Next

LEMMA InitKeeps == Init => IInv
  <1> SUFFICES ASSUME Init
      PROVE  IInv
    OBVIOUS
  <1>1. Idle \in Transaction
    BY SetsAreSmall DEF Idle, Transaction, Op, Stage, Status, Plan, NoPlan, Rows, NoRows, NoAccount
  <1>2. TypeOK
    BY <1>1, SetsAreSmall DEF Init, TypeOK, Status, NoAccount
  <1>3. \A s \in Process : tx[s] = Idle
    BY DEF Init
  <1>4. Idle.op = "NONE" /\ Idle.stage = "begin" /\ Idle.holds = {}
    BY DEF Idle
  <1>5. Exclusive
    BY <1>3, <1>4 DEF Exclusive
  <1>6. \A s \in Process : Sound(s)
    BY <1>3, <1>4, TransitionsAre DEF Sound, Shape, WriteOps, PeriodOps
  <1>7. \A p \in Period : Signed(p) /\ Closed(p)
    BY DEF Init, Signed, Closed
  <1> QED
    BY <1>2, <1>5, <1>6, <1>7 DEF IInv, Init

LEMMA AlwaysSound == Spec => []IInv
  BY InitKeeps, StepKeeps, PTL DEF Spec

(* Every variable has its type, whatever the interleaving of requests,     *)
(* scans and workflow decisions.                                           *)
THEOREM ClosingTyped == Spec => []TypeOK
  BY AlwaysSound, PTL DEF IInv

(* At any time at most one transaction holds an advisory lock.             *)
THEOREM LocksExclude == Spec => []Exclusive
  BY AlwaysSound, PTL DEF IInv

LEMMA ExactMatches ==
  ASSUME IInv, NEW p \in Period, NEW x \in Person, status[p] # "EXPORTED", Exactly(p, x)
  PROVE  Matches(p, x)
  <1>1. CASE account[x] = Hundredths(booked[x])
    <2>1. booked[x] \in Nat /\ Hundredths(booked[x]) \in Nat
      BY HundredthsAre DEF IInv, TypeOK
    <2>2. account[x] - Hundredths(booked[x]) \in -0 .. 0
      BY <1>1, <2>1
    <2> QED
      BY <2>2 DEF Matches, Within
  <1> QED
    BY <1>1 DEF Exactly, Matches

LEMMA NearMatches ==
  ASSUME IInv, NEW p \in Period, NEW x \in Person, status[p] = "EXPORTED",
         account[x] # NoAccount, Nearly(p, x)
  PROVE  Matches(p, x)
  <1>1. PICK b \in Nat, a \in Nat, n \in Nat : b = booked[x] /\ a = account[x] /\ n = added[x]
    BY DEF IInv, TypeOK
  <1>2. PICK h \in Nat : /\ h = Hundredths(b)
                         /\ 600 * h - 1000 * b <= 300 /\ 1000 * b - 600 * h <= 300
    <2>1. Hundredths(b) \in Nat
      BY HundredthsAre
    <2>2. 600 * Hundredths(b) - 1000 * b <= 300 /\ 1000 * b - 600 * Hundredths(b) <= 300
      BY NearestHundredth
    <2> QED
      BY <2>1, <2>2
  <1>3. CASE ~ CorrectedElsewhere(p, x)
    <2>1. /\ n = 0 => a = h
          /\ 600 * a - 1000 * b <= 300 + 303 * n /\ 1000 * b - 600 * a <= 300 + 303 * n
      BY <1>1, <1>2, <1>3 DEF Nearly, Drift
    <2>2. a - h \in -n .. n
      <3>1. CASE n = 0
        BY <2>1, <3>1
      <3>2. CASE n # 0
        BY <1>2, <2>1, <3>2, NearIsWithin
      <3> QED
        BY <3>1, <3>2
    <2> QED
      BY <1>1, <1>2, <2>2 DEF Matches, Within
  <1> QED
    BY <1>3 DEF Matches

(* In a CLOSED or EXPORTED period nobody the period covers lacks an         *)
(* account.  In a CLOSED one every account is what a recalculation would    *)
(* give, and in an EXPORTED one at most one hundredth away for each         *)
(* correction added to it, whatever the length of the bookings; only a      *)
(* correction approved for another period may have come in between.         *)
THEOREM ClosedStaysComplete == Spec => []ClosedIsComplete
  <1>1. ASSUME IInv, NEW p \in Period, status[p] \in {"CLOSED", "EXPORTED"},
               NEW x \in Covered(p)
        PROVE  account[x] # NoAccount /\ Matches(p, x)
    <2>1. x \in Person /\ account[x] # NoAccount
      BY <1>1 DEF IInv, TypeOK, Covered, Closed
    <2>2. CASE status[p] = "CLOSED"
      BY <1>1, <2>1, <2>2, ExactMatches DEF IInv, Closed
    <2>3. CASE status[p] = "EXPORTED"
      BY <1>1, <2>1, <2>3, NearMatches DEF IInv, Closed
    <2> QED
      BY <1>1, <2>1, <2>2, <2>3
  <1>2. IInv => ClosedIsComplete
    BY <1>1 DEF ClosedIsComplete
  <1> QED
    BY <1>2, AlwaysSound, PTL

LEMMA EveryStepTouches ==
  ASSUME IInv, Next
  PROVE  \E h : Touches(h)
  <1>1. ASSUME NEW s \in Request, Arrival(s) \/ Progress(s)
        PROVE  \E h : Touches(h)
    BY <1>1, ArrivalBehaves, ProgressBehaves DEF Behaves, Process
  <1>2. ASSUME NEW c \in Scanner, ScanLock(c) \/ ScanPopulation(c) \/ ScanCommit(c)
        PROVE  \E h : Touches(h)
    BY <1>2, ScanLockBehaves, ScanPopulationBehaves, ScanCommitBehaves DEF Behaves, Process
  <1>3. ASSUME UNCHANGED <<periods, books>>
        PROVE  \E h : Touches(h)
    BY <1>3, StillTouches
  <1>4. ASSUME NEW s, Rollback(s) \/ StartScan(s) \/ ScanBusy(s) \/ ScanAborted(s) \/ ScanFails(s)
        PROVE  UNCHANGED <<periods, books>>
    BY <1>4 DEF Rollback, StartScan, ScanBusy, ScanAborted, ScanFails
  <1>5. ASSUME NEW p \in Period, NEW approved \in BOOLEAN, DecideWorkflow(p, approved)
        PROVE  \E h : Touches(h)
    <2>1. \A q \in Period : "APPROVED" \in workflow[q] => "APPROVED" \in workflow'[q]
      <3>1. workflow \in [Period -> SUBSET {"PENDING", "APPROVED"}]
        BY DEF IInv, TypeOK
      <3>2. PICK set : /\ workflow' = [workflow EXCEPT ![p] = set]
                       /\ workflow[p] \ {"PENDING"} \subseteq set
        BY <1>5 DEF DecideWorkflow
      <3> QED
        BY <3>1, <3>2
    <2>2. Touches({})
      BY <1>5, <2>1 DEF Touches, DecideWorkflow, books
    <2> QED
      BY <2>2
  <1> QED
    BY <1>1, <1>2, <1>3, <1>4, <1>5 DEF Next, ScanStep

(* The bookings of a person change, and a person joins, only while every   *)
(* covering period is OPEN or under an approved correction: no write that  *)
(* found the periods OPEN before it locked them gets through.              *)
THEOREM BooksMoveByCorrection == Spec => LockedBooksMoveByCorrection
  <1> DEFINE Allowed(x) ==
        \/ \A p \in Covering(x) : ~ Locked(p)
        \/ \E p \in Covering(x) : status[p] \in {"REVIEW", "EXPORTED"} /\ "APPROVED" \in workflow[p]
  <1>1. ASSUME IInv, Next, NEW x \in Person,
               booked'[x] # booked[x] \/ (x \in employed') # (x \in employed)
        PROVE  Allowed(x)
    <2>1. PICK h : Touches(h)
      BY <1>1, EveryStepTouches
    <2>2. Fences(h, x) \/ Corrects(h, x)
      <3>1. CASE booked'[x] # booked[x]
        BY <2>1, <3>1 DEF Touches
      <3>2. CASE x \in employed' /\ x \notin employed
        BY <2>1, <3>2 DEF Touches
      <3>3. CASE x \notin employed' /\ x \in employed
        BY <2>1, <3>3 DEF Touches
      <3> QED
        BY <1>1, <3>1, <3>2, <3>3
    <2> QED
      BY <2>2 DEF Fences, Corrects
  <1>2. IInv /\ [Next]_vars =>
          [\A x \in Person :
             (booked'[x] # booked[x] \/ (x \in employed') # (x \in employed)) =>
               \/ \A p \in Covering(x) : ~ Locked(p)
               \/ \E p \in Covering(x) : /\ status[p] \in {"REVIEW", "EXPORTED"}
                                        /\ "APPROVED" \in workflow[p]]_vars
    BY <1>1
  <1> QED
    BY <1>2, AlwaysSound, PTL DEF Spec, LockedBooksMoveByCorrection

(* The commits that write the status or the signatures of a period.        *)
Transits(s) ==
  \/ StartReview(s) \/ Reopen(s) \/ PostCloseCorrection(s) \/ LeadApprove(s)
  \/ Approve(s) \/ (\E f \in Format : Export(s, f)) \/ ScanCommit(s)

LEMMA StatusSteps ==
  ASSUME Next
  PROVE  \/ UNCHANGED <<status, leadApproved, hrApproved>>
         \/ \E s \in Process : Transits(s)
  <1>1. ASSUME NEW s \in Request, Arrival(s) \/ Rollback(s)
        PROVE  UNCHANGED <<status, leadApproved, hrApproved>>
    <2>1. ASSUME NEW x, NEW m, AskBooking(s, x, m) \/ AskHire(s, x) \/ Rollback(s)
          PROVE  UNCHANGED periods
      BY <2>1 DEF AskBooking, AskHire, Rollback
    <2>2. ASSUME NEW p, NEW op, NEW x, NEW m,
                 \/ PrepareLock(s, p) \/ LeadLock(s, p) \/ ApprovePreview(s, p) \/ ExportLock(s, p)
                 \/ MoveLock(s, op, p) \/ CorrectionLock(s, p, x, m)
          PROVE  UNCHANGED periods
      BY <2>2 DEF PrepareLock, LeadLock, ApprovePreview, ExportLock, MoveLock, CorrectionLock
    <2>3. UNCHANGED periods
      BY <1>1, <2>1, <2>2 DEF Arrival
    <2> QED
      BY <2>3 DEF periods
  <1>2. ASSUME NEW s \in Request, Progress(s)
        PROVE  UNCHANGED <<status, leadApproved, hrApproved>> \/ Transits(s)
    BY <1>2 DEF Progress, Transits, Barrier, LockWriter, WriteBooking, WriteHire, PreparePlan,
                WriteAccounts, ApprovePreviewed, ApproveLock, ReadPlan, ReadCoverage,
                BuildArtifact, WriteCorrection, periods
  <1>3. ASSUME NEW c \in Scanner, ScanStep(c) \/ ScanFails(c)
        PROVE  UNCHANGED <<status, leadApproved, hrApproved>> \/ Transits(c)
    BY <1>3 DEF ScanStep, Transits, StartScan, ScanLock, ScanBusy, ScanPopulation, ScanAborted,
                ScanFails, periods
  <1>4. ASSUME NEW p \in Period, NEW approved \in BOOLEAN, DecideWorkflow(p, approved)
        PROVE  UNCHANGED <<status, leadApproved, hrApproved>>
    BY <1>4 DEF DecideWorkflow
  <1> QED
    BY <1>1, <1>2, <1>3, <1>4 DEF Next, Process

(* The run that an export stores when it moves its period to EXPORTED      *)
(* holds the accounts as they are at that moment, for exactly the people   *)
(* covered, but for corrections approved for another period.               *)
THEOREM ExportsAreTrue == Spec => ExportShowsTheBooks
  <1> DEFINE Stored(p) == \E r \in exportRuns' :
               /\ r.period = p
               /\ \A x \in Person : x \notin Covered(p) => r.rows[x] = NoAccount
               /\ \A x \in Covered(p) :
                    \/ r.rows[x] = account[x]
                    \/ CorrectedElsewhere(p, x)
  <1>1. ASSUME IInv, Next, NEW p \in Period, status[p] # "EXPORTED", status'[p] = "EXPORTED"
        PROVE  Stored(p)
    <2>1. status \in [Period -> Status]
      BY <1>1 DEF IInv, TypeOK
    <2>2. PICK s \in Process : Transits(s)
      BY <1>1, StatusSteps
    <2>3. ~ (StartReview(s) \/ Reopen(s) \/ PostCloseCorrection(s) \/ LeadApprove(s))
      BY <1>1, <2>1, ReviewWrites, ReopenWrites, PostCloseWrites, LeadWrites
    <2>4. ~ (Approve(s) \/ ScanCommit(s))
      BY <1>1, <2>1, ApproveWrites, ScanWrites
    <2>5. PICK f \in Format : Export(s, f)
      BY <2>2, <2>3, <2>4 DEF Transits
    <2>6. PICK q \in Period :
            /\ ExportKnows(s, q) /\ tx[s].stage = "ready"
            /\ status' = [status EXCEPT ![q] = "EXPORTED"]
            /\ exportRuns' = [period : {q}, format : {f}, rows : {tx[s].rows}]
      BY <1>1, <2>5, ExportWrites
    <2>7. q = p
      BY <1>1, <2>1, <2>6
    <2> DEFINE rows == tx[s].rows
               r == [period |-> p, format |-> f, rows |-> rows]
    <2>8. /\ \A x \in Covered(p) : rows[x] = account[x] \/ CorrectedElsewhere(p, x)
          /\ \A x \in Person : x \notin Covered(p) => rows[x] = NoAccount
      BY <2>6, <2>7 DEF ExportKnows, Shows
    <2>9. r \in exportRuns'
      BY <2>6, <2>7
    <2> HIDE DEF rows
    <2> QED
      BY <2>8, <2>9
  <1>2. IInv /\ [Next]_vars =>
          [\A p \in Period : (status[p] # "EXPORTED" /\ status'[p] = "EXPORTED") => Stored(p)]_vars
    BY <1>1
  <1> QED
    BY <1>2, AlwaysSound, PTL DEF Spec, ExportShowsTheBooks

-----------------------------------------------------------------------------
(* The promise.                                                            *)

LEMMA EachTransitIsPromised ==
  ASSUME IInv, NEW s \in Process, Transits(s)
  PROVE  [Promise!Next]_<<status, leadApproved, hrApproved>>
  <1>1. CASE StartReview(s)
    <2>1. PICK p \in Period :
            /\ status[p] = "OPEN" /\ status' = [status EXCEPT ![p] = "REVIEW"]
            /\ UNCHANGED <<leadApproved, hrApproved>>
      BY <1>1, ReviewWrites
    <2>2. Promise!Review(p)
      BY <2>1 DEF IInv, Signed, Promise!Review, Promise!Moves
    <2> QED
      BY <2>2 DEF Promise!Next
  <1>2. CASE Reopen(s)
    <2>1. PICK p \in Period :
            /\ status[p] \in {"REVIEW", "CLOSED"} /\ status' = [status EXCEPT ![p] = "OPEN"]
            /\ leadApproved' = [leadApproved EXCEPT ![p] = FALSE]
            /\ hrApproved' = [hrApproved EXCEPT ![p] = FALSE]
      BY <1>2, ReopenWrites
    <2>2. Promise!Reopen(p)
      BY <2>1 DEF Promise!Reopen, Promise!Moves
    <2> QED
      BY <2>2 DEF Promise!Next
  <1>3. CASE PostCloseCorrection(s)
    <2>1. PICK p \in Period :
            /\ status[p] = "EXPORTED" /\ status' = [status EXCEPT ![p] = "REVIEW"]
            /\ hrApproved' = [hrApproved EXCEPT ![p] = FALSE]
            /\ leadApproved' = leadApproved
      BY <1>3, PostCloseWrites
    <2>2. Promise!Correct(p)
      BY <2>1 DEF Promise!Correct, Promise!Moves
    <2> QED
      BY <2>2 DEF Promise!Next
  <1>4. CASE LeadApprove(s)
    <2>1. PICK p \in Period :
            /\ status[p] = "REVIEW" /\ Scope[p] # Everyone
            /\ leadApproved' = [leadApproved EXCEPT ![p] = TRUE]
            /\ UNCHANGED <<status, hrApproved>>
      BY <1>4, LeadWrites
    <2>2. Promise!Sign(p)
      BY <2>1 DEF Promise!Sign
    <2> QED
      BY <2>2 DEF Promise!Next
  <1>5. CASE Approve(s)
    <2>1. PICK p \in Period :
            /\ ApprovalKnows(s, p) /\ tx[s].stage = "ready"
            /\ status' = [status EXCEPT ![p] = "CLOSED"]
            /\ hrApproved' = [hrApproved EXCEPT ![p] = TRUE]
            /\ leadApproved' = leadApproved
      BY <1>5, ApproveWrites
    <2>2. /\ status[p] = "REVIEW" /\ (Scope[p] # Everyone => leadApproved[p])
      BY <2>1 DEF ApprovalKnows
    <2>3. \A x \in Covered(p) : Matches(p, x)
      BY <2>1, <2>2, ExactMatches DEF ApprovalKnows, Covered, IInv, TypeOK
    <2>4. Promise!Approve(p)
      BY <2>1, <2>2, <2>3 DEF Promise!Approve, Promise!Moves
    <2> QED
      BY <2>4 DEF Promise!Next
  <1>6. CASE \E f \in Format : Export(s, f)
    <2>1. PICK p \in Period :
            /\ ExportKnows(s, p) /\ tx[s].stage = "ready"
            /\ status' = [status EXCEPT ![p] = "EXPORTED"]
            /\ UNCHANGED <<leadApproved, hrApproved>>
      BY <1>6, ExportWrites
    <2>2. status[p] \in {"CLOSED", "EXPORTED"} /\ status \in [Period -> Status]
      BY <2>1 DEF ExportKnows, IInv, TypeOK
    <2>3. CASE status[p] = "CLOSED"
      <3>1. hrApproved[p] /\ \A x \in Covered(p) : Matches(p, x)
        BY <2>3, ExactMatches DEF IInv, Signed, Closed, Covered, TypeOK
      <3>2. Promise!Export(p)
        BY <2>1, <2>3, <3>1 DEF Promise!Export, Promise!Moves
      <3> QED
        BY <3>2 DEF Promise!Next
    <2>4. CASE status[p] = "EXPORTED"
      <3>1. status' = status
        BY <2>1, <2>2, <2>4
      <3> QED
        BY <2>1, <3>1
    <2> QED
      BY <2>2, <2>3, <2>4
  <1>7. CASE ScanCommit(s)
    <2>1. PICK p \in Period :
            /\ \/ status' = status
               \/ status[p] = "OPEN" /\ status' = [status EXCEPT ![p] = "REVIEW"]
            /\ UNCHANGED <<leadApproved, hrApproved>>
      BY <1>7, ScanWrites
    <2>2. CASE status' = status
      BY <2>1, <2>2
    <2>3. CASE status[p] = "OPEN" /\ status' = [status EXCEPT ![p] = "REVIEW"]
      <3>1. Promise!Review(p)
        BY <2>1, <2>3 DEF IInv, Signed, Promise!Review, Promise!Moves
      <3> QED
        BY <3>1 DEF Promise!Next
    <2> QED
      BY <2>1, <2>2, <2>3
  <1> QED
    BY <1>1, <1>2, <1>3, <1>4, <1>5, <1>6, <1>7 DEF Transits

(* With all its locks, reads and commits in between, the closing is the    *)
(* state machine of ClosingPromise: every transition leaves from the       *)
(* status, the signatures and the accounts as they are at its commit.      *)
THEOREM PromiseIsKept == Spec => KeepsPromise
  <1>1. Init => Promise!Init
    BY DEF Init, Promise!Init
  <1>2. IInv /\ [Next]_vars => [Promise!Next]_<<status, leadApproved, hrApproved>>
    <2> SUFFICES ASSUME IInv, [Next]_vars
        PROVE  [Promise!Next]_<<status, leadApproved, hrApproved>>
      OBVIOUS
    <2>1. CASE UNCHANGED vars
      BY <2>1 DEF vars, periods
    <2>2. CASE Next
      BY <2>2, StatusSteps, EachTransitIsPromised
    <2> QED
      BY <2>1, <2>2
  <1> QED
    BY <1>1, <1>2, AlwaysSound, PTL DEF Spec, KeepsPromise, Promise!Spec
=============================================================================
