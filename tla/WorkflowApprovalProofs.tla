------------------------ MODULE WorkflowApprovalProofs ------------------------
(***************************************************************************)
(* Proofs about approval workflows, for any people, policies, workflows and *)
(* bookings, and any number of requests and scans at once.  What a         *)
(* transaction has read about a person stays true while it holds the       *)
(* person's lock, what it has read of a workflow while it holds the row;   *)
(* everything else is compared again before it is written.                 *)
(***************************************************************************)
EXTENDS WorkflowApproval, FiniteSetTheorems, WellFoundedInduction, TLAPS

(* Who may be asked to approve what they requested.                        *)
MayBeOwn(x) == HrLike(x) \/ Supervisor[x] = x

(* What is true of a row from the moment it is built.                      *)
RowSound(row) ==
  /\ row.status # "NONE"
  /\ row.type \in DOMAIN Allowed /\ row.requester \in Person /\ row.of \in Person
  /\ row.type = "LEAVE_REQUEST" => row.day \in Day
  /\ row.type = "BOOKING_CORRECTION" =>
       row.booking \in Booking /\ row.of = BookedBy[row.booking] /\ row.day \in Day
  /\ row.status \in Open =>
       /\ row.approver \in row.trail \cup {None}
       /\ row.approver = row.requester => MayBeOwn(row.requester)

(* A snapshot of w: what never changes in a row is as it is in w.          *)
SnapshotOf(row, w) ==
  /\ w \in Created /\ RowSound(row)
  /\ row.type = workflow[w].type /\ row.requester = workflow[w].requester
  /\ row.of = workflow[w].of /\ row.day = workflow[w].day /\ row.booking = workflow[w].booking

CreationKnows(s) ==
  LET row == tx[s].row IN
  /\ RowSound(row) /\ row.status = "PENDING"
  /\ Routing \in tx[s].holds /\ Created # Workflow
  /\ row.type = "LEAVE_REQUEST" => row.of \in tx[s].holds /\ ~ OffOn(row.of, row.day)

BookingKnows(s) ==
  LET b == tx[s].row.booking IN
  /\ b \in Booking /\ tx[s].row.day \in Day
  /\ BookedBy[b] \in tx[s].holds
  /\ ~ BookedOn(BookedBy[b], tx[s].row.day, Booking)

DecisionKnows(s) ==
  LET row == tx[s].row
      action == tx[s].action IN
  /\ action \in DOMAIN Outcome \cup {"DELEGATE"}
  /\ row.status \in Open /\ SnapshotOf(row, tx[s].id)
  /\ MayAct(row, action, tx[s].actor)
  /\ GuardKeys(row, action) \subseteq tx[s].holds
  /\ action = "DELEGATE" => tx[s].to \in Person \ {row.requester}
  /\ tx[s].stage = "applied" =>
       /\ tx[s].id \in tx[s].holds /\ workflow[tx[s].id] = row
       /\ row.type = "BOOKING_CORRECTION" /\ action = "APPROVE" =>
            ~ BookedOn(row.of, row.day, Booking \ {row.booking})
       /\ row.type = "OVERTIME_APPROVAL" /\ action = "APPROVE" =>
            tx[s].hours = overtime[row.of]

WithdrawalKnows(s) ==
  /\ tx[s].id \in Created /\ workflow[tx[s].id].of \in tx[s].holds
  /\ absence[tx[s].id] \in {"REQUESTED", "APPROVED"}

EscalationKnows(s) ==
  LET row == tx[s].row IN
  /\ row.status = "PENDING" /\ SnapshotOf(row, tx[s].id)
  /\ tx[s].to = row.approver \/ tx[s].to \in (Person \cup {None}) \ {row.requester}

Sound(s) ==
  /\ tx[s].op = "NONE" => tx[s].holds = {}
  /\ tx[s].op = "CREATE" => CreationKnows(s)
  /\ tx[s].op = "BOOK" => BookingKnows(s)
  /\ tx[s].op = "DECIDE" => DecisionKnows(s)
  /\ tx[s].op = "WITHDRAW" => WithdrawalKnows(s)
  /\ tx[s].op = "ESCALATE" => EscalationKnows(s)

(* A leave request and its absence.                                        *)
SameStory(w) ==
  IF workflow[w].type # "LEAVE_REQUEST" THEN absence[w] = "NONE"
  ELSE /\ workflow[w].status \in Open => absence[w] = "REQUESTED"
       /\ workflow[w].status = "APPROVED" => absence[w] \in {"APPROVED", "CANCELLED"}
       /\ workflow[w].status \in {"REJECTED", "CANCELLED"} => absence[w] = workflow[w].status

WorkflowSound(w) ==
  /\ w \notin Created => workflow[w] = NoRow /\ absence[w] = "NONE"
  /\ w \in Created => RowSound(workflow[w]) /\ SameStory(w)

Granted(x) == {w \in Created : /\ workflow[w].type = "OVERTIME_APPROVAL"
                               /\ workflow[w].status = "APPROVED"
                               /\ workflow[w].of = x}

IInv ==
  /\ TypeOK
  /\ \A s \in Process : Sound(s)
  /\ \A w \in Workflow : WorkflowSound(w)
  /\ \A x \in Person : overtime[x] = Cardinality(Granted(x))
  /\ NothingOverlaps

-----------------------------------------------------------------------------
(* The routing: who is found, and who can be found.                         *)

LEMMA LessIs == OpToRel(<, Nat) = {p \in Nat \X Nat : p[1] < p[2]}
  BY Zenon DEF OpToRel

LEMMA LeastIs ==
  ASSUME NEW W, W \subseteq Nat, W # {}
  PROVE  Least(W) \in W
  <1> DEFINE less == {p \in Nat \X Nat : p[1] < p[2]}
  <1>0. IsWellFoundedOn(less, Nat)
    BY NatLessThanWellFounded, LessIs, Zenon
  <1> HIDE DEF less
  <1>1. \E w \in W : \A v \in W : ~ (<<v, w>> \in less)
    BY <1>0, WFMin
  <1>2. \A v, w \in Nat : <<v, w>> \in less <=> v < w
    BY DEF less
  <1>3. PICK w \in W : \A v \in W : ~ (<<v, w>> \in less)
    BY <1>1
  <1>4. ASSUME NEW v \in W PROVE w <= v
    <2>1. v \in Nat /\ w \in Nat
      OBVIOUS
    <2>2. ~ (v < w)
      BY <1>2, <1>3, <2>1
    <2> QED
      BY <2>1, <2>2
  <1> QED
    BY <1>3, <1>4 DEF Least

LEMMA EarliestIs ==
  ASSUME NEW people
  PROVE  Earliest(people) = None \/ Earliest(people) \in Person \cap people
  <1> DEFINE at == {i \in DOMAIN Joined : Joined[i] \in people}
  <1>1. at \subseteq Nat /\ \A i \in at : Joined[i] \in Person \cap people
    BY PeopleAreKnown
  <1>2. Earliest(people) = IF at = {} THEN None ELSE Joined[Least(at)]
    BY DEF Earliest
  <1> HIDE DEF at
  <1>3. CASE at = {}
    BY <1>2, <1>3
  <1>4. CASE at # {}
    BY <1>1, <1>2, <1>4, LeastIs
  <1> QED
    BY <1>3, <1>4

LEMMA FirstPersonIs ==
  ASSUME NEW roles, NEW units, NEW excluded
  PROVE  LET x == FirstPerson(roles, units, excluded) IN
         x = None \/ (x \in Person \ excluded /\ RoleOf[x] \in roles)
  <1> DEFINE all == {x \in Person : RoleOf[x] \in roles} \ excluded
             here == {x \in all : UnitOf[x] \in units}
  <1>1. FirstPerson(roles, units, excluded) = IF here # {} THEN Earliest(here) ELSE Earliest(all)
    BY DEF FirstPerson
  <1>2. here \subseteq all /\ \A x \in all : x \in Person \ excluded /\ RoleOf[x] \in roles
    OBVIOUS
  <1> HIDE DEF here, all
  <1>3. Earliest(here) = None \/ Earliest(here) \in here
    BY EarliestIs
  <1>4. Earliest(all) = None \/ Earliest(all) \in all
    BY EarliestIs
  <1> QED
    BY <1>1, <1>2, <1>3, <1>4

(* Delegation leaves the primary approver or finds someone who is not the   *)
(* requester.                                                               *)
LEMMA DelegatedIs ==
  ASSUME NEW type, NEW primary, NEW requester, NEW unit
  PROVE  Delegated(type, primary, requester, unit) \in (Person \ {requester}) \cup {primary}
  <1> DEFINE chain == Chain(type, primary, unit)
             fits == {n \in 1 .. MaxDepth - 1 :
                        /\ chain[n] \in Person \ {requester}
                        /\ \A m \in 0 .. n - 1 : chain[m] # chain[n]}
  <1>1. Delegated(type, primary, requester, unit) = IF fits = {} THEN primary ELSE chain[Least(fits)]
    BY DEF Delegated
  <1>2. fits \subseteq Nat /\ \A n \in fits : chain[n] \in Person \ {requester}
    BY NumbersAreSmall
  <1> HIDE DEF fits, chain
  <1>3. fits # {} => Least(fits) \in fits
    BY <1>2, LeastIs
  <1> QED
    BY <1>1, <1>2, <1>3

(* A request is routed to its requester only on the word of a supervisor    *)
(* record or because nobody but HR is left.                                 *)
LEMMA RoutedIs ==
  ASSUME NEW type, NEW requester \in Person, NEW preferred \in Person \cup {None}, NEW of
  PROVE  LET x == Routed(type, requester, preferred, of) IN
         /\ x \in Person \cup {None}
         /\ x = requester => preferred = requester \/ HrLike(requester)
  <1> DEFINE base == BaseApprover(type, requester, preferred, UnitOf[of])
             lead == FirstPerson({"TEAM_LEAD"}, {UnitOf[of]}, {requester})
             hr == FirstPerson({"HR", "ADMIN"}, {}, {requester})
             last == FirstPerson({"HR", "ADMIN"}, {UnitOf[of]}, {})
  <1>1. /\ Routed(type, requester, preferred, of) =
             IF base = None THEN None ELSE Delegated(type, base, requester, UnitOf[of])
        /\ base = IF preferred # None THEN preferred
                  ELSE IF type = "POST_CLOSE_CORRECTION" THEN hr
                  ELSE IF lead # None THEN lead ELSE last
    BY DEF Routed, BaseApprover
  <1>2. lead = None \/ lead \in Person \ {requester}
    BY FirstPersonIs
  <1>3. hr = None \/ hr \in Person \ {requester}
    BY FirstPersonIs
  <1>4. last = None \/ (last \in Person /\ HrLike(last))
    BY FirstPersonIs DEF HrLike
  <1>5. Delegated(type, base, requester, UnitOf[of]) \in (Person \ {requester}) \cup {base}
    BY DelegatedIs
  <1> HIDE DEF base, lead, hr, last
  <1>6. base \in Person \cup {None} /\ (base = requester => preferred = requester \/ HrLike(requester))
    BY <1>1, <1>2, <1>3, <1>4
  <1> QED
    BY <1>1, <1>5, <1>6

-----------------------------------------------------------------------------
(* Writing a transaction.                                                   *)

OthersWait(s) == \A r \in Process \ {s} : tx'[r] = tx[r]

LEMMA TypesAre ==
  /\ NoRow \in Row /\ Idle \in Tx
  /\ DOMAIN Outcome = {"APPROVE", "REJECT", "CANCEL"}
  /\ Outcome.APPROVE = "APPROVED" /\ Outcome.REJECT = "REJECTED" /\ Outcome.CANCEL = "CANCELLED"
  /\ DOMAIN Allowed = {"LEAVE_REQUEST", "BOOKING_CORRECTION", "OVERTIME_APPROVAL",
                       "POST_CLOSE_CORRECTION"}
  BY DEF NoRow, Row, Idle, Tx, Outcome, Allowed, Stage

LEMMA WritesTx ==
  ASSUME TypeOK, NEW s \in Process, NEW t \in Tx, tx' = [tx EXCEPT ![s] = t]
  PROVE  tx' \in [Process -> Tx] /\ tx'[s] = t /\ OthersWait(s)
  BY DEF TypeOK, OthersWait

LEMMA EndsTx ==
  ASSUME TypeOK, NEW s \in Process, Ends(s)
  PROVE  tx' \in [Process -> Tx] /\ tx'[s] = Idle /\ OthersWait(s)
  BY WritesTx, TypesAre DEF Ends

-----------------------------------------------------------------------------
(* What a step that holds the keys of h may change.                         *)

SameColumns(w) ==
  /\ workflow'[w].type = workflow[w].type /\ workflow'[w].requester = workflow[w].requester
  /\ workflow'[w].of = workflow[w].of /\ workflow'[w].day = workflow[w].day
  /\ workflow'[w].booking = workflow[w].booking

Touches(h) ==
  /\ Created' = Created \/ Routing \in h
  /\ \A w \in Created : /\ w \in Created' /\ SameColumns(w)
                        /\ w \notin h => workflow'[w] = workflow[w]
                        /\ absence'[w] # absence[w] => workflow[w].of \in h
  /\ \A x \in Person, d \in Day : OffOn(x, d)' => OffOn(x, d) \/ x \in h
  /\ \A b \in Booking : bookedAt'[b] # bookedAt[b] => BookedBy[b] \in h
  /\ \A x \in Person : overtime'[x] # overtime[x] => x \in h

Undisturbed(s, h) == tx'[s] = tx[s] /\ tx[s].holds \cap h = {} /\ Touches(h)

LEMMA SnapshotStays ==
  ASSUME NEW row, NEW w, NEW h, SnapshotOf(row, w), Touches(h)
  PROVE  SnapshotOf(row, w)'
  BY DEF SnapshotOf, Touches, SameColumns, RowSound

LEMMA NotBooked ==
  ASSUME NEW x \in Person, NEW d, NEW others \in SUBSET Booking, NEW h, x \notin h, Touches(h),
         ~ BookedOn(x, d, others)
  PROVE  ~ BookedOn(x, d, others)'
  BY DEF BookedOn, Touches

LEMMA CreationUndisturbed ==
  ASSUME NEW s \in Process, NEW h, CreationKnows(s), Undisturbed(s, h)
  PROVE  CreationKnows(s)'
  <1> DEFINE row == tx[s].row
  <1>1. RowSound(row)' /\ row' = row /\ RowSound(row)
    BY DEF CreationKnows, Undisturbed, RowSound
  <1>2. row.type = "LEAVE_REQUEST" => /\ row.of \in Person /\ row.day \in Day
                                      /\ row.of \in tx[s].holds /\ ~ OffOn(row.of, row.day)
    BY <1>1 DEF CreationKnows, RowSound
  <1>3. row.type = "LEAVE_REQUEST" => ~ OffOn(row.of, row.day)'
    <2>1. SUFFICES ASSUME row.type = "LEAVE_REQUEST" PROVE ~ OffOn(row.of, row.day)'
      OBVIOUS
    <2>2. row.of \notin h
      BY <1>2, <2>1 DEF Undisturbed
    <2>3. ASSUME NEW x \in Person, NEW d \in Day, x = row.of, d = row.day PROVE ~ OffOn(x, d)'
      BY <1>2, <2>1, <2>2, <2>3 DEF Undisturbed, Touches
    <2>4. row.of = row.of' /\ row.day = row.day'
      BY <1>1
    <2> QED
      BY <1>2, <2>1, <2>3, <2>4 DEF OffOn
  <1>4. Routing \in tx[s].holds /\ Created' # Workflow
    BY DEF CreationKnows, Undisturbed, Touches
  <1> QED
    BY <1>1, <1>2, <1>3, <1>4 DEF CreationKnows, Undisturbed

LEMMA BookingUndisturbed ==
  ASSUME NEW s \in Process, NEW h, BookingKnows(s), Undisturbed(s, h)
  PROVE  BookingKnows(s)'
  <1> DEFINE b == tx[s].row.booking
             d == tx[s].row.day
             x == BookedBy[b]
  <1>1. /\ b \in Booking /\ x \in Person /\ x \in tx[s].holds /\ ~ BookedOn(x, d, Booking)
        /\ b' = b /\ d' = d /\ x' = x
    BY BookingsAreOwned DEF BookingKnows, Undisturbed
  <1>2. ~ BookedOn(x, d, Booking)'
    BY <1>1, NotBooked DEF BookedOn, Undisturbed, Touches
  <1> QED
    BY <1>1, <1>2 DEF BookingKnows, Undisturbed

LEMMA DecisionUndisturbed ==
  ASSUME NEW s \in Process, NEW h, DecisionKnows(s), Undisturbed(s, h)
  PROVE  DecisionKnows(s)'
  <1> DEFINE row == tx[s].row
             action == tx[s].action
             w == tx[s].id
             approves == action = "APPROVE" /\ row.type # "POST_CLOSE_CORRECTION"
  <1>0. tx'[s] = tx[s]
    BY DEF Undisturbed
  <1>1. SnapshotOf(row, w)' /\ RowSound(row)
    BY SnapshotStays, <1>0 DEF DecisionKnows, Undisturbed, SnapshotOf, Touches, SameColumns, RowSound
  <1>2. approves => row.of \in Person \cap tx[s].holds
    BY <1>1 DEF DecisionKnows, GuardKeys, RowSound
  <1>3. approves => row.of \notin h
    BY <1>2 DEF Undisturbed
  <1>4. ASSUME tx[s].stage = "applied"
        PROVE  w \in tx[s].holds /\ workflow'[w] = row
    <2>1. w \in Created /\ w \in tx[s].holds /\ workflow[w] = row
      BY <1>4 DEF DecisionKnows, SnapshotOf
    <2> QED
      BY <2>1 DEF Undisturbed, Touches
  <1>5. ASSUME tx[s].stage = "applied", row.type = "BOOKING_CORRECTION", action = "APPROVE"
        PROVE  ~ BookedOn(row.of, row.day, Booking \ {row.booking})'
    <2>1. ~ BookedOn(row.of, row.day, Booking \ {row.booking}) /\ row.of \in Person \ h
      BY <1>2, <1>3, <1>5 DEF DecisionKnows
    <2> QED
      BY <1>0, <2>1 DEF BookedOn, Undisturbed, Touches
  <1>6. ASSUME tx[s].stage = "applied", row.type = "OVERTIME_APPROVAL", action = "APPROVE"
        PROVE  tx[s].hours = overtime'[row.of]
    <2>1. tx[s].hours = overtime[row.of] /\ row.of \in Person \ h
      BY <1>2, <1>3, <1>6 DEF DecisionKnows
    <2> QED
      BY <2>1 DEF Undisturbed, Touches
  <1>7. /\ action \in DOMAIN Outcome \cup {"DELEGATE"} /\ row.status \in Open
        /\ MayAct(row, action, tx[s].actor) /\ GuardKeys(row, action) \subseteq tx[s].holds
        /\ action = "DELEGATE" => tx[s].to \in Person \ {row.requester}
    BY DEF DecisionKnows
  <1> QED
    BY <1>0, <1>1, <1>4, <1>5, <1>6, <1>7 DEF DecisionKnows

LEMMA WithdrawalUndisturbed ==
  ASSUME NEW s \in Process, NEW h, WithdrawalKnows(s), Undisturbed(s, h)
  PROVE  WithdrawalKnows(s)'
  BY DEF WithdrawalKnows, Undisturbed, Touches, SameColumns

LEMMA EscalationUndisturbed ==
  ASSUME NEW s \in Process, NEW h, EscalationKnows(s), Undisturbed(s, h)
  PROVE  EscalationKnows(s)'
  BY DEF EscalationKnows, Undisturbed, SnapshotOf, Touches, SameColumns, RowSound

LEMMA OthersUndisturbed ==
  ASSUME NEW s \in Process, NEW h, Sound(s), Undisturbed(s, h)
  PROVE  Sound(s)'
  <1>1. tx'[s] = tx[s]
    BY DEF Undisturbed
  <1> QED
    BY <1>1, CreationUndisturbed, BookingUndisturbed, DecisionUndisturbed, WithdrawalUndisturbed,
       EscalationUndisturbed DEF Sound

-----------------------------------------------------------------------------
(* Steps that change no data.                                               *)

SameData == UNCHANGED <<workflow, data>>

LEMMA NothingTouched ==
  ASSUME SameData, NEW h
  PROVE  Touches(h)
  BY DEF SameData, data, Touches, SameColumns, Created, OffOn

LEMMA DataStay ==
  ASSUME IInv, SameData
  PROVE  /\ \A w \in Workflow : WorkflowSound(w)'
         /\ \A x \in Person : overtime'[x] = Cardinality(Granted(x)')
         /\ NothingOverlaps'
         /\ workflow' \in [Workflow -> Row] /\ absence' \in [Workflow -> AbsenceStatus]
         /\ bookedAt' \in [Booking -> Day \cup {None}] /\ overtime' \in [Person -> Nat]
  <1> USE DEF SameData, data
  <1>1. \A w \in Workflow : WorkflowSound(w)'
    BY DEF IInv, WorkflowSound, Created, SameStory, RowSound
  <1>2. \A x \in Person : overtime'[x] = Cardinality(Granted(x)')
    BY DEF IInv, Granted, Created
  <1>3. NothingOverlaps'
    BY DEF IInv, NothingOverlaps
  <1> QED
    BY <1>1, <1>2, <1>3 DEF IInv, TypeOK

(* A transaction reads under new locks: its own knowledge is all there is   *)
(* to show.                                                                 *)
Reads(s, t) ==
  /\ tx' = [tx EXCEPT ![s] = t] /\ t \in Tx
  /\ \A r \in Process \ {s} : tx[r].holds \cap t.holds = {}
  /\ SameData
  /\ rule' \in [Person -> Person \cup {None}] /\ late' \subseteq Workflow
  /\ queue' \in [Scanner -> SUBSET Workflow]

LEMMA ReadingKeeps ==
  ASSUME IInv, NEW s \in Process, NEW t, Reads(s, t), Sound(s)'
  PROVE  IInv'
  <1>1. tx' \in [Process -> Tx] /\ tx'[s] = t /\ OthersWait(s)
    BY WritesTx DEF Reads, IInv
  <1>2. \A r \in Process \ {s} : Sound(r)'
    <2>1. TAKE r \in Process \ {s}
    <2>2. Undisturbed(r, {})
      BY <1>1, NothingTouched DEF Undisturbed, Reads, OthersWait
    <2> QED
      BY <2>2, OthersUndisturbed DEF IInv
  <1>3. \A r, q \in Process : r # q => tx'[r].holds \cap tx'[q].holds = {}
    BY <1>1 DEF Reads, OthersWait, IInv, TypeOK
  <1> QED
    BY <1>1, <1>2, <1>3, DataStay DEF IInv, TypeOK, Reads

-----------------------------------------------------------------------------
(* Requests.                                                                *)

LEMMA OthersHold ==
  ASSUME IInv, NEW s \in Process, NEW keys \in SUBSET LockKey, Free(keys)
  PROVE  \A r \in Process \ {s} : tx[r].holds \cap keys = {}
  BY DEF Free

LEMMA CreatingKeeps ==
  ASSUME IInv, NEW s \in Process, NEW row \in Row, NEW holds \in SUBSET LockKey, NEW t \in Tx,
         RowSound(row), row.status = "PENDING", Routing \in holds, Created # Workflow,
         row.type = "LEAVE_REQUEST" => row.of \in holds /\ ~ OffOn(row.of, row.day),
         t.op = "CREATE", t.holds = holds, t.row = row,
         tx' = [tx EXCEPT ![s] = t], Free(holds), SameData, UNCHANGED <<rule, late, queue>>
  PROVE  IInv'
  <1>1. Reads(s, t)
    BY OthersHold DEF Reads, IInv, TypeOK
  <1>2. tx'[s] = t
    BY DEF IInv, TypeOK
  <1>3. row.type = "LEAVE_REQUEST" => ~ OffOn(row.of, row.day)'
    BY DEF SameData, data, OffOn, Created
  <1>4. CreationKnows(s)'
    BY <1>2, <1>3 DEF CreationKnows, OffOn, RowSound, SameData, Created
  <1>5. Sound(s)'
    BY <1>2, <1>4 DEF Sound
  <1> QED
    BY <1>1, <1>5, ReadingKeeps

LEMMA AsksKeeps ==
  ASSUME IInv, NEW s \in Process, NEW type \in DOMAIN Allowed, NEW requester \in Person,
         NEW of \in Person, NEW preferred \in Person \cup {None}, NEW day \in Day \cup {None},
         NEW booking \in Booking \cup {None}, NEW keys \in SUBSET Person,
         preferred = requester => MayBeOwn(requester),
         type = "LEAVE_REQUEST" => day \in Day /\ of \in keys /\ ~ OffOn(of, day),
         type = "BOOKING_CORRECTION" =>
           day \in Day /\ booking \in Booking /\ of = BookedBy[booking],
         Asks(s, type, requester, of, preferred, day, booking, keys)
  PROVE  IInv'
  <1>1. PICK approver : approver = Routed(type, requester, preferred, of)
    OBVIOUS
  <1>2. PICK row : row = [status |-> "PENDING", type |-> type, requester |-> requester, of |-> of,
                          approver |-> approver, trail |-> {approver} \ {None}, day |-> day,
                          booking |-> booking]
    OBVIOUS
  <1>3. PICK holds : holds = {Routing} \cup keys
    OBVIOUS
  <1>4. PICK t : t = [Idle EXCEPT !.op = "CREATE", !.stage = "read", !.holds = holds, !.row = row]
    OBVIOUS
  <1>5. /\ approver \in Person \cup {None}
        /\ approver = requester => preferred = requester \/ HrLike(requester)
    BY <1>1, RoutedIs
  <1>6. /\ tx' = [tx EXCEPT ![s] = t] /\ Free(holds) /\ Created # Workflow
        /\ SameData /\ UNCHANGED <<rule, late, queue>>
    BY <1>1, <1>2, <1>3, <1>4 DEF Asks, SameData
  <1>7. row \in Row /\ row.status = "PENDING" /\ row.type = type /\ row.of = of /\ row.day = day
    BY <1>2, <1>5 DEF Row, Open
  <1>8. RowSound(row)
    BY <1>2, <1>5 DEF RowSound, Open, MayBeOwn
  <1>9. holds \in SUBSET LockKey /\ keys \subseteq holds /\ Routing \in holds
    BY <1>3 DEF LockKey
  <1>10. t \in Tx /\ t.op = "CREATE" /\ t.holds = holds /\ t.row = row
    BY <1>4, <1>7, <1>9, TypesAre DEF Tx, Stage
  <1> QED
    BY <1>6, <1>7, <1>8, <1>9, <1>10, CreatingKeeps

LEMMA AskLeaveKeeps ==
  ASSUME IInv, NEW s \in Process, NEW x \in Person, NEW d \in Day, AskLeave(s, x, d)
  PROVE  IInv'
  <1>1. Supervisor[x] \in Person \cup {None} /\ {x} \in SUBSET Person
    BY PeopleAreKnown
  <1>2. ~ OffOn(x, d) /\ Asks(s, "LEAVE_REQUEST", x, x, Supervisor[x], d, None, {x})
    BY DEF AskLeave
  <1>3. Supervisor[x] = x => MayBeOwn(x)
    BY DEF MayBeOwn
  <1> HIDE DEF Asks
  <1> QED
    BY <1>1, <1>2, <1>3, TypesAre, AsksKeeps

LEMMA AskCorrectionKeeps ==
  ASSUME IInv, NEW s \in Process, NEW actor \in Person, NEW b \in Booking, NEW d \in Day,
         AskCorrection(s, actor, b, d)
  PROVE  IInv'
  <1> DEFINE x == BookedBy[b]
             preferred == IF actor = x THEN Supervisor[x] ELSE None
  <1>1. x \in Person /\ preferred \in Person \cup {None} /\ {x} \in SUBSET Person
    BY PeopleAreKnown, BookingsAreOwned
  <1>2. Asks(s, "BOOKING_CORRECTION", actor, x, preferred, d, b, {x})
    BY DEF AskCorrection
  <1>3. preferred = actor => MayBeOwn(actor)
    BY PeopleAreKnown DEF MayBeOwn
  <1>4. x = BookedBy[b]
    OBVIOUS
  <1> HIDE DEF x, preferred
  <1> QED
    BY <1>1, <1>2, <1>3, <1>4, TypesAre, AsksKeeps

LEMMA AskOvertimeKeeps ==
  ASSUME IInv, NEW s \in Process, NEW actor \in Person, NEW x \in Person, AskOvertime(s, actor, x)
  PROVE  IInv'
  <1>1. Supervisor[x] \in Person \cup {None} /\ {x} \in SUBSET Person
    BY PeopleAreKnown
  <1>2. MayActFor(actor, x) /\ Asks(s, "OVERTIME_APPROVAL", actor, x, Supervisor[x], None, None, {x})
    BY DEF AskOvertime
  <1>3. Supervisor[x] = actor => MayBeOwn(actor)
    BY <1>2 DEF MayBeOwn, MayActFor
  <1> QED
    BY <1>1, <1>2, <1>3, TypesAre, AsksKeeps

LEMMA AskPostCloseKeeps ==
  ASSUME IInv, NEW s \in Process, NEW actor \in Person, AskPostClose(s, actor)
  PROVE  IInv'
  <1>1. HrLike(actor) /\ Asks(s, "POST_CLOSE_CORRECTION", actor, actor, None, None, None, {})
    BY DEF AskPostClose
  <1>2. MayBeOwn(actor)
    BY <1>1 DEF MayBeOwn
  <1> QED
    BY <1>1, <1>2, TypesAre, AsksKeeps

LEMMA BookKeeps ==
  ASSUME IInv, NEW s \in Process, NEW b \in Booking, NEW d \in Day, Book(s, b, d)
  PROVE  IInv'
  <1> DEFINE x == BookedBy[b]
  <1>a. PICK row : row = [NoRow EXCEPT !.booking = b, !.day = d]
    OBVIOUS
  <1>b. PICK holds : holds = {x}
    OBVIOUS
  <1>c. PICK t : t = [Idle EXCEPT !.op = "BOOK", !.stage = "read", !.holds = holds, !.row = row]
    OBVIOUS
  <1>0. SameData /\ UNCHANGED <<rule, late, queue>>
    BY DEF Book, SameData
  <1>1. /\ tx' = [tx EXCEPT ![s] = t]
        /\ Free(holds) /\ ~ BookedOn(x, d, Booking)
    BY <1>a, <1>b, <1>c DEF Book
  <1>2. row \in Row /\ row.booking = b /\ row.day = d
    BY <1>a DEF NoRow, Row
  <1>3. holds \in SUBSET LockKey /\ x \in holds
    BY <1>b, BookingsAreOwned DEF LockKey
  <1>4. t \in Tx /\ t.op = "BOOK" /\ t.holds = holds /\ t.row = row
    BY <1>2, <1>3, <1>c, TypesAre DEF Tx, Stage
  <1>5. Reads(s, t)
    BY <1>0, <1>1, <1>3, <1>4, OthersHold DEF Reads, IInv, TypeOK
  <1>6. tx'[s] = t
    BY <1>1 DEF IInv, TypeOK
  <1>7. ~ BookedOn(x, d, Booking)'
    BY <1>0, <1>1 DEF SameData, data, BookedOn
  <1>8. BookingKnows(s)'
    BY <1>2, <1>3, <1>4, <1>6, <1>7 DEF BookingKnows, BookedOn
  <1> QED
    BY <1>4, <1>5, <1>6, <1>8, ReadingKeeps DEF Sound

-----------------------------------------------------------------------------
(* Transactions that read what they will compare or change.                 *)

LEMMA SameRow ==
  ASSUME NEW a \in Row, NEW b \in Row, a.status = b.status, a.type = b.type,
         a.requester = b.requester, a.of = b.of, a.approver = b.approver, a.trail = b.trail,
         a.day = b.day, a.booking = b.booking
  PROVE  a = b
  BY DEF Row

LEMMA DecideReadKeeps ==
  ASSUME IInv, NEW s \in Process, NEW w \in Created,
         NEW action \in DOMAIN Outcome \cup {"DELEGATE"}, NEW actor \in Person,
         NEW to \in Person \cup {None}, DecideRead(s, w, action, actor, to)
  PROVE  IInv'
  <1>1. w \in Workflow /\ workflow[w] \in Row /\ RowSound(workflow[w])
    BY DEF Created, IInv, TypeOK, WorkflowSound
  <1>2. PICK row \in Row : row = workflow[w]
    BY <1>1
  <1>3. PICK keys : keys = GuardKeys(row, action) \cup ({to} \ {None})
    OBVIOUS
  <1> DEFINE t == [Idle EXCEPT !.op = "DECIDE", !.stage = "read", !.id = w, !.action = action,
                               !.actor = actor, !.to = to, !.holds = keys, !.row = row]
  <1>4. tx' = [tx EXCEPT ![s] = t] /\ Free(keys) /\ row.status \in Open /\ MayAct(row, action, actor)
    BY <1>2, <1>3 DEF DecideRead
  <1>5. SameData /\ UNCHANGED <<rule, late, queue>>
    BY DEF DecideRead, SameData
  <1>6. action = "DELEGATE" => to \in Person \ {row.requester}
    BY <1>2 DEF DecideRead, MayDelegate
  <1>7. keys \in SUBSET LockKey /\ GuardKeys(row, action) \subseteq keys
    BY <1>1, <1>2, <1>3 DEF GuardKeys, LockKey, RowSound
  <1>8. /\ t \in Tx /\ t.op = "DECIDE" /\ t.stage = "read" /\ t.id = w /\ t.action = action
        /\ t.actor = actor /\ t.to = to /\ t.holds = keys /\ t.row = row
    <2>1. Idle \in Tx /\ "DECIDE" \in {"NONE", "CREATE", "DECIDE", "WITHDRAW", "BOOK", "ESCALATE"}
          /\ "read" \in Stage /\ w \in Workflow \cup {0} /\ actor \in Person \cup {None}
          /\ action \in DOMAIN Outcome \cup {"DELEGATE", "NONE"}
      BY <1>1, TypesAre DEF Stage
    <2> QED
      BY <1>7, <2>1 DEF Tx
  <1> HIDE DEF t
  <1>9. Reads(s, t)
    BY <1>4, <1>5, <1>7, <1>8, OthersHold DEF Reads, IInv, TypeOK
  <1>10. tx'[s] = t
    BY <1>4 DEF IInv, TypeOK
  <1>11. SnapshotOf(row, w)'
    BY <1>1, <1>2, <1>5 DEF SnapshotOf, SameData, Created, RowSound
  <1>12. DecisionKnows(s)'
    BY <1>4, <1>6, <1>7, <1>8, <1>10, <1>11 DEF DecisionKnows
  <1> QED
    BY <1>8, <1>9, <1>10, <1>12, ReadingKeeps DEF Sound

LEMMA DecideApplyKeeps ==
  ASSUME IInv, NEW s \in Process, DecideApply(s)
  PROVE  IInv'
  <1>1. /\ tx[s] \in Tx /\ tx[s].op = "DECIDE" /\ DecisionKnows(s) /\ tx[s].row \in Row
        /\ tx[s].id \in Created
    BY DEF DecideApply, IInv, TypeOK, Sound, Tx, DecisionKnows, SnapshotOf
  <1>2. PICK row \in Row, w \in Workflow : row = tx[s].row /\ w = tx[s].id
    BY <1>1 DEF Created
  <1>3. /\ RowSound(row) /\ SnapshotOf(row, w) /\ workflow[w] \in Row
        /\ tx[s].action \in DOMAIN Outcome \cup {"DELEGATE"}
    BY <1>1, <1>2 DEF DecisionKnows, SnapshotOf, IInv, TypeOK
  <1>4. PICK hours \in Nat : hours = overtime[row.of]
    BY <1>3 DEF RowSound, IInv, TypeOK
  <1>5. PICK holds \in SUBSET LockKey : holds = tx[s].holds \cup {w}
    BY <1>1, <1>2 DEF Tx, LockKey
  <1> DEFINE t == [tx[s] EXCEPT !.stage = "applied", !.holds = holds, !.hours = hours]
  <1>6. tx' = [tx EXCEPT ![s] = t]
    BY <1>1, <1>2, <1>4, <1>5 DEF DecideApply, IInv, TypeOK, Tx
  <1>7. /\ Free({w}) /\ Same(w, row)
        /\ row.type = "BOOKING_CORRECTION" /\ tx[s].action = "APPROVE" =>
             ~ BookedOn(row.of, row.day, Booking \ {row.booking})
    BY <1>2 DEF DecideApply
  <1>8. SameData /\ UNCHANGED <<rule, late, queue>>
    BY DEF DecideApply, SameData
  <1>9. /\ t \in Tx /\ t.op = "DECIDE" /\ t.stage = "applied" /\ t.id = w
        /\ t.action = tx[s].action /\ t.actor = tx[s].actor /\ t.to = tx[s].to
        /\ t.holds = holds /\ t.row = row /\ t.hours = hours
    BY <1>1, <1>2, <1>4, <1>5 DEF Tx, Stage
  <1> HIDE DEF t
  <1>10. \A r \in Process \ {s} : tx[r].holds \cap holds = {}
    BY <1>5, <1>7 DEF Free, IInv, TypeOK
  <1>11. Reads(s, t)
    BY <1>6, <1>8, <1>9, <1>10 DEF Reads, IInv, TypeOK
  <1>12. tx'[s] = t
    BY <1>6 DEF IInv, TypeOK
  <1>13. SnapshotOf(row, w)'
    BY <1>3, <1>8 DEF SnapshotOf, SameData, Created, RowSound
  <1>14. workflow'[w] = row
    BY <1>3, <1>7, <1>8, SameRow DEF SnapshotOf, Same, SameData
  <1>15. /\ hours = overtime'[row.of]
         /\ ~ BookedOn(row.of, row.day, Booking \ {row.booking}) =>
              ~ BookedOn(row.of, row.day, Booking \ {row.booking})'
    BY <1>4, <1>8 DEF SameData, data, BookedOn
  <1>16. /\ tx[s].action \in DOMAIN Outcome \cup {"DELEGATE"} /\ row.status \in Open
         /\ MayAct(row, tx[s].action, tx[s].actor) /\ GuardKeys(row, tx[s].action) \subseteq holds
         /\ tx[s].action = "DELEGATE" => tx[s].to \in Person \ {row.requester}
         /\ w \in holds
    BY <1>1, <1>2, <1>5 DEF DecisionKnows
  <1>17. ASSUME row.type = "BOOKING_CORRECTION", tx[s].action = "APPROVE"
         PROVE  ~ BookedOn(row.of, row.day, Booking \ {row.booking})'
    BY <1>7, <1>15, <1>17
  <1>18. DecisionKnows(s)'
    BY <1>9, <1>12, <1>13, <1>14, <1>15, <1>16, <1>17 DEF DecisionKnows, BookedOn
  <1> QED
    BY <1>9, <1>11, <1>12, <1>18, ReadingKeeps DEF Sound

LEMMA WithdrawLockKeeps ==
  ASSUME IInv, NEW s \in Process, NEW w \in Created, NEW actor \in Person, WithdrawLock(s, w, actor)
  PROVE  IInv'
  <1>1. w \in Workflow /\ workflow[w].of \in Person
    BY DEF Created, IInv, WorkflowSound, RowSound
  <1>2. PICK of \in Person : of = workflow[w].of
    BY <1>1
  <1> DEFINE t == [Idle EXCEPT !.op = "WITHDRAW", !.stage = "read", !.id = w,
                               !.actor = actor, !.holds = {of}]
  <1>3. /\ tx' = [tx EXCEPT ![s] = t] /\ Free({of})
        /\ absence[w] \in {"REQUESTED", "APPROVED"}
    BY <1>2 DEF WithdrawLock
  <1>4. SameData /\ UNCHANGED <<rule, late, queue>>
    BY DEF WithdrawLock, SameData
  <1>5. {of} \in SUBSET LockKey
    BY DEF LockKey
  <1>6. /\ t \in Tx /\ t.op = "WITHDRAW" /\ t.id = w /\ t.actor = actor /\ t.holds = {of}
    BY <1>1, <1>5, TypesAre DEF Tx, Stage
  <1> HIDE DEF t
  <1>7. Reads(s, t)
    BY <1>3, <1>4, <1>5, <1>6, OthersHold DEF Reads, IInv, TypeOK
  <1>8. tx'[s] = t
    BY <1>3 DEF IInv, TypeOK
  <1>9. w \in Created' /\ workflow'[w].of = of /\ absence'[w] \in {"REQUESTED", "APPROVED"}
    BY <1>2, <1>3, <1>4 DEF SameData, data, Created
  <1>10. WithdrawalKnows(s)'
    BY <1>6, <1>8, <1>9 DEF WithdrawalKnows
  <1> QED
    BY <1>6, <1>7, <1>8, <1>10, ReadingKeeps DEF Sound

LEMMA EscalateReadKeeps ==
  ASSUME IInv, NEW c \in Scanner, NEW w \in Workflow, EscalateRead(c, w)
  PROVE  IInv'
  <1>1. c \in Process /\ w \in Created /\ workflow[w] \in Row /\ RowSound(workflow[w])
    BY DEF EscalateRead, Created, IInv, TypeOK, WorkflowSound, Process
  <1>2. PICK row \in Row : row = workflow[w]
    BY <1>1
  <1> DEFINE target == FirstPerson({EscalationRole}, {UnitOf[row.requester]}, {row.requester})
             to == IF target = None THEN row.approver ELSE target
             t == [Idle EXCEPT !.op = "ESCALATE", !.stage = "read", !.id = w, !.to = to,
                               !.holds = {Routing}, !.row = row]
  <1>3. tx' = [tx EXCEPT ![c] = t] /\ Free({Routing}) /\ row.status = "PENDING"
    BY <1>2 DEF EscalateRead
  <1>4. SameData /\ UNCHANGED <<rule, late, queue>>
    BY DEF EscalateRead, SameData
  <1>5. target = None \/ target \in Person \ {row.requester}
    BY FirstPersonIs
  <1> HIDE DEF target
  <1>6. /\ to \in Person \cup {None}
        /\ to = row.approver \/ to \in (Person \cup {None}) \ {row.requester}
    BY <1>5 DEF Row
  <1> HIDE DEF to
  <1>7. {Routing} \in SUBSET LockKey
    BY DEF LockKey
  <1>8. /\ t \in Tx /\ t.op = "ESCALATE" /\ t.id = w /\ t.to = to /\ t.holds = {Routing}
        /\ t.row = row
    <2>1. PICK holds \in SUBSET LockKey : holds = {Routing}
      BY <1>7
    <2>2. w \in Workflow \cup {0} /\ Idle \in Tx
      BY TypesAre
    <2>3. /\ t = [Idle EXCEPT !.op = "ESCALATE", !.stage = "read", !.id = w, !.to = to,
                               !.holds = holds, !.row = row]
      BY <2>1
    <2> QED
      BY <1>6, <2>1, <2>2, <2>3 DEF Tx, Stage
  <1> HIDE DEF t
  <1>9. Reads(c, t)
    BY <1>1, <1>3, <1>4, <1>7, <1>8, OthersHold DEF Reads, IInv, TypeOK
  <1>10. tx'[c] = t
    BY <1>1, <1>3 DEF IInv, TypeOK
  <1>11. SnapshotOf(row, w)'
    BY <1>1, <1>2, <1>4 DEF SnapshotOf, SameData, Created, RowSound
  <1>12. EscalationKnows(c)'
    BY <1>3, <1>6, <1>8, <1>10, <1>11 DEF EscalationKnows
  <1> QED
    BY <1>1, <1>8, <1>9, <1>10, <1>12, ReadingKeeps DEF Sound

-----------------------------------------------------------------------------
(* Steps that neither read under locks nor change data.                     *)

LEMMA RollbackKeeps ==
  ASSUME IInv, NEW s \in Process, Ends(s), SameData, UNCHANGED <<rule, late>>,
         queue' \in [Scanner -> SUBSET Workflow]
  PROVE  IInv'
  <1>1. tx'[s] = Idle /\ Idle.op = "NONE" /\ Idle.holds = {}
    BY EndsTx DEF IInv, Idle
  <1>2. Reads(s, Idle)
    BY <1>1, TypesAre DEF Reads, Ends, IInv, TypeOK
  <1> QED
    BY <1>1, <1>2, ReadingKeeps DEF Sound

LEMMA WaitingKeeps ==
  ASSUME IInv, SameData, UNCHANGED tx, rule' \in [Person -> Person \cup {None}],
         late' \subseteq Workflow, queue' \in [Scanner -> SUBSET Workflow]
  PROVE  IInv'
  <1>1. ASSUME NEW r \in Process PROVE Sound(r)'
    <2>1. Undisturbed(r, {})
      BY NothingTouched DEF Undisturbed
    <2> QED
      BY <2>1, OthersUndisturbed DEF IInv
  <1> QED
    BY <1>1, DataStay DEF IInv, TypeOK

LEMMA RulesKeep ==
  ASSUME IInv, NEW x \in Person,
         DeleteRule(x) \/ \E y \in Person : WriteRule(x, y)
  PROVE  IInv'
  <1>1. SameData /\ UNCHANGED <<late, tx, queue>>
    BY DEF DeleteRule, WriteRule, SameData
  <1>2. rule' \in [Person -> Person \cup {None}]
    BY DEF DeleteRule, WriteRule, IInv, TypeOK
  <1> QED
    BY <1>1, <1>2, WaitingKeeps DEF IInv, TypeOK

LEMMA OverdueKeeps ==
  ASSUME IInv, NEW w \in Workflow, Overdue(w)
  PROVE  IInv'
  <1>1. SameData /\ UNCHANGED <<rule, tx, queue>> /\ late' \subseteq Workflow
    BY DEF Overdue, SameData, IInv, TypeOK
  <1> QED
    BY <1>1, WaitingKeeps DEF IInv, TypeOK

LEMMA ScanningKeeps ==
  ASSUME IInv, NEW c \in Scanner,
         StartScan(c) \/ \E w \in Workflow : EscalateSkip(c, w) \/ EscalateBusy(c, w)
  PROVE  IInv'
  <1>1. SameData /\ UNCHANGED <<rule, late, tx>>
    BY DEF StartScan, EscalateSkip, EscalateBusy, SameData
  <1>2. queue' \in [Scanner -> SUBSET Workflow]
    BY DEF StartScan, EscalateSkip, EscalateBusy, Visited, IInv, TypeOK
  <1> QED
    BY <1>1, <1>2, WaitingKeeps DEF IInv, TypeOK

-----------------------------------------------------------------------------
(* Steps that write: what they must show.                                   *)

Writes(s, h) ==
  /\ Ends(s) /\ Touches(h)
  /\ \A r \in Process \ {s} : tx[r].holds \cap h = {}
  /\ UNCHANGED <<rule, late>> /\ queue' \in [Scanner -> SUBSET Workflow]

DataTyped ==
  /\ workflow' \in [Workflow -> Row] /\ absence' \in [Workflow -> AbsenceStatus]
  /\ bookedAt' \in [Booking -> Day \cup {None}] /\ overtime' \in [Person -> Nat]

LEMMA WritingKeeps ==
  ASSUME IInv, NEW s \in Process, NEW h, Writes(s, h), DataTyped,
         \A w \in Workflow : WorkflowSound(w)',
         \A x \in Person : overtime'[x] = Cardinality(Granted(x)'),
         NothingOverlaps'
  PROVE  IInv'
  <1>1. /\ tx' \in [Process -> Tx] /\ tx'[s] = Idle /\ OthersWait(s)
        /\ Idle.op = "NONE" /\ Idle.holds = {}
    BY EndsTx DEF Writes, IInv, Idle
  <1>2. \A r \in Process \ {s} : Sound(r)'
    <2>1. TAKE r \in Process \ {s}
    <2>2. Undisturbed(r, h)
      BY <1>1 DEF Undisturbed, Writes, OthersWait
    <2> QED
      BY <2>2, OthersUndisturbed DEF IInv
  <1>3. Sound(s)'
    BY <1>1 DEF Sound
  <1>4. \A r, q \in Process : r # q => tx'[r].holds \cap tx'[q].holds = {}
    BY <1>1 DEF OthersWait, IInv, TypeOK
  <1> QED
    BY <1>1, <1>2, <1>3, <1>4 DEF IInv, TypeOK, Writes, DataTyped

(* The keys of a transaction are nobody else's.                             *)
LEMMA OwnKeys ==
  ASSUME IInv, NEW s \in Process
  PROVE  \A r \in Process \ {s} : tx[r].holds \cap tx[s].holds = {}
  BY DEF IInv, TypeOK

-----------------------------------------------------------------------------
(* The steps that write.                                                    *)

LEMMA NextNumber ==
  ASSUME Created # Workflow
  PROVE  Least(Workflow \ Created) \in Workflow \ Created
  <1>1. Workflow \ Created \subseteq Nat /\ Workflow \ Created # {}
    BY NumbersAreSmall DEF Workflow, Created
  <1> QED
    BY <1>1, LeastIs

LEMMA BookingCommitKeeps ==
  ASSUME IInv, NEW s \in Process, WriteBooking(s)
  PROVE  IInv'
  <1>1. BookingKnows(s)
    BY DEF WriteBooking, IInv, Sound
  <1>2. PICK b \in Booking, d \in Day : b = tx[s].row.booking /\ d = tx[s].row.day
    BY <1>1 DEF BookingKnows
  <1>3. /\ BookedBy[b] \in tx[s].holds
        /\ \A a \in Booking : BookedBy[a] = BookedBy[b] => bookedAt[a] # d
    BY <1>1, <1>2 DEF BookingKnows, BookedOn
  <1>4. /\ bookedAt' = [bookedAt EXCEPT ![b] = d] /\ Ends(s)
        /\ UNCHANGED <<workflow, absence, overtime, rule, late, queue>>
    BY <1>2 DEF WriteBooking
  <1>5. Touches(tx[s].holds)
    BY <1>3, <1>4 DEF Touches, SameColumns, Created, OffOn, IInv, TypeOK
  <1>6. Writes(s, tx[s].holds)
    BY <1>4, <1>5, OwnKeys DEF Writes, IInv, TypeOK
  <1>7. DataTyped
    BY <1>4 DEF DataTyped, IInv, TypeOK
  <1>8. \A w \in Workflow : WorkflowSound(w)'
    BY <1>4 DEF IInv, WorkflowSound, Created, SameStory, RowSound
  <1>9. \A x \in Person : overtime'[x] = Cardinality(Granted(x)')
    BY <1>4 DEF IInv, Granted, Created
  <1>10. NothingOverlaps'
    <2>1. \A a, c \in Booking : a # c /\ BookedBy[a] = BookedBy[c] /\ bookedAt'[a] # None =>
            bookedAt'[a] # bookedAt'[c]
      BY <1>3, <1>4 DEF NothingOverlaps, IInv, TypeOK
    <2> QED
      BY <1>4, <2>1 DEF NothingOverlaps, IInv
  <1> QED
    BY <1>6, <1>7, <1>8, <1>9, <1>10, WritingKeeps

LEMMA CreateKeeps ==
  ASSUME IInv, NEW s \in Process, Create(s)
  PROVE  IInv'
  <1>1. CreationKnows(s) /\ tx[s] \in Tx
    BY DEF Create, IInv, Sound, TypeOK
  <1>2. PICK row \in Row, w \in Workflow \ Created :
          row = tx[s].row /\ w = Least(Workflow \ Created)
    BY <1>1, NextNumber DEF CreationKnows, Tx
  <1>3. /\ RowSound(row) /\ row.status = "PENDING" /\ Routing \in tx[s].holds
        /\ row.type = "LEAVE_REQUEST" => row.of \in tx[s].holds /\ ~ OffOn(row.of, row.day)
    BY <1>1, <1>2 DEF CreationKnows
  <1>4. PICK asked \in AbsenceStatus :
          asked = IF row.type = "LEAVE_REQUEST" THEN "REQUESTED" ELSE "NONE"
    BY DEF AbsenceStatus
  <1>5. /\ workflow' = [workflow EXCEPT ![w] = row] /\ absence' = [absence EXCEPT ![w] = asked]
        /\ Ends(s) /\ UNCHANGED <<bookedAt, overtime, rule, late, queue>>
    BY <1>2, <1>4 DEF Create
  <1>6. /\ workflow'[w] = row /\ absence'[w] = asked
        /\ \A v \in Workflow \ {w} : workflow'[v] = workflow[v] /\ absence'[v] = absence[v]
    BY <1>2, <1>5 DEF IInv, TypeOK
  <1>7. Created' = Created \cup {w} /\ \A v \in Created : v # w
    BY <1>2, <1>3, <1>6 DEF Created
  <1>8. Touches(tx[s].holds)
    <2>1. \A v \in Created : /\ v \in Created' /\ SameColumns(v)
                             /\ workflow'[v] = workflow[v] /\ absence'[v] = absence[v]
      BY <1>6, <1>7 DEF SameColumns, Created
    <2>2. \A x \in Person, d \in Day : OffOn(x, d)' => OffOn(x, d) \/ x \in tx[s].holds
      BY <1>3, <1>4, <1>6, <1>7, <2>1 DEF OffOn
    <2> QED
      BY <1>3, <1>5, <2>1, <2>2 DEF Touches
  <1>9. Writes(s, tx[s].holds)
    BY <1>5, <1>8, OwnKeys DEF Writes, IInv, TypeOK
  <1>10. DataTyped
    BY <1>5 DEF DataTyped, IInv, TypeOK
  <1>11. ASSUME NEW v \in Workflow PROVE WorkflowSound(v)'
    <2>1. CASE v = w
      BY <1>3, <1>4, <1>6, <1>7, <2>1 DEF WorkflowSound, SameStory, RowSound, Open
    <2>2. CASE v # w
      BY <1>6, <1>7, <2>2 DEF IInv, WorkflowSound, SameStory, RowSound
    <2> QED
      BY <2>1, <2>2
  <1>12. \A x \in Person : overtime'[x] = Cardinality(Granted(x)')
    <2>1. \A x \in Person : Granted(x)' = Granted(x)
      BY <1>3, <1>6, <1>7 DEF Granted, Created
    <2> QED
      BY <1>5, <2>1 DEF IInv
  <1>13. NothingOverlaps'
    <2>1. ASSUME NEW u \in Workflow, NEW v \in Workflow, u # v,
                 workflow'[u].of = workflow'[v].of, workflow'[u].day = workflow'[v].day,
                 absence'[u] \in {"REQUESTED", "APPROVED"}, absence'[v] \in {"REQUESTED", "APPROVED"}
          PROVE  FALSE
      <3>1. ASSUME NEW z \in Workflow \ {w}, workflow[z].of = row.of, workflow[z].day = row.day,
                   absence[z] \in {"REQUESTED", "APPROVED"}
            PROVE  row.type # "LEAVE_REQUEST"
        BY <1>3, <3>1 DEF OffOn, IInv, WorkflowSound
      <3>2. CASE u = w
        BY <1>4, <1>6, <2>1, <3>1, <3>2
      <3>3. CASE v = w
        BY <1>4, <1>6, <2>1, <3>1, <3>3
      <3>4. CASE u # w /\ v # w
        BY <1>6, <2>1, <3>4 DEF IInv, NothingOverlaps
      <3> QED
        BY <3>2, <3>3, <3>4
    <2> QED
      BY <1>5, <2>1 DEF NothingOverlaps, IInv
  <1> QED
    BY <1>9, <1>10, <1>11, <1>12, <1>13, WritingKeeps

(* A change of one row that gives no day away and grants no overtime.       *)
LEMMA GrantedStay ==
  ASSUME IInv, NEW w \in Created, NEW n \in Row, workflow' = [workflow EXCEPT ![w] = n],
         n.type = workflow[w].type, n.of = workflow[w].of, n.status # "NONE",
         n.type = "OVERTIME_APPROVAL" =>
           (n.status = "APPROVED" <=> workflow[w].status = "APPROVED")
  PROVE  \A x \in Person : Granted(x)' = Granted(x)
  BY DEF Granted, Created, IInv, TypeOK

LEMMA NoNewOverlap ==
  ASSUME IInv, UNCHANGED bookedAt,
         \A w \in Workflow : /\ workflow'[w].of = workflow[w].of /\ workflow'[w].day = workflow[w].day
                             /\ absence'[w] \in {"REQUESTED", "APPROVED"} =>
                                  absence[w] \in {"REQUESTED", "APPROVED"}
  PROVE  NothingOverlaps'
  BY DEF IInv, NothingOverlaps

LEMMA EscalateKeeps ==
  ASSUME IInv, NEW c \in Scanner, Escalate(c)
  PROVE  IInv'
  <1>1. c \in Process /\ EscalationKnows(c) /\ tx[c] \in Tx
    BY DEF Escalate, IInv, Sound, TypeOK, Process
  <1>2. PICK row \in Row, w \in Created, to \in Person \cup {None} :
          row = tx[c].row /\ w = tx[c].id /\ to = tx[c].to
    BY <1>1 DEF EscalationKnows, SnapshotOf, Tx
  <1>3. /\ w \in Workflow /\ workflow[w] \in Row /\ WorkflowSound(w)
        /\ SnapshotOf(row, w) /\ RowSound(row) /\ row.status = "PENDING"
        /\ to = row.approver \/ to \in (Person \cup {None}) \ {row.requester}
    BY <1>1, <1>2 DEF EscalationKnows, SnapshotOf, Created, IInv, TypeOK
  <1>4. PICK n : n = [row EXCEPT !.status = "ESCALATED", !.approver = to,
                                 !.trail = row.trail \cup ({to} \ {None})]
    OBVIOUS
  <1>5. /\ n \in Row /\ n.status = "ESCALATED" /\ n.approver = to /\ n.trail = row.trail \cup ({to} \ {None})
        /\ n.type = row.type /\ n.requester = row.requester /\ n.of = row.of
        /\ n.day = row.day /\ n.booking = row.booking
    BY <1>2, <1>4 DEF Row, Open
  <1>6. /\ Free({w}) /\ Ends(c) /\ UNCHANGED <<data, rule, late>>
        /\ workflow' = IF Same(w, row) THEN [workflow EXCEPT ![w] = n] ELSE workflow
        /\ queue' \in [Scanner -> SUBSET Workflow]
    BY <1>2, <1>4 DEF Escalate, EscalatedRow, Visited, IInv, TypeOK
  <1>7. CASE ~ Same(w, row)
    BY <1>1, <1>6, <1>7, RollbackKeeps DEF SameData
  <1>8. CASE Same(w, row)
    <2>1. workflow[w] = row
      BY <1>3, <1>8, SameRow DEF SnapshotOf, Same
    <2>2. /\ workflow' = [workflow EXCEPT ![w] = n] /\ UNCHANGED <<absence, bookedAt, overtime>>
          /\ workflow'[w] = n /\ \A v \in Workflow \ {w} : workflow'[v] = workflow[v]
      BY <1>3, <1>6, <1>8 DEF data, IInv, TypeOK
    <2>3. RowSound(n)
      BY <1>3, <1>5 DEF RowSound, Open
    <2>4. Created' = Created
      BY <1>2, <1>5, <2>2 DEF Created
    <2>5. Touches({w})
      BY <1>5, <2>1, <2>2, <2>4 DEF Touches, SameColumns, OffOn, Created
    <2>6. Writes(c, {w})
      BY <1>6, <2>5 DEF Writes, Free
    <2>7. DataTyped
      BY <1>5, <2>2 DEF DataTyped, IInv, TypeOK
    <2>8. \A v \in Workflow : WorkflowSound(v)'
      <3>1. WorkflowSound(w)'
        BY <1>3, <1>5, <2>1, <2>2, <2>3, <2>4 DEF WorkflowSound, SameStory, RowSound, Open
      <3>2. \A v \in Workflow \ {w} : WorkflowSound(v)'
        BY <2>2, <2>4 DEF IInv, WorkflowSound, SameStory, RowSound
      <3> QED
        BY <3>1, <3>2
    <2>9. \A x \in Person : Granted(x)' = Granted(x)
      BY <1>2, <1>3, <1>5, <2>1, <2>2, GrantedStay
    <2>10. NothingOverlaps'
      BY <1>5, <2>1, <2>2, NoNewOverlap
    <2> QED
      BY <1>1, <2>2, <2>6, <2>7, <2>8, <2>9, <2>10, WritingKeeps DEF IInv
  <1> QED
    BY <1>7, <1>8

LEMMA WithdrawKeeps ==
  ASSUME IInv, NEW s \in Process, Withdraw(s)
  PROVE  IInv'
  <1>1. WithdrawalKnows(s) /\ tx[s] \in Tx
    BY DEF Withdraw, IInv, Sound, TypeOK
  <1>2. PICK w \in Created, actor \in Person \cup {None} : w = tx[s].id /\ actor = tx[s].actor
    BY <1>1 DEF WithdrawalKnows, Tx
  <1>3. PICK row \in Row : row = workflow[w]
    BY <1>2 DEF Created, IInv, TypeOK
  <1>4. /\ w \in Workflow /\ RowSound(row) /\ SameStory(w)
        /\ row.of \in tx[s].holds /\ absence[w] \in {"REQUESTED", "APPROVED"}
    BY <1>1, <1>2, <1>3 DEF WithdrawalKnows, IInv, WorkflowSound, Created
  <1>5. row.type = "LEAVE_REQUEST" /\ row.status \in Open \cup {"APPROVED"}
    BY <1>3, <1>4 DEF SameStory, Row, RowSound, Open, Final
  <1>6. PICK n : n = IF row.status \in Open
                     THEN [row EXCEPT !.status = "CANCELLED", !.approver = actor] ELSE row
    OBVIOUS
  <1>7. /\ n \in Row /\ n.status \in {"CANCELLED", "APPROVED"} /\ n.trail = row.trail
        /\ n.type = row.type /\ n.requester = row.requester /\ n.of = row.of
        /\ n.day = row.day /\ n.booking = row.booking
    BY <1>2, <1>5, <1>6 DEF Row, Final, Open
  <1>8. /\ Free({w}) /\ Ends(s) /\ UNCHANGED <<bookedAt, overtime, rule, late, queue>>
        /\ absence' = [absence EXCEPT ![w] = "CANCELLED"]
    BY <1>2 DEF Withdraw
  <1>9. workflow' = [workflow EXCEPT ![w] = n]
    BY <1>2, <1>3, <1>4, <1>6 DEF Withdraw, IInv, TypeOK, Row
  <1>10. /\ workflow'[w] = n /\ \A v \in Workflow \ {w} : workflow'[v] = workflow[v]
         /\ absence'[w] = "CANCELLED" /\ \A v \in Workflow \ {w} : absence'[v] = absence[v]
    BY <1>4, <1>8, <1>9 DEF IInv, TypeOK
  <1>11. Created' = Created
    BY <1>2, <1>7, <1>10 DEF Created
  <1> DEFINE h == tx[s].holds \cup {w}
  <1>12. Touches(h)
    <2>1. \A v \in Created : SameColumns(v) /\ (v \notin h => workflow'[v] = workflow[v])
                             /\ (absence'[v] # absence[v] => workflow[v].of \in h)
      BY <1>3, <1>4, <1>7, <1>10 DEF SameColumns, Created
    <2>2. \A x \in Person, d \in Day : OffOn(x, d)' => OffOn(x, d)
      BY <1>10, <1>11, <2>1 DEF OffOn, SameColumns, Created
    <2> QED
      BY <1>8, <1>11, <2>1, <2>2 DEF Touches
  <1>13. Writes(s, h)
    BY <1>8, <1>12, OwnKeys DEF Writes, Free, IInv, TypeOK
  <1>14. DataTyped
    BY <1>7, <1>8, <1>9 DEF DataTyped, IInv, TypeOK, AbsenceStatus
  <1>15. \A v \in Workflow : WorkflowSound(v)'
    <2>1. RowSound(n)
      BY <1>4, <1>5, <1>7 DEF RowSound, Open
    <2>2. WorkflowSound(w)'
      BY <1>2, <1>5, <1>7, <1>10, <1>11, <2>1 DEF WorkflowSound, SameStory, RowSound, Open
    <2>3. \A v \in Workflow \ {w} : WorkflowSound(v)'
      BY <1>10, <1>11 DEF IInv, WorkflowSound, SameStory, RowSound
    <2> QED
      BY <2>2, <2>3
  <1>16. \A x \in Person : Granted(x)' = Granted(x)
    BY <1>3, <1>5, <1>7, <1>9, GrantedStay
  <1>17. NothingOverlaps'
    BY <1>3, <1>7, <1>8, <1>10, NoNewOverlap
  <1> QED
    BY <1>8, <1>13, <1>14, <1>15, <1>16, <1>17, WritingKeeps DEF IInv

-----------------------------------------------------------------------------
(* A decision, effect by effect.                                            *)

(* What a transaction that is to commit a decision is certain of.           *)
Decides(s, w, row, action) ==
  /\ w \in Workflow /\ w \in tx[s].holds
  /\ w = tx[s].id /\ row = tx[s].row /\ action = tx[s].action
  /\ workflow[w] = row /\ RowSound(row) /\ row.status \in Open
  /\ MayAct(row, action, tx[s].actor)
  /\ GuardKeys(row, action) \subseteq tx[s].holds
  /\ action = "DELEGATE" => tx[s].to \in Person \ {row.requester}
  /\ row.type = "LEAVE_REQUEST" => absence[w] = "REQUESTED"
  /\ row.type # "LEAVE_REQUEST" => absence[w] = "NONE"
  /\ row.type = "BOOKING_CORRECTION" /\ action = "APPROVE" =>
       ~ BookedOn(row.of, row.day, Booking \ {row.booking})
  /\ row.type = "OVERTIME_APPROVAL" /\ action = "APPROVE" =>
       tx[s].hours = overtime[row.of]

LEMMA DecisionIs ==
  ASSUME IInv, NEW s \in Process, DecideCommit(s)
  PROVE  \E w \in Created, row \in Row, action \in DOMAIN Outcome \cup {"DELEGATE"} :
           Decides(s, w, row, action)
  <1>1. DecisionKnows(s) /\ tx[s] \in Tx /\ tx[s].stage = "applied"
    BY DEF DecideCommit, IInv, Sound, TypeOK
  <1>2. PICK w \in Created, row \in Row, action \in DOMAIN Outcome \cup {"DELEGATE"} :
          w = tx[s].id /\ row = tx[s].row /\ action = tx[s].action
    BY <1>1 DEF DecisionKnows, SnapshotOf, Tx
  <1>3. w \in Workflow /\ WorkflowSound(w) /\ workflow[w] = row /\ row.status \in Open
    BY <1>1, <1>2 DEF DecisionKnows, Created, IInv
  <1>4. /\ RowSound(row) /\ row.type = "LEAVE_REQUEST" => absence[w] = "REQUESTED"
        /\ row.type # "LEAVE_REQUEST" => absence[w] = "NONE"
    BY <1>2, <1>3 DEF WorkflowSound, SameStory
  <1>5. RowSound(row)
    BY <1>2, <1>3 DEF WorkflowSound
  <1> QED
    BY <1>1, <1>2, <1>3, <1>4, <1>5 DEF DecisionKnows, Decides

(* The row after the decision: the old one but for status, approver, trail. *)
LEMMA DecidedRow ==
  ASSUME IInv, NEW s \in Process, DecideCommit(s), NEW w \in Created, w = tx[s].id
  PROVE  \E n \in Row :
           /\ workflow' = [workflow EXCEPT ![w] = n] /\ workflow'[w] = n
           /\ \A v \in Workflow \ {w} : workflow'[v] = workflow[v]
           /\ n.type = workflow[w].type /\ n.requester = workflow[w].requester
           /\ n.of = workflow[w].of /\ n.day = workflow[w].day /\ n.booking = workflow[w].booking
           /\ tx[s].action # "DELEGATE" => n.status = Outcome[tx[s].action]
           /\ tx[s].action = "DELEGATE" => n.status = workflow[w].status /\ n.approver = tx[s].to
           /\ workflow[w].trail \subseteq n.trail /\ n.approver \in n.trail \cup {None}
           /\ RowSound(n)
  <1>0. PICK v \in Created, row \in Row, action \in DOMAIN Outcome \cup {"DELEGATE"} :
          Decides(s, v, row, action)
    BY DecisionIs
  <1>1. /\ row = tx[s].row /\ action = tx[s].action /\ w \in Workflow
        /\ workflow[w] = row /\ RowSound(row) /\ row.status \in Open
        /\ action = "DELEGATE" => tx[s].to \in Person \ {row.requester}
    BY <1>0 DEF Decides
  <1>2. PICK to : to = IF action = "DELEGATE" THEN tx[s].to ELSE row.approver
    OBVIOUS
  <1>3. PICK status : status = IF action = "DELEGATE" THEN row.status ELSE Outcome[action]
    OBVIOUS
  <1>4. PICK trail : trail = row.trail \cup ({to} \ {None})
    OBVIOUS
  <1>5. to \in Person \cup {None} /\ to \in trail \cup {None} /\ row.trail \subseteq trail
    BY <1>1, <1>2, <1>4 DEF Row
  <1>6. trail \in SUBSET Person
    BY <1>4, <1>5 DEF Row
  <1>7. /\ action # "DELEGATE" => status = Outcome[action] /\ status \in Final
        /\ action = "DELEGATE" => status = row.status /\ status \in Open
    BY <1>1, <1>3, TypesAre DEF Final, Open
  <1> DEFINE n == [row EXCEPT !.status = status, !.approver = to, !.trail = trail]
  <1>8. /\ n \in Row /\ n.status = status /\ n.approver = to /\ n.trail = trail
        /\ n.type = row.type /\ n.requester = row.requester /\ n.of = row.of
        /\ n.day = row.day /\ n.booking = row.booking
    BY <1>5, <1>6, <1>7 DEF Row
  <1>9. workflow' = [workflow EXCEPT ![w].status = status, ![w].approver = to, ![w].trail = trail]
    BY <1>1, <1>2, <1>3, <1>4 DEF DecideCommit
  <1>10. workflow' = [workflow EXCEPT ![w] = n]
    BY <1>1, <1>9 DEF IInv, TypeOK, Row
  <1> HIDE DEF n
  <1>11. workflow'[w] = n /\ \A u \in Workflow \ {w} : workflow'[u] = workflow[u]
    BY <1>1, <1>10 DEF IInv, TypeOK
  <1>12. RowSound(n)
    BY <1>1, <1>2, <1>5, <1>7, <1>8 DEF RowSound, Open, Final
  <1> QED
    BY <1>1, <1>2, <1>5, <1>7, <1>8, <1>10, <1>11, <1>12

LEMMA DecideCommitKeeps ==
  ASSUME IInv, NEW s \in Process, DecideCommit(s)
  PROVE  IInv'
  <1>0. PICK w \in Created, row \in Row, action \in DOMAIN Outcome \cup {"DELEGATE"} :
          Decides(s, w, row, action)
    BY DecisionIs
  <1>1. /\ w \in Workflow /\ w \in tx[s].holds
        /\ w = tx[s].id /\ row = tx[s].row /\ action = tx[s].action
        /\ workflow[w] = row /\ RowSound(row) /\ row.status \in Open
        /\ GuardKeys(row, action) \subseteq tx[s].holds
        /\ row.type = "LEAVE_REQUEST" => absence[w] = "REQUESTED"
        /\ row.type # "LEAVE_REQUEST" => absence[w] = "NONE"
        /\ row.type = "BOOKING_CORRECTION" /\ action = "APPROVE" =>
             ~ BookedOn(row.of, row.day, Booking \ {row.booking})
        /\ row.type = "OVERTIME_APPROVAL" /\ action = "APPROVE" =>
             tx[s].hours = overtime[row.of]
    BY <1>0 DEF Decides
  <1>2. PICK n \in Row :
          /\ workflow' = [workflow EXCEPT ![w] = n] /\ workflow'[w] = n
          /\ \A v \in Workflow \ {w} : workflow'[v] = workflow[v]
          /\ n.type = row.type /\ n.requester = row.requester
          /\ n.of = row.of /\ n.day = row.day /\ n.booking = row.booking
          /\ action # "DELEGATE" => n.status = Outcome[action]
          /\ action = "DELEGATE" => n.status = row.status
          /\ RowSound(n)
    BY <1>1, DecidedRow
  <1> DEFINE corrects == action = "APPROVE" /\ row.type = "BOOKING_CORRECTION"
             grants == action = "APPROVE" /\ row.type = "OVERTIME_APPROVAL"
  <1>3. /\ Ends(s) /\ UNCHANGED <<rule, late, queue>>
        /\ absence' = [absence EXCEPT ![w] = DecidedAbsence(w, action)]
        /\ corrects => bookedAt' = [bookedAt EXCEPT ![row.booking] = row.day]
        /\ ~ corrects => bookedAt' = bookedAt
        /\ grants => overtime' = [overtime EXCEPT ![row.of] = tx[s].hours + 1]
        /\ ~ grants => overtime' = overtime
    BY <1>1 DEF DecideCommit
  <1>4. PICK story : story = DecidedAbsence(w, action)
    OBVIOUS
  <1>5. /\ row.type # "LEAVE_REQUEST" => story = "NONE"
        /\ row.type = "LEAVE_REQUEST" => story = IF action = "DELEGATE" THEN "REQUESTED" ELSE Outcome[action]
    BY <1>1, <1>4, TypesAre DEF DecidedAbsence
  <1>6. /\ story \in AbsenceStatus /\ absence'[w] = story
        /\ \A v \in Workflow \ {w} : absence'[v] = absence[v]
    BY <1>1, <1>3, <1>4, <1>5, TypesAre DEF AbsenceStatus, IInv, TypeOK
  <1>7. Created' = Created
    BY <1>1, <1>2 DEF Created, RowSound
  <1>8. /\ row.of \in Person
        /\ action = "APPROVE" /\ row.type # "POST_CLOSE_CORRECTION" => row.of \in tx[s].holds
        /\ action # "DELEGATE" /\ row.type = "LEAVE_REQUEST" => row.of \in tx[s].holds
    BY <1>1, TypesAre DEF GuardKeys, RowSound
  <1>9. corrects => /\ row.booking \in Booking /\ row.of = BookedBy[row.booking] /\ row.day \in Day
                    /\ bookedAt'[row.booking] = row.day
                    /\ \A b \in Booking \ {row.booking} : bookedAt'[b] = bookedAt[b]
    BY <1>1, <1>3 DEF RowSound, IInv, TypeOK
  <1>10. grants => /\ overtime'[row.of] = overtime[row.of] + 1
                   /\ \A x \in Person \ {row.of} : overtime'[x] = overtime[x]
    BY <1>1, <1>3, <1>8 DEF IInv, TypeOK
  <1>11. DataTyped
    BY <1>1, <1>2, <1>3, <1>4, <1>6, <1>8, <1>9 DEF DataTyped, IInv, TypeOK
  <1>12. Touches(tx[s].holds)
    <2>1. \A v \in Created : SameColumns(v) /\ (v \notin tx[s].holds => workflow'[v] = workflow[v])
                             /\ (absence'[v] # absence[v] => workflow[v].of \in tx[s].holds)
      BY <1>1, <1>2, <1>5, <1>6, <1>8 DEF SameColumns, Created
    <2>2. \A x \in Person, d \in Day : OffOn(x, d)' => OffOn(x, d)
      BY <1>1, <1>2, <1>5, <1>6, <1>7, <2>1 DEF OffOn, SameColumns, Created
    <2>3. \A b \in Booking : bookedAt'[b] # bookedAt[b] => BookedBy[b] \in tx[s].holds
      BY <1>3, <1>8, <1>9
    <2>4. \A x \in Person : overtime'[x] # overtime[x] => x \in tx[s].holds
      BY <1>3, <1>8, <1>10
    <2> QED
      BY <1>7, <2>1, <2>2, <2>3, <2>4 DEF Touches
  <1>13. Writes(s, tx[s].holds)
    BY <1>3, <1>12, OwnKeys DEF Writes, IInv, TypeOK
  <1>14. \A v \in Workflow : WorkflowSound(v)'
    <2>1. WorkflowSound(w)'
      BY <1>1, <1>2, <1>5, <1>6, <1>7, TypesAre DEF WorkflowSound, SameStory, RowSound, Open
    <2>2. \A v \in Workflow \ {w} : WorkflowSound(v)'
      BY <1>2, <1>6, <1>7 DEF IInv, WorkflowSound, SameStory, RowSound
    <2> QED
      BY <2>1, <2>2
  <1>15. \A x \in Person : overtime'[x] = Cardinality(Granted(x)')
    <2>1. CASE grants
      <3>1. \A x \in Person \ {row.of} : Granted(x)' = Granted(x)
        BY <1>1, <1>2, <1>7 DEF Granted, Created
      <3>2. Granted(row.of)' = Granted(row.of) \cup {w} /\ w \notin Granted(row.of)
        BY <1>1, <1>2, <1>7, <2>1, TypesAre DEF Granted, Created, Open
      <3>3. IsFiniteSet(Granted(row.of))
        <4>1. IsFiniteSet(Workflow)
          BY NumbersAreSmall, FS_Interval DEF Workflow
        <4> QED
          BY <4>1, FS_Subset DEF Granted, Created
      <3>4. Cardinality(Granted(row.of)') = Cardinality(Granted(row.of)) + 1
        BY <3>2, <3>3, FS_AddElement
      <3> QED
        BY <1>8, <1>10, <2>1, <3>1, <3>4 DEF IInv
    <2>2. CASE ~ grants
      <3>1. n.type = "OVERTIME_APPROVAL" =>
              (n.status = "APPROVED" <=> workflow[w].status = "APPROVED")
        BY <1>1, <1>2, <2>2, TypesAre DEF Open
      <3>2. /\ n.status # "NONE" /\ n.type = workflow[w].type /\ n.of = workflow[w].of
            /\ workflow' = [workflow EXCEPT ![w] = n]
        BY <1>1, <1>2 DEF RowSound
      <3>3. \A x \in Person : Granted(x)' = Granted(x)
        BY <3>1, <3>2, GrantedStay
      <3> QED
        BY <1>3, <2>2, <3>3 DEF IInv
    <2> QED
      BY <2>1, <2>2
  <1>16. NothingOverlaps'
    <2>1. ASSUME NEW a \in Booking, NEW b \in Booking, a # b, BookedBy[a] = BookedBy[b],
                 bookedAt'[a] # None
          PROVE  bookedAt'[a] # bookedAt'[b]
      <3>1. CASE corrects
        <4>1. \A c \in Booking \ {row.booking} : BookedBy[c] = row.of => bookedAt[c] # row.day
          BY <1>1, <3>1 DEF BookedOn
        <4>2. CASE a = row.booking
          BY <1>9, <2>1, <3>1, <4>1, <4>2
        <4>3. CASE b = row.booking
          BY <1>9, <2>1, <3>1, <4>1, <4>3
        <4>4. CASE a # row.booking /\ b # row.booking
          BY <1>9, <2>1, <3>1, <4>4 DEF IInv, NothingOverlaps
        <4> QED
          BY <4>2, <4>3, <4>4
      <3>2. CASE ~ corrects
        BY <1>3, <2>1, <3>2 DEF IInv, NothingOverlaps
      <3> QED
        BY <3>1, <3>2
    <2>2. \A v \in Workflow : absence'[v] \in {"REQUESTED", "APPROVED"} =>
                                absence[v] \in {"REQUESTED", "APPROVED"}
      BY <1>1, <1>5, <1>6
    <2>3. \A v \in Workflow : workflow'[v].of = workflow[v].of /\ workflow'[v].day = workflow[v].day
      BY <1>1, <1>2
    <2> QED
      BY <2>1, <2>2, <2>3 DEF IInv, NothingOverlaps
  <1> QED
    BY <1>11, <1>13, <1>14, <1>15, <1>16, WritingKeeps

-----------------------------------------------------------------------------
(* The invariant.                                                           *)

LEMMA ArrivalKeeps ==
  ASSUME IInv, NEW s \in Process, Arrival(s)
  PROVE  IInv'
  BY AskLeaveKeeps, AskCorrectionKeeps, AskOvertimeKeeps, AskPostCloseKeeps, BookKeeps,
     WithdrawLockKeeps, DecideReadKeeps DEF Arrival

LEMMA ProgressKeeps ==
  ASSUME IInv, NEW s \in Process, Progress(s)
  PROVE  IInv'
  BY CreateKeeps, BookingCommitKeeps, DecideApplyKeeps, DecideCommitKeeps, WithdrawKeeps
  DEF Progress

LEMMA StepKeeps == IInv /\ [Next]_vars => IInv'
  <1> SUFFICES ASSUME IInv, [Next]_vars
      PROVE  IInv'
    OBVIOUS
  <1>1. ASSUME NEW s \in Request, Arrival(s) \/ Progress(s)
        PROVE  IInv'
    BY <1>1, ArrivalKeeps, ProgressKeeps DEF Process
  <1>2. ASSUME NEW s \in Request, Rollback(s)
        PROVE  IInv'
    <2>1. Ends(s) /\ SameData /\ UNCHANGED <<rule, late, queue>> /\ s \in Process
      BY <1>2 DEF Rollback, SameData, Process
    <2> QED
      BY <2>1, RollbackKeeps DEF IInv, TypeOK
  <1>3. ASSUME NEW c \in Scanner, ScanStep(c)
        PROVE  IInv'
    BY <1>3, ScanningKeeps, EscalateReadKeeps, EscalateKeeps DEF ScanStep
  <1>4. ASSUME NEW c \in Scanner, ScanFails(c)
        PROVE  IInv'
    <2>1. Ends(c) /\ SameData /\ UNCHANGED <<rule, late>> /\ c \in Process
      BY <1>4 DEF ScanFails, SameData, Process
    <2>2. queue' \in [Scanner -> SUBSET Workflow]
      BY <1>4 DEF ScanFails, IInv, TypeOK
    <2> QED
      BY <2>1, <2>2, RollbackKeeps
  <1>5. ASSUME NEW x \in Delegator, DeleteRule(x) \/ \E y \in Person : WriteRule(x, y)
        PROVE  IInv'
    BY <1>5, RulesKeep, PeopleAreKnown
  <1>6. ASSUME NEW w \in Workflow, Overdue(w)
        PROVE  IInv'
    BY <1>6, OverdueKeeps
  <1>7. CASE UNCHANGED vars
    <2>1. SameData /\ UNCHANGED <<rule, late, tx, queue>>
      BY <1>7 DEF vars, SameData
    <2> QED
      BY <2>1, WaitingKeeps DEF IInv, TypeOK
  <1> QED
    BY <1>1, <1>2, <1>3, <1>4, <1>5, <1>6, <1>7 DEF Next

LEMMA InitKeeps == Init => IInv
  <1> SUFFICES ASSUME Init
      PROVE  IInv
    OBVIOUS
  <1>1. Created = {} /\ \A x \in Person : Granted(x) = {}
    BY DEF Init, Created, NoRow, Granted
  <1>2. TypeOK
    <2>1. \A s \in Process : tx[s] = Idle /\ Idle.holds = {}
      BY DEF Init, Idle
    <2> QED
      BY <2>1, TypesAre DEF Init, TypeOK, AbsenceStatus
  <1>3. \A s \in Process : Sound(s)
    BY DEF Init, Sound, Idle
  <1>4. \A w \in Workflow : WorkflowSound(w)
    BY <1>1 DEF Init, WorkflowSound
  <1>5. \A x \in Person : overtime[x] = Cardinality(Granted(x))
    BY <1>1, FS_EmptySet DEF Init
  <1>6. NothingOverlaps
    BY DEF Init, NothingOverlaps
  <1> QED
    BY <1>2, <1>3, <1>4, <1>5, <1>6 DEF IInv

LEMMA AlwaysSound == Spec => []IInv
  BY InitKeeps, StepKeeps, PTL DEF Spec

(* Rows, locks and snapshots have their types, and no two transactions hold *)
(* the same lock or row.                                                    *)
THEOREM WorkflowsTyped == Spec => []TypeOK
  BY AlwaysSound, PTL DEF IInv

(* A leave request and its absence tell the same story and the overtime of  *)
(* an account is the sum of the approved requests, in whichever order any   *)
(* number of requests and scans decide, cancel and escalate.                *)
THEOREM EffectsAreTrue == Spec => []EffectsFollowWorkflow
  <1>1. ASSUME IInv
        PROVE  EffectsFollowWorkflow
    <2>1. ASSUME NEW w \in Created, workflow[w].type = "LEAVE_REQUEST"
          PROVE  CASE workflow[w].status \in Open -> absence[w] = "REQUESTED"
                   [] workflow[w].status = "APPROVED" -> absence[w] \in {"APPROVED", "CANCELLED"}
                   [] OTHER -> absence[w] = workflow[w].status
      <3>1. SameStory(w) /\ workflow[w].status \in Open \cup Final
        BY <1>1 DEF IInv, TypeOK, WorkflowSound, Created, Row
      <3> QED
        BY <2>1, <3>1 DEF SameStory, Open, Final
    <2>2. ASSUME NEW x \in Person
          PROVE  overtime[x] = Cardinality({w \in Created :
                                              /\ workflow[w].type = "OVERTIME_APPROVAL"
                                              /\ workflow[w].status = "APPROVED"
                                              /\ workflow[w].of = x})
      BY <1>1 DEF IInv, Granted
    <2> QED
      BY <2>1, <2>2 DEF EffectsFollowWorkflow
  <1> QED
    BY <1>1, AlwaysSound, PTL

(* Nobody has two bookings or two valid absences on one day: what a request *)
(* or a decision found free under the person's lock is free when it commits. *)
THEOREM DaysAreSingle == Spec => []NothingOverlaps
  BY AlwaysSound, PTL DEF IInv

(* No employee or lead is asked to approve a request of their own, whatever *)
(* rules, units and roles the routing, the delegation and the escalation    *)
(* meet, unless they are recorded as their own supervisor.                  *)
THEOREM OthersApprove == Spec => []NoOwnApproval
  <1>1. IInv => NoOwnApproval
    BY DEF IInv, WorkflowSound, RowSound, NoOwnApproval, Created, MayBeOwn
  <1> QED
    BY <1>1, AlwaysSound, PTL

-----------------------------------------------------------------------------
(* Decisions are made by the approver of the moment.                        *)

LEMMA WhoWrites ==
  ASSUME IInv, Next
  PROVE  \/ workflow' = workflow
         \/ \E s \in Request : Create(s) \/ DecideCommit(s) \/ Withdraw(s)
         \/ \E c \in Scanner : Escalate(c)
  <1>1. ASSUME NEW s \in Request, Arrival(s)
        PROVE  workflow' = workflow
    BY <1>1 DEF Arrival, AskLeave, AskCorrection, AskOvertime, AskPostClose, Asks, Book,
                WithdrawLock, DecideRead
  <1>2. ASSUME NEW s, Rollback(s) \/ WriteBooking(s) \/ DecideApply(s) \/ ScanFails(s) \/ StartScan(s)
        PROVE  workflow' = workflow
    BY <1>2 DEF Rollback, WriteBooking, DecideApply, ScanFails, StartScan
  <1>3. ASSUME NEW c, NEW w, EscalateRead(c, w) \/ EscalateSkip(c, w) \/ EscalateBusy(c, w)
        PROVE  workflow' = workflow
    BY <1>3 DEF EscalateRead, EscalateSkip, EscalateBusy
  <1>4. ASSUME NEW x, DeleteRule(x) \/ Overdue(x) \/ \E y \in Person : WriteRule(x, y)
        PROVE  workflow' = workflow
    BY <1>4 DEF DeleteRule, WriteRule, Overdue
  <1> QED
    BY <1>1, <1>2, <1>3, <1>4 DEF Next, Progress, ScanStep

Lawful(w) ==
  /\ workflow'[w].status # workflow[w].status =>
       /\ workflow[w].status \notin Final
       /\ workflow'[w].status \in {"APPROVED", "REJECTED"} =>
            \E s \in Request : /\ tx[s].id = w /\ tx'[s] = Idle
                              /\ tx[s].actor = workflow[w].approver
                              /\ MayDecide(tx[s].actor, workflow[w].type)
  /\ workflow[w].trail \subseteq workflow'[w].trail
  /\ workflow'[w].status \in Open =>
       workflow'[w].approver \in workflow'[w].trail \cup {None}

LEMMA UnchangedIsLawful ==
  ASSUME IInv, NEW w \in Created, workflow'[w] = workflow[w]
  PROVE  Lawful(w)
  BY DEF Lawful, IInv, WorkflowSound, RowSound, Created

LEMMA CreateIsLawful ==
  ASSUME IInv, NEW s \in Request, Create(s), NEW w \in Created
  PROVE  Lawful(w)
  <1>1. CreationKnows(s)
    BY DEF Create, IInv, Sound, Process
  <1>2. Least(Workflow \ Created) \in Workflow \ Created
    BY <1>1, NextNumber DEF CreationKnows
  <1>3. workflow'[w] = workflow[w]
    BY <1>2 DEF Create, Created, IInv, TypeOK
  <1> QED
    BY <1>3, UnchangedIsLawful

LEMMA DecisionIsLawful ==
  ASSUME IInv, NEW s \in Request, DecideCommit(s), NEW w \in Created
  PROVE  Lawful(w)
  <1>0. s \in Process
    BY DEF Process
  <1>1. PICK v \in Created, row \in Row, action \in DOMAIN Outcome \cup {"DELEGATE"} :
          Decides(s, v, row, action)
    BY <1>0, DecisionIs
  <1>2. PICK n \in Row :
          /\ workflow'[v] = n /\ \A u \in Workflow \ {v} : workflow'[u] = workflow[u]
          /\ action # "DELEGATE" => n.status = Outcome[action]
          /\ action = "DELEGATE" => n.status = workflow[v].status
          /\ workflow[v].trail \subseteq n.trail /\ n.approver \in n.trail \cup {None}
    BY <1>0, <1>1, DecidedRow DEF Decides
  <1>3. CASE w # v
    BY <1>2, <1>3, UnchangedIsLawful DEF Created
  <1>4. CASE w = v
    <2>1. tx'[s] = Idle
      BY <1>0, EndsTx DEF DecideCommit, IInv
    <2>2. /\ tx[s].id = w /\ workflow[w].status \in Open
          /\ n.status \in {"APPROVED", "REJECTED"} => action \in {"APPROVE", "REJECT"}
          /\ action \in {"APPROVE", "REJECT"} => /\ tx[s].actor = workflow[w].approver
                                                 /\ MayDecide(tx[s].actor, workflow[w].type)
      BY <1>1, <1>2, <1>4, TypesAre DEF Decides, MayAct, Open
    <2> QED
      BY <1>2, <1>4, <2>1, <2>2 DEF Lawful, Open, Final
  <1> QED
    BY <1>3, <1>4

LEMMA WithdrawalIsLawful ==
  ASSUME IInv, NEW s \in Request, Withdraw(s), NEW w \in Created
  PROVE  Lawful(w)
  <1>1. CASE workflow'[w] = workflow[w]
    BY <1>1, UnchangedIsLawful
  <1>2. CASE workflow'[w] # workflow[w]
    <2>1. /\ workflow'[w].status = "CANCELLED" /\ workflow[w].status \in Open
          /\ workflow'[w].trail = workflow[w].trail
      BY <1>2 DEF Withdraw, Created, IInv, TypeOK, Row
    <2> QED
      BY <2>1 DEF Lawful, Open, Final
  <1> QED
    BY <1>1, <1>2

LEMMA EscalationIsLawful ==
  ASSUME IInv, NEW c \in Scanner, Escalate(c), NEW w \in Created
  PROVE  Lawful(w)
  <1>1. CASE workflow'[w] = workflow[w]
    BY <1>1, UnchangedIsLawful
  <1>2. CASE workflow'[w] # workflow[w]
    <2>1. EscalationKnows(c) /\ tx[c].to \in Person \cup {None} /\ tx[c].row \in Row
      BY DEF Escalate, IInv, Sound, Process, TypeOK, Tx
    <2>2. w = tx[c].id /\ Same(w, tx[c].row) /\ workflow'[w] = EscalatedRow(c)
      BY <1>2 DEF Escalate, Created, IInv, TypeOK
    <2>3. /\ workflow'[w].status = "ESCALATED" /\ workflow'[w].approver = tx[c].to
          /\ workflow'[w].trail = tx[c].row.trail \cup ({tx[c].to} \ {None})
      BY <2>1, <2>2 DEF EscalatedRow, Row
    <2> QED
      BY <2>1, <2>2, <2>3 DEF Lawful, Same, EscalationKnows, Final
  <1> QED
    BY <1>1, <1>2

(* A workflow is decided once, approved or rejected only by its approver of *)
(* that moment, and nobody who was asked leaves the trail: a decision       *)
(* compares what it has read with the row it holds before it writes.        *)
THEOREM ApproversDecide == Spec => DecidedByItsApprover
  <1>1. ASSUME IInv, Next, NEW w \in Created
        PROVE  Lawful(w)
    BY <1>1, WhoWrites, UnchangedIsLawful, CreateIsLawful, DecisionIsLawful, WithdrawalIsLawful,
       EscalationIsLawful
  <1>2. IInv /\ [Next]_vars => [\A w \in Created : Lawful(w)]_vars
    BY <1>1
  <1>3. Spec => [][\A w \in Created : Lawful(w)]_vars
    BY <1>2, AlwaysSound, PTL DEF Spec
  <1> QED
    BY <1>3 DEF DecidedByItsApprover, Lawful
=============================================================================
