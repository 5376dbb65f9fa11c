------------------------------ MODULE LeaveAccount ------------------------------
(***************************************************************************)
(* The annual leave of one appointment: terms that follow each other, leave  *)
(* that is asked for, decided and cancelled, adjustments by HR, and the      *)
(* balance of a year, which is calculated from them whenever somebody asks.  *)
(*                                                                          *)
(* A term begins and ends at any instant, a leave lasts whole days.  Terms   *)
(* need not cover the appointment: the first may begin later than it, the    *)
(* last may end earlier.  Each operation holds the lock of the person; which *)
(* closing periods are locked, and who decides, is the matter of             *)
(* ClosingPeriod and WorkflowApproval.                                       *)
(***************************************************************************)
EXTENDS LeaveLedger

CONSTANTS
  NumYears,  \* bound: the years that are looked at, from 0
  Parts,     \* the instants of a day
  Employed,  \* the days of the appointment
  FirstTerm, \* the terms it may be created with (first instant, end, what they say)
  NextTerm,  \* and those that may be appended
  Leave,     \* the intervals of days that leave is asked for
  FirstLeave, \* those with approved leave at first
  Delta,     \* what HR may add to a year, in hundredths of a day
  Nothing,   \* of a group without a policy for changes of terms
  MaxAccountWrites \* bound: operations that are committed

Years == 0 .. NumYears - 1
OpenEnd == NumYears * YearDays * Parts

ASSUME BoundsOfLeave == NumYears \in Nat \ {0} /\ Parts \in Nat \ {0} /\ MaxAccountWrites \in Nat
\* A term ends behind its beginning; one without an end, and one from legacy data without a
\* beginning, reaches to the bounds of what is looked at.
ASSUME TermsLast ==
  /\ Employed \in [from : Nat, to : Nat] /\ Employed.from <= Employed.to
  /\ \A n \in NextTerm \cup FirstTerm :
       n \in [from : Nat, to : Nat, is : {n.is}] /\ n.from < n.to /\ n.to <= OpenEnd
\* What terms say: hours, days of the week, holidays, and the rule and policy of their group.
ASSUME TermsAreTerms ==
  \A n \in NextTerm \cup FirstTerm :
    /\ DOMAIN n.is = {"unit", "hours", "days", "holidays", "rule", "policy"}
    /\ n.is.hours \in Nat /\ n.is.days \subseteq 1 .. WeekDays
    /\ n.is.rule \in [annual : Nat, prorated : BOOLEAN, carries : BOOLEAN, maxCarried : Nat, deadline : Int]
    /\ n.is.policy # Nothing => n.is.policy.at \in {"YEAR_START", "YEAR_END", "AS_OF"}
\* Approved leave does not overlap at first either.
ASSUME LeaveIsProper ==
  /\ IsFiniteSet(Leave) /\ Leave \subseteq [from : Nat, to : Nat] /\ \A l \in Leave : l.from <= l.to
  /\ \A k, l \in FirstLeave : k # l => k.to < l.from \/ l.to < k.from
ASSUME AdjustmentsAreAmounts == Delta \subseteq Int

VARIABLES
  terms,    \* the rows of employment_terms
  leave,    \* the status of the last leave asked for on an interval
  adjusted, \* the sum of the leave_adjustments of each year
  accountWritten \* how many operations were committed

accountVars == <<terms, leave, adjusted, accountWritten>>

AccountTypeOK ==
  /\ \A t \in terms : t.from \in 0 .. t.to /\ t.to \in 0 .. OpenEnd
  /\ leave \in [Leave -> {"NONE", "REQUESTED", "APPROVED", "REJECTED", "CANCELLED"}]
  /\ adjusted \in [Years -> Int]
  /\ accountWritten \in 0 .. MaxAccountWrites

\* resolveInterval: the appointment and its terms cover the days, under one configuration.
Touching(i) == {t \in terms : t.from < (i.to + 1) * Parts /\ t.to > i.from * Parts}
LeaveResolves(i) ==
  /\ DaysOf(i) \subseteq DaysOf(Employed)
  /\ \A x \in i.from * Parts .. (i.to + 1) * Parts - 1 : \E t \in Touching(i) : t.from <= x /\ x < t.to
  /\ Cardinality({t.is : t \in Touching(i)}) = 1

\* create, and leave that was approved since
AccountInit ==
  /\ \E t \in FirstTerm : terms = {t}
  /\ leave = [l \in Leave |-> IF l \in FirstLeave /\ LeaveResolves(l) THEN "APPROVED" ELSE "NONE"]
  /\ adjusted = [y \in Years |-> 0]
  /\ accountWritten = 0

-----------------------------------------------------------------------------
(* The balance of a year on one of its days.                                 *)

\* termDateBounds: the days that a term touches.
TermDays(t) == [from |-> t.from \div Parts, to |-> (t.to - 1) \div Parts]
Bounds(y) == Clip(Employed, Year(y))
TermsIn(i) == {t \in terms : TermDays(t).from <= i.to /\ TermDays(t).to >= i.from}

\* leaveUsage: approved leave by term, dated by its first day in the year and the term.
Usage(y) ==
  LET used(l, t) == Clip(Clip(l, Bounds(y)), TermDays(t)) IN
  {[date |-> used(x[1], x[2]).from, days |-> Cardinality(WorkingDays(used(x[1], x[2]), x[2].is))] :
     x \in {z \in {l \in Leave : leave[l] = "APPROVED"} \X TermsIn(Bounds(y)) :
              WorkingDays(used(z[1], z[2]), z[2].is) # {}}}

\* calculate, with what its groups say of changes of terms.
YearLedger(y, asOf, prior) ==
  LET mine == TermsIn(Bounds(y))
      policies == {t.is.policy : t \in mine} \ {Nothing} IN
  IF Cardinality(policies) > 1 THEN Refused
  ELSE AssignmentLedger(y, asOf, Employed, {Segment(t, Clip(TermDays(t), Bounds(y))) : t \in mine},
                        policies, prior, Usage(y), adjusted[y])

\* What was left of the year before, as if nothing had been carried over into it.
LeftOf(y) ==
  IF y < 0 \/ DaysOf(Bounds(y)) = {} THEN 0
  ELSE LET left(l) == IF l = Refused THEN Refused ELSE Max({l.remaining, 0}) IN
       left(YearLedger(y, Year(y).to, 0))

Balance(y, asOf) ==
  LET from(prior) == IF prior = Refused THEN Refused ELSE YearLedger(y, asOf, prior) IN
  from(LeftOf(y - 1))

-----------------------------------------------------------------------------
(* Operations.                                                              *)

Commits == accountWritten < MaxAccountWrites /\ accountWritten' = accountWritten + 1

\* createAbsence; leave that was rejected or cancelled does not stand in the way.
AskForLeave(l) ==
  /\ Commits /\ LeaveResolves(l)
  /\ \A t \in Touching(l) : WorkingDays(l, t.is) # {}
  /\ \A o \in Leave : leave[o] \in {"REQUESTED", "APPROVED"} => DaysOf(o) \cap DaysOf(l) = {}
  /\ leave' = [leave EXCEPT ![l] = "REQUESTED"]
  /\ UNCHANGED <<terms, adjusted>>

\* applyWorkflowEffect
DecideLeave(l, status) ==
  /\ Commits /\ leave[l] = "REQUESTED"
  /\ leave' = [leave EXCEPT ![l] = status]
  /\ UNCHANGED <<terms, adjusted>>

\* cancelAbsence
CancelLeave(l) ==
  /\ Commits /\ LeaveResolves(l) /\ leave[l] \in {"REQUESTED", "APPROVED"}
  /\ leave' = [leave EXCEPT ![l] = "CANCELLED"]
  /\ UNCHANGED <<terms, adjusted>>

\* createLeaveAdjustment: the days of the year that are employed have one configuration.
AdjustLeave(y, delta) ==
  /\ Commits /\ DaysOf(Bounds(y)) # {} /\ LeaveResolves(Bounds(y))
  /\ adjusted' = [adjusted EXCEPT ![y] = @ + delta]
  /\ UNCHANGED <<terms, leave>>

\* appendTerm: in the course of the last term, which it may outlast or not, not behind the
\* appointment, and after every record of leave, whatever became of it.
AppendTerm(n) ==
  /\ Commits /\ n.to <= (Employed.to + 1) * Parts
  /\ \A l \in Leave : leave[l] = "NONE" \/ l.to * Parts < n.from
  /\ \E t \in terms :
       /\ {u \in terms : n.from < u.to} = {t} /\ t.from < n.from
       /\ terms' = (terms \ {t}) \cup {[t EXCEPT !.to = n.from], n}
  /\ UNCHANGED <<leave, adjusted>>

AccountNext ==
  \/ \E l \in Leave : AskForLeave(l) \/ CancelLeave(l)
  \/ \E l \in Leave, status \in {"APPROVED", "REJECTED"} : DecideLeave(l, status)
  \/ \E y \in Years, delta \in Delta : AdjustLeave(y, delta)
  \/ \E n \in NextTerm : AppendTerm(n)

AccountSpec == AccountInit /\ [][AccountNext]_accountVars

-----------------------------------------------------------------------------
(* Properties.                                                              *)

\* The days of approved leave that somebody would have worked.
OffWork(l, y) ==
  {d \in DaysOf(Clip(l, Bounds(y))) : \A t \in Touching([from |-> d, to |-> d]) : Works(d, t.is)}
TakenDays(y, L) == UNION {OffWork(l, y) : l \in {o \in L : leave[o] = "APPROVED"}}

\* A year whose terms leave it open what it entitles to.
Unclear(y) ==
  LET mine == UNION {Touching([from |-> d, to |-> d]) : d \in DaysOf(Bounds(y))}
      policies == {t.is.policy : t \in mine} \ {Nothing} IN
  \/ \E d \in DaysOf(Bounds(y)) : Cardinality(Touching([from |-> d, to |-> d])) # 1
  \/ Cardinality(policies) > 1
  \/ policies = {} /\ Cardinality({<<t.is.hours, t.is.days, t.is.rule>> : t \in mine}) > 1

\* What a balance b of a year on a day must agree with.
Exact(y, asOf, b) ==
  LET deadlines == {Deadline(y, t.is.rule) : t \in TermsIn(Bounds(y))}
      carries == {t.is.rule.carries : t \in TermsIn(Bounds(y))}
      begun(d) == TakenDays(y, {l \in Leave : l.from <= d}) IN
  /\ b = Refused <=> Unclear(y) \/ (y > 0 /\ Unclear(y - 1))
  /\ b # Refused =>
       /\ b.used <= 100 * Cardinality(begun(asOf))
       /\ b.used >= 100 * Cardinality({d \in TakenDays(y, Leave) : d <= asOf})
       /\ b.carriedOverUsed + b.forfeited <= b.carriedOver
       /\ b.carriedOver <= LeftOf(y - 1)
       /\ carries = {TRUE} /\ Cardinality(deadlines) = 1 =>
            \A d \in deadlines :
              /\ b.carriedOverUsed <= 100 * Cardinality(begun(d))
              /\ asOf > d => b.carriedOverUsed + b.forfeited = b.carriedOver

\* The balance of a year is refused exactly when a day of the appointment has no term, or two
\* because one begins within it, or when terms differ and no one policy says how to share the
\* year, there or in the year before.
\* Otherwise the leave used is that of the working days under the terms of the day, those
\* behind the day of asking only with the leave they belong to; what was carried over is
\* used by leave that began before the deadline only, and is used up or forfeited behind it
\* (leave-balance.helper.ts, assignment-leave-ledger.ts, leave-allocation.ts).
LedgerIsExact ==
  \A y \in {x \in Years : DaysOf(Bounds(x)) # {}} :
    \A asOf \in DaysOf(Year(y)) : Exact(y, asOf, Balance(y, asOf))
=============================================================================
