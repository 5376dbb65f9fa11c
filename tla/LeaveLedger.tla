------------------------------ MODULE LeaveLedger ------------------------------
(***************************************************************************)
(* The arithmetic of annual leave: what a year of an appointment entitles    *)
(* to, what is carried over into it and when that is lost, and what is used. *)
(*                                                                          *)
(* Days are numbered from the first day of the first year.  Here all years,  *)
(* months and weeks are equally long.  Amounts are hundredths of a day, and  *)
(* what the code computes with floating point is exact until it is rounded.  *)
(***************************************************************************)
EXTENDS Integers, SequencesExt, FiniteSetsExt, Ordering

CONSTANTS
  Months,     \* of a year
  MonthDays,  \* of a month
  WeekDays,   \* of a week
  FullTime,   \* the weekly hours of full time; the same in every rule
  PerWeek,    \* the working days of a full week; the same in every rule
  Refused     \* the answer to a question the ledger cannot answer

ASSUME CalendarHasDays ==
  /\ Months \in Nat \ {0} /\ MonthDays \in Nat \ {0} /\ WeekDays \in Nat \ {0}
  /\ FullTime \in Nat \ {0} /\ PerWeek \in Nat \ {0}

YearDays == Months * MonthDays
Year(y) == [from |-> y * YearDays, to |-> (y + 1) * YearDays - 1]
MonthOf(d) == (d % YearDays) \div MonthDays
Weekday(d) == (d % WeekDays) + 1

\* roundToTwo: the hundredths of n / d, halves up.
Hundredths(n, d) == (200 * n + d) \div (2 * d)

\* Intervals of days include both ends.
Clip(i, j) == [i EXCEPT !.from = Max({i.from, j.from}), !.to = Min({i.to, j.to})]
DaysOf(i) == i.from .. i.to
Works(d, is) == Weekday(d) \in is.days /\ d \notin is.holidays
WorkingDays(i, is) == {d \in DaysOf(i) : Works(d, is)}

\* An answer of the ledger, and what is none.
Answers ==
  [entitlement : Int, carriedOver : Int, used : Int, carriedOverUsed : Int, forfeited : Int,
   adjustments : Int, remaining : Int]
ASSUME RefusalIsNoAnswer == Refused \notin Int /\ Refused \notin Answers

-----------------------------------------------------------------------------
(* One year under one rule.  A rule says how many days a year entitles to,   *)
(* whether parts of a year count, whether leave is carried over, how much of *)
(* it at most, and the day of the year until which it must be taken.         *)

\* Months of a year in which somebody is employed, begun ones included.
CoveredMonths(y, employed) ==
  LET i == Clip(employed, Year(y)) IN
  IF i.from > i.to THEN 0 ELSE MonthOf(i.to) - MonthOf(i.from) + 1

Entitlement(y, employed, hours, rule) ==
  Hundredths(rule.annual * hours * (IF rule.prorated THEN CoveredMonths(y, employed) ELSE Months),
             FullTime * Months)

CarriedOver(prior, rule) == Min({Max({prior, 0}), 100 * rule.maxCarried})

Deadline(y, rule) == Year(y).from + rule.deadline

\* Leave that began in the year, as far as it is known on a day.
Visible(usage, y, asOf) == {u \in usage : u.date \in DaysOf(Year(y)) /\ u.date <= asOf}

\* Mutant: what is left at the deadline can still be spent.
Spend_Late(y, rule, acc, u) ==
  LET expires == rule.carries /\ ~ acc.expired /\ u.date > Deadline(y, rule)
      take == Min({acc.left, 100 * u.days}) IN
  [left |-> acc.left - take, used |-> acc.used + take,
   forfeited |-> acc.forfeited + IF expires THEN acc.left ELSE 0,
   expired |-> acc.expired \/ expires]

\* Leave is taken from what was carried over while there is some; the first leave
\* after the deadline finds it forfeited.
Spend(y, rule, acc, u) ==
  LET expires == rule.carries /\ ~ acc.expired /\ u.date > Deadline(y, rule)
      left == IF expires THEN 0 ELSE acc.left
      take == Min({left, 100 * u.days}) IN
  [left |-> left - take, used |-> acc.used + take,
   forfeited |-> acc.forfeited + IF expires THEN acc.left ELSE 0,
   expired |-> acc.expired \/ expires]

\* allocateCarryOverUsage: leave in the order of its days, then the day of asking.
Allocate(y, rule, carried, seen, asOf) ==
  LET asked(spent) ==
        IF rule.carries /\ ~ spent.expired /\ asOf > Deadline(y, rule)
        THEN [spent EXCEPT !.left = 0, !.forfeited = @ + spent.left] ELSE spent IN
  asked(FoldLeft(LAMBDA acc, u : Spend(y, rule, acc, u),
                 [left |-> carried, used |-> 0, forfeited |-> 0, expired |-> FALSE],
                 InOrder(seen, {p \in seen \X seen : p[1].date < p[2].date})))

\* calculateLeaveLedger, from the entitlement on.
Ledger(y, asOf, entitlement, rule, prior, usage, adjustments) ==
  LET seen == Visible(usage, y, asOf)
      carried == CarriedOver(prior, rule)
      carry == Allocate(y, rule, carried, seen, asOf)
      used == MapThenSumSet(LAMBDA u : 100 * u.days, seen) IN
  [entitlement |-> entitlement, carriedOver |-> carried, used |-> used,
   carriedOverUsed |-> carry.used, forfeited |-> carry.forfeited, adjustments |-> adjustments,
   remaining |-> entitlement + carried + adjustments - carry.forfeited - used]

-----------------------------------------------------------------------------
(* One year under several terms of employment, cut to the days of the year   *)
(* in which somebody is employed.                                            *)

\* The part of a term that lies in an interval; since keeps terms apart.
Segment(t, i) == [from |-> i.from, to |-> i.to, since |-> t.from, hours |-> t.is.hours,
                  days |-> t.is.days, rule |-> t.is.rule]

\* clipAndValidateCoverage: every day lies in one segment.
CoversOnce(segments, covered) ==
  \A d \in DaysOf(covered) : Cardinality({s \in segments : d \in DaysOf(s)}) = 1

\* sameBusinessConfiguration
Alike(segments) ==
  \A s, t \in segments : s.hours = t.hours /\ s.days = t.days /\ s.rule = t.rule

\* The day whose rule decides about carry-over.
PolicyDay(y, asOf, policy, covered) ==
  LET day == CASE policy.at = "YEAR_START" -> Year(y).from
               [] policy.at = "YEAR_END" -> Year(y).to
               [] policy.at = "AS_OF" -> asOf IN
  Min({Max({day, covered.from}), covered.to})

\* Mutant: the last day of a segment does not count.
Shared_Exclusive(segments, policy) ==
  LET byHours == policy.basis = "WEEKLY_HOURS" IN
  Hundredths(MapThenSumSet(LAMBDA s : s.rule.annual * (s.to - s.from)
                                        * (IF byHours THEN s.hours ELSE Cardinality(s.days)),
                           segments),
             (IF byHours THEN FullTime ELSE PerWeek) * YearDays)

\* Each segment has its share of the year, by hours or by days of work.
Shared(segments, policy) ==
  LET byHours == policy.basis = "WEEKLY_HOURS" IN
  Hundredths(MapThenSumSet(LAMBDA s : s.rule.annual * (s.to - s.from + 1)
                                        * (IF byHours THEN s.hours ELSE Cardinality(s.days)),
                           segments),
             (IF byHours THEN FullTime ELSE PerWeek) * YearDays)

\* calculateAssignmentLeaveLedger
AssignmentLedger(y, asOf, employed, segments, policies, prior, usage, adjustments) ==
  LET covered == Clip(employed, Year(y))
      policy == CHOOSE p \in policies : TRUE
      At(d) == CHOOSE s \in segments : d \in DaysOf(s)
      first == At(covered.from)
      atRule == At(PolicyDay(y, asOf, policy, covered)).rule IN
  CASE ~ CoversOnce(segments, covered) -> Refused
    [] CoversOnce(segments, covered) /\ Alike(segments) ->
         Ledger(y, asOf, Entitlement(y, employed, first.hours, first.rule), first.rule,
                prior, usage, adjustments)
    [] OTHER ->
         IF policies = {} THEN Refused
         ELSE Ledger(y, asOf, Shared(segments, policy), atRule, prior, usage, adjustments)
=============================================================================
