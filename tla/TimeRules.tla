------------------------------- MODULE TimeRules -------------------------------
(***************************************************************************)
(* The working-time rules: started minutes of work and of pauses by day, the *)
(* surcharge each minute earns, and what the rules find wrong.               *)
(*                                                                          *)
(* A sheet is a sequence of intervals [from, to, kind] of instants, in any   *)
(* order.  Days of the model are equally long, and begin at midnight of the  *)
(* place; what the code computes with floating point is exact until it is    *)
(* rounded to hundredths of an hour.                                         *)
(***************************************************************************)
EXTENDS Integers, SequencesExt, FiniteSetsExt, Ordering

CONSTANTS
  Minute,       \* the instants of a minute
  HourMinutes,  \* the minutes of an hour
  DayHours,     \* the hours of a day
  WorkKinds,    \* the kinds of interval that count as work
  Breaks,       \* a break rule: hours of work, and the minutes of break they need
  StandardDay,  \* hours behind which a day is long, though not too long
  Surcharges,   \* a surcharge rule: the priority of each category that has one
  Night,        \* the minutes of the day from which and until which it is night
  Holidays, Weekends  \* days

\* Hundredths of an hour tell whole minutes apart.
ASSUME ClockTicks ==
  Minute \in Nat \ {0} /\ HourMinutes \in 1 .. 199 /\ DayHours \in Nat \ {0}
ASSUME RulesAreRules ==
  /\ IsFiniteSet(Breaks) /\ \A b \in Breaks : b.hours \in Nat \ {0} /\ b.minutes \in Nat
  /\ \A c \in DOMAIN Surcharges : Surcharges[c] \in Nat

Hour == HourMinutes * Minute
Day(t) == t \div (DayHours * Hour)
MinuteOfDay(t) == (t % (DayHours * Hour)) \div Minute

\* roundToTwo: the hundredths of n / d, halves up.
RoundToTwo(n, d) == (200 * n + d) \div (2 * d)

-----------------------------------------------------------------------------
(* Intervals.                                                               *)

Valid(i) == i.from < i.to

\* The valid intervals of some kinds by their starts; what starts together keeps its order.
Sorted(sheet, kinds) ==
  LET mine == {k \in DOMAIN sheet : Valid(sheet[k]) /\ sheet[k].kind \in kinds}
      order == InOrder(mine, {p \in mine \X mine :
                                \/ sheet[p[1]].from < sheet[p[2]].from
                                \/ sheet[p[1]].from = sheet[p[2]].from /\ p[1] < p[2]}) IN
  [n \in DOMAIN order |-> sheet[order[n]]]

\* Mutant: an interval inside the one before cuts it short.
Merged_Cut(sorted) ==
  FoldLeft(LAMBDA done, i : IF done = <<>> \/ Last(done).to <= i.from THEN Append(done, i)
                            ELSE [done EXCEPT ![Len(done)].to = i.to], <<>>, sorted)

\* mergeWorkIntervals: intervals that touch stay apart.
Merged(sorted) ==
  FoldLeft(LAMBDA done, i : IF done = <<>> \/ Last(done).to <= i.from THEN Append(done, i)
                            ELSE [done EXCEPT ![Len(done)].to = Max({@, i.to})], <<>>, sorted)

\* overlapExists: neighbours in the order of their starts.
Overlaps(sorted) == {k \in 1 .. Len(sorted) - 1 : sorted[k].to > sorted[k + 1].from}

\* The minutes an interval starts, and which interval each belongs to.
Started(merged) ==
  UNION {{k} \X {t \in merged[k].from .. merged[k].to - 1 : (t - merged[k].from) % Minute = 0} :
           k \in DOMAIN merged}
OnDay(started, d) == Cardinality({m \in started : Day(m[2]) = d})

-----------------------------------------------------------------------------
(* Surcharges.                                                              *)

InNight(m) ==
  IF Night.from = Night.to THEN TRUE
  ELSE IF Night.from < Night.to THEN m >= Night.from /\ m < Night.to
  ELSE m >= Night.from \/ m < Night.to

Matches(t) ==
  {c \in {"HOLIDAY", "WEEKEND", "NIGHT"} :
     CASE c = "HOLIDAY" -> Day(t) \in Holidays
       [] c = "WEEKEND" -> Day(t) \in Weekends
       [] c = "NIGHT" -> InNight(MinuteOfDay(t))}

Priority(c) == IF c \in DOMAIN Surcharges THEN Surcharges[c] ELSE 0
TieBreak == [HOLIDAY |-> 3, WEEKEND |-> 2, NIGHT |-> 1]
Beats(c, o) ==
  \/ Priority(c) > Priority(o)
  \/ Priority(c) = Priority(o) /\ TieBreak[c] > TieBreak[o]

\* selectSurchargeCategory, of all minutes.
SurchargeMinutes(started) ==
  [c \in DOMAIN TieBreak |->
     Cardinality({m \in started : c \in Matches(m[2]) /\ \A o \in Matches(m[2]) \ {c} : Beats(c, o)})]

-----------------------------------------------------------------------------
(* Rules.  A limit is the maximum of a day and the minimum of rest, in       *)
(* minutes, and the maximum of a week in hundredths of an hour.              *)

\* Work that begins on one day is one period, and ends with the last of it.
Periods(merged) ==
  FoldLeft(LAMBDA done, i :
             IF done = <<>> \/ Day(Last(done).from) # Day(i.from) THEN Append(done, i)
             ELSE [done EXCEPT ![Len(done)].to = Max({@, i.to})], <<>>, merged)

ShortRests(merged, limit) ==
  LET periods == Periods(merged) IN
  {k \in 1 .. Len(periods) - 1 :
     RoundToTwo(periods[k + 1].from - periods[k].to, Hour) * HourMinutes < 100 * limit.rest}

RequiredBreak(hours) == Max({0} \cup {b.minutes : b \in {r \in Breaks : hours >= 100 * r.hours}})

\* evaluateTimeRules.  A violation is a code and what it was found at.
Evaluate(sheet, limit) ==
  LET sorted == Sorted(sheet, WorkKinds)
      merged == Merged(sorted)
      work == Started(merged)
      pauses == Started(Merged(Sorted(sheet, {"PAUSE"})))
      days == {Day(m[2]) : m \in work \cup pauses}
      hours == [d \in days |-> RoundToTwo(OnDay(work, d), HourMinutes)]
      total == RoundToTwo(Cardinality(work), HourMinutes)
      long(d) == hours[d] * HourMinutes > 100 * limit.day IN
  [hours |-> total, minutes |-> Cardinality(work), surcharges |-> SurchargeMinutes(work),
   warnings |-> {d \in days : ~ long(d) /\ hours[d] > 100 * StandardDay},
   violations |->
     {<<"INVALID_INTERVAL", k>> : k \in {j \in DOMAIN sheet : ~ Valid(sheet[j])}}
     \cup {<<"OVERLAP", k>> : k \in Overlaps(sorted)}
     \cup {<<"REST_HOURS_DEFICIT", k>> : k \in ShortRests(merged, limit)}
     \cup {<<"MAX_DAILY_HOURS_EXCEEDED", d>> : d \in {e \in days : long(e)}}
     \cup {<<"BREAK_DEFICIT", d>> : d \in {e \in days : OnDay(pauses, e) < RequiredBreak(hours[e])}}
     \cup {v \in {<<"MAX_WEEKLY_HOURS_EXCEEDED", 0>>} : total > limit.week}]

-----------------------------------------------------------------------------
(* Properties of one evaluation.                                            *)

Instants(sheet, kinds) ==
  UNION {sheet[k].from .. sheet[k].to - 1 : k \in {j \in DOMAIN sheet : sheet[j].kind \in kinds}}

\* Whatever order, overlaps and invalid intervals a sheet has, its work counts each minute
\* once: as many minutes as the instants of work fill, and less than one more for each
\* interval, none when all begin and end with a minute.  An overlap is reported if and only
\* if two intervals of work share an instant, and each minute that earns a surcharge earns
\* one (minute-accounting.ts, interval-classification.ts, overlap.ts).
CountsOnce(sheet, limit) ==
  LET result == Evaluate(sheet, limit)
      worked == Cardinality(Instants(sheet, WorkKinds))
      mine == {k \in DOMAIN sheet : sheet[k].kind \in WorkKinds}
      shares(j, k) == (sheet[j].from .. sheet[j].to - 1) \cap (sheet[k].from .. sheet[k].to - 1) # {} IN
  /\ result.minutes * Minute >= worked
  /\ result.minutes * Minute <= worked + (Minute - 1) * Cardinality(mine)
  /\ (\A k \in mine : sheet[k].from % Minute = 0 /\ sheet[k].to % Minute = 0)
       => result.minutes * Minute = worked
  /\ (\E v \in result.violations : v[1] = "OVERLAP")
       <=> (\E j, k \in mine : j # k /\ shares(j, k))
  /\ MapThenSumSet(LAMBDA c : result.surcharges[c], DOMAIN result.surcharges) =
       Cardinality({m \in Started(Merged(Sorted(sheet, WorkKinds))) : Matches(m[2]) # {}})
=============================================================================
