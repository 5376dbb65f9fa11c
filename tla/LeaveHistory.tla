------------------------------ MODULE LeaveHistory ------------------------------
(***************************************************************************)
(* The annual leave of one appointment before and after each operation: a    *)
(* history variable keeps the rows the last operation found.                 *)
(***************************************************************************)
EXTENDS LeaveAccount

VARIABLE before  \* terms, leave and adjusted as they were

Earlier == INSTANCE LeaveAccount WITH terms <- before.terms, leave <- before.leave,
                                      adjusted <- before.adjusted, accountWritten <- before.accountWritten

Rows == [terms |-> terms, leave |-> leave, adjusted |-> adjusted, accountWritten |-> accountWritten]

HistoryInit == AccountInit /\ before = Rows
HistoryNext == AccountNext /\ before' = Rows
HistorySpec == HistoryInit /\ [][HistoryNext]_<<accountVars, before>>

\* The balance at the end of year y moved from old to new.
Moved(y, old, new) ==
  LET moved == new.remaining - old.remaining
      days(l) == 100 * (Cardinality(OffWork(l, y)) + Cardinality(OffWork(l, y - 1)))
      approved(l) == leave[l] = "APPROVED"
      was(l) == before.leave[l] = "APPROVED"
      delta(x) == adjusted[x] - before.adjusted[x] IN
  old # Refused /\ new # Refused =>
    /\ \A l \in Leave : /\ approved(l) /\ ~ was(l) => moved \in - days(l) .. 0
                        /\ was(l) /\ ~ approved(l) => moved \in 0 .. days(l)
    /\ delta(y) # 0 => moved = delta(y)
    /\ y > 0 /\ delta(y - 1) > 0 => moved \in 0 .. delta(y - 1)
    /\ y > 0 /\ delta(y - 1) < 0 => moved \in delta(y - 1) .. 0
    /\ \A t \in terms \ before.terms : \A last \in before.terms \ terms :
         LET same == [t.is EXCEPT !.unit = last.is.unit] = last.is IN
         last.from < t.from /\ (Year(y).to < t.from \div Parts \/ (same /\ t.from % Parts = 0))
           => moved = 0

\* What an operation moves in the balances at the ends of the years.  Approving leave costs
\* at most its days, in its year or as carry-over in the next, and gives nothing; cancelling
\* gives at most these back.  An adjustment moves its own year by its amount and the next by
\* at most that.  A new term leaves the years before it alone, and every year when it begins
\* with a day and changes nothing about leave, whether it ends earlier or later than the one
\* it cuts short (leave-balance.helper.ts, the writers).
BalanceMoves ==
  \A y \in {x \in Years : DaysOf(Bounds(x)) # {}} :
    Moved(y, Earlier!Balance(y, Year(y).to), Balance(y, Year(y).to))
=============================================================================
