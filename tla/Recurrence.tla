----------------------------- MODULE Recurrence -----------------------------
(***************************************************************************)
(* Recurrence rules (recurrence_conflicts.ts, recurrence_edit.ts): which   *)
(* days a rule generates from the day of its base event, by the code's     *)
(* stepping and by the definition of RFC 5545 the code means to follow.    *)
(*                                                                         *)
(* A day is a number; day 0 is a Monday and 1 January of a leap year.  The *)
(* time of day never changes along a series and is left out.               *)
(***************************************************************************)
EXTENDS Integers, FiniteSets

CONSTANT Horizon  \* the last day a window reaches

ASSUME HorizonAssumption == Horizon \in Nat

Days == 0 .. Horizon

MonthLength(y, m) ==
  CASE m = 2              -> IF y % 4 = 0 THEN 29 ELSE 28
    [] m \in {4, 6, 9, 11} -> 30
    [] OTHER              -> 31

NextDate(c) ==
  CASE c.d < MonthLength(c.y, c.m) -> [c EXCEPT !.d = @ + 1]
    [] c.d >= MonthLength(c.y, c.m) /\ c.m < 12 -> [c EXCEPT !.m = @ + 1, !.d = 1]
    [] OTHER -> [y |-> c.y + 1, m |-> 1, d |-> 1]

\* The calendar date of each day.
Date[n \in Days] == IF n = 0 THEN [y |-> 0, m |-> 1, d |-> 1] ELSE NextDate(Date[n - 1])

Dates    == [n \in Days |-> Date[n]]
Civil(n) == Dates[n]

Weekday(n) == n % 7   \* 0 is Monday

\* The months from the origin to the day.
MonthOf(n) == 12 * Civil(n).y + Civil(n).m

(* The bound of a rule: no UNTIL, UNTIL=YYYYMMDD, or an instant in UTC, of  *)
(* which the readers take the day; the date of an instant may lie one day   *)
(* outside the window.                                                      *)
Forever == [form |-> "none", day |-> Horizon]
UntilDay(n) == [form |-> "date", day |-> n]
Bounds == {Forever} \cup [form : {"date", "instant"}, day : -1 .. Horizon + 1]

Freqs == {"DAILY", "WEEKLY", "MONTHLY", "YEARLY"}

(* byday is empty where the rule has none; count is 0 where it has none. *)
RuleType == [freq : Freqs, interval : Nat \ {0}, byday : SUBSET (0 .. 6),
             count : Nat, until : Bounds]

-----------------------------------------------------------------------------
(* expandOccurrences: the days that each branch visits.                    *)

DailyCandidates(rule, base) == {base + k * rule.interval : k \in 0 .. Horizon}

ByDay(rule, base) == IF rule.byday = {} THEN {Weekday(base)} ELSE rule.byday

\* Seeded fault: the weeks that the interval counts begin on the base's weekday.
BaseWeekCandidates(rule, base) ==
  {base + 7 * (k * rule.interval) + ((offset - Weekday(base)) % 7) :
     k \in 0 .. Horizon, offset \in ByDay(rule, base)}

\* The interval counts weeks from the Monday of the base; what lies before the
\* base in its week is passed over.
WeeklyCandidates(rule, base) ==
  LET monday  == base - Weekday(base)
      visited == {monday + 7 * (k * rule.interval) + offset :
                    k \in 0 .. Horizon, offset \in ByDay(rule, base)}
  IN  {n \in visited : n >= base}

\* A month without the day of the base is skipped.
Monthly(base, step) ==
  {n \in Days : /\ n >= base /\ Civil(n).d = Civil(base).d
                /\ (MonthOf(n) - MonthOf(base)) % step = 0}

MonthlyCandidates(rule, base) == Monthly(base, rule.interval)
YearlyCandidates(rule, base)  == Monthly(base, 12 * rule.interval)

(* emit: the day counts before it is compared with the count, so a branch  *)
(* that begins with the count used up still emits one.                      *)
Emit(rule, candidates, w, n) ==
  IF w.stop \/ n \notin candidates \/ n > rule.until.day THEN w
  ELSE [out       |-> w.out \cup {n},
        generated |-> w.generated + 1,
        stop      |-> rule.count # 0 /\ w.generated + 1 >= rule.count]

\* The walk of one branch through the window, day by day.
Walk(rule, candidates, generated) ==
  LET walk[n \in -1 .. Horizon] ==
        IF n = -1 THEN [out |-> {}, generated |-> generated, stop |-> FALSE]
        ELSE Emit(rule, candidates, walk[n - 1], n)
  IN  walk[Horizon]

\* The branch of MONTHLY does not ask for its frequency: a yearly rule runs it too.
Expand(rule, base) ==
  CASE rule.freq = "DAILY"   -> Walk(rule, DailyCandidates(rule, base), 0).out
    [] rule.freq = "WEEKLY"  -> Walk(rule, WeeklyCandidates(rule, base), 0).out
    [] rule.freq = "MONTHLY" -> Walk(rule, MonthlyCandidates(rule, base), 0).out
    [] rule.freq = "YEARLY"  ->
         LET months == Walk(rule, MonthlyCandidates(rule, base), 0)
         IN  months.out \cup Walk(rule, YearlyCandidates(rule, base), months.generated).out

(* terminateRuleAt: the earlier bound wins, where the old one is a plain date. *)
TerminateRuleAt(rule, n) ==
  IF rule.until.form = "date" /\ rule.until.day < n
  THEN rule
  ELSE [rule EXCEPT !.until = UntilDay(n)]

-----------------------------------------------------------------------------
(* The recurrence set of RFC 5545, without stepping. *)

Matches(rule, base, n) ==
  CASE rule.freq = "DAILY"   -> (n - base) % rule.interval = 0
    [] rule.freq = "WEEKLY"  -> /\ Weekday(n) \in ByDay(rule, base)
                                /\ (n \div 7 - base \div 7) % rule.interval = 0
    [] rule.freq = "MONTHLY" -> /\ Civil(n).d = Civil(base).d
                                /\ (MonthOf(n) - MonthOf(base)) % rule.interval = 0
    [] rule.freq = "YEARLY"  -> /\ Civil(n).d = Civil(base).d
                                /\ Civil(n).m = Civil(base).m
                                /\ (Civil(n).y - Civil(base).y) % rule.interval = 0

RecurrenceSet(rule, base) ==
  LET all == {n \in Days : n >= base /\ n <= rule.until.day /\ Matches(rule, base, n)}
  IN  IF rule.count = 0 THEN all
      ELSE {n \in all : Cardinality({k \in all : k <= n}) <= rule.count}
=============================================================================
