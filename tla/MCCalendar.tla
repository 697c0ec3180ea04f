----------------------------- MODULE MCCalendar -----------------------------
(* Two devices, one event; a weekly rule with an end and a monthly one with a count. *)
EXTENDS CalendarApp, TLC

CONSTANTS a, b, e1, alien, t1, t2, unsupported

OneDevice  == {a}
TwoDevices == {a, b}
OneEvent   == {e1}
TwoTitles  == {t1, t2}

Rule(freq, interval, byday, count, until) ==
  [freq |-> freq, interval |-> interval, byday |-> byday, count |-> count, until |-> until]

\* From day 1, a Tuesday: every second week on Monday and Wednesday, and monthly.
SomeRules == {Rule("WEEKLY", 2, {0, 2}, 0, UntilDay(14)),
              Rule("MONTHLY", 1, {}, 2, Forever)}

\* An event of another calendar, or a series of this one with one occurrence
\* of another title.
ForeignFile(t) == {Base(alien, t, 1, unsupported)}
OwnFile(t, u) ==
  {Base(e1, t, 1, Rule("DAILY", 1, {}, 0, [form |-> "instant", day |-> 3])),
   [Base(e1, u, 2, Gone) EXCEPT !.rid = 2]}
SomeFiles == {{}, OwnFile(t1, t2), OwnFile(t2, t1)} \cup {ForeignFile(t) : t \in TwoTitles}

Deltas01  == {0, 1}
Tuesday   == {1}

Same == Permutations(TwoTitles)
=============================================================================
