------------------------------ MODULE Calendar ------------------------------
(***************************************************************************)
(* The calendar tables of each device, the operations of EventCore on them *)
(* and the changes that arrive from other devices (event_core.ts,          *)
(* sync_service.ts, schema.ts).                                            *)
(*                                                                         *)
(* A series, its overrides and a reminder belong to one event and are kept *)
(* under its id; a rule may only refer to an event that is in its table    *)
(* (foreign_keys = ON).  All events are timed, in the zone of the devices. *)
(***************************************************************************)
EXTENDS Recurrence, Sequences, Functions, CausalityClocks

CONSTANTS Events,     \* event ids, each used once by the devices that create
          Titles,
          Rules,      \* the rules that the user builds
          Gone,       \* no event, no rule, or no title of an override's own
          MaxRecords, \* bound: records of all devices
          MaxCuts     \* bound: crashes in the middle of an operation

ASSUME CalendarAssumption ==
  /\ IsFiniteSet(Events) /\ Rules \subseteq RuleType
  /\ Gone \notin Titles \cup Days \cup RuleType \cup [title : Titles, day : Days]
  /\ MaxRecords \in Nat /\ MaxCuts \in Nat

VARIABLES
  db,      \* db[d]: the tables events, series, overrides and reminders
  log,     \* log[d]: the change records d has produced
  applied, \* applied[d][p]: how many of p's records d has applied
  clock,   \* clock[d]: the device clock of d
  cuts

cal == <<db, log, applied, clock, cuts>>

Row(title, day) == [title |-> title, day |-> day]

(* The wall of an override: none of its own, the full stamp the dialog      *)
(* writes, or the bare time of day the importer writes.                     *)
NoWall    == [form |-> "none", day |-> 0]
Stamp(n)  == [form |-> "stamp", day |-> n]
ClockWall == [form |-> "clock", day |-> 0]

NoOverrides == [rid \in {} |-> 0]
NoPatch     == [cancelled |-> FALSE, title |-> Gone, wall |-> NoWall]

NoTables == [event    |-> [e \in Events |-> Gone],
             series   |-> [e \in Events |-> Gone],
             override |-> [e \in Events |-> NoOverrides],
             reminder |-> [e \in Events |-> FALSE]]

CalInit ==
  /\ db = [d \in Devices |-> NoTables]
  /\ log = [d \in Devices |-> <<>>]
  /\ applied = [d \in Devices |-> [p \in Devices |-> 0]]
  /\ clock = [d \in Devices |-> NoClock]
  /\ cuts = 0

AllRecords == UNION {{<<p, n>> : n \in DOMAIN log[p]} : p \in Devices}
Rec(i)     == log[i[1]][i[2]]

-----------------------------------------------------------------------------
(* One transaction T1.                                                     *)

(* A device in the middle of an operation: the process dies when left      *)
(* transactions are done and there is another to do.                       *)
Begin(d, left) ==
  [dev |-> d, tables |-> db[d], log |-> log[d], left |-> left, cut |-> FALSE]

\* The records of all devices.
Written(s) == FoldFunction(LAMBDA l, n : Len(l) + n, 0, [log EXCEPT ![s.dev] = s.log])

Record(s, type, e, path, value) ==
  [type  |-> type, event |-> e, path |-> path, value |-> value,
   clock |-> [clock[s.dev] EXCEPT ![s.dev] = Len(s.log) + 1],
   hlc   |-> Written(s) + 1]

\* createLocalChange: the rows and the record together, or neither.
T1(s, record, tables) ==
  IF s.left = 0 THEN [s EXCEPT !.cut = TRUE]
  ELSE [s EXCEPT !.tables = tables, !.log = Append(@, record), !.left = @ - 1]

\* An operation runs to its end or is cut off after its first transaction.
Whole == MaxRecords + 1
Lives == IF cuts < MaxCuts THEN {1, Whole} ELSE {Whole}

\* What d keeps of an operation that ended in s.
Commit(d, s) ==
  /\ s.cut \/ s.left # 0
  /\ Written(s) <= MaxRecords
  /\ db' = [db EXCEPT ![d] = s.tables]
  /\ log' = [log EXCEPT ![d] = s.log]
  /\ applied' = [applied EXCEPT ![d][d] = Len(s.log)]
  /\ clock' = [clock EXCEPT ![d][d] = Len(s.log)]
  /\ cuts' = IF s.cut THEN cuts + 1 ELSE cuts

-----------------------------------------------------------------------------
(* The operations of EventCore.                                            *)

\* createEvent and createEventWithId: the rule is a transaction of its own.
CreateEvent(s, e, row, rule) ==
  LET made == T1(s, Record(s, "event", e, "event", row),
                 [s.tables EXCEPT !.event[e] = row])
  IN  IF rule = Gone THEN made
      ELSE T1(made, Record(made, "series", e, "recurrence_rule", rule),
              [made.tables EXCEPT !.series[e] = rule])

\* Seeded fault: the title is a change whether or not it is another.
UpdateEventAlways(s, e, row) ==
  LET titled == T1(s, Record(s, "event", e, "title", row.title),
                   [s.tables EXCEPT !.event[e] = row])
  IN  IF s.tables.event[e].day = row.day THEN titled
      ELSE T1(titled, Record(titled, "event", e, "day", row.day), titled.tables)

\* One record for each group that changed; each writes the whole row.
UpdateEvent(s, e, row) ==
  LET old == s.tables.event[e]
      Group(t, field) ==
        IF old[field] = row[field] THEN t
        ELSE T1(t, Record(t, "event", e, field, row[field]),
                [t.tables EXCEPT !.event[e] = row])
  IN  Group(Group(s, "title"), "day")

\* The rows of the series go first; the reminder stays.
DeleteEvent(s, e) ==
  LET gone == T1(s, Record(s, "event", e, "*", Gone),
                 [s.tables EXCEPT !.event[e] = Gone, !.series[e] = Gone,
                                  !.override[e] = NoOverrides])
  IN  IF s.tables.event[e] = Gone THEN s
      ELSE IF s.tables.series[e] = Gone THEN gone
      ELSE T1(gone, Record(gone, "series", e, "*", Gone), gone.tables)

UpdateSeriesRule(s, e, rule) ==
  IF s.tables.series[e] \in {Gone, rule} THEN s
  ELSE T1(s, Record(s, "series", e, "recurrence_rule", rule),
          [s.tables EXCEPT !.series[e] = rule])

\* The events that are the base of a series, with what the window lists of them.
ListSeries(tables) == {e \in Events : tables.series[e] # Gone}

OverrideOf(tables, e, rid) ==
  IF rid \in DOMAIN tables.override[e] THEN tables.override[e][rid] ELSE NoPatch

\* The overrides with the row of rid replaced, or added.
Put(overrides, rid, row) ==
  [r \in DOMAIN overrides \cup {rid} |-> IF r = rid THEN row ELSE overrides[r]]

\* What patch asks to change: a field that it leaves at its default stays.
Wanted(old, patch) ==
  {f \in DOMAIN patch : patch[f] # NoPatch[f] /\ patch[f] # old[f]}

\* One record for each field that changes; each writes the merged row.
UpdateOccurrence(s, e, rid, patch) ==
  LET old    == OverrideOf(s.tables, e, rid)
      wanted == Wanted(old, patch)
      merged == [f \in DOMAIN old |-> IF f \in wanted THEN patch[f] ELSE old[f]]
      Field(t, f) ==
        IF f \notin wanted THEN t
        ELSE T1(t, Record(t, "occurrence_override", e, <<rid, f>>, patch[f]),
                [t.tables EXCEPT !.override[e] = Put(@, rid, merged)])
  IN  IF s.tables.series[e] = Gone THEN s
      ELSE Field(Field(Field(s, "cancelled"), "title"), "wall")

SetReminder(s, e) ==
  IF s.tables.event[e] = Gone THEN s
  ELSE T1(s, Record(s, "reminder", e, "reminders", TRUE),
          [s.tables EXCEPT !.reminder[e] = TRUE])

ClearReminder(s, e) ==
  IF ~ s.tables.reminder[e] THEN s
  ELSE T1(s, Record(s, "reminder", e, "reminders", Gone),
          [s.tables EXCEPT !.reminder[e] = FALSE])

-----------------------------------------------------------------------------
(* Changes of other devices (T2).                                          *)

History(d) == {i \in AllRecords : i[2] <= applied[d][i[1]]}

\* The history under the event's own id, where reminders are kept too.
OfEvent(e) == {"event", "reminder"} \X {e}

\* The history a change of an event is compared with: its field, and deletions.
Locals(d, r) ==
  {i \in History(d) : /\ <<Rec(i).type, Rec(i).event>> \in OfEvent(r.event)
                      /\ r.path = "*" \/ Rec(i).path \in {r.path, "*"}}

LocalValue(d, r) ==
  LET row == db[d].event[r.event]
  IN  IF row # Gone /\ r.path \in DOMAIN row THEN row[r.path] ELSE row

Stale(d, r) ==
  \E i \in Locals(d, r) : Dominates(Rec(i).clock, r.clock) /\ Rec(i).clock # r.clock

Conflicting(d, r) ==
  \E i \in Locals(d, r) : Concurrent(Rec(i).clock, r.clock) /\ Rec(i).value # r.value

\* makeEntityMutator: only events are written; the rest is history.
Mutates(d, r) ==
  /\ r.type = "event"
  /\ r.value # LocalValue(d, r) /\ ~ Stale(d, r) /\ ~ Conflicting(d, r)

\* SQLite refuses to delete an event that a row of series refers to.
Refused(d, r) == Mutates(d, r) /\ r.value = Gone /\ db[d].series[r.event] # Gone

Mutated(old, r) ==
  CASE r.path = "event" -> r.value
    [] r.path \in {"title", "day"} /\ old # Gone -> [old EXCEPT ![r.path] = r.value]
    [] r.value = Gone -> Gone
    [] OTHER -> old

\* The next record of p at d.  One that SQLite refuses ends the session: the
\* transaction is rolled back, and the record is the next one again.
Deliver(d, p) ==
  /\ p # d
  /\ applied[d][p] < Len(log[p])
  /\ LET r == log[p][applied[d][p] + 1]
     IN  /\ ~ Refused(d, r)
         /\ db' = IF Mutates(d, r)
                  THEN [db EXCEPT ![d].event[r.event] = Mutated(@, r)]
                  ELSE db
         /\ clock' = [clock EXCEPT ![d] = Merge(@, r.clock)]
  /\ applied' = [applied EXCEPT ![d][p] = @ + 1]
  /\ UNCHANGED <<log, cuts>>
=============================================================================
