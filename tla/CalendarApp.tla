----------------------------- MODULE CalendarApp -----------------------------
(***************************************************************************)
(* What the user does to the calendar of a device: the scopes of the event *)
(* dialog (dialog.ts), the occurrences the views draw (calendar.ts), and   *)
(* export and import of an .ics file (ics_export.ts, ics_import.ts).       *)
(***************************************************************************)
EXTENDS Calendar, FiniteSetsExt

CONSTANTS Files,      \* the foreign files the user has, each a set of VEVENTs
          Starts,     \* the days the user creates events on
          Deltas,     \* by how many days the user moves what the dialog shows
          UtcShift,   \* the UTC date of an event's start, less its own date
          Editors     \* bound: the devices whose users do more than delete

NoRid == -1   \* not the id of an occurrence

\* A VEVENT has one of the titles; a base is on a day of the window.
IsVEvent(v) ==
  /\ v.title \in Titles /\ v.cancelled \in BOOLEAN /\ v.rid \in Int
  /\ v.rid = NoRid => v.day \in Days

\* Of two VEVENTs with the same id the first counts (parseIcs, planImport).
OneEach(f) == \A v, w \in f : v.uid = w.uid /\ v.rid = w.rid => v = w

ASSUME AppAssumption ==
  /\ UtcShift \in {-1, 0, 1} /\ Editors \subseteq Devices
  /\ Starts \subseteq Days /\ Deltas \subseteq Int
  /\ \A f \in Files : IsFiniteSet(f) /\ OneEach(f) /\ \A v \in f : IsVEvent(v)

VARIABLES
  file,    \* the file at hand
  fresh,   \* fresh[d]: d has imported file and nothing has changed since
  kept     \* what the last save must have left of a series, if it must (history)

appVars == <<db, log, applied, clock, cuts, file, fresh, kept>>

-----------------------------------------------------------------------------
(* The occurrences a device draws (expandSeriesEvents).                    *)

Rids(tables, e) == Expand(tables.series[e], tables.event[e].day)

Upto(rids, n) == {rid \in rids : rid <= n}

IsSeries(tables, e) == tables.event[e] # Gone /\ e \in ListSeries(tables)

\* The occurrences of a series; an expansion that is empty leaves the base.
Occurrences(tables, e) ==
  LET rids == Rids(tables, e)
  IN  IF rids = {} THEN {tables.event[e].day} ELSE rids

\* The ids of the chips of a series: the base is drawn as it is, what was
\* cancelled is not drawn.
Chips(tables, e) ==
  IF ~ IsSeries(tables, e) THEN {}
  ELSE IF Rids(tables, e) = {} THEN Occurrences(tables, e)
  ELSE {rid \in Occurrences(tables, e) : ~ OverrideOf(tables, e, rid).cancelled}

\* The day of a chip; a bare time of day is read as a date of long ago.
LongAgo == -1
ChipDay(tables, e, rid) ==
  LET wall == OverrideOf(tables, e, rid).wall
  IN  CASE wall.form = "none"  -> rid
        [] wall.form = "stamp" -> wall.day
        [] wall.form = "clock" -> LongAgo

-----------------------------------------------------------------------------
(* The event dialog.                                                       *)

Title(tables, e, rid) ==
  LET own == OverrideOf(tables, e, rid).title
  IN  IF own = Gone THEN tables.event[e].title ELSE own

(* Whole series: what the user moved is a distance from the chip, applied  *)
(* to the base; the rule follows when the builder made another.             *)
\* Seeded fault: the base takes the day of the chip.
EditSeriesAnchored(s, e, rid, title, delta, rule) ==
  UpdateSeriesRule(UpdateEvent(s, e, Row(title, ChipDay(s.tables, e, rid) + delta)), e, rule)

EditSeries(s, e, rid, title, delta, rule) ==
  UpdateSeriesRule(UpdateEvent(s, e, Row(title, s.tables.event[e].day + delta)), e, rule)

\* This occurrence only.
EditOccurrence(s, e, rid, title, delta) ==
  LET patch == [cancelled |-> FALSE,
                title |-> IF title = Title(s.tables, e, rid) THEN Gone ELSE title,
                wall  |-> IF delta = 0 THEN NoWall
                          ELSE Stamp(ChipDay(s.tables, e, rid) + delta)]
  IN  UpdateOccurrence(s, e, rid, patch)

\* "Repeat" is unchecked at the chip rid: the series ends there, and the move
\* of that occurrence is kept as its override.
EndSeries(s, e, rid, title, delta) ==
  LET named == UpdateEvent(s, e, Row(title, s.tables.event[e].day))
      moved == IF delta = 0 THEN named
               ELSE UpdateOccurrence(named, e, rid,
                      [NoPatch EXCEPT !.wall = Stamp(ChipDay(s.tables, e, rid) + delta)])
  IN  UpdateSeriesRule(moved, e, TerminateRuleAt(s.tables.series[e], rid))

CancelOccurrence(s, e, rid) ==
  UpdateOccurrence(s, e, rid, [NoPatch EXCEPT !.cancelled = TRUE])

\* A save ends with the reminder: it follows the checkbox, whose state is read
\* at that moment, filled in or not.
Remind(s, e, on) == IF on THEN SetReminder(s, e) ELSE ClearReminder(s, e)

\* A chip that is dropped on another day takes its base there, with its title.
MoveEvent(s, e, rid, delta) ==
  UpdateEvent(s, e, Row(Title(s.tables, e, rid), ChipDay(s.tables, e, rid) + delta))

-----------------------------------------------------------------------------
(* Export.  A VEVENT: rid is NoRid for an event or a base, rule is Gone    *)
(* where there is none, zoned tells whether its times name a zone.         *)

Base(uid, title, day, rule) ==
  [uid |-> uid, rid |-> NoRid, title |-> title, day |-> day, rule |-> rule,
   cancelled |-> FALSE]

\* conformRRule: the bound of a timed series becomes an instant in UTC.
ConformRRule(rule) ==
  IF rule = Gone \/ rule.until.form # "date" THEN rule
  ELSE [rule EXCEPT !.until = [form |-> "instant", day |-> @.day + UtcShift]]

\* An override whose wall is a full stamp is written without a DTSTART, and a
\* reader drops it.
OverrideEvents(tables, e) ==
  {[uid |-> e, rid |-> rid, title |-> Title(tables, e, rid), day |-> rid, rule |-> Gone,
    cancelled |-> tables.override[e][rid].cancelled] :
     rid \in {r \in DOMAIN tables.override[e] :
                tables.override[e][r].cancelled \/ tables.override[e][r].wall.form # "stamp"}}

\* buildExportInput: what is alive.
ExportInput(tables) == {e \in Events : tables.event[e] # Gone}

ExportToIcs(tables) ==
  LET live == ExportInput(tables)
  IN  {Base(e, tables.event[e].title, tables.event[e].day, ConformRRule(tables.series[e])) : e \in live}
        \cup UNION {OverrideEvents(tables, e) : e \in {x \in live : tables.series[x] # Gone}}

-----------------------------------------------------------------------------
(* Import: the index of what exists, the plan, and its application.        *)

\* The event records of e that d has.
EventHistory(d, e) == {Rec(i) : i \in {j \in History(d) : Rec(j).type = "event" /\ Rec(j).event = e}}

\* buildExistingIndex: the latest record of e by time is a removal.
Tombstoned(d, e) ==
  \E r \in EventHistory(d, e) :
    r.value = Gone /\ \A q \in EventHistory(d, e) : q.hlc <= r.hlc

LiveId(d, e) == e \in Events /\ db[d].event[e] # Gone /\ ~ Tombstoned(d, e)

\* A rule outside the supported subset leaves a single event.
PlannedRule(v) == IF v.rule \in RuleType THEN v.rule ELSE Gone

\* The id an event of the file has here; a foreign one gets the new id.
IdOf(uid, new) == IF uid \in Events THEN uid ELSE new

(* planSingle and its application, for an event or the base of a series.   *)
ImportBase(s, v, new) ==
  LET d == s.dev
      e == IdOf(v.uid, new)
      row    == Row(v.title, v.day)
      rule   == PlannedRule(v)
      series == db[d].series[e] # Gone
  IN  CASE Tombstoned(d, e) -> s
        [] LiveId(d, e) /\ ~ series /\ rule # Gone -> s
        [] LiveId(d, e) /\ (series \/ rule = Gone) ->
             LET updated == UpdateEvent(s, e, row)
             IN  IF rule = Gone THEN updated ELSE UpdateSeriesRule(updated, e, rule)
        [] OTHER -> CreateEvent(s, e, row, rule)

\* An override: whatever it says, its times become bare times of day.
PlannedPatch(v) == [cancelled |-> v.cancelled, title |-> v.title, wall |-> ClockWall]

ImportOverride(s, v, new) ==
  UpdateOccurrence(s, IdOf(v.uid, new), v.rid, PlannedPatch(v))

HasBase(d, v) ==
  \/ LiveId(d, v.uid)
  \/ \E b \in file : b.rid = NoRid /\ b.uid = v.uid /\ PlannedRule(b) # Gone
                     /\ ~ Tombstoned(d, b.uid)

ImportAll(s, vevents, new) ==
  FoldSet(LAMBDA v, t : IF v.rid = NoRid THEN ImportBase(t, v, new)
                        ELSE ImportOverride(t, v, new), s, vevents)

\* planImport and applyImportPlan: bases first, then overrides.
ImportIcs(s, new) ==
  LET bases     == {v \in file : v.rid = NoRid}
      overrides == {v \in file : v.rid # NoRid /\ HasBase(s.dev, v)}
  IN  ImportAll(ImportAll(s, bases, new), overrides, new)

-----------------------------------------------------------------------------
(* Actions.                                                                *)

Used == {Rec(i).event : i \in AllRecords} \cup {v.uid : v \in file}

\* Every event of the file has an id of this calendar.
OwnIds == \A v \in file : v.uid \in Events

Stir(d) == fresh' = [fresh EXCEPT ![d] = FALSE] /\ UNCHANGED file

NothingKept == [dev |-> Gone]
Forget == kept' = NothingKept

\* The occurrences of e that the save must leave; whole unless it was cut off.
Keep(d, e, upto, rids) ==
  kept' = [dev |-> d, event |-> e, upto |-> upto, rids |-> rids, whole |-> (cuts' = cuts)]

UserCreate(d) ==
  \E left \in Lives, e \in Events \ Used, t \in Titles, n \in Starts,
     rule \in Rules \cup {Gone}, on \in BOOLEAN :
    /\ Commit(d, Remind(CreateEvent(Begin(d, left), e, Row(t, n), rule), e, on))
    /\ Stir(d) /\ Forget

\* The chips the user can find: those that are drawn on a day.
Drawn(d, e) == {rid \in Chips(db[d], e) : ChipDay(db[d], e, rid) \in Days}

Inside(d, e, rids, delta) == \A n \in rids \cup {db[d].event[e].day} : n + delta \in Days

Series(d) == {e \in Events : IsSeries(db[d], e)}

SaveSeries(d, left, e, rids, rid, title, delta, rule, on) ==
  /\ Commit(d, Remind(EditSeries(Begin(d, left), e, rid, title, delta, rule), e, on))
  /\ IF delta = 0 /\ rule = db[d].series[e] THEN Keep(d, e, Horizon, rids) ELSE Forget

SaveOccurrence(d, left, e, rids, rid, title, delta, on) ==
  /\ Commit(d, Remind(EditOccurrence(Begin(d, left), e, rid, title, delta), e, on))
  /\ Keep(d, e, Horizon, rids)

\* The reminder is left as it is.
UncheckRepeat(d, left, e, rids, rid, title, delta) ==
  /\ Commit(d, EndSeries(Begin(d, left), e, rid, title, delta))
  /\ Keep(d, e, rid, Upto(rids, rid))

\* No save begins when MaxRecords are written: it could only be an empty one.
HasRoom == Cardinality(AllRecords) < MaxRecords

UserSaves(d) ==
  /\ HasRoom
  /\ \E e \in Series(d) :
       LET rids  == Occurrences(db[d], e)
           drawn == Drawn(d, e)
       IN  \E left \in Lives, rid \in drawn, title \in Titles, delta \in Deltas :
             /\ Inside(d, e, drawn, delta)
             /\ \/ \E rule \in Rules \cup {db[d].series[e]}, on \in BOOLEAN :
                     SaveSeries(d, left, e, rids, rid, title, delta, rule, on)
                \/ \E on \in BOOLEAN :
                     SaveOccurrence(d, left, e, rids, rid, title, delta, on)
                \/ UncheckRepeat(d, left, e, rids, rid, title, delta)
  /\ Stir(d)

UserCancels(d) ==
  /\ \E e \in Series(d) : \E rid \in Drawn(d, e) :
       \E left \in Lives : Commit(d, CancelOccurrence(Begin(d, left), e, rid))
  /\ Stir(d) /\ Forget

\* The dialog of a single event.
UserUpdates(d) ==
  \E left \in Lives, e \in Events, title \in Titles, delta \in Deltas, on \in BOOLEAN :
    /\ HasRoom /\ db[d].event[e] # Gone /\ db[d].series[e] = Gone
    /\ db[d].event[e].day + delta \in Days
    /\ LET row == Row(title, db[d].event[e].day + delta)
       IN  Commit(d, Remind(UpdateEvent(Begin(d, left), e, row), e, on))
    /\ Stir(d) /\ Forget

\* A chip of a series, or of a single event, whose id is its own day.
UserDrags(d) ==
  \E left \in Lives, e \in Events, delta \in Deltas \ {0} :
    /\ db[d].event[e] # Gone
    /\ \E rid \in IF IsSeries(db[d], e) THEN Drawn(d, e) ELSE {db[d].event[e].day} :
         /\ ChipDay(db[d], e, rid) + delta \in Days
         /\ Commit(d, MoveEvent(Begin(d, left), e, rid, delta))
    /\ Stir(d) /\ Forget

UserDeletes(d) ==
  \E left \in Lives, e \in Events :
    /\ db[d].event[e] # Gone
    /\ Commit(d, DeleteEvent(Begin(d, left), e))
    /\ Stir(d) /\ Forget

Export(d) ==
  /\ file' = ExportToIcs(db[d])
  /\ fresh' = [p \in Devices |-> FALSE]
  /\ Forget
  /\ UNCHANGED cal

\* The user imports the file at hand.
Import(d) ==
  \E left \in Lives, new \in IF OwnIds THEN {Gone} ELSE Events \ Used :
    /\ Commit(d, ImportIcs(Begin(d, left), new))
    /\ fresh' = [fresh EXCEPT ![d] = (cuts' = cuts)]
    /\ Forget
    /\ UNCHANGED file

AppInit == CalInit /\ file \in Files /\ fresh = [d \in Devices |-> FALSE]
           /\ kept = NothingKept

AppNext ==
  \/ \E d \in Editors : UserCreate(d) \/ UserSaves(d) \/ UserCancels(d) \/ UserUpdates(d)
                          \/ UserDrags(d) \/ Export(d) \/ Import(d)
  \/ \E d \in Devices : UserDeletes(d)
  \/ \E d, p \in Devices : Deliver(d, p) /\ Stir(d) /\ Forget

AppSpec == AppInit /\ [][AppNext]_appVars

-----------------------------------------------------------------------------
(* Properties.                                                             *)

\* Tables hold rows of their kind, and no row refers to an event or a series
\* that is not there (schema.ts, foreign_keys = ON).
AppTypeOK ==
  /\ \A d \in Devices : \A e \in Events :
       /\ db[d].series[e] # Gone => db[d].event[e] # Gone /\ db[d].series[e] \in RuleType
       /\ DOMAIN db[d].override[e] # {} => db[d].series[e] # Gone
       /\ db[d].event[e] # Gone => db[d].event[e].day \in Days /\ db[d].event[e].title \in Titles
  /\ \A d \in Devices : applied[d][d] = Len(log[d])

\* Stepping through a rule yields the recurrence set of RFC 5545, for every rule
\* that creation, editing, ending, export and import leave behind; yearly rules
\* are excepted, which expandOccurrences steps through by month as well.
ExpansionFollowsTheRule ==
  \A d \in Devices : \A e \in Events :
    (IsSeries(db[d], e) /\ db[d].series[e].freq # "YEARLY")
      => Rids(db[d], e) = RecurrenceSet(db[d].series[e], db[d].event[e].day)

\* Ending a series at an occurrence, saving one occurrence, and saving the whole
\* series from a chip that was not moved leave every occurrence before where it
\* was: none may anchor the base to the chip, not even when the process dies
\* half way; and a series that was ended generates nothing after its end
\* (dialog.ts, "Pkg8 review F1").
ThePastIsKept ==
  kept # NothingKept =>
    LET rids == Occurrences(db[kept.dev], kept.event)
    IN  /\ Upto(rids, kept.upto) = kept.rids
        /\ kept.whole => rids = kept.rids

\* Importing a file again, with nothing between, writes nothing, unless the file
\* has foreign ids, which are not kept (ics_import.ts, cases A to D).
ReimportIsQuiet ==
  [][\A d \in Devices :
       (fresh[d] /\ Import(d) /\ OwnIds) => log' = log]_appVars

\* "a remove deletes it" (sync_service.ts): a remove that SQLite refuses is the
\* next record of its producer for ever, and no later one arrives.
RemovesApply ==
  \A d, p \in Devices :
    (p # d /\ applied[d][p] < Len(log[p])) => ~ Refused(d, log[p][applied[d][p] + 1])
=============================================================================
