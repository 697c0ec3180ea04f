------------------------------ MODULE FullState -------------------------------
(***************************************************************************)
(* Several events on several devices, of which one may be so far behind    *)
(* that the records it needs exist nowhere any more: history is swept      *)
(* (compaction.ts), the version of an event survives the sweep             *)
(* (entity_versions), and a device that meets a gap takes over the state   *)
(* of its peer, chunk by chunk (full_state.ts).                            *)
(*                                                                         *)
(* A row is known by the record that wrote it.  Replication has the fields *)
(* of one event and its conflicts in detail; here an edit is of the one    *)
(* field, and T2 is what Replication says of it.                           *)
(***************************************************************************)
EXTENDS Integers, Sequences, FiniteSets, FiniteSetsExt, CausalityClocks

CONSTANTS
  Events,        \* numbers: the order of event_id
  Gone,          \* the row of an event that is not in the calendar
  Unversioned,   \* no row in entity_versions
  ChunkSize,     \* entries of one FULL_STATE_SNAPSHOT message
  MaxRecords,    \* bound: records in all logs and databases migrated, together
  MaxSnapshots,  \* bound: snapshots built
  MaxSweeps,     \* bound: sweeps of history
  MaxCuts        \* bound: snapshots that a broken session cuts short

ASSUME DevicesAssumption == IsFiniteSet(Devices)
ASSUME ChunkAssumption == ChunkSize \in Nat \ {0}
ASSUME EventsAssumption == Events \subseteq Nat /\ IsFiniteSet(Events)
ASSUME UnversionedAssumption == Unversioned \notin Clocks
ASSUME GoneAssumption == Gone \notin Devices \X Nat
ASSUME BoundsAssumption == {MaxRecords, MaxSnapshots, MaxSweeps, MaxCuts} \subseteq Nat

VARIABLES
  log,       \* log[p]: the records produced by p
  kept,      \* `changes`: the records each device still has
  applied,   \* applied_upto
  clock,     \* device_clock
  row,       \* `events`: row[d][e] is the record that wrote the row, or Gone
  version,   \* entity_versions.version
  latest,    \* entity_versions: the latest record (latest_producer, _seq, _hlc)
  tombs,     \* entities_tombstones
  open,      \* participants of the unresolved conflict of an event
  incoming,  \* the chunks of a snapshot that are still to be applied
  \* history
  built,     \* snapshots built so far
  swept,     \* sweeps so far
  cuts,      \* snapshots cut short so far
  honest,    \* every sender had applied what its clock counts and its calendar was whole
  migrated,  \* databases migrated so far
  lost,      \* events of which swept history was missing when a migration looked
  early      \* events of which an edit reached a device before the row did

vars == <<log, kept, applied, clock, row, version, latest, tombs, open, incoming,
          built, swept, cuts, honest, migrated, lost, early>>

tables   == <<log, kept, applied, clock, row, version, latest, tombs, open>>
counters == <<built, swept, cuts, honest, migrated, lost>>

Kinds   == {"event", "field", "*"}  \* creation, edit, deletion
Records == [event : Events, kind : Kinds, clock : Clocks, hlc : Nat]
Ids     == UNION {{p} \X DOMAIN log[p] : p \in Devices}
Rec(i)  == log[i[1]][i[2]]

Entry == [event : Events, row : Devices \X Nat, version : Clocks, latest : (Devices \X Nat) \cup {Gone}]
Chunk == [clock : Clocks, entries : Seq(Entry),
          tombs : SUBSET (Events \X ((Devices \X Nat) \cup {Gone})),
          rows : [Events -> (Devices \X Nat) \cup {Gone}]]  \* history: the sender's rows

TypeOK ==
  /\ log \in [Devices -> Seq(Records)]
  /\ kept \in [Devices -> SUBSET Ids]
  /\ applied \in [Devices -> Clocks]
  /\ clock \in [Devices -> Clocks]
  /\ \A d, p \in Devices : applied[d][p] <= clock[d][p] /\ clock[d][p] <= Len(log[p])
  /\ row \in [Devices -> [Events -> Ids \cup {Gone}]]
  /\ version \in [Devices -> [Events -> Clocks \cup {Unversioned}]]
  /\ latest \in [Devices -> [Events -> [id : Ids \cup {Gone}, hlc : Nat] \cup {Unversioned}]]
  /\ tombs \in [Devices -> SUBSET (Events \X ((Devices \X Nat) \cup {Gone}))]
  /\ open \in [Devices -> [Events -> SUBSET Ids]]
  /\ incoming \in [Devices -> Seq(Chunk)]
  /\ built \in 0 .. MaxSnapshots
  /\ swept \in 0 .. MaxSweeps
  /\ cuts \in 0 .. MaxCuts
  /\ honest \in BOOLEAN
  /\ migrated \in 0 .. MaxRecords /\ lost \subseteq Events
  /\ early \subseteq Events

Init ==
  /\ log = [d \in Devices |-> <<>>]
  /\ kept = [d \in Devices |-> {}]
  /\ applied = [d \in Devices |-> NoClock]
  /\ clock = [d \in Devices |-> NoClock]
  /\ row = [d \in Devices |-> [e \in Events |-> Gone]]
  /\ version = [d \in Devices |-> [e \in Events |-> Unversioned]]
  /\ latest = [d \in Devices |-> [e \in Events |-> Unversioned]]
  /\ tombs = [d \in Devices |-> {}]
  /\ open = [d \in Devices |-> [e \in Events |-> {}]]
  /\ incoming = [d \in Devices |-> <<>>]
  /\ built = 0 /\ swept = 0 /\ cuts = 0
  /\ honest = TRUE
  /\ migrated = 0 /\ lost = {}
  /\ early = {}

-----------------------------------------------------------------------------
(* The version of an event (entity_versions).                              *)

\* Seeded fault: a version is stored once and never raised.
VersionedOnce(d, e, c) ==
  [version EXCEPT ![d][e] = IF @ = Unversioned THEN c ELSE @]

\* The stored version with the clock of one more record (recordEntityVersion).
Versioned(d, e, c) ==
  [version EXCEPT ![d][e] = IF @ = Unversioned THEN c ELSE Merge(@, c)]

\* Seeded fault: the version is derived from the history that is left, as it
\* was before entity_versions.
VersionOfHistory(d, e) ==
  [p \in Devices |-> Max({0} \cup {Rec(i).clock[p] : i \in {i \in kept[d] : Rec(i).event = e}})]

\* The version the snapshot rules read: the stored one, else the history's.
LocalVersion(d, e) ==
  IF version[d][e] # Unversioned
  THEN version[d][e]
  ELSE [p \in Devices |->
          Max({0} \cup {Rec(i).clock[p] : i \in {i \in kept[d] : Rec(i).event = e}})]

\* The latest record of an event once record i of time hlc is in: it changes
\* only when i is newer (recordEntityVersion).
Later(d, e, i, hlc) ==
  IF latest[d][e] = Unversioned \/ hlc > latest[d][e].hlc
  THEN [latest EXCEPT ![d][e] = [id |-> i, hlc |-> hlc]]
  ELSE latest

\* The record that a snapshot names for the state of an event: the stored
\* one, else the newest of the history that is left.
LatestProducer(d, e) ==
  LET left == {i \in kept[d] : Rec(i).event = e}
  IN  CASE latest[d][e] # Unversioned -> latest[d][e].id
        [] latest[d][e] = Unversioned /\ left # {} ->
             CHOOSE i \in left : \A j \in left : Rec(j).hlc <= Rec(i).hlc
        [] OTHER -> Gone

-----------------------------------------------------------------------------
(* Local changes (T1) and arrivals (T2).                                   *)

Write(d, e, kind) ==
  LET n == Len(log[d]) + 1
      r == [event |-> e, kind |-> kind, clock |-> [clock[d] EXCEPT ![d] = n],
            hlc |-> Cardinality(Ids) + 1]
  IN  /\ Cardinality(Ids) + migrated < MaxRecords
      /\ log' = [log EXCEPT ![d] = Append(@, r)]
      /\ kept' = [kept EXCEPT ![d] = @ \cup {<<d, n>>}]
      /\ applied' = [applied EXCEPT ![d][d] = n]
      /\ clock' = [clock EXCEPT ![d][d] = n]
      /\ version' = Versioned(d, e, r.clock)
      /\ latest' = Later(d, e, <<d, n>>, r.hlc)
      /\ UNCHANGED <<tombs, incoming, counters, early>>

\* A new event has a new id.
Create(d, e) ==
  /\ \A i \in Ids : Rec(i).event # e
  /\ Write(d, e, "event")
  /\ row' = [row EXCEPT ![d][e] = <<d, Len(log[d]) + 1>>]
  /\ UNCHANGED open

Edit(d, e) ==
  /\ row[d][e] # Gone
  /\ Write(d, e, "field")
  /\ row' = [row EXCEPT ![d][e] = <<d, Len(log[d]) + 1>>]
  /\ UNCHANGED open

Delete(d, e) ==
  /\ row[d][e] # Gone
  /\ Write(d, e, "*")
  /\ row' = [row EXCEPT ![d][e] = Gone]
  /\ UNCHANGED open

\* The user resolves a conflict: a record, and no row (Replication, Resolve).
Resolve(d, e) ==
  /\ open[d][e] # {}
  /\ Write(d, e, "field")
  /\ open' = [open EXCEPT ![d][e] = {}]
  /\ UNCHANGED row

\* The history that record i is compared with.
Locals(d, i) ==
  {l \in kept[d] : /\ Rec(l).event = Rec(i).event
                   /\ "*" \in {Rec(i).kind, Rec(l).kind} \/ Rec(i).kind = Rec(l).kind}

Stale(d, i) ==
  \/ Rec(i).kind = "*" /\ row[d][Rec(i).event] = Gone
  \/ \E l \in Locals(d, i) : Dominates(Rec(l).clock, Rec(i).clock)

Conflicting(d, i) ==
  {l \in Locals(d, i) : /\ Concurrent(Rec(i).clock, Rec(l).clock)
                        /\ ~ (Rec(i).kind = "*" /\ Rec(l).kind = "*")}

\* The row of event e after record i is applied: an edit needs a row.
Mutated(d, i) ==
  CASE Rec(i).kind = "*" -> Gone
    [] Rec(i).kind = "event" -> i
    [] OTHER -> IF row[d][Rec(i).event] = Gone THEN Gone ELSE i

\* s serves the next record of p that d has not applied.
Pull(d, s, p) ==
  LET i == <<p, applied[d][p] + 1>>
      e == Rec(i).event
  IN  /\ p # d /\ s # d
      /\ i \in kept[s]
      /\ applied' = [applied EXCEPT ![d][p] = i[2]]
      /\ clock' = [clock EXCEPT ![d] = Merge(@, Rec(i).clock)]
      /\ kept' = [kept EXCEPT ![d] = @ \cup {i}]
      /\ version' = Versioned(d, e, Rec(i).clock)
      /\ latest' = Later(d, e, i, Rec(i).hlc)
      /\ early' = IF Rec(i).kind = "field" /\ row[d][e] = Gone
                  THEN early \cup {e} ELSE early
      /\ \/ /\ Stale(d, i)
            /\ UNCHANGED <<row, open>>
         \/ /\ ~ Stale(d, i) /\ Conflicting(d, i) = {}
            /\ row' = [row EXCEPT ![d][e] = Mutated(d, i)]
            /\ UNCHANGED open
         \/ /\ ~ Stale(d, i) /\ Conflicting(d, i) # {}
            /\ open' = [open EXCEPT ![d][e] = @ \cup Conflicting(d, i) \cup {i}]
            /\ UNCHANGED row
      /\ UNCHANGED <<log, tombs, incoming, counters>>

-----------------------------------------------------------------------------
(* Sweeping history.                                                       *)

\* Every peer of the constraint set advertises record i, and no unresolved
\* conflict of d needs it.
Compactable(d, peers, i) ==
  /\ \A e \in Events : i \notin open[d][e]
  /\ \A q \in peers : clock[q][i[1]] >= i[2]

\* One sweep of d, with the constraint set that its caller supplies.
Sweep(d) ==
  \E peers \in SUBSET (Devices \ {d}) :
    /\ swept < MaxSweeps
    /\ \E i \in kept[d] : Compactable(d, peers, i)
    /\ kept' = [kept EXCEPT ![d] = {i \in @ : ~ Compactable(d, peers, i)}]
    /\ tombs' = [tombs EXCEPT ![d] = {t \in @ : t[2] = Gone \/ ~ Compactable(d, peers, t[2])}]
    /\ swept' = swept + 1
    /\ UNCHANGED <<log, applied, clock, row, version, latest, open, incoming, built, cuts, honest, migrated, lost, early>>

-----------------------------------------------------------------------------
(* Opening a database that is older than the table of versions.            *)

\* The version of every event is derived from the history that is left; an
\* event whose history was swept gets none (backfillEntityVersions).
Backfill(d) ==
  [e \in Events |->
     IF \E i \in kept[d] : Rec(i).event = e THEN VersionOfHistory(d, e) ELSE Unversioned]

\* The newest record that is left, by time.
BackfillLatest(d) ==
  [e \in Events |->
     LET left == {i \in kept[d] : Rec(i).event = e}
     IN  IF left = {} THEN Unversioned
         ELSE LET n == CHOOSE i \in left : \A j \in left : Rec(j).hlc <= Rec(i).hlc
              IN  [id |-> n, hlc |-> Rec(n).hlc]]

\* d is opened by this build, and its history so far is the work of one from
\* before the table, when snapshots had other rules: in one transaction the
\* versions are derived and the schema is stamped (initializeSchema).  With all
\* the history at hand nothing is missing: only a migration that loses is a step.
Migrate(d) ==
  /\ built = 0 /\ Cardinality(Ids) + migrated < MaxRecords
  /\ migrated' = migrated + 1
  /\ Backfill(d) # version[d]
  /\ version' = [version EXCEPT ![d] = Backfill(d)]
  /\ latest' = [latest EXCEPT ![d] = BackfillLatest(d)]
  /\ lost' = lost \cup {e \in Events : row[d][e] # Gone /\ Backfill(d)[e] # version[d][e]}
  /\ UNCHANGED <<log, kept, applied, clock, row, tombs, open, incoming, built, swept, cuts, honest, early>>

-----------------------------------------------------------------------------
(* Snapshots: building.                                                    *)

\* What r needs of s, by the clock s advertises; r never asks for its own.
Needed(r, s) ==
  {i \in Ids : i[1] # r /\ applied[r][i[1]] < i[2] /\ i[2] <= clock[s][i[1]]}

\* r cannot be served: the pull rounds make no progress.
Gap(r, s) ==
  /\ Needed(r, s) # {}
  /\ \A p \in Devices \ {r} : <<p, applied[r][p] + 1>> \notin kept[s]

\* The calendar of s, in the order of the ids (there is one such order).
Listings(s) ==
  LET shown == {e \in Events : row[s][e] # Gone}
  IN  {live \in [1 .. Cardinality(shown) -> shown] :
         \A j, k \in DOMAIN live : j < k => live[j] < live[k]}

EntriesOf(s, live) ==
  [k \in DOMAIN live |->
     [event |-> live[k], row |-> row[s][live[k]], version |-> LocalVersion(s, live[k]),
      latest |-> LatestProducer(s, live[k])]]

ChunkOf(s, entries, ts) ==
  [clock |-> clock[s], entries |-> entries, tombs |-> ts, rows |-> row[s]]

\* Full batches as they fill, then the tombstones if there are any, then the
\* rest; an empty chunk when there is nothing at all.
ChunksOf(s, live) ==
  LET all   == EntriesOf(s, live)
      full  == Len(all) \div ChunkSize
      fulls == [k \in 1 .. full |->
                  ChunkOf(s, SubSeq(all, (k - 1) * ChunkSize + 1, k * ChunkSize), {})]
      rest  == SubSeq(all, full * ChunkSize + 1, Len(all))
      parts == fulls
                 \o (IF tombs[s] = {} THEN <<>> ELSE <<ChunkOf(s, <<>>, tombs[s])>>)
                 \o (IF rest = <<>> THEN <<>> ELSE <<ChunkOf(s, rest, {})>>)
  IN  IF parts = <<>> THEN <<ChunkOf(s, <<>>, {})>> ELSE parts

\* After two rounds without progress r offers, and s streams its state.
BeginSnapshot(r, s) ==
  /\ r # s /\ built < MaxSnapshots
  /\ Gap(r, s)
  /\ incoming[r] = <<>>
  /\ \E live \in Listings(s) : incoming' = [incoming EXCEPT ![r] = ChunksOf(s, live)]
  /\ built' = built + 1
  /\ honest' = (honest /\ clock[s] = applied[s] /\ incoming[s] = <<>>)
  /\ UNCHANGED <<tables, swept, cuts, migrated, lost, early>>

-----------------------------------------------------------------------------
(* Snapshots: one transaction for each chunk.                              *)

\* Seeded fault: an event that the device has is not replaced.
StagedIfMissing(d, c) ==
  {k \in DOMAIN c.entries : row[d][c.entries[k].event] = Gone}

\* A conflict of the event waits for the user (hasUnresolvedConflict).
InConflict(d, e) == open[d][e] # {}

\* What d shows is what the entry says (localRowMatchesEntry).
SameRow(d, x) == row[d][x.event] = x.row

\* The entries of chunk c that replace what d has.
Staged(d, c) ==
  {k \in DOMAIN c.entries :
     LET x == c.entries[k]
     IN  /\ Dominates(c.clock, LocalVersion(d, x.event))
         /\ ~ InConflict(d, x.event)
         /\ ~ SameRow(d, x)}

Carried(c) == {c.entries[k].event : k \in DOMAIN c.entries}

\* Seeded fault: an event that is in conflict may be absent.
AbsentInConflict(d, c) ==
  {e \in Events \ Carried(c) : row[d][e] # Gone /\ Dominates(c.clock, LocalVersion(d, e))}

\* Seeded fault: an event without a version counts as dominated.
AbsentUnversioned(d, c) ==
  {e \in Events \ Carried(c) :
     row[d][e] # Gone /\ open[d][e] = {} /\ Dominates(c.clock, LocalVersion(d, e))}

\* The events of d that the absence rule deletes: chunk c lacks them.
Absent(d, c) ==
  {e \in Events \ Carried(c) :
     /\ row[d][e] # Gone
     /\ ~ InConflict(d, e)
     /\ Dominates(c.clock, LocalVersion(d, e))
     /\ LocalVersion(d, e) # NoClock}

\* d counts all that the snapshot's clock covers as applied.
TakeClock(d, c) ==
  /\ applied' = [applied EXCEPT ![d] = Merge(@, c.clock)]
  /\ clock' = [clock EXCEPT ![d] = Merge(@, c.clock)]

\* The version and the latest record of an event whose state is taken over
\* (recordSnapshotEntityVersion): an entry that has news of the known producer
\* changes the latest record, and leaves its time.
TakenVersion(d, x) == Merge(LocalVersion(d, x.event), x.version)

TakenLatest(d, x) ==
  LET known == latest[d][x.event]
      Of(c, i) == IF i = Gone THEN 0 ELSE c[i[1]]
  IN  CASE known = Unversioned -> [id |-> x.latest, hlc |-> 0]
        [] /\ known # Unversioned
           /\ Of(x.version, x.latest) > Of(LocalVersion(d, x.event), known.id) ->
             [known EXCEPT !.id = x.latest]
        [] OTHER -> known

ApplyChunk(d) ==
  LET c     == Head(incoming[d])
      entry == [e \in {c.entries[k].event : k \in Staged(d, c)} |->
                  CHOOSE x \in {c.entries[k] : k \in Staged(d, c)} : x.event = e]
  IN  /\ incoming[d] # <<>>
      /\ row' = [row EXCEPT ![d] = [e \in Events |->
           IF e \in Absent(d, c) THEN Gone
           ELSE IF e \in DOMAIN entry THEN entry[e].row ELSE @[e]]]
      /\ version' = [version EXCEPT ![d] = [e \in Events |->
           IF e \in Absent(d, c) THEN Unversioned
           ELSE IF e \in DOMAIN entry THEN TakenVersion(d, entry[e])
           ELSE @[e]]]
      /\ latest' = [latest EXCEPT ![d] = [e \in Events |->
           IF e \in Absent(d, c) THEN Unversioned
           ELSE IF e \in DOMAIN entry THEN TakenLatest(d, entry[e])
           ELSE @[e]]]
      /\ tombs' = [tombs EXCEPT ![d] =
           @ \cup c.tombs \cup {<<e, LatestProducer(d, e)>> : e \in Absent(d, c)}]
      /\ TakeClock(d, c)
      /\ incoming' = [incoming EXCEPT ![d] = Tail(@)]
      /\ UNCHANGED <<log, kept, open, counters, early>>

\* The session ends inside the stream; there is no resumption.
Cut(d) ==
  /\ incoming[d] # <<>> /\ cuts < MaxCuts
  /\ incoming' = [incoming EXCEPT ![d] = <<>>]
  /\ cuts' = cuts + 1
  /\ UNCHANGED <<tables, built, swept, honest, migrated, lost, early>>

-----------------------------------------------------------------------------

Next ==
  \/ \E d \in Devices : Migrate(d) \/ Sweep(d) \/ ApplyChunk(d) \/ Cut(d)
  \/ \E d \in Devices, e \in Events :
       Create(d, e) \/ Edit(d, e) \/ Delete(d, e) \/ Resolve(d, e)
  \/ \E d, s, p \in Devices : Pull(d, s, p)
  \/ \E r, s \in Devices : BeginSnapshot(r, s)

Spec == Init /\ [][Next]_vars

-----------------------------------------------------------------------------
(* Properties.                                                             *)

\* Whatever was swept, taken over or deleted, the stored version of an event
\* covers the record that wrote its row (INV-1a of the entity_versions table);
\* of a database from before the table, what the sweep took is missing.
VersionCoversRow ==
  \A d \in Devices, e \in Events : row[d][e] # Gone /\ e \notin lost =>
    /\ version[d][e] # Unversioned
    /\ version[d][e][row[d][e][1]] >= row[d][e][2]

ChunkTaken(d) == incoming[d] # <<>> /\ incoming'[d] = Tail(incoming[d]) /\ cuts' = cuts

\* While the user has a conflict to resolve, no sweep takes one of its sides
\* away, and no chunk settles it by changing what the calendar shows (DC-03 3.3).
ConflictPreserved ==
  [][\A d \in Devices, e \in Events :
       open[d][e] # {} /\ open' = open
       => /\ open[d][e] \subseteq kept'[d]
          /\ ChunkTaken(d) => row'[d][e] = row[d][e]]_vars

\* A snapshot never replaces or deletes what its clock does not cover: a
\* change made while the receiver was out of touch survives (DC-09 7.1), unless
\* a migration could not tell the version of its event from what history was left.
LocalWorkSurvives ==
  [][\A d \in Devices :
       ChunkTaken(d)
       => \A e \in Events :
            /\ row[d][e] # Gone
            /\ e \notin lost
            /\ Head(incoming[d]).clock[row[d][e][1]] < row[d][e][2]
            => row'[d][e] = row[d][e]]_vars

\* When the last chunk is in, an event that was settled between the two
\* devices (no conflict, nothing newer here, no version lost) is what the
\* sender had.
SnapshotAdopted ==
  [][\A d \in Devices :
       ChunkTaken(d) /\ Len(incoming[d]) = 1
       => \A e \in Events :
            /\ open[d][e] = {} /\ e \notin lost
            /\ Dominates(Head(incoming[d]).clock, LocalVersion(d, e))
            => row'[d][e] = Head(incoming[d]).rows[e]]_vars

\* An event whose creation a device counts as applied is in its calendar,
\* unless somebody deleted it (DC-09 5.2: an event may only be taken for
\* deleted when the snapshot, not a chunk of it, lacks it).
NothingVanishes ==
  honest /\ cuts = 0 =>
    \A d \in Devices, i \in Ids :
      /\ Rec(i).event \notin early
      /\ Rec(i).kind = "event" /\ i[2] <= applied[d][i[1]]
      /\ incoming[d] = <<>>
      /\ \A j \in Ids : Rec(j).event = Rec(i).event => Rec(j).kind # "*"
      => row[d][Rec(i).event] # Gone
=============================================================================
