----------------------------- MODULE Replication ------------------------------
(***************************************************************************)
(* One calendar event on several devices: local edits become change        *)
(* records with causality clocks (T1), records travel between devices and  *)
(* are judged against the local history (T2, detect), conflicts are kept   *)
(* and resolved by the user.                                               *)
(*                                                                         *)
(* A record is an entry of its producer's log.  Records of one producer    *)
(* are applied in its order (ReceivePipeline), those of different          *)
(* producers in any order, through any peer that has them; `applied` is    *)
(* the frontier, so the history of a device is a prefix of every log.      *)
(* Every edit and every arrival is one transaction; an update of several   *)
(* fields is one transaction per field, and the process may die between.   *)
(***************************************************************************)
EXTENDS Integers, Sequences, FiniteSets, CausalityClocks

CONSTANTS
  Texts,       \* the values of a field
  Gone,        \* a row that does not exist, and the value of a deletion
  MaxRecords,  \* bound: records in all logs together
  MaxCuts      \* bound: updates that a crash cuts short

ASSUME RecordAssumption == MaxRecords \in Nat /\ MaxCuts \in Nat
\* The fields of an event; `schedule` is treated as these two.
Fields == {"title", "description"}
Paths  == Fields \cup {"event", "*"}   \* creation; deletion of the whole
Rows   == [Fields -> Texts]

ASSUME ValueAssumption == Gone \notin Texts \cup Rows /\ Texts \cap Rows = {}

VARIABLES
  log,       \* log[p]: the records produced by p
  applied,   \* applied[d][p]: how many of them d has applied
  clock,     \* device_clock of each device
  row,       \* the event's row in each device's calendar
  open,      \* open[d][path]: the participants of an unresolved conflict
  \* history
  cuts,      \* updates cut short so far
  misfit,    \* devices where an edit and a creation missed each other
  outlived   \* devices that ignored a deletion, for edits that came after it

vars == <<log, applied, clock, row, open, cuts, misfit, outlived>>

Ids    == UNION {{p} \X DOMAIN log[p] : p \in Devices}
Rec(i) == log[i[1]][i[2]]

Values  == Texts \cup Rows \cup {Gone}
Changes == [path : Paths, value : Values]

\* `knew` is the frontier of the producer when it wrote the record: the
\* truth behind the causality clock.
Records ==
  [path : Paths, value : Values, clock : Clocks, knew : Clocks,
   resolution : BOOLEAN]

TypeOK ==
  /\ log \in [Devices -> Seq(Records)]
  /\ applied \in [Devices -> Clocks]
  /\ clock \in [Devices -> Clocks]
  /\ \A d, p \in Devices : applied[d][p] <= clock[d][p] /\ clock[d][p] <= Len(log[p])
  /\ \A d \in Devices : applied[d][d] = Len(log[d])
  /\ row \in [Devices -> Rows \cup {Gone}]
  /\ open \in [Devices -> [Paths -> SUBSET Ids]]
  /\ cuts \in 0 .. MaxCuts
  /\ misfit \subseteq Devices /\ outlived \subseteq Devices

Init ==
  /\ log = [d \in Devices |-> <<>>]
  /\ applied = [d \in Devices |-> [p \in Devices |-> 0]]
  /\ clock = [d \in Devices |-> [p \in Devices |-> 0]]
  /\ row = [d \in Devices |-> Gone]
  /\ open = [d \in Devices |-> [path \in Paths |-> {}]]
  /\ cuts = 0
  /\ misfit = {} /\ outlived = {}

-----------------------------------------------------------------------------
(* Causality.                                                              *)

\* Record i is record j, or comes after it.
SameOrDescendant(i, j) ==
  /\ Dominates(Rec(i).clock, Rec(j).clock)
  /\ Rec(i).clock[j[1]] >= j[2]

\* Record i comes before record j by their clocks.
CausallyBefore(i, j) == SameOrDescendant(j, i) /\ Rec(i).clock # Rec(j).clock

\* Record i had been applied where and when record j was written.
Knew(j, i) == i # j /\ i[2] <= Rec(j).knew[i[1]]

-----------------------------------------------------------------------------
(* Local changes (T1).                                                     *)

\* Seeded fault: the clock of a record counts the producer's own entry only.
WriteOwnEntryOnly(d, changes, resolution) ==
  /\ Cardinality(Ids) + Len(changes) <= MaxRecords
  /\ log' = [log EXCEPT ![d] = @ \o [k \in DOMAIN changes |->
       [path       |-> changes[k].path,
        value      |-> changes[k].value,
        clock      |-> [p \in Devices |-> IF p = d THEN Len(log[d]) + k ELSE 0],
        knew       |-> [applied[d] EXCEPT ![d] = Len(log[d]) + k],
        resolution |-> resolution]]]
  /\ applied' = [applied EXCEPT ![d][d] = Len(log'[d])]
  /\ clock' = [clock EXCEPT ![d][d] = Len(log'[d])]

\* d appends one record per change, each with the clock of its moment.
Write(d, changes, resolution) ==
  /\ Cardinality(Ids) + Len(changes) <= MaxRecords
  /\ log' = [log EXCEPT ![d] = @ \o [k \in DOMAIN changes |->
       [path       |-> changes[k].path,
        value      |-> changes[k].value,
        clock      |-> [clock[d] EXCEPT ![d] = Len(log[d]) + k],
        knew       |-> [applied[d] EXCEPT ![d] = Len(log[d]) + k],
        resolution |-> resolution]]]
  /\ applied' = [applied EXCEPT ![d][d] = Len(log'[d])]
  /\ clock' = [clock EXCEPT ![d][d] = Len(log'[d])]

Change(path, value) == [path |-> path, value |-> value]

\* A new event, or an import that brings the event back under its own id.
Create(d) ==
  \E new \in Rows :
    /\ row[d] = Gone
    /\ Write(d, <<Change("event", new)>>, FALSE)
    /\ row' = [row EXCEPT ![d] = new]
    /\ UNCHANGED <<open, cuts, misfit, outlived>>

\* The records of an update: one for each field that changed.
Groups(d, new) ==
  LET Group(f) ==
        IF new[f] = row[d][f] THEN <<>> ELSE <<Change(f, new[f])>>
  IN  Group("title") \o Group("description")

Update(d) ==
  \E new \in Rows :
    /\ row[d] # Gone
    /\ new # row[d]
    /\ Write(d, Groups(d, new), FALSE)
    /\ row' = [row EXCEPT ![d] = new]
    /\ UNCHANGED <<open, cuts, misfit, outlived>>

\* The process dies after the first record of an update of two fields, whose
\* transaction has rewritten the whole row.
CutUpdate(d) ==
  \E new \in Rows :
    /\ row[d] # Gone
    /\ cuts < MaxCuts
    /\ \A f \in Fields : new[f] # row[d][f]
    /\ Write(d, <<Change("title", new["title"])>>, FALSE)
    /\ row' = [row EXCEPT ![d] = new]
    /\ cuts' = cuts + 1
    /\ UNCHANGED <<open, misfit, outlived>>

Delete(d) ==
  /\ row[d] # Gone
  /\ Write(d, <<Change("*", Gone)>>, FALSE)
  /\ row' = [row EXCEPT ![d] = Gone]
  /\ UNCHANGED <<open, cuts, misfit, outlived>>

-----------------------------------------------------------------------------
(* Arrivals (T2) and conflict detection.                                   *)

History(d) == {i \in Ids : i[2] <= applied[d][i[1]]}

LocalValue(d, path) ==
  IF row[d] # Gone /\ path \in Fields THEN row[d][path] ELSE row[d]

\* Seeded fault: a deletion is not compared with the edits of fields.
SamePathOnly(d, i) == {l \in History(d) : Rec(l).path = Rec(i).path}

\* The history that record i is compared with at d: the same field, and
\* deletions; all of it when i is about the whole event.
Locals(d, i) ==
  {l \in History(d) : Rec(i).path = "*" \/ Rec(l).path \in {Rec(i).path, "*"}}

IsNoop(d, i)  == Rec(i).value = LocalValue(d, Rec(i).path)
\* Seeded fault: no record is ever stale.
NeverStale(d, i) == FALSE

IsStale(d, i) == \E l \in Locals(d, i) : CausallyBefore(i, l)

ValuesDiffer(i, j) == Rec(i).value # Rec(j).value

Conflicting(d, i) ==
  {l \in Locals(d, i) : Concurrent(Rec(i).clock, Rec(l).clock) /\ ValuesDiffer(i, l)}

\* The row after record r is applied to it (makeEntityMutator).
Mutated(old, r) ==
  CASE r.value = Gone -> Gone
    [] r.path \in Fields /\ r.value \in Texts /\ old # Gone ->
         [old EXCEPT ![r.path] = r.value]
    [] r.path \notin Fields /\ r.value \in Rows -> r.value
    [] OTHER -> old

\* d accepts record i: history and clock advance in any case.
Accept(d, i) ==
  /\ applied' = [applied EXCEPT ![d][i[1]] = i[2]]
  /\ clock' = [clock EXCEPT ![d] = Merge(@, Rec(i).clock)]
  /\ UNCHANGED <<log, cuts>>

\* A deletion is stale for edits that were made in the knowledge of it, where it
\* was in conflict or the event had come back; d ignores it for every field.
Outlives(d, i) ==
  /\ Rec(i).path = "*"
  /\ \A l \in History(d) : CausallyBefore(i, l) => Rec(l).path \in Fields

KeepRow(d, i) ==
  /\ IsNoop(d, i) \/ IsStale(d, i)
  /\ outlived' = IF ~ IsNoop(d, i) /\ Outlives(d, i) THEN outlived \cup {d} ELSE outlived
  /\ UNCHANGED <<row, open, misfit>>

\* Detection does not compare creations with edits of a field, nor a removal
\* that was chosen for one field with edits of the other: i overwrites, edits
\* or removes what did not come before it.
Misfits(d, i) ==
  \/ Rec(i).path \in Fields /\ Rec(i).value # Gone /\ row[d] = Gone
  \/ \E l \in History(d) :
       /\ ~ CausallyBefore(l, i)
       /\ \/ /\ "event" \in {Rec(i).path, Rec(l).path}
             /\ {Rec(i).path, Rec(l).path} \cap Fields # {}
          \/ Rec(i).value = Gone /\ {Rec(i).path, Rec(l).path} \subseteq Fields

ApplyToRow(d, i) ==
  /\ ~ IsNoop(d, i) /\ ~ IsStale(d, i) /\ Conflicting(d, i) = {}
  /\ row' = [row EXCEPT ![d] = Mutated(@, Rec(i))]
  /\ misfit' = IF Misfits(d, i) THEN misfit \cup {d} ELSE misfit
  /\ UNCHANGED <<open, outlived>>

RecordConflict(d, i) ==
  /\ ~ IsNoop(d, i) /\ ~ IsStale(d, i) /\ Conflicting(d, i) # {}
  /\ open' = [open EXCEPT ![d][Rec(i).path] = @ \cup Conflicting(d, i) \cup {i}]
  /\ UNCHANGED <<row, misfit, outlived>>

\* A peer that has it, the producer at least, serves the next record of p.
Deliver(d, p) ==
  /\ p # d
  /\ applied[d][p] < Len(log[p])
  /\ LET i == <<p, applied[d][p] + 1>>
     IN  /\ Accept(d, i)
         /\ KeepRow(d, i) \/ ApplyToRow(d, i) \/ RecordConflict(d, i)

-----------------------------------------------------------------------------
(* Conflict resolution.                                                    *)

\* The side of this device: the first record of its own in the conflict.
LocalParticipant(d, path) ==
  {i \in open[d][path] : i[1] = d /\ \A j \in open[d][path] : j[1] = d => j[2] >= i[2]}

\* What the user may choose: keep the device's own value, keep the value of
\* another device, or for a field any other text.
Choices(d, path) ==
  {Rec(i).value : i \in LocalParticipant(d, path) \cup {i \in open[d][path] : i[1] # d}}
    \cup (IF path \in Fields THEN Texts ELSE {})

\* The choice becomes a record; the row of this device is not written.
Resolve(d) ==
  \E path \in Paths :
    /\ open[d][path] # {}
    /\ \E value \in Choices(d, path) :
         Write(d, <<Change(path, value)>>, TRUE)
    /\ open' = [open EXCEPT ![d][path] = {}]
    /\ UNCHANGED <<row, cuts, misfit, outlived>>

-----------------------------------------------------------------------------

Next ==
  \/ \E d \in Devices :
       Create(d) \/ Update(d) \/ CutUpdate(d) \/ Delete(d) \/ Resolve(d)
  \/ \E d, p \in Devices : Deliver(d, p)

Spec == Init /\ [][Next]_vars

-----------------------------------------------------------------------------
(* Properties.                                                             *)

\* What the calendar shows is in the history of the device: a crash can never
\* strand the row without the record, or the record without the row
\* (database.ts, createLocalChange).
RowHasHistory ==
  \A d \in Devices : row[d] # Gone =>
    \A f \in Fields : \E i \in History(d) :
      \/ Rec(i).path = f /\ Rec(i).value = row[d][f]
      \/ Rec(i).value \in Rows /\ Rec(i).value[f] = row[d][f]

\* What a device has applied comes before all that it writes afterwards, by
\* the clocks: no later edit is taken for a concurrent one.
NoFalseConcurrency ==
  \A i, j \in Ids : Knew(j, i) => CausallyBefore(i, j)

\* Record l replaces record i of a field: it comes later, and is about the same
\* field, about the whole event, or removes it.
Supersedes(l, i) ==
  /\ CausallyBefore(i, l)
  /\ Rec(l).path \in {Rec(i).path, "event", "*"} \/ Rec(l).value = Gone

Shown(d, i) == row[d] # Gone /\ row[d][Rec(i).path] = Rec(i).value

Preserved(d, i) == \E path \in Paths : i \in open[d][path]

\* The edits of the user that count at d: no applied record supersedes them.
Edits(d) ==
  {i \in History(d) : /\ Rec(i).path \in Fields /\ ~ Rec(i).resolution
                     /\ \A l \in History(d) : ~ Supersedes(l, i)}

\* An edit of the user that no applied record supersedes, by the clocks, is
\* what the calendar shows, or is preserved in an open conflict (DC-03 3.3).
NoEditLost ==
  cuts = 0 =>
    \A d \in Devices \ misfit : \A i \in Edits(d) : Shown(d, i) \/ Preserved(d, i)

\* docs/contracts/DC-03, 3.4: "the delete does NOT silently destroy the
\* concurrent edit", the removal that a resolution chose included.
NoEditDestroyed ==
  \A d \in Devices : row[d] = Gone =>
    \A i \in Edits(d) : i[1] = d => Preserved(d, i)

\* Devices with the same history that show different events: one of them at
\* least has an open conflict to tell its user (DC-03 3.4), however the records
\* came to them, unless one ignored a deletion (3.2a, conflict_detection.ts).
DivergenceIsVisible ==
  cuts = 0 =>
    \A d, e \in Devices \ (misfit \cup outlived) :
      /\ applied[d] = applied[e]
      /\ \A i \in History(d) : ~ Rec(i).resolution
      /\ row[d] # row[e]
      => \E path \in Paths : open[d][path] \cup open[e][path] # {}

\* docs/contracts/DC-02, TR-8: when all gaps are closed the state converges,
\* whatever the order of deliveries across producers; conflicts excepted.
Converged ==
  \A d, e \in Devices :
    /\ applied[d] = applied[e]
    /\ \A path \in Paths : open[d][path] = {} /\ open[e][path] = {}
    /\ \A i \in History(d) : ~ Rec(i).resolution
    => row[d] = row[e]

\* tests/conflicts_rpc.test.ts: the chosen value is materialized as a new
\* record of the device so that peers converge, the device itself included.
ResolutionConverges ==
  \A d, e \in Devices : applied[d] = applied[e] =>
    \A i \in History(d) :
      /\ Rec(i).resolution /\ Rec(i).path \in Fields
      /\ row[d] # Gone /\ row[e] # Gone
      /\ \A l \in History(d) \ {i} : CausallyBefore(l, i)
      => row[d][Rec(i).path] = row[e][Rec(i).path]

\* vector_clock.ts: a clock that dominates another "has seen everything"
\* the other has seen.
DominatingHasSeen ==
  \A i, j \in Ids : i # j /\ SameOrDescendant(j, i) => Knew(j, i)
=============================================================================
