# Tide: a formal model of a local-first calendar

Tide is a local-first calendar. Every device keeps its calendar in SQLite; trusted devices find each other on the
local network and exchange *change records* directly. There is no server that could put things right, so the rules by
which two databases grow together are the program. These modules are a model of those rules, and of the application
around them, translated from the sources (paths below are relative to the repository root; the TypeScript core is
`src/…`, the window `frontend/…`, the shell `src-tauri/src/…`), checked with TLC on small instances and, for the
receive pipeline, the session, the replicated event, snapshots, the scheduler, pairing, the connection, revocations,
the misbehaviour ladder, reminders and the desktop's saves, proved with TLAPS for instances of any size.

Contents: [the system](#1-the-system) · [modules](#2-modules) · [runs](#3-what-the-runs-check) ·
[disagreements](#4-where-code-and-documents-disagree) · [proofs](#5-what-is-proved) · [plan](#6-plan) · [not
modelled](#7-not-modelled).

## 1. The system

| Part | State it keeps | Operations | Must be true |
|---|---|---|---|
| Arrival classification (`sync/knowledge_state.ts`) | frontier, buffered and skipped numbers per producer | classify, advance, needed ranges | what is requested is exactly what is missing |
| Receive pipeline, T2 (`persistence/database.ts`, `sync/sync_engine.ts`) | `applied_upto`, `pending_changes`, `skipped_seqs`, `changes`, `quarantine`, `device_clock`; a copy per session | apply, buffer, drop, quarantine, revalidate, retry, delete, prune, reconcile | nothing lost in silence, nothing applied twice, producer order |
| Local changes, T1 (`database.ts`, `bridges/event_core.ts`) | `events`, `series`, overrides, reminders, `changes`, `device_clock`, `entity_versions` | create, import, update, delete, rules, overrides, reminders | row and record change together; clocks tell the causal order |
| Conflicts (`sync/conflict_detection.ts`, `application/conflicts_ui.ts`) | `conflicts`, participants | detect, record, resolve, skip | no edit is lost, no divergence is hidden, the user decides |
| Sync session (`sync/sync_engine.ts`, `sync/full_state_triggers.ts`) | message loop, stash, gap streak, offers made | HELLO, pull, serve, offer, accept, snapshot, ACK barrier, drain | terminates, transfers all that can be served, no mutual wait |
| Snapshots and compaction (`sync/full_state.ts`, `sync/compaction.ts`) | chunks, clock, versions; what history is left | build, stage, materialise, absence rule, sweep | never removes what the sender has, never undoes newer local state |
| Misbehaviour ladder (`sync/misbehavior.ts`) | window, level, hard block | count, escalate, recover, reset | gradual up, quick down, a block is durable |
| Scheduler and discovery (`application/scheduler*.ts`, `network/endpoint_bridge.ts`, `mdns_service.rs`) | dirty mark, debounce, sessions, backoff, endpoint cache | change, timer, sync now, settings, session end, announcements | one session per peer, cap kept, the peer that answers is the peer that was meant, every change pushed |
| Pairing (`network/pairing_manager.ts`, `security/pairing.ts`) | offer, ceremony, trust rows | offer, scan, cancel | success is mutual trust; no listener is forgotten |
| Revocation (`security/revocation.ts`) | records, acknowledgements | issue, verify, accept, queue, ack | delivered at least once, stored once, spread to all who trust the revoker |
| Transport (`network/noise_transport.ts`, `sync_runtime.ts`) | frame queues, sockets, nonces | handshake, send, receive, close, fail | order kept, an end of stream is seen, no receive is stranded |
| Reminders (`application/reminder_engine.ts`, `notification_delivery.ts`) | schedule, delivered keys, strategies | tick, deliver, give up | shown, and not twice |
| Calendar in the window (`frontend/dialog.ts`, `calendar.ts`, `recurrence_edit.ts`) | the open dialog | create, three scopes of editing, drag, delete, end | what was not meant does not change |
| iCalendar (`interop/ics_*.ts`) | none | export, index, plan, apply | importing the same file again changes nothing |
| Shell and sidecar bridge (`lib.rs`, `sidecar.rs`, `sidecar_server.ts`, `frontend/store.ts`) | pending calls, the two stores of the window | call, reply, time out, crash, leave | every save ends, no process is left over |

*How they interact.* The window calls the shell, the shell writes a line to the sidecar and waits 15 s for its reply;
if a call fails the window falls back to its own storage. In the sidecar an edit runs T1. The scheduler, a user, or a
peer opens a connection to an endpoint that discovery or an earlier session supplied; the transport hands an ordered
channel to `runEngineSession`, which builds an engine **per session**. The engine's constructor revalidates the
quarantine and copies the knowledge state out of the database; the session then pulls what its copy lacks, feeds every
record through the misbehaviour gates to T2, and serves the peer's pull from the same tables; a gap that no record can
close is closed by a snapshot. Several sessions, the user's quarantine actions and the calendar's edits share one
database on one JavaScript thread: between two awaits a handler is atomic, every `db.transaction` is atomic against
crashes, and nothing else is.

*What is hard*, and what the properties are for (`PROJECT.json`, "hazards", has each at its line):

- private copies of the knowledge state that are stale while other sessions move the tables;
- handlers of two transactions with a crash between them (quarantine + skip row, retry + resolution, a field per
  transaction in an update);
- records that come again, early, out of order, through relays, and records of different producers that overtake each
  other although one was written in the knowledge of the other;
- two symmetric message loops with short timeouts whose answers may be late, and with offers that cross;
- a peer that hangs or a carrier that fails in the middle.

## 2. Modules

| Module | Models | Kind |
|---|---|---|
| `KnowledgeState` | `knowledge_state.ts`: the classifiers and the drain as relations, no recursion | operators |
| `OrderedDelivery` | what a device promises: each record delivered at most once, in order, and the frontier passes a record only when it was delivered, quarantined or covered by a snapshot | abstract specification |
| `ReceivePipeline` | T2, quarantine, engines, snapshots' effect on knowledge, user actions, restarts | implements `OrderedDelivery` |
| `SyncSession` | two engines' `runSession` over FIFO channels | detailed specification |
| `CausalityClocks` | `vector_clock.ts` | operators |
| `Replication` | one event on several devices: T1, T2 with detection, conflicts, resolution | detailed specification |
| `FullState` | several events on several devices: versions, sweeps, snapshots, the absence rule, migration | detailed specification, on `CausalityClocks` |
| `Link` | what a session may rely on from its connection | abstract specification |
| `Channel` | Noise handshake, pump, socket framing, feed loop, death of a session | implements `Link` |
| `Discovery` | the endpoint cache and `resolveEndpoint` | operators |
| `Scheduler` | the scheduler, its runtime, the sidecar's session openers, the peers' whereabouts | detailed specification, on `Discovery` |
| `Pairing` | offers, ceremonies, both managers and the network between them | detailed specification |
| `Misbehavior` | the ladder, the hard block, and the gates of `applyBatch` | detailed specification |
| `Revocation` | the record stores, verification, queues and the session piggyback, over a mesh | detailed specification |
| `Recurrence` | `expandOccurrences`, `terminateRuleAt`, and the recurrence set they mean | operators, with recursive functions |
| `Calendar` | the calendar's tables on each device, `EventCore`, `makeEntityMutator`, foreign keys | operations, on `Recurrence` |
| `CalendarApp` | the dialog's scopes, drag, export and import | detailed specification, on `Calendar` |
| `Desktop` | saves of the window, shell, pipe, sidecar process | detailed specification |
| `Reminders` | the tick, the strategies and their child processes | detailed specification |
| `ReceivePipeline_proofs`, `SyncSession_proofs`, `Replication_proofs`, `FullState_proofs` | the proofs about the module of that name | theorems |
| `Network_proofs`, `Trust_proofs`, `Application_proofs`, `Device_proofs` | the proofs about `Pairing` and `Channel`, about `Revocation` and `Misbehavior`, about `Desktop` and `Reminders`, about `Scheduler` and `CalendarApp` (the second of each pair has its `ChannelSpec`, `LadderSpec`, `ReminderSpec`, `AppSpec`, … so that both can be extended) | theorems |
| `MC…` | the instances for TLC | model values, symmetry |

Each definition's source lines are in `PROJECT.json`, "map". Definitions that begin with the comment *Seeded fault*
are never reached by a specification: each is a plausible mistake in the definition that follows it, and putting it in
that definition's place makes TLC report the property named in "mutants".

### ReceivePipeline

A record is a pair of producer and number; what is in it matters only through `rejected`, the set of records the
installed validator refuses. A restart may bring a validator that refuses less (an upgrade), as `revalidateQuarantine`
expects. The tables are `applied`, `pending`, `skipped`, `changes`, `rows` and `clock`; an engine is "closed",
"building" (its constructor visits the active quarantine rows one by one) or "open", with `memApplied`, `memPending`,
`memSkipped` as its copy. `ApplyRemoteChange` is T2: the classification is made from the tables, inside the
transaction, and is one of `DropDuplicate`, `BufferEarly`, `ApplyInOrder`. `Receive` is `applyBatch` for a record, in
the code's order: skipped, invalid, valid. While an engine is being built nothing else of the process runs (`Idle`),
because the constructor does not await. `DieQuarantining` and `DieRetrying` are the crashes between two transactions
that depend on each other. `ReceiveSnapshot` is the knowledge half of `applySnapshot`; its rows are in `FullState`.
What the misbehaviour gates drop is a record that does not arrive; the gates are in `Misbehavior`.

### SyncSession

An action is what a device does from one receive to the next. `pc` says where `runSession` awaits: the peer's HELLO,
the first wait of the pull (which only a batch ends; anything else is set aside), its second wait (which also serves),
the two waits of an offer exchange ("drive" for our offer, "accept" for theirs), the ACK barrier, the drain behind it.
`stash` are the messages set aside, and `FromStash` says which waits look there first. Records are numbers; a device
has three sets: what it can serve, what it need not ask for, what its clock advertises. The three differ after a
snapshot (knowledge without history), which is why a gap arises that only a snapshot can close. The 10 ms waits may
run out at any time; `late` remembers that one ran out while the peer was about to answer, and the property about
healing is stated for sessions where that did not happen. `peerKey` is the name under which an offer for a gap is
remembered: the code uses the first key of the peer's clock there and the peer's device id elsewhere.

### Replication

One event, and per producer a log of records; `applied[d]` is the frontier of device `d`, so its history is a prefix
of every log, as `ReceivePipeline` shows. A record has a path ("event" for a creation, a field, "\*" for a deletion),
a value, the causality clock the code stamps on it, and `knew`: the frontier of the producer at that moment, which the
code does not record and against which the clocks are judged. `Create` covers the import that brings an event back
under its own id. `Update` writes one record per changed field; `CutUpdate` is the crash after the first of two, whose
transaction has already rewritten the whole row. `Deliver` is T2 for one record: `KeepRow` (rules 3.1 and 3.2a),
`ApplyToRow`, `RecordConflict` (3.3). `Resolve` writes a record and closes the conflict, and, as in the code, does not
write the row. `Fields` has two of the three field groups; the third is treated like these. Two history variables name
the cases that properties except: `misfit`, the devices where a creation and an edit missed each other, and `outlived`,
the devices that ignored a deletion as stale (3.2a) because of edits of single fields made after it.

### FullState

A row is known by the record that wrote it, because what matters here is *whose* state survives and not which field.
`kept` is the history that sweeps have left; `version` is `entity_versions`, which survives the sweep. `Sweep` removes
what every peer has acknowledged and no conflict needs. `BeginSnapshot` cuts the sender's state into messages of
`ChunkSize` entries (full messages, the tombstones, the rest); `ApplyChunk` is one `FULL_STATE_SNAPSHOT` at the
receiver: staging, materialisation, the absence rule and the frontier. A stream may be cut between two messages.
The calendar is sent in the order of its
ids, and there is one such order: `Listings` is the set of all orderings that are ascending, so that the choice from
it needs no recursion. `Migrate` is the step of `database.ts` that derives the versions of an older database from what its history still
tells; `lost` remembers for which events that was too little, and the properties say what they do not promise there.
Between migration and sweep the code has no empty-version guard in staging (the absence rule has one): an entry
without a version replaces a local edit, which is why `lost` is excepted.

### Channel and Link

Each stage that runs by itself is an action: the pump, the kernel, a data event, the feed loop, a waiter. A ciphertext
is the number it was encrypted under, and it decrypts when that is the next nonce. `Link` is what the sessions think
they have: order, no repetition, a clean end only after everything that was sent and not thrown away by its own
sender. A frame above `MAX_FRAME` is refused in `send` and kills the session; its sender will meet it again in the
next one. A responder's handshake has no time limit, a dialler whose handshake fails leaves its socket open, and
`send` on a dead carrier resolves; the model has all three. The session engine's `transport.close?.()` finds no such
method on this transport, so a session ends when the runtime destroys the socket.

### Scheduler and Discovery

`DebounceFires` and `SyncAll` (startup, network change, by hand) begin attempts through `Admitted` (lock, backoff,
cap); `sync_now` and inbound sessions of the sidecar bypass all three and change nothing of the scheduler, so they are
not actions. The runtime does nothing on a sweep decision; `LocalChange` and `SyncAll` are the entry points the
runtime offers to its embedder, which the sidecar does not call yet. Where a device listens (`home`) and its service
name are the environment's: devices move, take over an address another had, and announce again with a suffix while
their old entry lives on. What answers at an address proves its key, and `IsExpected` compares. A tick is the base
delay of the backoff.

### Pairing

An offer is a listener with a code; each scan is a connection with two message sequences, the XX handshake, both
payloads and `PAIRING_OK`. Every await is a phase. Cancellation tears down the session the offer knows, which is the
latest; a second scanner's is not. No receive has a timeout and no socket a keepalive, so `Break` chooses which sides
are told that a connection is gone: one that is told reads the end behind nothing, one that is not is `deaf` and waits
until the news comes after all or its own process ends. The connection of a machine that hangs looks the same. Nonces
are fresh per session, so their memory refuses nothing, and payloads carry their sender's key, so neither does the
comparison of keys: what is left, and checked, is the order of stores and messages under cancellations and crashes.

### Misbehavior

One producer, whose records come again until something resolves them. `Arrive` is the head of `applyBatch` with the
gates; counts and thresholds keep the order of the code's constants and not their size. Levels are re-evaluated only
when a record arrives; level 3 never clears by itself; the backoff does not double although the configuration names
its cap. All of that is in the model and none of it violates a stated promise.

### Revocation

Whoever revokes a device signs a record; each session pushes what the peer has not acknowledged (`queue`), the peer
verifies, with an await between reading the store and writing it, and answers with all it holds. What a composition
root has to add (an accepted record turns off the trust entry, no session without `canSynchronize` on both sides) is
taken from the tests, because the sidecar wires none. Stores and acknowledgements are in memory, so a restart is not
modelled: it would forget both.

### Calendar, CalendarApp and Recurrence

Days are numbers, all events are timed and in one zone, BYDAY is a set. `Calendar` has the tables, each operation of
`EventCore` as a sequence of T1s that a crash may cut, and the mutator with the foreign keys that may refuse it.
`CalendarApp` is what a user does: create, edit this occurrence or all, uncheck Repeat, drag, delete, export, import.
`kept` is a history variable: what the last save must have left alone. `Recurrence` holds both the code's stepping
(`Expand`) and the definition (`RecurrenceSet`). The stepping is a walk through the days of the window: each branch has
the set of days it visits, and `Emit` is the code's `emit` for one of them, with the bound and the count. The dates of
the days are a recursive function too, so that the module can be proved about. `Occurrences` is what the views draw of a
series: an expansion that is empty leaves the base as a chip.

### Desktop

Three processes and a pipe each way: `Click`, `Created` and `Reminded` are the dialog's awaits, `pending` the shell's
table of replies, `busy` the calls the sidecar answers later. A `Timeout` forgets the call but not its effect. One
life of the application, creations only; a double click on Save is two creations, as in the code.

### Reminders

`Tick` rebuilds the schedule from the tables and dispatches what is due; a dispatch tries the strategies in order, as
child processes that exit, fail or hang, with a 10 s valve. Nothing is persisted, so a restart forgets what was shown,
and the children outlive it. Time may pass without ticks (suspend). `Kept` is the prune of the delivered keys that each
tick makes, also the first. `RowsOf` is the tick's replacement of a timed series by rows of its occurrences, and
`Fires` the lookup of a reminder's event among the rows by the id of the event, which the rows of occurrences do not
have. `FiresOnce` and `SeriesAreShown` are what the documents say and the code does not do (section 4); the events of a
model do not move.

## 3. What the runs check

| Run | Instance | Shows |
|---|---|---|
| `pipeline` | 1 producer of 3 records, one of which may be refused, 2 sessions, 2 restarts, retention of 1 row, fairness; 79,679 states | `FrontierAccounted`, `HistoryBelowFrontier`, `AdvertisesAllItHolds`, `MirrorNeverHides`, that the pipeline implements `OrderedDelivery`, and `EventuallyHeld` |
| `session` | 2 devices, 2 records in every distribution, 3 pull rounds, late answers, 1 fault, fairness; about 495,000 states | `NoMutualWait`, `PullCompletes`, `GapHeals`, `SessionEnds` |
| `replication` | 3 devices, 4 records, 2 values, 1 crash; about 492,000 states | `NoFalseConcurrency`, `NoEditLost`, `DivergenceIsVisible` |
| `fullstate` | 2 devices, 2 events, 4 records, 2 snapshots, 2 sweeps, 1 cut; about 757,000 states | `VersionCoversRow`, `NothingVanishes`, `ConflictPreserved`, `LocalWorkSurvives`, `SnapshotAdopted` |
| `channel` | 2 messages each way, one above the frame limit, 1 broken carrier, fairness; about 97,000 states | that the connection implements `Link`; `NoReceiveIsStranded`, `EndIsHeard` |
| `scheduler` | 2 peers, 2 addresses, 2 names, cap 1, 2 moves, fairness; about 168,000 states | `SessionsAreLocked`, `EndpointsAreProven`, `FirstPeersAreServed` |
| `pairing` | 2 devices, 2 offers, 2 scans, 1 side at a time that is not told of a break, fairness; about 392,000 states | `OneSidedTrustIsTheScanners`, `AcceptedIsMutual`, `ListenersAreTracked`, `CeremoniesEnd` |
| `ladder` | 5 records, 4 refused, 6 arrivals in a window, 1 user action, 1 restart, fairness; about 59,000 states | `FloodIsBounded`, `DroppedComesAgain` |
| `revocation` | a line of 3 devices and a fourth that is revoked, two records of which one revokes the author of the other, 1 break, fairness, deadlock checked; 86,340 states | `AckedIsHeld`, `RevocationsSpread` |
| `calendar` | 2 devices, 1 event, a weekly rule with an end and a monthly one with a count, 4 records, 1 crash; about 56,000 states | `ExpansionFollowsTheRule`, `ThePastIsKept`, `ReimportIsQuiet` |
| `desktop` | 2 saves, 1 sync, fairness | `ClosedWithItsReminder`, `SavesEnd`, `NoOrphan` |
| `reminders` | 1 event that outlives the prune, 2 settings, 2 starts, 2 faults, 2 strategies, fairness; about 293,000 states | `ShownOnce`, `DueIsShown` |

*Properties worth reading first.* `FrontierAccounted` and `MirrorNeverHides` (ReceivePipeline) carry the argument that
sessions with stale copies are harmless: a copy may be behind, but it never counts as held what the tables lack, so no
record is left unrequested. `PullCompletes` and `NoMutualWait` (SyncSession) are the two sides of the ACK barrier:
neither device leaves under the other's pull, and neither waits for one that has left. `NoEditLost` (Replication): an
edit that nothing supersedes *by the clocks* is shown or is a participant of an open conflict, on every device that
has it. It is stated for devices where no creation and edit missed each other and no removal that was chosen for one
field took the row from the edits of the others (`misfit`), and where no update was cut, because those cases do lose
edits; by the clocks, because the clocks themselves may claim too much (section 4 has all three).
`DivergenceIsVisible` asks for a conflict on one of the two devices only: rule 3.1 compares with the row, so of two
devices one may record a conflict where the other sees a no-op. It is stated for two devices outside `misfit` and
`outlived`: a device that ignored a deletion can differ from another in silence (section 4). `LocalWorkSurvives` and
`NothingVanishes` (FullState) are the two ways a snapshot could destroy: by replacing newer local work, and by taking
an event for deleted. `NothingVanishes` is stated for snapshots of senders that had applied what their clock counts
and were not inside a stream themselves (`honest`), for streams that are not cut, and for events of which no edit came
before the row (`early`); the others do lose events. `ShownOnce` (Reminders) counts the excuses exactly: once more for
every answer that could not be heard; it says nothing of an event that is not over 25 h after the moment of its
reminder, which is shown at every tick from then on (section 4). `CeremoniesEnd` (Pairing) says that in a ceremony no
side waits for what the other does not send, whoever cancels, dies or is cut off; the one exception is a side that no
news of the end reaches. `ThePastIsKept` (CalendarApp) says of every scope of editing what it may not touch.
`FirstPeersAreServed` (Scheduler) is about locks, backoff and stale endpoints together: none of them shuts a peer out
for good.

*Bounds and why they are enough.* Three records per producer give a next expected record, a gap and something above
it; the code treats producers independently except in a snapshot and in the clock, so one producer suffices for the
pipeline's run (the theorems have any number); pruning that leaves one of two rows needs two quarantined records,
which the theorems cover and the instance does not. Two sessions are needed for a stale copy; a third adds another of
the same. Two records give the session a record that can be served and one that cannot, in every mix on both sides;
three pull rounds give two rounds without progress (`GapRoundLimit`) and one with, and the cap itself. Three devices
are needed for an overtaking record, four records for create, two concurrent edits and a third party's delete or the
resolution. `fullstate` runs with snapshots that fit one message; with more it goes wrong (section 4). Two messages
and one too long give the channel a frame before and after the one it dies of. Two peers with one slot are the
smallest contention; two addresses let one device take over the other's. Two offers give one that supersedes another,
two scans a second scanner; of two sides that are not told of a break, each is excepted from `CeremoniesEnd` by
itself, so one at a time (`MaxSilent`) is enough, and the theorems have any number. A reminder's key is kept for two
units of the clock's four, so that one tick and a restart fall before the prune and a tick behind it; `MaxShown` stops
the count of an event that is shown at every tick, and is no lower than what the excuses of the run allow before the
prune. The ladder's thresholds are scaled so that each is crossed and each window empties. In `revocation` the middle
device meets the two records in either order. The calendar's horizon of 33 days passes a month's end; `calendar` also
passes with five records (949,000 states). Two saves give a late answer that must not be taken for the other's.
Symmetry is used for model values only where nothing orders them, and not in runs with a liveness property.

*Fairness and why the code justifies it.* `ReceivePipeline!Fairness`: sessions keep being opened (the scheduler, the
user and peers do), constructors run to their end (they do not await), sessions end (every receive is bounded), and a
requested record that is again and again possible to pull is pulled (strong fairness, because a session may fail
before). `SyncSession!Fairness`: a device that runs goes on, and its timers fire; a hung device is not fair, and the
property is about the other one. `Channel!Fairness`: event loop, kernel and timers go on. `Scheduler!FairSpec`: time
passes, a dial is answered or times out, and a session ends (that is `SessionEnds`); that the debounce fires again and
again is a premise of the property and not assumed. `Pairing!FairSpec`: what is on the wire, a message or the news of
an end, arrives and is handled; that there is such news is not assumed. `Misbehavior!Fairness`: time passes, and a
record that nothing has resolved is sent again in some session when it is again and again not held (strong fairness).
`Revocation!Fairness`: sessions over every link keep being opened, and an open one goes on. `Desktop!Fairness`:
threads and event loops go on while their process lives, and 15 s pass; nothing makes a sync end.
`Reminders!FairSpec`: time passes, a due timer runs, and a child exits unless it hangs. Nothing is assumed of users,
upgrades, crashes or other devices anywhere. `Replication`, `FullState` and `CalendarApp` have safety only: what must
eventually happen to their records is the business of the sessions.

*Deadlock* is checked in `revocation`. In the others a quiet device, a finished session and an exhausted bound are
legal ends. Each of the twelve detailed specifications has one type invariant; all of them are proved (section 5), and
none is among the invariants of the runs (add it to a `.cfg` to check it).

## 4. Where code and documents disagree

TLC ends each of these with a counterexample for the property named; the configuration is either one that belongs to
no run, or that of a run with the property named put in the place of the run's own.

| Configuration | Property | What the code does |
|---|---|---|
| `MCReceivePipeline_stuck` | `StreamNeverStuck` | a record buffered above a quarantined one is never applied when the skip row, and not a record, closes the gap (`sync_engine.ts:1254` drains nothing; the comment at 1243 and `docs/technical-debt.md:42` say the stream goes on) |
| `MCReceivePipeline_retry` | `RetriedIsDurable` | a retry after the frontier has passed the skipped number reports success and stores nothing (`sync_engine.ts:1474-1477`) |
| `MCSyncSession_race` | `RaceHasAWinner` | two devices that both have a gap offer at the same time, each accepts the other's offer and no snapshot is sent (`sync_engine.ts:1092`; DC-09 TR-10: "exactly one snapshot transfer completes per pair") |
| `MCReplication`, with this invariant | `Converged` | an edit that arrives before the creation of its event is lost on that device (`database.ts:545`; DC-02 TR-8) |
| `MCReplication`, with this invariant | `DominatingHasSeen` | T2 merges the whole clock of a record, so a device claims to have seen records that have not reached it (`database.ts:811`, against `vector_clock.ts:11` "has seen everything") |
| `MCReplication_resolved` | `ResolutionConverges` | resolving a conflict does not write the row of the device where it was resolved (`conflicts_ui.ts:378`; `tests/conflicts_rpc.test.ts:147`) |
| `MCReplication_resolved`, with a crash and the other invariant | `RowHasHistory` | a crash inside an update leaves a value in the row that no record carries (`event_core.ts:733`; `database.ts:362`) |
| `MCReplication_resolved`, with `MaxRecords = 5` and this invariant | `NoEditDestroyed` | a resolution in favour of the removal removes the event for every field, and with it edits of other fields that no conflict names (`conflicts_ui.ts:382`, `sync_service.ts:47`, `database.ts:545`; DC-03 3.4: the user decides) |
| `MCReplication`, with four devices, five records and `outlived` left out of the premise | `DivergenceIsVisible` | a deletion that was ignored as stale for one field (3.2a) still counts in the history that the records of the other fields are compared with (`database.ts:511`, `conflict_detection.ts:104`): an edit made before it is stale where the deletion came first and shown where it came last. Two devices with the same history show different events, and neither has a conflict (DC-03 3.4: "Neither side wins") |
| `MCFullState_chunks` | `NothingVanishes` | the absence rule takes the ids of one message for the ids of the snapshot (`full_state.ts:494`), so of a snapshot of more than 256 entries the last message's events remain; DC-09:434-437 speaks of absence from the snapshot |
| `MCFullState`, with four devices, three snapshots, no cut and `honest` without `incoming[s] = <<>>` | `NothingVanishes` | graves go in a message of their own, before the last entries (`full_state.ts:336`), and the absence rule takes that message for the whole snapshot (`full_state.ts:494`): until the next one is in, the receiver has a full clock and an empty calendar. A device that takes a snapshot from it in that moment counts the events as applied and is never sent them (DC-09:434-437) |
| `MCScheduler`, with this property | `EveryPeerIsServed` | the peers at the end of the list never get a session when the cap is smaller than the list (`scheduler.ts:216`; DC-13:241-245) |
| `MCPairing`, with this property | `CancelledIsFinal` | the displayer pairs after its offer was cancelled (`pairing_manager.ts:229-232` says otherwise) |
| `MCPairing`, with this property | `EveryWaitEnds` | a side that is never told of a break waits for ever, as no receive has a timeout: the result of an offer neither resolves nor rejects (`pairing_manager.ts:175`, 298, 320; the comment at 127 says "or rejects with reason") |
| `MCReminders`, with this invariant | `FiresOnce` | the prune of each tick forgets a delivered key 25 h after its moment, and the reminder of an event that is not over is shown again at every tick (`sidecar_server.ts:1274`, 1369; DC-22 8.2: a delivered key "cannot fire again" within the session) |
| `MCReminders`, with `Occurrences <- Weekly` and this property | `SeriesAreShown` | a timed series is in the tick's rows by its occurrences only, and a reminder is looked up by the id of its event: the reminder of a recurring event is never shown (`reminder_engine.ts:106`; the comment at `sidecar_server.ts:1297` says "so reminders fire for the OCCURRENCE") |
| `MCChannel`, with this invariant | `LeavesNothingBehind` | frames still queued when the flush timer fires are dropped (`sync_runtime.ts:209`) |
| `MCDesktop`, with this invariant | `SavesReachTheDatabase` | one failed call turns every later save of the window to its own storage, which on the desktop nothing reads back (`store.ts`, "plain browser") |
| `MCCalendar_poison` | `RemovesApply` | two devices that imported the same file each have their own series row; a remove from one is refused by the other's foreign key, at every session again (`sync_service.ts:35-38`, `database.ts:28`) |
| `MCRevocation_order` | `ArrivalOrderIsIrrelevant` | a record whose revoker is already revoked here is refused, so of two mutual revocations a witness stores the one that came first (DC-10 TRP-5) |

Smaller ones, met while modelling and left as they are in the models, without a configuration:

- *Scheduler.* `update_settings` sends keys that `updateSettings` ignores, and drops the armed debounce all the same;
  an inbound success does not reset the backoff; the sidecar starts the runtime but calls none of `onLocalChange`,
  `onNetworkChange`, `onStartup` and `manualSyncNow`, so in the program as composed all sessions are those of
  `sync_now` and of peers; a connect that comes after `withTimeout` gave up is not closed.
- *Pairing.* The shell gives up after 15 s while `pairing_accept` goes on; pairing with oneself is not refused;
  closing the dialog leaves the offer alive without a Cancel button.
- *Revocation.* A record of a revoker one does not know is refused, never acknowledged, and sent again in every
  session.
- *Calendar.* YEARLY steps through MONTHLY first (`recurrence_conflicts.ts:224`, against its comment at 241), and what its own
  steps emit afterwards is in the list a second time (in the model it is a set); dragging
  one chip re-anchors the series, and Delete on one chip deletes it; UNTIL shifts a day west of UTC in the evening on
  its way through a file; an exported stamp loses its DTSTART; a crash between the event and its series leaves an
  event that a second import skips; series, overrides and reminders are not applied by peers although comments say
  that they replicate.
- *Reminders.* A strategy that failed once is dead until the next start, so a retry cannot help when all have; a
  notification that takes longer than 10 s is shown again; `all_day_reminder_time` is never written.
- *Desktop.* A double click on Save creates two events; a save that ends closes whatever dialog is open by then; a
  call that timed out leaves an event in the database and a copy in the window's storage.

## 5. What is proved

`ReceivePipeline_proofs.tla`, for any sets of producers and sessions, any number of records and restarts:

| Theorem | Says |
|---|---|
| `Invariance` | the inductive invariant `IInv` holds always |
| `TypeCorrect` | `Spec => []TypeOK` |
| `NothingLostInSilence` | `Spec => []FrontierAccounted` |
| `NothingAppliedTwice` | `Spec => []HistoryBelowFrontier` |
| `NothingHeldUnadvertised` | `Spec => []AdvertisesAllItHolds` |
| `StaleCopiesAreSafe` | `Spec => []MirrorNeverHides` |
| `DeliveryRefined` | `Spec => Delivery!Spec`, step by step |

*Assumptions*: those of the constants in `ReceivePipeline` (numbers are naturals, `NoEngine` is no engine, a snapshot
reaches no further than the records) and nothing else.

*The argument.* `IInv` is the conjunction of the types, the four invariants above and `QuarantineGrounded`.
`FrontierAccounted` alone is not inductive: a drain takes buffered records over the frontier and an advance jumps over
skip rows, so one must know that a skip row, a quarantine row and an entry of the constructor's work list stand only
for records that were quarantined at some time: that is `QuarantineGrounded`. `MirrorNeverHides` rests on the tables
never giving a number up: what leaves the skip rows or the buffer is at or below the frontier, or in the buffer, when
the transaction ends. The proof has one lemma per action (and for T2 one per outcome), each with one step per conjunct
that the action can disturb; the constructor, the restart and the snapshot have their own. The refinement maps every
step to a delivery, an excuse, a jump or a stutter; that the applied run is in producer order is where the drain
relation is used.

`Replication_proofs.tla`, for any sets of devices and texts and any number of records and crashes:

| Theorem | Says |
|---|---|
| `Induction` | the inductive invariant `IInv` of that module holds always |
| `TypesHold` | `Spec => []TypeOK`, with frontier below clock below log |
| `AuthorsSupersede` | `Spec => []NoFalseConcurrency` |
| `EditsSurvive` | `Spec => []NoEditLost` |
| `DivergenceShows` | `Spec => []DivergenceIsVisible` |

*The argument.* That a record dominates what its author had applied needs that the author's clock did so when it wrote
(`HistoryDominated`), which a delivery keeps because it merges the clock of the one record by which the history grows.
That the two clocks also differ, without which detection calls neither older, needs that no clock counts a record
before it is written (`ClocksAccurate`) and that what was known was written when nothing counted the later record
(`KnownIsBefore`). The converse, that a clock covers only what was applied, is false (section 4, `DominatingHasSeen`).

`NoEditLost` is the second layer. Of two records the clock of one counts the other or they are concurrent, never both
ways (`OneCountsOther`), so that detection's three cases are all there are; edits carry texts and conflicts have their
sides in the history and of the same field (`EditsAreTexts`, `ConflictsFine`). What an edit's device shows for its field
then changes only by a record that supersedes the edit, by one that opens a conflict with it, or by one of the cases
that `NoEditLost` excepts. *Assumptions*: the bounds are natural numbers, and what is written into a text field is not
what a whole row is described by (`ValueAssumption`).

`DivergenceIsVisible` is the third layer. It speaks of two orders of delivery at once; the way to say it of one device
is to find what does not depend on the order. That are the tops of a field (`Tops`): the records of the history that say
something about the field (`Touches`) and that no other such record comes after. On a device without a conflict, a
misfit, an ignored deletion or a resolution (`Quiet`) *every* top says what the row shows (`TopsShown`), because of two
tops that disagree one was concurrent with the other when it arrived, and opened a conflict. A field of a row has
records about it (`RowIsMade`), and where there are any there is a top (`SomeTop`, since clocks order records
transitively: `BeforeIsTransitive`). Two quiet devices with the same history have the same tops, so the same row
(`SameHistorySameRow`). The proof failed at the deletion that is ignored for one field and counted for the others; TLC
then showed that the property was false there, at one device and one record more than the run has, and `outlived` is the
result.

`FullState_proofs.tla`, for any finite sets of devices and events, any number of records, sweeps, snapshots and cuts,
and any size of a message:

| Theorem | Says |
|---|---|
| `Invariance` | the inductive invariant `IInv` of that module holds always |
| `TypeCorrect` | `Spec => []TypeOK` |
| `VersionsSurvive` | `Spec => []VersionCoversRow` |
| `ConflictsArePreserved` | `Spec => ConflictPreserved` |
| `LocalWorkIsKept` | `Spec => LocalWorkSurvives` |
| `SnapshotsAreAdopted` | if the calendar fits one message, `Spec => SnapshotAdopted` |
| `EventsAreKept` | if the calendar fits one message, `Spec => []NothingVanishes` |

*The argument.* A version covers a row when it is written, and afterwards the row may come from a snapshot: so every
entry of every message under way must have a version that covers *its* row (`ChunksFine`), and the message's clock must
count only what was written (`RecordsAccurate`). A migration rebuilds versions from the history that is left; for an
event whose history a sweep has taken, `lost` says so. The sides of an open conflict are never swept (`OpenIsKept`).
The action properties then follow from one step under the invariant: a row whose version covers it is absent or
replaced only under a clock that dominates that version, and so counts the record that wrote the row. That a snapshot
is adopted needs the premise `Cardinality(Events) < ChunkSize`, stated in the theorem: without it the property is false
(section 4, `MCFullState_chunks`), and the run has it too. *Assumptions*: the sets are finite, the bounds are natural
numbers, "unversioned" is not a clock and "gone" is not a record.

`NothingVanishes` is the second layer (`NInv`), under the same premise. The absence rule does remove events that
nobody deleted: the message of the graves carries no entries and the clock of the whole. So the invariant cannot say
that a device shows what it has applied; it says what each device remembers of each event that nobody deleted
(`Remembered`). What is shown is known, and its version covers what is left of its history (`WhenShown`). What is not
shown is not known, or the last message under way brings it, and nothing on the device will keep it out: no version, no
conflict, and what is left of the history is under the message's clock (`WhenGone`). Who knows of an event by a version
or a record knows of its creation (`VersionKnows`, `HistoryKnows`, `RecordsKnow`), and a stream has an event if and only
if its clock counts the creation (`StreamKnows`): the sender shows what it knows because nothing is under way to it.
With these, an event is only removed by a message that is not the last (`AbsentComesAgain`), and the last one restores
it (`LastBringsBack`). `StreamKnows` is not inductive for a sender that is inside a stream; TLC then showed that the
property was false there, with two devices more than the run has, and the last conjunct of `honest` is the result.

`SyncSession_proofs.tla`, for any finite set of records in every distribution, any cap on the pull loop, answers that
come late and any number of faults:

| Theorem | Says |
|---|---|
| `Invariance` | the inductive invariant `TypeOK /\ Meeting` holds always |
| `TypeCorrect` | `Spec => []TypeOK` |
| `NeverBothWait` | `Spec => []NoMutualWait` |
| `BothPullsComplete` | `Spec => []PullCompletes` |
| `GapsAreHealed` | `Spec => []GapHeals` |

*The argument.* `Meeting` says of each wait what is on the way to end it. HELLO comes first (`HelloComes`); who waits
for a batch has a request with the peer or a batch to come, in the channel or set aside (`PullAnswered`); of two devices
in their first wait, where requests are only set aside, the later one has just sent its request (`WaitsCross`). At the
barrier one has the other's acknowledgement (`AcksMeet`): who ignored an acknowledgement while it was still pulling has
sent its own afterwards, and who set one aside looks into the stash first. Every step is summarised by what it does to
these parts (`Effects`), and one lemma shows that the summary is enough; so each kind of step is
examined once.

`PullServed` is the second layer, proved on top of the first. Batches under way are held by their sender; requests ask
for all that is missing; before its HELLO nothing was asked of a device. Until its pull is over a device sends no
acknowledgement and its peer does not leave (`PeerStays`). Therefore the answer to the first request brings everything
that the peer could serve before the peer's acknowledgement, wherever the messages are between the stash and the channel
(`PullOf`, on the queue made of both), and a device that has ended in order has it, unless its loop reached the cap.

`GapsClose` is the third layer, on top of both. Before the first offer for a gap no device has offered anything and
nothing of an exchange is in any queue (`BeforeOffers`). Then an offer goes through stages, and `Healing` says that it is
in one of them: it is on its way to a peer that is still in its pull or at the barrier (`Asked`; the peer has not left,
by `PeerStays`); the peer's own offer answers it (`Countered`: the peer answers an offer for a gap even when it would win
the race, and can, since it has not offered yet); the device has accepted that one (`Accepted`); the snapshot is on its
way (`Served`, and covers the gap since what a device hears of is in its peer's clock, `HeardKnown`); the gap is closed
(`Healed`). In every stage but the last the one that waits has a message to read or a peer that is about to send it,
so a wait that runs out there sets `late`. `HealEffects` summarises every step for the part that does not take part.

`Device_proofs.tla`, about `Scheduler`, for any number of peers, every cap from 1 to 10, every debounce and backoff:

| Theorem | Says |
|---|---|
| `TypeCorrect` | `Spec => []TypeOK` |
| `LocksFollowSessions` | `Spec => []SessionsAreLocked` |
| `OnlyProvenEndpoints` | `Spec => EndpointsAreProven` |

*The argument.* A session in the engine talks to the peer that was dialled (`EngineIsExpected`), so that when it ends it
frees that peer's lock and records that peer's endpoint. The cap holds because a decision admits peers in their order
while fewer are in front of them than there are free slots: the last one admitted bounds the number of all
(`AdmittedFit`). *Assumptions*: the peers are `1 .. N`, the settings are in the ranges that `updateSettings` accepts.

`Device_proofs.tla`, about `CalendarApp` with `Calendar` and `Recurrence`, for any window, any finite set of events, any
rules, titles and files, any number of devices, records and crashes:

| Theorem | Says |
|---|---|
| `ExpansionIsTheRecurrenceSet` | for every rule that is not yearly and every day of its base, `Expand` is `RecurrenceSet` |
| `RowsReferToRows` | `AppSpec => []AppTypeOK` |
| `EveryRuleIsFollowed` | `AppSpec => []ExpansionFollowsTheRule` |
| `NothingOfThePastIsLost` | `AppSpec => []ThePastIsKept` |
| `ASecondImportIsQuiet` | `AppSpec => ReimportIsQuiet` |

*The argument.* Between the walk and the recurrence set stands one fact (`WalkIsFirst`): a walk emits the first
`count` of the days that it visits within the bound of the rule, all of them where there is no count. That it does is
induction over the days of the window, with the rule `Upwards` (below, under `Misbehavior`) about the recursive
function that `Walk` is; that it exists at all needs well-founded recursion (`WalkExists`). What is left is that each
branch visits the days that match, which is arithmetic of weeks and months (`DailyMatch`, `WeeklyMatch`,
`MonthlyMatch`). A yearly rule has run the monthly branch before its own, which emits nothing new (`YearsAddNothing`),
because twelve times the interval is a multiple of it.

`TerminateKeeps` is what the scopes of the dialog rest on: a rule, of any frequency, that is ended at one of its
occurrences draws those up to it and no others. The comment at `recurrence_edit.ts:133-136` wants an end never to extend
a series; only an UNTIL of eight digits is honoured there, not the instant that an import leaves behind, and by this
lemma that is harmless for what is drawn.

`AppInv` is the inductive invariant: tables, logs and the file at hand have their types (`DevicesFine`, `FileFine`), no
rule is without its event and no override without its rule (`Tied`), and `ThePastIsKept`. Each operation of `EventCore`
leaves a device fine wherever it is cut off and touches only the rows of its own event (`UpdateEventFine`,
`UpdateOccurrenceFine`, …); an import is a fold of them, so a second induction (`ImportAllFine`), over a finite set. A
record from another device keeps `Tied` only because the foreign keys refuse what would break it (`DeliverFine`).
`ThePastIsKept` is then about one step, the save that sets `kept` (`UserSavesFine`): no save but that of the whole series
touches the day of the base, none but the last touches the rule, and that one is `TerminateKeeps`.

`ReimportIsQuiet` relates two steps with others between them, so it needs a state that says what the first has left:
`Settled`. Every base of the file is removed here, or a single event that the file has as a series, or as the file says
it; every override with a base says what the file says, or its event has no rule. `Reimports`, that a device which has
imported the file and has not changed since is settled, is the second invariant (TLC checked it on the instance of
`calendar` first). An import that is not cut off settles (`ImportSettles`): the fold takes the VEVENTs in some order, each
touches only its own event or its own occurrence (`BasesAreTaken`, `OverridesAreTaken`), and none of them removes an event
or writes about one that is removed (`Calm`), so that the second import finds the same events removed as the first
(`RemovalsStayHere`), whatever the clocks of their records say. The hard case is an override whose base the first import
creates: it had no base, and now has one; but such a base has no rule, or the override would have counted. Records are
only ever appended and other devices' rows left alone (`Local`), so that nobody else's step unsettles a device
(`SettledStays`), and at a settled device every VEVENT is a step that does nothing (`SettledImport`).

The proof found that an earlier form of `ThePastIsKept`, about the expansion and not about what is drawn of it, is
false: an UNTIL of a file may lie before the day of the base, where the rule generates nothing and the base is drawn
alone; unchecking Repeat there puts the end on the base's own day, and the expansion gains it. Nothing the user sees
changes, and that is what the property says now. *Assumptions*: those of the constants in `Calendar` and `CalendarApp`:
the rules of the user and the days are of their types, files are finite and have each id once (`OneEach`: `parseIcs` and
`planImport` skip what comes after the first), "gone" is not a title, a day, a rule or a row.

`Network_proofs.tla`, about `Pairing`, for any set of devices and any number of offers and scans:

| Theorem | Says |
|---|---|
| `TypeCorrect` | `Spec => []TypeOK` |
| `TrustIsNeverTheDisplayersAlone` | `Spec => []OneSidedTrustIsTheScanners` |
| `SuccessIsMutual` | `Spec => []AcceptedIsMutual` |
| `NoListenerIsForgotten` | `Spec => []ListenersAreTracked` |

*The argument.* A connection carries at most one message in one direction, and perhaps the end behind it
(`WiresFine`): its sides take turns. What is on the wire is a promise about the tables: the scanner's payload is sent
when the scanner trusts, the confirmation when both do (`Earned`), and trust is never withdrawn, so that the promise
holds when it is read, whatever was cancelled meanwhile. A break, with or without a word, a hang-up and a restart only
take messages away (`CutShort`), which makes no promise. `OffersFine` keeps track of who owns an offer.

`Network_proofs.tla`, about `Channel`, for any number of messages (any of them above `MAX_FRAME`) and any
number of broken carriers:

| Theorem | Says |
|---|---|
| `ChannelTypeCorrect` | `ChannelSpec => []ChannelTypeOK` |
| `ConnectionIsTheLink` | `ChannelSpec => L!Spec`, the refinement `ImplementsLink`, step by step |

*The argument.* Between the two programs a message is in one of five places: taken by the reader, in its inbound queue,
parsed by its feed loop, on the wire, or waiting to be written. `OrderFine` counts through all of them: what is in each place are the
frames of the peer from the next number on, so that nothing is missing, doubled or swapped, whichever end of which
place moves (`Numbered`, `Carries`). `Complete` says that the last number counted is the last one written, and that a
FIN stands behind it, unless the peer threw something away (`cut`). Both hold only for an end that can still hear: one
whose handshake failed, that left or whose socket broke is `Deaf`, and `AliveFine` says that any other end closes
only after its peer, which left of its own accord. `OriginsFine` bounds everything on the way by what was sent, so that a delivery
has a `Send` before it; the kill frame makes an error only where the carrier broke (`SocketFine`). Each action then maps
to the step of `Link` of the same meaning or to a stutter: a feed that delivers to `Deliver`, the end of the stream to
`EndCleanly` (where `Complete` shows that everything was given) or to `EndInError`.

`Application_proofs.tla`, about `Desktop`, for any number of saves and syncs:

| Theorem | Says |
|---|---|
| `TypeCorrect` | `Spec => []TypeOK` |
| `ClosedMeansSaved` | `Spec => []ClosedWithItsReminder` |

*The argument.* A dialog believes an answer because of its number. So the invariant says what a number means while a
save waits for it (`MeansCreate`, `MeansRemind`): every line of that number that may still be read asks for this save,
and an outcome that is held for it was answered to such a line. A number is given once in the life of the shell
(`Numbered`), so that what comes late finds nobody.

`Application_proofs.tla`, about `Reminders`, for any set of timed events, any list of strategies, any period and any
number of settings, faults and restarts:

| Theorem | Says |
|---|---|
| `ReminderTypes` | `ReminderSpec => []ReminderTypeOK` |
| `Accounted` | the inductive invariant `ReminderInv` holds always |
| `ReminderIsShownOnce` | `ReminderSpec => []ShownOnce` |

*The argument.* `ShownOnce` is not inductive: a child that is still running shows the notification later, whatever the
engine thinks of it by then. `ReminderInv` keeps an account for each reminder (`Paid`): how often it was shown, plus
the children that may yet show it, is at most how often the engine was excused from knowing, plus one if it knows
(`Known`: delivered, or an answer is awaited) or needs to know no more (`Spent`: the event is over). The prune takes
keys from the first to the second, except those of events that still run: these are `Forgotten`, for good, and the
account leaves them out. A tick sends only what is not delivered, and only when no answer is
awaited; the valve and the end of the sidecar give up knowing and are excused in the same step. The sizes are those of
sets of children, so the lemmas about cardinalities carry the proof. *Assumptions*: the strategies are a finite list,
the bounds and `KeepFor` are natural numbers, every event has its entry in `Occurrences`.

`Trust_proofs.tla`, about `Revocation`, for any mesh of devices, any records and any number of broken sessions:

| Theorem | Says |
|---|---|
| `Invariance` | the inductive invariant `TypeOK /\ ClaimsHold /\ AckedIsHeld` holds always |
| `TypesHold` | `Spec => []TypeOK` |
| `AtLeastOnce` | `Spec => []AckedIsHeld` |

*The argument.* `AckedIsHeld` alone is not inductive: an acknowledgement is a message, and what it claims must be true
of its sender when it is taken in, however long it was under way and whatever broke. `ClaimsHold` says that of every
message in flight. Stores only grow (`AcceptGrows`), so a true claim stays true (`GrowthIsHarmless`).

`Trust_proofs.tla`, about `Misbehavior`, for any set of records, any window and any thresholds:

| Theorem | Says |
|---|---|
| `LadderTypes` | `LadderSpec => []LadderTypeOK` |
| `FloodBound` | `LadderSpec => []FloodIsBounded` |

*The argument.* With the types the property is inductive: an arrival that fills the window blocks in the same step, time
only takes away from the window (`OlderIsLess`), and what lifts a block empties it (`EmptyWindow`). What is hard is the
sum over the window, a recursive function: that there is such a function (`SumExists`), that its values are numbers
(`SumType`) and that the sum of an older window is no greater needs induction. The library's induction takes a
predicate as a parameter, which the provers cannot instantiate; `Upwards` is the same rule about a *set* of numbers, and
a set of the numbers up to which the claim holds can be written down wherever it is needed.

*Only model-checked*:

- liveness and everything under fairness (`EventuallyHeld`, `SessionEnds`, `FirstPeersAreServed`, `CeremoniesEnd`,
  `DroppedComesAgain`, `RevocationsSpread`, `NoReceiveIsStranded`, `EndIsHeard`, `SavesEnd`, `NoOrphan`, `DueIsShown`),
  which is out of the prover's reach.

## 6. Plan

Done: every part of section 1 has its module and its run, twelve of the modules have their proofs, and every safety property
of the runs is a theorem. What is left, most valuable first:

1. `FullState` with series, overrides and reminders in the snapshot, composed with `Calendar`: what the foreign keys
   refuse there.
2. Revocation with restarts, as soon as the code persists its stores.
3. The overrides' conflict entities (`overrides.<rid>.<field>`) in `Replication`.
4. Updates and deletions in `Desktop`, and more than one life of the application.

## 7. Not modelled

- Rendering, styles, settings, the lists and badges of `frontend/`; of the shell the tray, windows and file dialogs:
  they keep no state that another part relies on.
- Cryptography: keys, signatures and ciphertexts are abstract. Text, escaping, zones and all-day events of iCalendar;
  the wire format of mDNS.
- Of `persistence/schema.ts` the columns beyond what the properties tell apart, and of the migrations all but the one
  that derives the entity versions (they run in one transaction, and only that one changes state the model has). Calendars as containers of events.
- `src-tauri/resources/sidecar.mjs`: generated from the TypeScript sources.
- Within the modelled parts: undo of a resolution, the exchange of resolutions, and the closure of conflicts by
  tombstones (no caller outside the tests); the never-synced and capability triggers of a snapshot (the sidecar gives
  its engines neither peer id nor settings); the overlap search and `detectOrphans` of the recurrences (no caller
  outside the tests); the "missed" label of reminders; series, overrides and reminders inside a
  snapshot.
