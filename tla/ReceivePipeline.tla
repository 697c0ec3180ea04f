--------------------------- MODULE ReceivePipeline --------------------------
(***************************************************************************)
(* The receiving half of one Tide device: how change records of other      *)
(* devices pass from authenticated sessions through validation,            *)
(* quarantine, duplicate detection and reordering into the durable store.  *)
(*                                                                         *)
(* The durable state is the SQLite database, shared by every sync session  *)
(* of the process.  Each session builds its own engine (createSyncEngine), *)
(* which first re-validates the quarantine and then works from a private   *)
(* copy of the knowledge state: it requests what that copy lacks, while    *)
(* other sessions and the user's quarantine actions move the database on.  *)
(*                                                                         *)
(* Atomicity is the code's: JavaScript runs one handler at a time, the     *)
(* database changes by transactions, and the process may die between two   *)
(* transactions.  An action below is one transaction, or one synchronous   *)
(* handler; a handler of two transactions that depend on each other has a  *)
(* second action for the process dying between them.  A record that the    *)
(* intake gates drop (DC-16) is a record that does not arrive.             *)
(***************************************************************************)
EXTENDS KnowledgeState, FiniteSets

CONSTANTS
  Producers,     \* the other devices, whose records arrive here
  MaxSeq,        \* bound: records per producer
  Engines,       \* bound: the sync sessions that can be open at once
  NoEngine,      \* no engine is under construction
  Rejectable,    \* bound: sequence numbers whose record may fail validation
  SnapshotTops,  \* bound: the positions up to which a snapshot may reach
  RetentionCap,  \* QUARANTINE_RESOLVED_RETENTION_CAP
  MaxRestarts    \* bound: process restarts

ASSUME MaxSeqAssumption == MaxSeq \in Nat
ASSUME EngineAssumption == NoEngine \notin Engines
ASSUME SnapshotAssumption == SnapshotTops \subseteq 0 .. MaxSeq
ASSUME RestartAssumption == MaxRestarts \in Nat

Seqs == 1 .. MaxSeq

\* The life of a row of the quarantine table; the last three are resolved.
Resolved  == {"revalidated", "retried", "deleted"}
RowStates == {"absent", "active"} \cup Resolved

VARIABLES
  \* durable: the tables of the database
  applied,       \* applied_upto: the frontier, per producer
  pending,       \* pending_changes: buffered records, per producer
  skipped,       \* skipped_seqs: quarantined positions, per producer
  changes,       \* changes: the applied history, per producer
  rows,          \* quarantine: the state of each record's row
  clock,         \* device_clock: the highest number heard of, per producer
  rejected,      \* the records the installed validator refuses
  \* volatile: the sessions of the running process
  phase,         \* "closed", "building" or "open", per engine
  memApplied,    \* the engine's copy of applied, ...
  memPending,    \* ... of pending, ...
  memSkipped,    \* ... and of skipped
  building,      \* the engine under construction, or NoEngine
  todo,          \* the quarantine rows its revalidation has yet to visit
  restarts,      \* process restarts so far
  \* history
  quarantined,   \* every record that ever had a quarantine row
  covered        \* every record inside an applied snapshot

durable  == <<applied, pending, skipped, changes, rows, clock>>
memory   == <<memApplied, memPending, memSkipped>>
vars     == <<durable, rejected, phase, memory, building, todo, restarts,
              quarantined, covered>>

TypeOK ==
  /\ applied \in [Producers -> 0 .. MaxSeq]
  /\ pending \in [Producers -> SUBSET Seqs]
  /\ skipped \in [Producers -> SUBSET Seqs]
  /\ changes \in [Producers -> SUBSET Seqs]
  /\ rows \in [Producers -> [Seqs -> RowStates]]
  /\ clock \in [Producers -> 0 .. MaxSeq]
  /\ rejected \in [Producers -> SUBSET Seqs]
  /\ phase \in [Engines -> {"closed", "building", "open"}]
  /\ memApplied \in [Engines -> [Producers -> 0 .. MaxSeq]]
  /\ memPending \in [Engines -> [Producers -> SUBSET Seqs]]
  /\ memSkipped \in [Engines -> [Producers -> SUBSET Seqs]]
  /\ building \in Engines \cup {NoEngine}
  /\ todo \subseteq Producers \X Seqs
  /\ restarts \in 0 .. MaxRestarts
  /\ quarantined \in [Producers -> SUBSET Seqs]
  /\ covered \in [Producers -> SUBSET Seqs]

Nothing == [p \in Producers |-> {}]
Nowhere == [p \in Producers |-> 0]

Init ==
  /\ applied = Nowhere
  /\ pending = Nothing
  /\ skipped = Nothing
  /\ changes = Nothing
  /\ rows = [p \in Producers |-> [s \in Seqs |-> "absent"]]
  /\ clock = Nowhere
  /\ rejected \in [Producers -> SUBSET (Rejectable \cap Seqs)]
  /\ phase = [e \in Engines |-> "closed"]
  /\ memApplied = [e \in Engines |-> Nowhere]
  /\ memPending = [e \in Engines |-> Nothing]
  /\ memSkipped = [e \in Engines |-> Nothing]
  /\ building = NoEngine
  /\ todo = {}
  /\ restarts = 0
  /\ quarantined = Nothing
  /\ covered = Nothing

-----------------------------------------------------------------------------
(* Helpers.                                                                *)

Larger(a, b) == IF a > b THEN a ELSE b

\* The verdict of the installed validateChangeRecord on record s of p. It looks
\* at the record alone, and so is the same at every arrival.
Valid(p, s) == s \notin rejected[p]

\* quarantineRecord: one row for a record, ever.
WithRow(p, s) == [rows EXCEPT ![p][s] = IF @ = "absent" THEN "active" ELSE @]

\* markSeqSkipped.
WithSkip(p, s) == [skipped EXCEPT ![p] = @ \cup {s}]

\* reconcileQuarantineResolutions: a row whose record is in the history.
Reconciled ==
  [p \in Producers |-> [s \in Seqs |->
     IF rows[p][s] = "active" /\ s \in changes[p]
       THEN "revalidated" ELSE rows[p][s]]]

\* gcZombiePending: no drain comes to a buffered record below the frontier.
WithoutZombies == [p \in Producers |-> {s \in pending[p] : s > applied[p]}]

\* Copies the tables, as they are after the step, into engine e's memory.
CopyToMemory(e) ==
  /\ memApplied' = [memApplied EXCEPT ![e] = applied']
  /\ memPending' = [memPending EXCEPT ![e] = pending']
  /\ memSkipped' = [memSkipped EXCEPT ![e] = skipped']

\* After T2 the copy is what T2 read, with the frontier and the drain carried
\* out on it; the record's own place in the buffer is left as it was found.
CopyAfterApply(e, p, s) ==
  /\ memApplied' = [memApplied EXCEPT ![e] = applied']
  /\ memPending' = [memPending EXCEPT ![e] =
       [pending' EXCEPT ![p] = (@ \ {s}) \cup (pending[p] \cap {s})]]
  /\ memSkipped' = [memSkipped EXCEPT ![e] = skipped']

ResolvedRows(r) == {ps \in Producers \X Seqs : r[ps[1]][ps[2]] \in Resolved}

\* The table after the retention pass: rows r without the resolved rows
\* beyond the cap. Which of them are the oldest is left open.
PruneResolved(r) ==
  \E keep \in SUBSET ResolvedRows(r) :
    /\ \/ keep = ResolvedRows(r) /\ Cardinality(keep) <= RetentionCap
       \/ Cardinality(keep) = RetentionCap
    /\ rows' = [p \in Producers |-> [s \in Seqs |->
                  IF r[p][s] \in Resolved /\ <<p, s>> \notin keep
                    THEN "absent" ELSE r[p][s]]]

\* Merging the causality clock of record s of p into device_clock. What it
\* shows of other producers is left open.
MergeClock(p, s) ==
  \E c \in {c \in [Producers -> 0 .. MaxSeq] : c[p] = s} :
    clock' = [q \in Producers |-> Larger(clock[q], c[q])]

-----------------------------------------------------------------------------
(* T2 (applyRemoteChange): one record against the tables, in one           *)
(* transaction. `skips` is the producer's skip set as the transaction      *)
(* finds it.                                                               *)

DropDuplicate(p, s, skips) ==
  /\ IsDuplicateArrival(applied[p], pending[p], skips, s)
  /\ skipped' = [skipped EXCEPT ![p] = skips]
  /\ UNCHANGED <<applied, pending, changes>>

BufferEarly(p, s, skips) ==
  /\ IsBufferedArrival(applied[p], pending[p], skips, s)
  /\ pending' = [pending EXCEPT ![p] = @ \cup {s}]
  /\ skipped' = [skipped EXCEPT ![p] = skips]
  /\ UNCHANGED <<applied, changes>>

\* Seeded fault: any record above the frontier is applied at once.
ApplyAnyNewer(p, s, skips) ==
  /\ s > applied[p] /\ s \notin skips
  /\ \E top \in Seqs :
       /\ DrainsTo(pending[p], skips, s, top)
       /\ applied' = [applied EXCEPT ![p] = top]
       /\ changes' = [changes EXCEPT ![p] = @ \cup (s .. top)]
       /\ pending' = [pending EXCEPT ![p] = @ \ (s .. top)]
       /\ skipped' = [skipped EXCEPT ![p] = {t \in skips : t > top}]

\* Seeded fault: the drained records are applied, the frontier stays behind.
ApplyStayingBehind(p, s, skips) ==
  /\ IsNextExpected(applied[p], skips, s)
  /\ \E top \in Seqs :
       /\ DrainsTo(pending[p], skips, s, top)
       /\ applied' = [applied EXCEPT ![p] = s]
       /\ changes' = [changes EXCEPT ![p] = @ \cup (s .. top)]
       /\ pending' = [pending EXCEPT ![p] = @ \ (s .. top)]
       /\ skipped' = [skipped EXCEPT ![p] = {t \in skips : t > top}]

\* Apply and drain; skip rows at or below the new frontier are collected.
ApplyInOrder(p, s, skips) ==
  /\ IsNextExpected(applied[p], skips, s)
  /\ \E top \in Seqs :
       /\ DrainsTo(pending[p], skips, s, top)
       /\ applied' = [applied EXCEPT ![p] = top]
       /\ changes' = [changes EXCEPT ![p] = @ \cup (s .. top)]
       /\ pending' = [pending EXCEPT ![p] = @ \ (s .. top)]
       /\ skipped' = [skipped EXCEPT ![p] = {t \in skips : t > top}]

\* Seeded fault: the clock is merged only when the record is applied.
ApplyMergingLate(p, s, skips) ==
  \/ DropDuplicate(p, s, skips) /\ UNCHANGED clock
  \/ BufferEarly(p, s, skips) /\ UNCHANGED clock
  \/ ApplyInOrder(p, s, skips) /\ MergeClock(p, s)

ApplyRemoteChange(p, s, skips) ==
  /\ \/ DropDuplicate(p, s, skips)
     \/ BufferEarly(p, s, skips)
     \/ ApplyInOrder(p, s, skips)
  /\ MergeClock(p, s)

-----------------------------------------------------------------------------
(* The construction of an engine (createSyncEngine).                       *)

Idle == building = NoEngine   \* no constructor occupies the thread

BeginSession(e) ==
  /\ Idle
  /\ phase[e] = "closed"
  /\ phase' = [phase EXCEPT ![e] = "building"]
  /\ building' = e
  /\ todo' = {ps \in Producers \X Seqs : rows[ps[1]][ps[2]] # "absent"}
  /\ UNCHANGED durable
  /\ CopyToMemory(e)
  /\ UNCHANGED <<rejected, restarts, quarantined, covered>>

\* A row that the validator still refuses stays as it is.
RevalidateStillInvalid(p, s) ==
  /\ <<p, s>> \in todo
  /\ ~ Valid(p, s)
  /\ todo' = todo \ {<<p, s>>}
  /\ UNCHANGED <<durable, rejected, phase, memory, building, restarts,
                 quarantined, covered>>

\* Otherwise one transaction takes the skip row away and runs the record
\* through T2.
RevalidateAccepted(p, s) ==
  /\ <<p, s>> \in todo
  /\ Valid(p, s)
  /\ todo' = todo \ {<<p, s>>}
  /\ ApplyRemoteChange(p, s, skipped[p] \ {s})
  /\ CopyAfterApply(building, p, s)
  /\ UNCHANGED <<rows, rejected, phase, building, restarts, quarantined,
                 covered>>

\* When the calendar mutation throws, the transaction rolls back and the
\* skip row is written again, whether or not it was there before.
RevalidateFails(p, s) ==
  /\ <<p, s>> \in todo
  /\ Valid(p, s)
  /\ IsNextExpected(applied[p], skipped[p] \ {s}, s)
  /\ todo' = todo \ {<<p, s>>}
  /\ skipped' = WithSkip(p, s)
  /\ UNCHANGED <<applied, pending, changes, rows, clock, rejected, phase,
                 memory, building, restarts, quarantined, covered>>

\* The rest of the constructor and the preamble of runSession: reconcile the
\* quarantine, prune it, collect pending rows below the frontier.
FinishConstruction ==
  /\ building # NoEngine
  /\ todo = {}
  /\ PruneResolved(Reconciled)
  /\ pending' = WithoutZombies
  /\ memPending' = IF pending' = pending THEN memPending
                   ELSE [memPending EXCEPT ![building] = pending']
  /\ phase' = [phase EXCEPT ![building] = "open"]
  /\ building' = NoEngine
  /\ UNCHANGED <<applied, skipped, changes, clock, rejected, memApplied,
                 memSkipped, todo, restarts, quarantined, covered>>

-----------------------------------------------------------------------------
(* Records arriving on an open session (applyBatch, one record).           *)

\* A position with a skip row: only the clock is merged, if it is well formed.
ReceiveSkipped(e, p, s) ==
  /\ Idle
  /\ phase[e] = "open"
  /\ s \in skipped[p]
  /\ MergeClock(p, s) \/ UNCHANGED clock
  /\ UNCHANGED <<applied, pending, skipped, changes, rows, rejected, phase,
                 memory, building, todo, restarts, quarantined, covered>>

\* Seeded fault: the skip row is written to the copy only.
QuarantineInMemoryOnly(e, p, s) ==
  /\ Idle
  /\ phase[e] = "open"
  /\ s \notin skipped[p]
  /\ ~ Valid(p, s)
  /\ rows' = WithRow(p, s)
  /\ memSkipped' = [memSkipped EXCEPT ![e][p] = @ \cup {s}]
  /\ quarantined' = [quarantined EXCEPT ![p] = @ \cup {s}]
  /\ UNCHANGED <<applied, pending, skipped, changes, clock, rejected, phase,
                 memApplied, memPending, building, todo, restarts, covered>>

\* A record that fails validation gets one quarantine row, ever, and a skip
\* row; the copy in memory learns of the skip row as well.
ReceiveInvalid(e, p, s) ==
  /\ Idle
  /\ phase[e] = "open"
  /\ s \notin skipped[p]
  /\ ~ Valid(p, s)
  /\ rows' = WithRow(p, s)
  /\ skipped' = WithSkip(p, s)
  /\ memSkipped' = [memSkipped EXCEPT ![e][p] = @ \cup {s}]
  /\ quarantined' = [quarantined EXCEPT ![p] = @ \cup {s}]
  /\ UNCHANGED <<applied, pending, changes, clock, rejected, phase,
                 memApplied, memPending, building, todo, restarts, covered>>

ReceiveValid(e, p, s) ==
  /\ Idle
  /\ phase[e] = "open"
  /\ s \notin skipped[p]
  /\ Valid(p, s)
  /\ ApplyRemoteChange(p, s, skipped[p])
  /\ CopyAfterApply(e, p, s)
  /\ UNCHANGED <<rows, rejected, phase, building, todo, restarts,
                 quarantined, covered>>

\* The peer sends a record: the answer to a request, or a repetition.
Receive(e, p, s) ==
  \/ ReceiveSkipped(e, p, s)
  \/ ReceiveInvalid(e, p, s)
  \/ ReceiveValid(e, p, s)

\* The session asks for what its copy lacks and the peer, which has it, answers.
Pull(e, p, s) ==
  /\ s \in NeededSeqs(memApplied[e][p], memPending[e][p], memSkipped[e][p],
                      MaxSeq)
  /\ Receive(e, p, s)

\* Seeded fault: the snapshot's clock replaces the frontier.
ReplacedFrontier(upto) == upto

\* A snapshot's clock is merged into the frontier.
MergedFrontier(upto) == [p \in Producers |-> Larger(applied[p], upto[p])]

\* One chunk of a full-state snapshot whose clock is upto (applySnapshot); a
\* producer at 0 is one that the clock does not list.
ReceiveSnapshot(e, upto) ==
  /\ Idle
  /\ phase[e] = "open"
  /\ applied' = MergedFrontier(upto)
  /\ pending' = [p \in Producers |->
                   {s \in pending[p] : upto[p] = 0 \/ s > applied'[p]}]
  /\ skipped' = [p \in Producers |->
                   {s \in skipped[p] : upto[p] = 0 \/ s > applied'[p]}]
  /\ clock' = [p \in Producers |-> Larger(clock[p], upto[p])]
  /\ memApplied' = [memApplied EXCEPT ![e] =
       [p \in Producers |-> Larger(memApplied[e][p], upto[p])]]
  /\ memPending' = [memPending EXCEPT ![e] =
       [p \in Producers |-> IF upto[p] > memApplied[e][p]
          THEN {s \in memPending[e][p] : s > upto[p]} ELSE memPending[e][p]]]
  /\ memSkipped' = [memSkipped EXCEPT ![e] =
       [p \in Producers |-> IF upto[p] > memApplied[e][p]
          THEN {s \in memSkipped[e][p] : s > upto[p]} ELSE memSkipped[e][p]]]
  /\ covered' = [p \in Producers |-> covered[p] \cup (1 .. upto[p])]
  /\ UNCHANGED <<changes, rows, rejected, phase, building, todo, restarts,
                 quarantined>>

\* The session ends: close, timeout, protocol error, or a mutation that throws.
EndSession(e) ==
  /\ Idle
  /\ phase[e] = "open"
  /\ phase' = [phase EXCEPT ![e] = "closed"]
  /\ memApplied' = [memApplied EXCEPT ![e] = Nowhere]
  /\ memPending' = [memPending EXCEPT ![e] = Nothing]
  /\ memSkipped' = [memSkipped EXCEPT ![e] = Nothing]
  /\ UNCHANGED <<durable, rejected, building, todo, restarts, quarantined,
                 covered>>

-----------------------------------------------------------------------------
(* The user's actions on the quarantine list (sidecar ops).                *)

\* Retry on a row whose record is now accepted; no engine's copy is told.
Retry(p, s) ==
  /\ Idle
  /\ rows[p][s] = "active"
  /\ Valid(p, s)
  /\ ApplyRemoteChange(p, s, skipped[p] \ {s})
  /\ PruneResolved([rows EXCEPT ![p][s] = "retried"])
  /\ UNCHANGED <<rejected, phase, memory, building, todo, restarts,
                 quarantined, covered>>

RetryFails(p, s) ==
  /\ Idle
  /\ rows[p][s] = "active"
  /\ Valid(p, s)
  /\ IsNextExpected(applied[p], skipped[p] \ {s}, s)
  /\ skipped' = WithSkip(p, s)
  /\ UNCHANGED <<applied, pending, changes, rows, clock, rejected, phase,
                 memory, building, todo, restarts, quarantined, covered>>

\* Delete keeps the row, and makes sure of the skip row unless the record
\* was applied.
UserDelete(p, s) ==
  /\ Idle
  /\ rows[p][s] # "absent"
  /\ PruneResolved([rows EXCEPT ![p][s] = IF @ = "active" THEN "deleted" ELSE @])
  /\ skipped' = IF s \in changes[p] THEN skipped ELSE WithSkip(p, s)
  /\ UNCHANGED <<applied, pending, changes, clock, rejected, phase, memory,
                 building, todo, restarts, quarantined, covered>>

-----------------------------------------------------------------------------
(* The process dies, at any point between two transactions, and comes back *)
(* with the same validator or with one that accepts more.                  *)

ComeBack ==
  /\ restarts < MaxRestarts
  /\ restarts' = restarts + 1
  /\ rejected' \in {r \in [Producers -> SUBSET Seqs] :
                      \A p \in Producers : r[p] \subseteq rejected[p]}
  /\ phase' = [e \in Engines |-> "closed"]
  /\ memApplied' = [e \in Engines |-> Nowhere]
  /\ memPending' = [e \in Engines |-> Nothing]
  /\ memSkipped' = [e \in Engines |-> Nothing]
  /\ building' = NoEngine
  /\ todo' = {}
  /\ UNCHANGED covered

Restart == ComeBack /\ UNCHANGED <<durable, quarantined>>

\* The quarantine row is committed, the skip row is not.
DieQuarantining(e, p, s) ==
  /\ Idle
  /\ phase[e] = "open"
  /\ s \notin skipped[p]
  /\ ~ Valid(p, s)
  /\ rows' = WithRow(p, s)
  /\ quarantined' = [quarantined EXCEPT ![p] = @ \cup {s}]
  /\ UNCHANGED <<applied, pending, skipped, changes, clock>>
  /\ ComeBack

\* The retried record is committed, the resolution of its row is not.
DieRetrying(p, s) ==
  /\ Idle
  /\ rows[p][s] = "active"
  /\ Valid(p, s)
  /\ ApplyRemoteChange(p, s, skipped[p] \ {s})
  /\ UNCHANGED <<rows, quarantined>>
  /\ ComeBack

Next ==
  \/ \E e \in Engines : BeginSession(e) \/ EndSession(e)
  \/ FinishConstruction
  \/ \E p \in Producers, s \in Seqs :
       \/ RevalidateStillInvalid(p, s)
       \/ RevalidateAccepted(p, s)
       \/ RevalidateFails(p, s)
       \/ Retry(p, s)
       \/ RetryFails(p, s)
       \/ UserDelete(p, s)
       \/ DieRetrying(p, s)
  \/ \E e \in Engines, p \in Producers, s \in Seqs :
       \/ ReceiveSkipped(e, p, s)
       \/ ReceiveInvalid(e, p, s)
       \/ ReceiveValid(e, p, s)
       \/ DieQuarantining(e, p, s)
  \/ \E e \in Engines, upto \in [Producers -> SnapshotTops] :
       ReceiveSnapshot(e, upto)
  \/ Restart

Spec == Init /\ [][Next]_vars

\* The scheduler keeps opening sessions, constructors run to their end and
\* every session ends (its receives time out); a session may end early, but
\* not each time before the record it asks for has come, hence the strong
\* fairness of the pulls.
Fairness ==
  /\ WF_vars(\E e \in Engines : BeginSession(e))
  /\ \A e \in Engines : WF_vars(EndSession(e))
  /\ WF_vars(FinishConstruction)
  /\ WF_vars(\E p \in Producers, s \in Seqs :
               RevalidateStillInvalid(p, s) \/ RevalidateAccepted(p, s))
  /\ \A p \in Producers, s \in Seqs :
       SF_vars(\E e \in Engines : Pull(e, p, s))

FairSpec == Spec /\ Fairness

-----------------------------------------------------------------------------
(* Properties.                                                             *)

\* No record is lost in silence: whatever lies at or below the frontier was
\* applied, was put in quarantine at some time, or came in a snapshot
\* (classifyArrival and advanceApplied under every interleaving of sessions,
\* revalidation, user actions and restarts).
FrontierAccounted ==
  \A p \in Producers :
    1 .. applied[p] \subseteq changes[p] \cup quarantined[p] \cup covered[p]

\* The applied history stays below the frontier, so that T2 never inserts a
\* record twice: the UNIQUE(device_id, local_seq) handler of
\* applyRemoteChange is a safety net that nothing here falls into.
HistoryBelowFrontier ==
  \A p \in Producers : changes[p] \subseteq 1 .. applied[p]

\* HELLO advertises device_clock: a peer is told of every record that this
\* device has applied or buffered, and of every snapshot it took over.
AdvertisesAllItHolds ==
  \A p \in Producers :
    /\ changes[p] \cup pending[p] \subseteq 1 .. clock[p]
    /\ applied[p] <= clock[p]

Held(p) == (1 .. applied[p]) \cup pending[p] \cup skipped[p]

\* A session's copy of the knowledge state may be behind the database, but it
\* never counts as held what the database does not hold: no stale session
\* fails to request a record that the device lacks.
MirrorNeverHides ==
  \A e \in Engines, p \in Producers :
    (1 .. memApplied[e][p]) \cup memPending[e][p] \cup memSkipped[e][p]
      \subseteq Held(p)

\* The pipeline implements ordered, exactly-once, accounted-for delivery.
Delivery == INSTANCE OrderedDelivery
              WITH frontier <- applied, delivered <- changes,
                   excused <- quarantined, covered <- covered
ImplementsOrderedDelivery == Delivery!Spec

\* Anti-entropy reaches every record: what the peers offer is at some time
\* held for good, as history, as buffered record or as skip row.
EventuallyHeld ==
  \A p \in Producers, s \in Seqs : <>[](s \in Held(p))

\* docs/technical-debt.md, TD-001, asks of quarantine-and-skip: "verify the
\* producer stream cannot become permanently stuck".
StreamNeverStuck ==
  \A p \in Producers, s \in Seqs :
    s \in pending[p] ~> s \notin pending[p]

\* sync_engine.ts, retryQuarantineRecord: after a successful retry "the record
\* is now durably present (changes row exists, or it is buffered ...)".
RetriedIsDurable ==
  \A p \in Producers, s \in Seqs :
    rows[p][s] = "retried" => s \in changes[p] \cup pending[p] \cup covered[p]
=============================================================================
