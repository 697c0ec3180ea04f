----------------------- MODULE ReceivePipeline_proofs -----------------------
(***************************************************************************)
(* Proofs about the receive pipeline, for every set of producers and of    *)
(* sessions, every number of records and every quarantine retention cap.   *)
(***************************************************************************)
EXTENDS ReceivePipeline, TLAPS

\* A quarantine row or a skip row is only ever made for a record that was
\* quarantined; the revalidation visits such rows only.
QuarantineGrounded ==
  /\ \A p \in Producers : skipped[p] \subseteq quarantined[p]
  /\ \A p \in Producers, s \in Seqs :
       rows[p][s] # "absent" => s \in quarantined[p]
  /\ \A p \in Producers, s \in Seqs :
       <<p, s>> \in todo => s \in quarantined[p]

\* The inductive invariant.
IInv ==
  /\ TypeOK
  /\ HistoryBelowFrontier
  /\ FrontierAccounted
  /\ QuarantineGrounded
  /\ AdvertisesAllItHolds
  /\ MirrorNeverHides

-----------------------------------------------------------------------------
(* Lemmas about the helpers.                                               *)

\* The retention pass keeps the shape of the table and creates no row.
LEMMA PruneCreatesNothing ==
  ASSUME NEW r \in [Producers -> [Seqs -> RowStates]], PruneResolved(r)
  PROVE  /\ rows' \in [Producers -> [Seqs -> RowStates]]
         /\ \A p \in Producers, s \in Seqs :
              rows'[p][s] # "absent" => r[p][s] # "absent"
BY DEF PruneResolved, RowStates

\* Merging a clock keeps its type, lowers no component and reaches the
\* record's own number.
LEMMA MergeGrows ==
  ASSUME clock \in [Producers -> 0 .. MaxSeq],
         NEW p \in Producers, NEW s \in Seqs, MergeClock(p, s)
  PROVE  /\ clock' \in [Producers -> 0 .. MaxSeq]
         /\ \A q \in Producers : clock[q] <= clock'[q]
         /\ s <= clock'[p]
<1>1. PICK c \in [Producers -> 0 .. MaxSeq] :
        /\ c[p] = s
        /\ clock' = [q \in Producers |-> Larger(clock[q], c[q])]
  BY DEF MergeClock
<1>2. \A q \in Producers :
        /\ Larger(clock[q], c[q]) \in 0 .. MaxSeq
        /\ clock[q] <= Larger(clock[q], c[q])
        /\ c[q] <= Larger(clock[q], c[q])
  <2> SUFFICES ASSUME NEW q \in Producers
               PROVE  /\ Larger(clock[q], c[q]) \in 0 .. MaxSeq
                      /\ clock[q] <= Larger(clock[q], c[q])
                      /\ c[q] <= Larger(clock[q], c[q])
    OBVIOUS
  <2>1. clock[q] \in 0 .. MaxSeq /\ c[q] \in 0 .. MaxSeq
    OBVIOUS
  <2> QED  BY <2>1, MaxSeqAssumption DEF Larger
<1> QED  BY <1>1, <1>2

\* T2 keeps the shape of the tables it writes.
LEMMA ApplyType ==
  ASSUME TypeOK, NEW p \in Producers, NEW s \in Seqs,
         NEW skips \in SUBSET Seqs, ApplyRemoteChange(p, s, skips)
  PROVE  /\ applied' \in [Producers -> 0 .. MaxSeq]
         /\ pending' \in [Producers -> SUBSET Seqs]
         /\ skipped' \in [Producers -> SUBSET Seqs]
         /\ changes' \in [Producers -> SUBSET Seqs]
         /\ clock' \in [Producers -> 0 .. MaxSeq]
<1>1. clock' \in [Producers -> 0 .. MaxSeq]
  BY MergeGrows DEF ApplyRemoteChange, TypeOK
<1>2. CASE DropDuplicate(p, s, skips)
  BY <1>1, <1>2 DEF DropDuplicate, TypeOK
<1>3. CASE BufferEarly(p, s, skips)
  BY <1>1, <1>3 DEF BufferEarly, TypeOK
<1>4. CASE ApplyInOrder(p, s, skips)
  <2>1. PICK top \in Seqs :
          /\ applied' = [applied EXCEPT ![p] = top]
          /\ changes' = [changes EXCEPT ![p] = @ \cup (s .. top)]
          /\ pending' = [pending EXCEPT ![p] = @ \ (s .. top)]
          /\ skipped' = [skipped EXCEPT ![p] = {t \in skips : t > top}]
    BY <1>4 DEF ApplyInOrder
  <2>2. s .. top \subseteq Seqs /\ top \in 0 .. MaxSeq
    BY MaxSeqAssumption DEF Seqs
  <2>3. {t \in skips : t > top} \subseteq Seqs
    OBVIOUS
  <2> QED  BY <1>1, <2>1, <2>2, <2>3 DEF TypeOK
<1> QED  BY <1>2, <1>3, <1>4 DEF ApplyRemoteChange

\* T2 moves the frontier over records that it applies or that are skipped,
\* and writes no skip row.
LEMMA ApplyAccounts ==
  ASSUME TypeOK, HistoryBelowFrontier, FrontierAccounted, QuarantineGrounded,
         NEW p \in Producers, NEW s \in Seqs,
         NEW skips \in SUBSET skipped[p], ApplyRemoteChange(p, s, skips),
         UNCHANGED <<quarantined, covered>>
  PROVE  /\ HistoryBelowFrontier'
         /\ FrontierAccounted'
         /\ \A q \in Producers : skipped'[q] \subseteq quarantined'[q]
<1>1. CASE DropDuplicate(p, s, skips)
  BY <1>1 DEF DropDuplicate, TypeOK, HistoryBelowFrontier, FrontierAccounted,
              QuarantineGrounded
<1>2. CASE BufferEarly(p, s, skips)
  BY <1>2 DEF BufferEarly, TypeOK, HistoryBelowFrontier, FrontierAccounted,
              QuarantineGrounded
<1>3. CASE ApplyInOrder(p, s, skips)
  <2>1. PICK top \in Seqs :
          /\ DrainsTo(pending[p], skips, s, top)
          /\ applied' = [applied EXCEPT ![p] = top]
          /\ changes' = [changes EXCEPT ![p] = @ \cup (s .. top)]
          /\ skipped' = [skipped EXCEPT ![p] = {t \in skips : t > top}]
    BY <1>3 DEF ApplyInOrder
  <2>2. /\ s > applied[p] /\ top >= s
        /\ (applied[p] + 1) .. (s - 1) \subseteq quarantined[p]
    BY <1>3, <2>1 DEF ApplyInOrder, IsNextExpected, DrainsTo, QuarantineGrounded
  <2>3. applied[p] \in Int /\ s \in Int /\ top \in Int
    BY MaxSeqAssumption DEF TypeOK, Seqs
  <2>4. 1 .. top \subseteq
          (1 .. applied[p]) \cup ((applied[p] + 1) .. (s - 1)) \cup (s .. top)
    BY <2>2, <2>3
  <2>5. HistoryBelowFrontier'
    <3>1. changes[p] \cup (s .. top) \subseteq 1 .. top
      BY <2>2, <2>3 DEF HistoryBelowFrontier, Seqs
    <3> QED  BY <2>1, <3>1 DEF HistoryBelowFrontier, TypeOK
  <2>6. FrontierAccounted'
    <3>1. 1 .. top \subseteq
            (changes[p] \cup (s .. top)) \cup quarantined[p] \cup covered[p]
      BY <2>2, <2>4 DEF FrontierAccounted
    <3> QED  BY <2>1, <3>1 DEF FrontierAccounted, TypeOK
  <2>7. \A q \in Producers : skipped'[q] \subseteq quarantined'[q]
    BY <2>1 DEF TypeOK, QuarantineGrounded
  <2> QED  BY <2>5, <2>6, <2>7
<1> QED  BY <1>1, <1>2, <1>3 DEF ApplyRemoteChange

\* T2 merges into the clock whatever it applies or buffers.
LEMMA ApplyAdvertises ==
  ASSUME TypeOK, AdvertisesAllItHolds, NEW p \in Producers, NEW s \in Seqs,
         NEW skips \in SUBSET Seqs, ApplyRemoteChange(p, s, skips)
  PROVE  AdvertisesAllItHolds'
<1>1. \A q \in Producers : /\ clock'[q] \in Int /\ clock[q] \in Int
                           /\ applied[q] \in Int /\ clock[q] <= clock'[q]
  BY MergeGrows, MaxSeqAssumption DEF ApplyRemoteChange, TypeOK
<1>2. s \in 1 .. clock'[p]
  BY <1>1, MergeGrows, MaxSeqAssumption DEF ApplyRemoteChange, TypeOK, Seqs
<1>3. \A q \in Producers : /\ changes[q] \cup pending[q] \subseteq 1 .. clock'[q]
                           /\ applied[q] <= clock'[q]
  BY <1>1 DEF AdvertisesAllItHolds
<1>4. SUFFICES /\ changes'[p] \cup pending'[p] \subseteq 1 .. clock'[p]
               /\ applied'[p] <= clock'[p]
               /\ \A q \in Producers \ {p} :
                    /\ changes'[q] = changes[q] /\ pending'[q] = pending[q]
                    /\ applied'[q] = applied[q]
  BY <1>3 DEF AdvertisesAllItHolds
<1>5. CASE DropDuplicate(p, s, skips)
  BY <1>3, <1>5 DEF DropDuplicate
<1>6. CASE BufferEarly(p, s, skips)
  BY <1>2, <1>3, <1>6 DEF BufferEarly, TypeOK
<1>7. CASE ApplyInOrder(p, s, skips)
  <2>1. PICK top \in Seqs :
          /\ DrainsTo(pending[p], skips, s, top)
          /\ applied' = [applied EXCEPT ![p] = top]
          /\ changes' = [changes EXCEPT ![p] = @ \cup (s .. top)]
          /\ pending' = [pending EXCEPT ![p] = @ \ (s .. top)]
    BY <1>7 DEF ApplyInOrder
  <2>2. s .. top \subseteq {s} \cup ((s + 1) .. top) /\ top \in s .. top
    BY <2>1, MaxSeqAssumption DEF DrainsTo, Seqs
  <2>3. s .. top \subseteq 1 .. clock'[p]
    BY <1>2, <1>3, <2>1, <2>2 DEF DrainsTo
  <2>4. top <= clock'[p]
    BY <1>1, <2>2, <2>3 DEF Seqs
  <2> QED  BY <1>3, <2>1, <2>3, <2>4 DEF TypeOK
<1> QED  BY <1>5, <1>6, <1>7 DEF ApplyRemoteChange

\* T2 gives nothing up: a record that the tables held, they still hold. In a
\* retry or a revalidation this includes the record whose skip row was taken.
LEMMA ApplyHolds ==
  ASSUME TypeOK, NEW p \in Producers, NEW s \in Seqs,
         NEW skips, skips = skipped[p] \/ skips = skipped[p] \ {s},
         ApplyRemoteChange(p, s, skips)
  PROVE  \A q \in Producers : Held(q) \subseteq Held(q)'
<1>1. applied[p] \in Int /\ s \in Int /\ s >= 1
  BY MaxSeqAssumption DEF TypeOK, Seqs
<1>2. CASE DropDuplicate(p, s, skips)
  BY <1>1, <1>2 DEF DropDuplicate, IsDuplicateArrival, Held, TypeOK
<1>3. CASE BufferEarly(p, s, skips)
  BY <1>1, <1>3 DEF BufferEarly, Held, TypeOK
<1>4. CASE ApplyInOrder(p, s, skips)
  <2>1. PICK top \in Seqs :
          /\ DrainsTo(pending[p], skips, s, top)
          /\ applied' = [applied EXCEPT ![p] = top]
          /\ pending' = [pending EXCEPT ![p] = @ \ (s .. top)]
          /\ skipped' = [skipped EXCEPT ![p] = {t \in skips : t > top}]
    BY <1>4 DEF ApplyInOrder
  <2>2. /\ top \in Int /\ applied[p] < s /\ s <= top
        /\ skipped[p] \subseteq Seqs
    BY <1>1, <1>4, <2>1
       DEF ApplyInOrder, IsNextExpected, DrainsTo, TypeOK, Seqs
  <2>3. (1 .. applied[p]) \cup (s .. top) \cup {s} \subseteq 1 .. top
    BY <1>1, <2>2
  <2>4. \A t \in skipped[p] : t \in 1 .. top \/ (t > top /\ t # s)
    BY <2>2 DEF Seqs
  <2>5. \A t \in Held(p) :
          t \in (1 .. top) \cup (pending[p] \ (s .. top))
                           \cup {u \in skips : u > top}
    BY <2>3, <2>4 DEF Held
  <2>6. Held(p) \subseteq Held(p)'
    BY <2>1, <2>5 DEF Held, TypeOK
  <2>7. \A q \in Producers \ {p} : Held(q)' = Held(q)
    BY <2>1 DEF Held, TypeOK
  <2> QED  BY <2>6, <2>7
<1> QED  BY <1>2, <1>3, <1>4 DEF ApplyRemoteChange

-----------------------------------------------------------------------------
(* The inductive invariant.                                                *)

\* The empty database satisfies the invariant.
LEMMA InitIInv == Init => IInv
<1> SUFFICES ASSUME Init PROVE IInv
  OBVIOUS
<1>1. TypeOK
  BY MaxSeqAssumption, RestartAssumption
     DEF Init, TypeOK, Nothing, Nowhere, RowStates
<1>2. HistoryBelowFrontier /\ FrontierAccounted /\ QuarantineGrounded
  BY DEF Init, HistoryBelowFrontier, FrontierAccounted, QuarantineGrounded,
         Nothing, Nowhere
<1>3. AdvertisesAllItHolds /\ MirrorNeverHides
  BY DEF Init, AdvertisesAllItHolds, MirrorNeverHides, Held, Nothing, Nowhere
<1> QED  BY <1>1, <1>2, <1>3 DEF IInv

\* What the copies hold is held as long as the tables give nothing up.
LEMMA MirrorKept ==
  ASSUME MirrorNeverHides, UNCHANGED memory,
         \A q \in Producers : Held(q) \subseteq Held(q)'
  PROVE  MirrorNeverHides'
BY DEF MirrorNeverHides, memory

\* A fresh copy holds what the tables hold.
LEMMA MirrorCopied ==
  ASSUME TypeOK, MirrorNeverHides, NEW e, CopyToMemory(e),
         \A q \in Producers : Held(q) \subseteq Held(q)'
  PROVE  MirrorNeverHides'
<1>1. \A q \in Producers :
        Held(q)' = (1 .. applied'[q]) \cup pending'[q] \cup skipped'[q]
  BY DEF Held
<1> QED  BY <1>1 DEF TypeOK, MirrorNeverHides, CopyToMemory

\* The shape of the copy after CopyToMemory.
LEMMA CopyType ==
  ASSUME TypeOK, NEW e, CopyToMemory(e),
         applied' \in [Producers -> 0 .. MaxSeq],
         pending' \in [Producers -> SUBSET Seqs],
         skipped' \in [Producers -> SUBSET Seqs]
  PROVE  /\ memApplied' \in [Engines -> [Producers -> 0 .. MaxSeq]]
         /\ memPending' \in [Engines -> [Producers -> SUBSET Seqs]]
         /\ memSkipped' \in [Engines -> [Producers -> SUBSET Seqs]]
BY DEF CopyToMemory, TypeOK

\* The same for the copy that T2 leaves behind.
LEMMA MirrorCopiedAfterApply ==
  ASSUME TypeOK, MirrorNeverHides, NEW e, NEW p \in Producers, NEW s \in Seqs,
         ApplyRemoteChange(p, s, skipped[p])
           \/ ApplyRemoteChange(p, s, skipped[p] \ {s}),
         CopyAfterApply(e, p, s),
         pending' \in [Producers -> SUBSET Seqs]
  PROVE  MirrorNeverHides'
<1>1. \A q \in Producers : Held(q) \subseteq Held(q)'
  BY ApplyHolds
<1> DEFINE copied == [pending' EXCEPT ![p] = (@ \ {s}) \cup (pending[p] \cap {s})]
<1>2. \A q \in Producers : copied[q] \subseteq Held(q)'
  <2>1. pending[p] \subseteq Held(p)'
    BY <1>1 DEF Held
  <2> QED  BY <2>1 DEF Held
<1>3. \A q \in Producers :
        (1 .. applied'[q]) \cup copied[q] \cup skipped'[q] \subseteq Held(q)'
  BY <1>2 DEF Held
<1> HIDE DEF copied
<1>4. /\ memApplied' = [memApplied EXCEPT ![e] = applied']
      /\ memPending' = [memPending EXCEPT ![e] = copied]
      /\ memSkipped' = [memSkipped EXCEPT ![e] = skipped']
  BY DEF CopyAfterApply, copied
<1> QED  BY <1>1, <1>3, <1>4 DEF TypeOK, MirrorNeverHides

\* The shape of the copy that T2 leaves behind.
LEMMA CopyAfterApplyType ==
  ASSUME TypeOK, NEW e, NEW p, NEW s \in Seqs, CopyAfterApply(e, p, s),
         applied' \in [Producers -> 0 .. MaxSeq],
         pending' \in [Producers -> SUBSET Seqs],
         skipped' \in [Producers -> SUBSET Seqs]
  PROVE  /\ memApplied' \in [Engines -> [Producers -> 0 .. MaxSeq]]
         /\ memPending' \in [Engines -> [Producers -> SUBSET Seqs]]
         /\ memSkipped' \in [Engines -> [Producers -> SUBSET Seqs]]
<1> DEFINE copied == [pending' EXCEPT ![p] = (@ \ {s}) \cup (pending[p] \cap {s})]
<1>1. copied \in [Producers -> SUBSET Seqs]
  OBVIOUS
<1> HIDE DEF copied
<1>2. /\ memApplied' = [memApplied EXCEPT ![e] = applied']
      /\ memPending' = [memPending EXCEPT ![e] = copied]
      /\ memSkipped' = [memSkipped EXCEPT ![e] = skipped']
  BY DEF CopyAfterApply, copied
<1> QED  BY <1>1, <1>2 DEF TypeOK

\* A restart forgets the copies and leaves no engine behind.
LEMMA ComeBackType ==
  ASSUME TypeOK, ComeBack
  PROVE  /\ rejected' \in [Producers -> SUBSET Seqs]
         /\ phase' \in [Engines -> {"closed", "building", "open"}]
         /\ memApplied' \in [Engines -> [Producers -> 0 .. MaxSeq]]
         /\ memPending' \in [Engines -> [Producers -> SUBSET Seqs]]
         /\ memSkipped' \in [Engines -> [Producers -> SUBSET Seqs]]
         /\ building' \in Engines \cup {NoEngine}
         /\ todo' \subseteq Producers \X Seqs
         /\ restarts' \in 0 .. MaxRestarts
         /\ covered' \in [Producers -> SUBSET Seqs]
         /\ MirrorNeverHides'
<1>1. MaxSeq \in Nat /\ MaxRestarts \in Nat
  BY MaxSeqAssumption, RestartAssumption
<1>2. restarts' \in 0 .. MaxRestarts
  BY <1>1 DEF ComeBack, TypeOK
<1>3. MirrorNeverHides'
  BY DEF ComeBack, MirrorNeverHides, Nothing, Nowhere
<1> QED  BY <1>1, <1>2, <1>3 DEF ComeBack, TypeOK, Nothing, Nowhere

-----------------------------------------------------------------------------
(* The steps that run a record through T2.                                 *)

\* createSyncEngine runs an accepted quarantined record through T2.
LEMMA RevalidateAcceptedStep ==
  ASSUME IInv, NEW p \in Producers, NEW s \in Seqs, RevalidateAccepted(p, s)
  PROVE  IInv'
<1> DEFINE skips == skipped[p] \ {s}
<1> USE DEF IInv
<1>1. /\ ApplyRemoteChange(p, s, skips) /\ CopyAfterApply(building, p, s)
      /\ UNCHANGED <<rows, rejected, phase, building, restarts, quarantined,
                     covered>>
      /\ todo' \subseteq todo
  BY DEF RevalidateAccepted
<1>2. skips \in SUBSET skipped[p] /\ skips \in SUBSET Seqs
  BY DEF TypeOK
<1>3. /\ applied' \in [Producers -> 0 .. MaxSeq]
      /\ pending' \in [Producers -> SUBSET Seqs]
      /\ skipped' \in [Producers -> SUBSET Seqs]
      /\ changes' \in [Producers -> SUBSET Seqs]
      /\ clock' \in [Producers -> 0 .. MaxSeq]
  BY <1>1, <1>2, ApplyType
<1>4. TypeOK'
  BY <1>1, <1>3, CopyAfterApplyType DEF TypeOK
<1>5. /\ HistoryBelowFrontier' /\ FrontierAccounted'
      /\ \A q \in Producers : skipped'[q] \subseteq quarantined'[q]
  BY <1>1, <1>2, ApplyAccounts
<1>6. QuarantineGrounded'
  BY <1>1, <1>5 DEF QuarantineGrounded
<1>7. AdvertisesAllItHolds'
  BY <1>1, <1>2, ApplyAdvertises
<1>8. MirrorNeverHides'
  BY <1>1, <1>3, MirrorCopiedAfterApply
<1> QED  BY <1>4, <1>5, <1>6, <1>7, <1>8

\* applyBatch runs a valid record through T2.
LEMMA ReceiveValidStep ==
  ASSUME IInv, NEW e \in Engines, NEW p \in Producers, NEW s \in Seqs,
         ReceiveValid(e, p, s)
  PROVE  IInv'
<1> USE DEF IInv
<1>1. /\ ApplyRemoteChange(p, s, skipped[p]) /\ CopyAfterApply(e, p, s)
      /\ UNCHANGED <<rows, rejected, phase, building, todo, restarts,
                     quarantined, covered>>
  BY DEF ReceiveValid
<1>2. skipped[p] \in SUBSET skipped[p] /\ skipped[p] \in SUBSET Seqs
  BY DEF TypeOK
<1>3. /\ applied' \in [Producers -> 0 .. MaxSeq]
      /\ pending' \in [Producers -> SUBSET Seqs]
      /\ skipped' \in [Producers -> SUBSET Seqs]
      /\ changes' \in [Producers -> SUBSET Seqs]
      /\ clock' \in [Producers -> 0 .. MaxSeq]
  BY <1>1, <1>2, ApplyType
<1>4. TypeOK'
  BY <1>1, <1>3, CopyAfterApplyType DEF TypeOK
<1>5. /\ HistoryBelowFrontier' /\ FrontierAccounted'
      /\ \A q \in Producers : skipped'[q] \subseteq quarantined'[q]
  BY <1>1, <1>2, ApplyAccounts
<1>6. QuarantineGrounded'
  BY <1>1, <1>5 DEF QuarantineGrounded
<1>7. AdvertisesAllItHolds'
  BY <1>1, <1>2, ApplyAdvertises
<1>8. MirrorNeverHides'
  BY <1>1, <1>3, MirrorCopiedAfterApply
<1> QED  BY <1>4, <1>5, <1>6, <1>7, <1>8

\* The user retries a row: T2 without the skip row, then the resolution.
LEMMA RetryStep ==
  ASSUME IInv, NEW p \in Producers, NEW s \in Seqs, Retry(p, s)
  PROVE  IInv'
<1> DEFINE skips == skipped[p] \ {s}
           r == [rows EXCEPT ![p][s] = "retried"]
<1> USE DEF IInv
<1>1. /\ ApplyRemoteChange(p, s, skips) /\ PruneResolved(r)
      /\ UNCHANGED <<rejected, phase, memory, building, todo, restarts,
                     quarantined, covered>>
      /\ rows[p][s] = "active"
  BY DEF Retry
<1>2. skips \in SUBSET skipped[p] /\ skips \in SUBSET Seqs
  BY DEF TypeOK
<1>3. /\ applied' \in [Producers -> 0 .. MaxSeq]
      /\ pending' \in [Producers -> SUBSET Seqs]
      /\ skipped' \in [Producers -> SUBSET Seqs]
      /\ changes' \in [Producers -> SUBSET Seqs]
      /\ clock' \in [Producers -> 0 .. MaxSeq]
  BY <1>1, <1>2, ApplyType
<1>4. r \in [Producers -> [Seqs -> RowStates]]
  BY DEF TypeOK, RowStates, Resolved
<1>5. /\ rows' \in [Producers -> [Seqs -> RowStates]]
      /\ \A q \in Producers, t \in Seqs :
           rows'[q][t] # "absent" => r[q][t] # "absent"
  BY <1>1, <1>4, PruneCreatesNothing
<1>6. TypeOK'
  BY <1>1, <1>3, <1>5 DEF TypeOK, memory
<1>7. /\ HistoryBelowFrontier' /\ FrontierAccounted'
      /\ \A q \in Producers : skipped'[q] \subseteq quarantined'[q]
  BY <1>1, <1>2, ApplyAccounts
<1>8. QuarantineGrounded'
  <2>1. \A q \in Producers, t \in Seqs :
          r[q][t] # "absent" => rows[q][t] # "absent"
    BY <1>1 DEF TypeOK
  <2> QED  BY <1>1, <1>5, <1>7, <2>1 DEF QuarantineGrounded
<1>9. AdvertisesAllItHolds'
  BY <1>1, <1>2, ApplyAdvertises
<1>10. MirrorNeverHides'
  BY <1>1, ApplyHolds, MirrorKept
<1> QED  BY <1>6, <1>7, <1>8, <1>9, <1>10

\* The process dies between T2 and the resolution of the retried row.
LEMMA DieRetryingStep ==
  ASSUME IInv, NEW p \in Producers, NEW s \in Seqs, DieRetrying(p, s)
  PROVE  IInv'
<1> DEFINE skips == skipped[p] \ {s}
<1> USE DEF IInv
<1>1. /\ ApplyRemoteChange(p, s, skips) /\ ComeBack
      /\ UNCHANGED <<rows, quarantined, covered>> /\ todo' = {}
  BY DEF DieRetrying, ComeBack
<1>2. skips \in SUBSET skipped[p] /\ skips \in SUBSET Seqs
  BY DEF TypeOK
<1>3. /\ applied' \in [Producers -> 0 .. MaxSeq]
      /\ pending' \in [Producers -> SUBSET Seqs]
      /\ skipped' \in [Producers -> SUBSET Seqs]
      /\ changes' \in [Producers -> SUBSET Seqs]
      /\ clock' \in [Producers -> 0 .. MaxSeq]
  BY <1>1, <1>2, ApplyType
<1>4. TypeOK' /\ MirrorNeverHides'
  BY <1>1, <1>3, ComeBackType DEF TypeOK
<1>5. /\ HistoryBelowFrontier' /\ FrontierAccounted'
      /\ \A q \in Producers : skipped'[q] \subseteq quarantined'[q]
  BY <1>1, <1>2, ApplyAccounts
<1>6. QuarantineGrounded'
  BY <1>1, <1>5 DEF QuarantineGrounded
<1>7. AdvertisesAllItHolds'
  BY <1>1, <1>2, ApplyAdvertises
<1> QED  BY <1>4, <1>5, <1>6, <1>7

-----------------------------------------------------------------------------
(* The other steps.                                                        *)

\* A new engine starts from a fresh copy of the tables.
LEMMA BeginSessionStep ==
  ASSUME IInv, NEW e \in Engines, BeginSession(e)
  PROVE  IInv'
<1> USE DEF IInv
<1>1. /\ UNCHANGED durable /\ CopyToMemory(e)
      /\ UNCHANGED <<rejected, restarts, quarantined, covered>>
      /\ phase' = [phase EXCEPT ![e] = "building"] /\ building' = e
      /\ todo' = {ps \in Producers \X Seqs : rows[ps[1]][ps[2]] # "absent"}
  BY DEF BeginSession
<1>2. TypeOK'
  BY <1>1, CopyType DEF TypeOK, durable
<1>3. HistoryBelowFrontier' /\ FrontierAccounted' /\ AdvertisesAllItHolds'
  BY <1>1 DEF durable, HistoryBelowFrontier, FrontierAccounted,
              AdvertisesAllItHolds
<1>4. QuarantineGrounded'
  BY <1>1 DEF durable, QuarantineGrounded
<1>5. MirrorNeverHides'
  BY <1>1, MirrorCopied DEF durable, Held
<1> QED  BY <1>2, <1>3, <1>4, <1>5

\* Steps that may only write skip rows for records quarantined before.
LEMMA SkipRowStep ==
  ASSUME IInv, NEW p \in Producers, NEW s \in Seqs,
         s \in quarantined[p],
         \/ skipped' = skipped
         \/ skipped' = [skipped EXCEPT ![p] = @ \cup {s}],
         UNCHANGED <<applied, pending, changes, clock, rejected, phase,
                     memory, building, restarts, quarantined, covered>>,
         todo' \subseteq todo,
         rows' \in [Producers -> [Seqs -> RowStates]],
         \A q \in Producers, t \in Seqs :
           rows'[q][t] # "absent" => rows[q][t] # "absent"
  PROVE  IInv'
<1> USE DEF IInv
<1>1. skipped \in [Producers -> SUBSET Seqs]
  BY DEF TypeOK
<1>2. /\ skipped' \in [Producers -> SUBSET Seqs]
      /\ \A q \in Producers : /\ skipped[q] \subseteq skipped'[q]
                              /\ skipped'[q] \subseteq quarantined[q]
  <2>1. CASE skipped' = skipped
    BY <1>1, <2>1 DEF QuarantineGrounded
  <2>2. CASE skipped' = [skipped EXCEPT ![p] = @ \cup {s}]
    BY <1>1, <2>2 DEF QuarantineGrounded
  <2> QED  BY <2>1, <2>2
<1>3. TypeOK'
  BY <1>2 DEF TypeOK, memory
<1>4. HistoryBelowFrontier' /\ FrontierAccounted' /\ AdvertisesAllItHolds'
  BY DEF HistoryBelowFrontier, FrontierAccounted, AdvertisesAllItHolds
<1>5. QuarantineGrounded'
  BY <1>2 DEF QuarantineGrounded
<1>6. MirrorNeverHides'
  BY <1>2, MirrorKept DEF Held
<1> QED  BY <1>3, <1>4, <1>5, <1>6

\* A revalidation that leaves the row alone, and one that rolls back.
LEMMA RevalidateOtherStep ==
  ASSUME IInv, NEW p \in Producers, NEW s \in Seqs,
         RevalidateStillInvalid(p, s) \/ RevalidateFails(p, s)
  PROVE  IInv'
<1>1. s \in quarantined[p]
  BY DEF IInv, QuarantineGrounded, RevalidateStillInvalid, RevalidateFails
<1>2. rows' = rows /\ rows \in [Producers -> [Seqs -> RowStates]]
  BY DEF RevalidateStillInvalid, RevalidateFails, durable, IInv, TypeOK
<1>3. CASE RevalidateStillInvalid(p, s)
  BY <1>1, <1>2, <1>3, SkipRowStep DEF RevalidateStillInvalid, durable, WithSkip
<1>4. CASE RevalidateFails(p, s)
  BY <1>1, <1>2, <1>4, SkipRowStep DEF RevalidateFails, WithSkip
<1> QED  BY <1>3, <1>4

\* A retry whose calendar mutation throws restores the skip row.
LEMMA RetryFailsStep ==
  ASSUME IInv, NEW p \in Producers, NEW s \in Seqs, RetryFails(p, s)
  PROVE  IInv'
<1>1. s \in quarantined[p] /\ rows \in [Producers -> [Seqs -> RowStates]]
  BY DEF RetryFails, IInv, TypeOK, QuarantineGrounded
<1> QED  BY <1>1, SkipRowStep DEF RetryFails, WithSkip

\* Deleting a row resolves it and secures its skip row.
LEMMA UserDeleteStep ==
  ASSUME IInv, NEW p \in Producers, NEW s \in Seqs, UserDelete(p, s)
  PROVE  IInv'
<1> DEFINE r == [rows EXCEPT ![p][s] = IF @ = "active" THEN "deleted" ELSE @]
<1>1. /\ rows[p][s] # "absent" /\ PruneResolved(r)
      /\ \/ skipped' = skipped
         \/ skipped' = [skipped EXCEPT ![p] = @ \cup {s}]
      /\ UNCHANGED <<applied, pending, changes, clock, rejected, phase,
                     memory, building, todo, restarts, quarantined, covered>>
  BY DEF UserDelete, WithSkip
<1>2. rows \in [Producers -> [Seqs -> RowStates]] /\ s \in quarantined[p]
  BY <1>1 DEF IInv, TypeOK, QuarantineGrounded
<1>3. /\ r \in [Producers -> [Seqs -> RowStates]]
      /\ \A q \in Producers, t \in Seqs :
           r[q][t] # "absent" => rows[q][t] # "absent"
  BY <1>1, <1>2 DEF RowStates, Resolved
<1>4. /\ rows' \in [Producers -> [Seqs -> RowStates]]
      /\ \A q \in Producers, t \in Seqs :
           rows'[q][t] # "absent" => rows[q][t] # "absent"
  BY <1>1, <1>3, PruneCreatesNothing
<1> HIDE DEF r
<1> QED  BY <1>1, <1>2, <1>4, SkipRowStep

\* Reconciling, pruning and collecting give up nothing that is held.
LEMMA FinishConstructionStep ==
  ASSUME IInv, FinishConstruction
  PROVE  IInv'
<1> DEFINE r == [p \in Producers |-> [s \in Seqs |->
                   IF rows[p][s] = "active" /\ s \in changes[p]
                     THEN "revalidated" ELSE rows[p][s]]]
<1> USE DEF IInv
<1>1. /\ PruneResolved(r) /\ building \in Engines
      /\ pending' = [p \in Producers |-> {s \in pending[p] : s > applied[p]}]
      /\ memPending' = IF pending' = pending THEN memPending
                       ELSE [memPending EXCEPT ![building] = pending']
      /\ phase' = [phase EXCEPT ![building] = "open"]
      /\ building' = NoEngine
      /\ UNCHANGED <<applied, skipped, changes, clock, rejected, memApplied,
                     memSkipped, todo, restarts, quarantined, covered>>
  BY DEF FinishConstruction, Reconciled, WithoutZombies, TypeOK
<1>2. /\ r \in [Producers -> [Seqs -> RowStates]]
      /\ \A p \in Producers, s \in Seqs :
           r[p][s] # "absent" => rows[p][s] # "absent"
  BY DEF TypeOK, RowStates, Resolved
<1>3. /\ rows' \in [Producers -> [Seqs -> RowStates]]
      /\ \A p \in Producers, s \in Seqs :
           rows'[p][s] # "absent" => rows[p][s] # "absent"
  BY <1>1, <1>2, PruneCreatesNothing
<1> HIDE DEF r
<1>4. /\ pending' \in [Producers -> SUBSET Seqs]
      /\ \A p \in Producers : pending'[p] \subseteq pending[p]
  BY <1>1 DEF TypeOK
<1>5. TypeOK'
  BY <1>1, <1>3, <1>4 DEF TypeOK
<1>6. HistoryBelowFrontier' /\ FrontierAccounted'
  BY <1>1 DEF HistoryBelowFrontier, FrontierAccounted
<1>7. AdvertisesAllItHolds'
  BY <1>1, <1>4 DEF AdvertisesAllItHolds
<1>8. QuarantineGrounded'
  BY <1>1, <1>3 DEF QuarantineGrounded
<1>9. MirrorNeverHides'
  <2>1. \A p \in Producers : Held(p) \subseteq Held(p)'
    <3> SUFFICES ASSUME NEW p \in Producers, NEW s \in pending[p]
                 PROVE  s \in (1 .. applied[p]) \cup pending'[p]
      BY <1>1 DEF Held
    <3>1. s \in Int /\ s >= 1 /\ applied[p] \in Int
      BY MaxSeqAssumption DEF TypeOK, Seqs
    <3> QED  BY <1>1, <3>1
  <2>2. SUFFICES ASSUME NEW e \in Engines, NEW p \in Producers
                 PROVE  (1 .. memApplied[e][p]) \cup memPending'[e][p]
                          \cup memSkipped[e][p] \subseteq Held(p)'
    BY <1>1 DEF MirrorNeverHides
  <2>3. /\ 1 .. memApplied[e][p] \subseteq Held(p)'
        /\ memSkipped[e][p] \subseteq Held(p)'
        /\ memPending[e][p] \subseteq Held(p)'
    BY <2>1 DEF MirrorNeverHides
  <2>4. memPending'[e][p] \subseteq Held(p)'
    <3>1. memPending'[e][p] \in {memPending[e][p], pending'[p]}
      BY <1>1 DEF TypeOK
    <3> QED  BY <2>3, <3>1 DEF Held
  <2> QED  BY <2>3, <2>4
<1> QED  BY <1>5, <1>6, <1>7, <1>8, <1>9

\* A record with a skip row touches the clock alone.
LEMMA ReceiveSkippedStep ==
  ASSUME IInv, NEW e \in Engines, NEW p \in Producers, NEW s \in Seqs,
         ReceiveSkipped(e, p, s)
  PROVE  IInv'
<1> USE DEF IInv
<1>1. /\ MergeClock(p, s) \/ UNCHANGED clock
      /\ UNCHANGED <<applied, pending, skipped, changes, rows, rejected,
                     phase, memory, building, todo, restarts, quarantined,
                     covered>>
  BY DEF ReceiveSkipped
<1>2. /\ clock' \in [Producers -> 0 .. MaxSeq]
      /\ \A q \in Producers : clock[q] <= clock'[q]
  <2>1. CASE UNCHANGED clock
    BY <2>1, MaxSeqAssumption DEF TypeOK
  <2>2. CASE MergeClock(p, s)
    BY <2>2, MergeGrows DEF TypeOK
  <2> QED  BY <1>1, <2>1, <2>2
<1>3. TypeOK'
  BY <1>1, <1>2 DEF TypeOK, memory
<1>4. AdvertisesAllItHolds'
  <2> SUFFICES ASSUME NEW q \in Producers
               PROVE  /\ changes[q] \cup pending[q] \subseteq 1 .. clock'[q]
                      /\ applied[q] <= clock'[q]
    BY <1>1 DEF AdvertisesAllItHolds
  <2>1. /\ clock[q] \in Int /\ clock'[q] \in Int /\ applied[q] \in Int
        /\ clock[q] <= clock'[q]
    BY <1>2, MaxSeqAssumption DEF TypeOK
  <2> QED  BY <2>1 DEF AdvertisesAllItHolds
<1>5. HistoryBelowFrontier' /\ FrontierAccounted' /\ QuarantineGrounded'
  BY <1>1 DEF HistoryBelowFrontier, FrontierAccounted, QuarantineGrounded
<1>6. MirrorNeverHides'
  BY <1>1, MirrorKept DEF Held
<1> QED  BY <1>3, <1>4, <1>5, <1>6

\* A record that fails validation gets its rows in table and copy.
LEMMA ReceiveInvalidStep ==
  ASSUME IInv, NEW e \in Engines, NEW p \in Producers, NEW s \in Seqs,
         ReceiveInvalid(e, p, s)
  PROVE  IInv'
<1> USE DEF IInv
<1>1. /\ rows' = [rows EXCEPT ![p][s] = IF @ = "absent" THEN "active" ELSE @]
      /\ skipped' = [skipped EXCEPT ![p] = @ \cup {s}]
      /\ memSkipped' = [memSkipped EXCEPT ![e][p] = @ \cup {s}]
      /\ quarantined' = [quarantined EXCEPT ![p] = @ \cup {s}]
      /\ UNCHANGED <<applied, pending, changes, clock, rejected, phase,
                     memApplied, memPending, building, todo, restarts, covered>>
  BY DEF ReceiveInvalid, WithRow, WithSkip
<1>2. /\ rows' \in [Producers -> [Seqs -> RowStates]]
      /\ skipped' \in [Producers -> SUBSET Seqs]
      /\ memSkipped' \in [Engines -> [Producers -> SUBSET Seqs]]
      /\ quarantined' \in [Producers -> SUBSET Seqs]
  BY <1>1 DEF TypeOK, RowStates
<1>3. TypeOK'
  BY <1>1, <1>2 DEF TypeOK
<1>4. HistoryBelowFrontier' /\ AdvertisesAllItHolds'
  BY <1>1 DEF HistoryBelowFrontier, AdvertisesAllItHolds
<1>5. \A q \in Producers : quarantined[q] \subseteq quarantined'[q]
  BY <1>1 DEF TypeOK
<1>6. FrontierAccounted'
  BY <1>1, <1>5 DEF FrontierAccounted
<1>7. QuarantineGrounded'
  <2>1. \A q \in Producers : skipped'[q] \subseteq quarantined'[q]
    BY <1>1 DEF TypeOK, QuarantineGrounded
  <2>2. \A q \in Producers, t \in Seqs :
          rows'[q][t] # "absent" => t \in quarantined'[q]
    BY <1>1 DEF TypeOK, QuarantineGrounded
  <2> QED  BY <1>1, <1>5, <2>1, <2>2 DEF QuarantineGrounded
<1>8. MirrorNeverHides'
  <2> SUFFICES ASSUME NEW f \in Engines, NEW q \in Producers
               PROVE  (1 .. memApplied[f][q]) \cup memPending[f][q]
                        \cup memSkipped'[f][q] \subseteq Held(q)'
    BY <1>1 DEF MirrorNeverHides
  <2>1. Held(q) \subseteq Held(q)'
    BY <1>1 DEF Held, TypeOK
  <2>2. (1 .. memApplied[f][q]) \cup memPending[f][q] \cup memSkipped[f][q]
          \subseteq Held(q)'
    BY <2>1 DEF MirrorNeverHides
  <2>3. CASE f = e /\ q = p
    BY <1>1, <2>2, <2>3 DEF Held, TypeOK
  <2>4. CASE ~ (f = e /\ q = p)
    <3>1. memSkipped'[f][q] = memSkipped[f][q]
      BY <1>1, <2>4 DEF TypeOK
    <3> QED  BY <2>2, <3>1
  <2> QED  BY <2>3, <2>4
<1> QED  BY <1>3, <1>4, <1>6, <1>7, <1>8

\* The process dies between the quarantine row and the skip row.
LEMMA DieQuarantiningStep ==
  ASSUME IInv, NEW e \in Engines, NEW p \in Producers, NEW s \in Seqs,
         DieQuarantining(e, p, s)
  PROVE  IInv'
<1> USE DEF IInv
<1>1. /\ rows' = [rows EXCEPT ![p][s] = IF @ = "absent" THEN "active" ELSE @]
      /\ quarantined' = [quarantined EXCEPT ![p] = @ \cup {s}]
      /\ UNCHANGED <<applied, pending, skipped, changes, clock, covered>>
      /\ ComeBack /\ todo' = {}
  BY DEF DieQuarantining, WithRow, ComeBack
<1>2. /\ rows' \in [Producers -> [Seqs -> RowStates]]
      /\ quarantined' \in [Producers -> SUBSET Seqs]
  BY <1>1 DEF TypeOK, RowStates
<1>3. TypeOK' /\ MirrorNeverHides'
  BY <1>1, <1>2, ComeBackType DEF TypeOK
<1>4. HistoryBelowFrontier' /\ AdvertisesAllItHolds'
  BY <1>1 DEF HistoryBelowFrontier, AdvertisesAllItHolds
<1>5. \A q \in Producers : quarantined[q] \subseteq quarantined'[q]
  BY <1>1 DEF TypeOK
<1>6. FrontierAccounted'
  BY <1>1, <1>5 DEF FrontierAccounted
<1>7. QuarantineGrounded'
  <2>1. \A q \in Producers, t \in Seqs :
          rows'[q][t] # "absent" => t \in quarantined'[q]
    BY <1>1 DEF TypeOK, QuarantineGrounded
  <2> QED  BY <1>1, <1>5, <2>1 DEF QuarantineGrounded
<1> QED  BY <1>3, <1>4, <1>6, <1>7

\* A restart leaves the tables as they are.
LEMMA RestartStep ==
  ASSUME IInv, Restart
  PROVE  IInv'
<1> USE DEF IInv
<1>1. ComeBack /\ UNCHANGED <<durable, quarantined, covered>> /\ todo' = {}
  BY DEF Restart, ComeBack
<1>2. TypeOK' /\ MirrorNeverHides'
  BY <1>1, ComeBackType DEF TypeOK, durable
<1>3. HistoryBelowFrontier' /\ FrontierAccounted' /\ AdvertisesAllItHolds'
  BY <1>1 DEF durable, HistoryBelowFrontier, FrontierAccounted,
              AdvertisesAllItHolds
<1>4. QuarantineGrounded'
  BY <1>1 DEF durable, QuarantineGrounded
<1> QED  BY <1>2, <1>3, <1>4

\* A session that ends drops its copy.
LEMMA EndSessionStep ==
  ASSUME IInv, NEW e \in Engines, EndSession(e)
  PROVE  IInv'
<1> USE DEF IInv
<1>1. /\ UNCHANGED <<durable, rejected, building, todo, restarts, quarantined,
                     covered>>
      /\ phase' = [phase EXCEPT ![e] = "closed"]
      /\ memApplied' = [memApplied EXCEPT ![e] = Nowhere]
      /\ memPending' = [memPending EXCEPT ![e] = Nothing]
      /\ memSkipped' = [memSkipped EXCEPT ![e] = Nothing]
  BY DEF EndSession
<1>2. Nowhere \in [Producers -> 0 .. MaxSeq]
      /\ Nothing \in [Producers -> SUBSET Seqs]
  BY MaxSeqAssumption DEF Nowhere, Nothing
<1>3. TypeOK'
  BY <1>1, <1>2 DEF TypeOK, durable
<1>4. HistoryBelowFrontier' /\ FrontierAccounted' /\ AdvertisesAllItHolds'
  BY <1>1 DEF durable, HistoryBelowFrontier, FrontierAccounted,
              AdvertisesAllItHolds
<1>5. QuarantineGrounded'
  BY <1>1 DEF durable, QuarantineGrounded
<1>6. MirrorNeverHides'
  <2> SUFFICES ASSUME NEW f \in Engines, NEW q \in Producers
               PROVE  (1 .. memApplied'[f][q]) \cup memPending'[f][q]
                        \cup memSkipped'[f][q] \subseteq Held(q)
    BY <1>1 DEF MirrorNeverHides, Held, durable
  <2>1. CASE f = e
    BY <1>1, <2>1 DEF TypeOK, Nowhere, Nothing
  <2>2. CASE f # e
    <3>1. /\ memApplied'[f] = memApplied[f] /\ memPending'[f] = memPending[f]
          /\ memSkipped'[f] = memSkipped[f]
      BY <1>1, <2>2 DEF TypeOK
    <3> QED  BY <3>1 DEF MirrorNeverHides
  <2> QED  BY <2>1, <2>2
<1> QED  BY <1>3, <1>4, <1>5, <1>6

\* A snapshot chunk moves frontiers, in the tables and in the copy.
LEMMA ReceiveSnapshotStep ==
  ASSUME IInv, NEW e \in Engines, NEW upto \in [Producers -> SnapshotTops],
         ReceiveSnapshot(e, upto)
  PROVE  IInv'
<1> USE DEF IInv
<1>1. /\ applied' = [p \in Producers |-> Larger(applied[p], upto[p])]
      /\ pending' = [p \in Producers |->
                       {s \in pending[p] : upto[p] = 0 \/ s > applied'[p]}]
      /\ skipped' = [p \in Producers |->
                       {s \in skipped[p] : upto[p] = 0 \/ s > applied'[p]}]
      /\ clock' = [p \in Producers |-> Larger(clock[p], upto[p])]
      /\ memApplied' = [memApplied EXCEPT ![e] =
           [p \in Producers |-> Larger(memApplied[e][p], upto[p])]]
      /\ memPending' = [memPending EXCEPT ![e] =
           [p \in Producers |-> IF upto[p] > memApplied[e][p]
              THEN {s \in memPending[e][p] : s > upto[p]}
              ELSE memPending[e][p]]]
      /\ memSkipped' = [memSkipped EXCEPT ![e] =
           [p \in Producers |-> IF upto[p] > memApplied[e][p]
              THEN {s \in memSkipped[e][p] : s > upto[p]}
              ELSE memSkipped[e][p]]]
      /\ covered' = [p \in Producers |-> covered[p] \cup (1 .. upto[p])]
      /\ UNCHANGED <<changes, rows, rejected, phase, building, todo, restarts,
                     quarantined>>
  BY DEF ReceiveSnapshot, MergedFrontier
<1>2. \A p \in Producers : /\ upto[p] \in Int /\ upto[p] >= 0
                           /\ upto[p] <= MaxSeq
                           /\ upto[p] \in 0 .. MaxSeq
  <2>1. \A p \in Producers : upto[p] \in SnapshotTops
    OBVIOUS
  <2>2. \A p \in Producers : upto[p] \in 0 .. MaxSeq
    BY <2>1, SnapshotAssumption
  <2> QED  BY <2>2, MaxSeqAssumption
<1>3. \A p \in Producers : applied[p] \in 0 .. MaxSeq /\ clock[p] \in 0 .. MaxSeq
  BY DEF TypeOK
<1>4. \A f \in Engines, p \in Producers :
        /\ memApplied[f][p] \in 0 .. MaxSeq
        /\ memPending[f][p] \subseteq Seqs
        /\ memSkipped[f][p] \subseteq Seqs
  BY DEF TypeOK
<1>5. \A p \in Producers :
        /\ applied'[p] \in 0 .. MaxSeq /\ clock'[p] \in 0 .. MaxSeq
        /\ applied[p] <= applied'[p] /\ clock[p] <= clock'[p]
        /\ upto[p] <= applied'[p] /\ applied'[p] \in {applied[p], upto[p]}
        /\ clock'[p] \in {clock[p], upto[p]} /\ upto[p] <= clock'[p]
  <2> SUFFICES ASSUME NEW p \in Producers
               PROVE  /\ applied'[p] \in 0 .. MaxSeq /\ clock'[p] \in 0 .. MaxSeq
                      /\ applied[p] <= applied'[p] /\ clock[p] <= clock'[p]
                      /\ upto[p] <= applied'[p]
                      /\ applied'[p] \in {applied[p], upto[p]}
                      /\ clock'[p] \in {clock[p], upto[p]}
                      /\ upto[p] <= clock'[p]
    OBVIOUS
  <2>1. /\ applied'[p] = Larger(applied[p], upto[p])
        /\ clock'[p] = Larger(clock[p], upto[p])
    BY <1>1
  <2> QED  BY <1>2, <1>3, <2>1, MaxSeqAssumption DEF Larger
<1>6. TypeOK'
  <2>1. /\ applied' \in [Producers -> 0 .. MaxSeq]
        /\ clock' \in [Producers -> 0 .. MaxSeq]
    BY <1>1, <1>5
  <2>2. /\ pending' \in [Producers -> SUBSET Seqs]
        /\ skipped' \in [Producers -> SUBSET Seqs]
    BY <1>1 DEF TypeOK
  <2>3. \A p \in Producers : 1 .. upto[p] \subseteq Seqs
    BY <1>2, MaxSeqAssumption DEF Seqs
  <2>4. covered' \in [Producers -> SUBSET Seqs]
    BY <1>1, <2>3 DEF TypeOK
  <2>5. memApplied' \in [Engines -> [Producers -> 0 .. MaxSeq]]
    <3>1. \A p \in Producers : Larger(memApplied[e][p], upto[p]) \in 0 .. MaxSeq
      BY <1>2, <1>4 DEF Larger
    <3> QED  BY <1>1, <3>1 DEF TypeOK
  <2>6. /\ memPending' \in [Engines -> [Producers -> SUBSET Seqs]]
        /\ memSkipped' \in [Engines -> [Producers -> SUBSET Seqs]]
    BY <1>1, <1>4 DEF TypeOK
  <2> QED  BY <1>1, <2>1, <2>2, <2>4, <2>5, <2>6 DEF TypeOK
<1>7. HistoryBelowFrontier'
  <2> SUFFICES ASSUME NEW p \in Producers, NEW s \in changes[p]
               PROVE  s \in 1 .. applied'[p]
    BY <1>1 DEF HistoryBelowFrontier
  <2>1. s \in 1 .. applied[p]
    BY DEF HistoryBelowFrontier
  <2> QED  BY <1>3, <1>5, <2>1
<1>8. FrontierAccounted'
  <2> SUFFICES ASSUME NEW p \in Producers, NEW s \in 1 .. applied'[p]
               PROVE  s \in changes[p] \cup quarantined[p] \cup covered'[p]
    BY <1>1 DEF FrontierAccounted
  <2>1. CASE applied'[p] = applied[p]
    BY <1>1, <2>1 DEF FrontierAccounted
  <2>2. CASE applied'[p] = upto[p]
    BY <1>1, <2>2
  <2> QED  BY <1>5, <2>1, <2>2
<1>9. QuarantineGrounded'
  BY <1>1 DEF QuarantineGrounded
<1>10. AdvertisesAllItHolds'
  <2> SUFFICES ASSUME NEW p \in Producers
               PROVE  /\ changes[p] \cup pending'[p] \subseteq 1 .. clock'[p]
                      /\ applied'[p] <= clock'[p]
    BY <1>1 DEF AdvertisesAllItHolds
  <2>1. 1 .. clock[p] \subseteq 1 .. clock'[p]
    BY <1>3, <1>5
  <2>2. pending'[p] \subseteq pending[p]
    BY <1>1
  <2>3. applied[p] <= clock[p]
    BY DEF AdvertisesAllItHolds
  <2>4. applied'[p] <= clock'[p]
    BY <1>2, <1>3, <1>5, <2>3
  <2> QED  BY <2>1, <2>2, <2>4 DEF AdvertisesAllItHolds
<1>11. MirrorNeverHides'
  <2>1. ASSUME NEW p \in Producers
        PROVE  /\ Held(p) \subseteq Held(p)'
               /\ 1 .. upto[p] \subseteq Held(p)'
    <3>1. pending[p] \subseteq Seqs /\ skipped[p] \subseteq Seqs
      BY DEF TypeOK
    <3>2. \A s \in Seqs : s \in 1 .. applied'[p] \/ s > applied'[p]
      BY <1>5, MaxSeqAssumption DEF Seqs
    <3>3. /\ pending[p] \subseteq (1 .. applied'[p]) \cup pending'[p]
          /\ skipped[p] \subseteq (1 .. applied'[p]) \cup skipped'[p]
      BY <1>1, <3>1, <3>2
    <3>4. /\ 1 .. applied[p] \subseteq 1 .. applied'[p]
          /\ 1 .. upto[p] \subseteq 1 .. applied'[p]
      BY <1>2, <1>3, <1>5
    <3> QED  BY <3>3, <3>4 DEF Held
  <2>2. SUFFICES ASSUME NEW f \in Engines, NEW p \in Producers
                 PROVE  (1 .. memApplied'[f][p]) \cup memPending'[f][p]
                          \cup memSkipped'[f][p] \subseteq Held(p)'
    BY DEF MirrorNeverHides
  <2>3. (1 .. memApplied[f][p]) \cup memPending[f][p] \cup memSkipped[f][p]
          \subseteq Held(p)'
    BY <2>1 DEF MirrorNeverHides
  <2>4. CASE f = e
    <3>1. /\ memApplied'[f][p] = Larger(memApplied[f][p], upto[p])
          /\ memPending'[f][p] \subseteq memPending[f][p]
          /\ memSkipped'[f][p] \subseteq memSkipped[f][p]
      BY <1>1, <2>4 DEF TypeOK
    <3>2. memApplied'[f][p] \in {memApplied[f][p], upto[p]}
      BY <3>1 DEF Larger
    <3> QED  BY <2>1, <2>3, <3>1, <3>2
  <2>5. CASE f # e
    <3>1. /\ memApplied'[f] = memApplied[f] /\ memPending'[f] = memPending[f]
          /\ memSkipped'[f] = memSkipped[f]
      BY <1>1, <2>5 DEF TypeOK
    <3> QED  BY <2>3, <3>1
  <2> QED  BY <2>4, <2>5
<1> QED  BY <1>6, <1>7, <1>8, <1>9, <1>10, <1>11

\* Every step preserves the invariant.
LEMMA NextIInv == IInv /\ [Next]_vars => IInv'
<1> SUFFICES ASSUME IInv, [Next]_vars PROVE IInv'
  OBVIOUS
<1>1. ASSUME NEW e \in Engines, BeginSession(e) \/ EndSession(e)
      PROVE  IInv'
  BY <1>1, BeginSessionStep, EndSessionStep
<1>2. CASE FinishConstruction
  BY <1>2, FinishConstructionStep
<1>3. ASSUME NEW p \in Producers, NEW s \in Seqs,
             \/ RevalidateStillInvalid(p, s) \/ RevalidateAccepted(p, s)
             \/ RevalidateFails(p, s)
      PROVE  IInv'
  BY <1>3, RevalidateOtherStep, RevalidateAcceptedStep
<1>4. ASSUME NEW p \in Producers, NEW s \in Seqs,
             \/ Retry(p, s) \/ RetryFails(p, s) \/ UserDelete(p, s)
             \/ DieRetrying(p, s)
      PROVE  IInv'
  BY <1>4, RetryStep, RetryFailsStep, UserDeleteStep, DieRetryingStep
<1>5. ASSUME NEW e \in Engines, NEW p \in Producers, NEW s \in Seqs,
             \/ ReceiveSkipped(e, p, s) \/ ReceiveInvalid(e, p, s)
             \/ ReceiveValid(e, p, s) \/ DieQuarantining(e, p, s)
      PROVE  IInv'
  BY <1>5, ReceiveSkippedStep, ReceiveInvalidStep, ReceiveValidStep,
     DieQuarantiningStep
<1>6. ASSUME NEW e \in Engines, NEW upto \in [Producers -> SnapshotTops],
             ReceiveSnapshot(e, upto)
      PROVE  IInv'
  BY <1>6, ReceiveSnapshotStep
<1>7. CASE Restart
  BY <1>7, RestartStep
<1>8. CASE UNCHANGED vars
  BY <1>8 DEF vars, durable, memory, IInv, TypeOK, HistoryBelowFrontier,
              FrontierAccounted, QuarantineGrounded, AdvertisesAllItHolds,
              MirrorNeverHides, Held
<1> QED  BY <1>1, <1>2, <1>3, <1>4, <1>5, <1>6, <1>7, <1>8 DEF Next

-----------------------------------------------------------------------------
(* Refinement: the pipeline implements OrderedDelivery.                    *)

\* T2 is a delivery, or leaves the abstract state alone.
LEMMA ApplyDelivers ==
  ASSUME IInv, NEW p \in Producers, NEW s \in Seqs,
         NEW skips \in SUBSET skipped[p], ApplyRemoteChange(p, s, skips),
         UNCHANGED <<quarantined, covered>>
  PROVE  Delivery!Deliver(p) \/ UNCHANGED Delivery!vars
<1>1. CASE DropDuplicate(p, s, skips) \/ BufferEarly(p, s, skips)
  BY <1>1 DEF DropDuplicate, BufferEarly, Delivery!vars
<1>2. CASE ApplyInOrder(p, s, skips)
  <2>1. PICK top \in Seqs :
          /\ DrainsTo(pending[p], skips, s, top)
          /\ applied' = [applied EXCEPT ![p] = top]
          /\ changes' = [changes EXCEPT ![p] = @ \cup (s .. top)]
    BY <1>2 DEF ApplyInOrder
  <2>2. /\ s <= top /\ applied[p] < s
        /\ (applied[p] + 1) .. (s - 1) \subseteq quarantined[p]
    BY <1>2, <2>1
       DEF ApplyInOrder, IsNextExpected, DrainsTo, IInv, QuarantineGrounded
  <2>3. s \in Delivery!Seqs /\ top \in Delivery!Seqs
    BY DEF Seqs, Delivery!Seqs
  <2>4. Delivery!Deliver(p)
    BY <2>1, <2>2, <2>3 DEF Delivery!Deliver
  <2> QED  BY <2>4
<1> QED  BY <1>1, <1>2 DEF ApplyRemoteChange

\* The empty database is the initial state of ordered delivery.
LEMMA InitDelivery == Init => Delivery!Init
BY DEF Init, Delivery!Init, Nothing, Nowhere

\* Every step is a step of ordered delivery, or leaves its state alone.
LEMMA NextDelivery ==
  IInv /\ [Next]_vars => [Delivery!Next]_(Delivery!vars)
<1> SUFFICES ASSUME IInv, [Next]_vars
             PROVE  Delivery!Next \/ UNCHANGED Delivery!vars
  OBVIOUS
<1>1. ASSUME NEW e \in Engines, BeginSession(e) \/ EndSession(e)
      PROVE  UNCHANGED Delivery!vars
  BY <1>1 DEF BeginSession, EndSession, durable, Delivery!vars
<1>2. CASE FinishConstruction
  BY <1>2 DEF FinishConstruction, Delivery!vars
<1>3. ASSUME NEW p \in Producers, NEW s \in Seqs,
             \/ RevalidateAccepted(p, s) \/ Retry(p, s) \/ DieRetrying(p, s)
      PROVE  Delivery!Next \/ UNCHANGED Delivery!vars
  <2>1. /\ ApplyRemoteChange(p, s, skipped[p] \ {s})
        /\ UNCHANGED <<quarantined, covered>>
    BY <1>3 DEF RevalidateAccepted, Retry, DieRetrying, ComeBack
  <2>2. Delivery!Deliver(p) \/ UNCHANGED Delivery!vars
    BY <2>1, ApplyDelivers
  <2> QED  BY <2>2 DEF Delivery!Next
<1>4. ASSUME NEW p \in Producers, NEW s \in Seqs,
             \/ RevalidateStillInvalid(p, s) \/ RevalidateFails(p, s)
             \/ RetryFails(p, s) \/ UserDelete(p, s)
      PROVE  UNCHANGED Delivery!vars
  BY <1>4 DEF RevalidateStillInvalid, RevalidateFails, RetryFails, UserDelete,
              durable, Delivery!vars
<1>5. ASSUME NEW e \in Engines, NEW p \in Producers, NEW s \in Seqs,
             ReceiveSkipped(e, p, s)
      PROVE  UNCHANGED Delivery!vars
  BY <1>5 DEF ReceiveSkipped, Delivery!vars
<1>6. ASSUME NEW e \in Engines, NEW p \in Producers, NEW s \in Seqs,
             ReceiveInvalid(e, p, s) \/ DieQuarantining(e, p, s)
      PROVE  Delivery!Next
  <2>1. /\ quarantined' = [quarantined EXCEPT ![p] = @ \cup {s}]
        /\ UNCHANGED <<applied, changes, covered>>
    BY <1>6 DEF ReceiveInvalid, DieQuarantining, ComeBack
  <2>2. s \in Delivery!Seqs
    BY DEF Seqs, Delivery!Seqs
  <2>3. Delivery!Excuse(p)
    BY <2>1, <2>2 DEF Delivery!Excuse
  <2> QED  BY <2>3 DEF Delivery!Next
<1>7. ASSUME NEW e \in Engines, NEW p \in Producers, NEW s \in Seqs,
             ReceiveValid(e, p, s)
      PROVE  Delivery!Next \/ UNCHANGED Delivery!vars
  <2>1. /\ ApplyRemoteChange(p, s, skipped[p])
        /\ UNCHANGED <<quarantined, covered>>
    BY <1>7 DEF ReceiveValid
  <2>2. Delivery!Deliver(p) \/ UNCHANGED Delivery!vars
    BY <2>1, ApplyDelivers
  <2> QED  BY <2>2 DEF Delivery!Next
<1>8. ASSUME NEW e \in Engines, NEW upto \in [Producers -> SnapshotTops],
             ReceiveSnapshot(e, upto)
      PROVE  Delivery!Next
  <2>1. upto \in [Producers -> 0 .. MaxSeq]
    BY SnapshotAssumption
  <2>2. \A p \in Producers :
          Larger(applied[p], upto[p])
            = IF upto[p] > applied[p] THEN upto[p] ELSE applied[p]
    <3> SUFFICES ASSUME NEW p \in Producers
                 PROVE  Larger(applied[p], upto[p])
                          = IF upto[p] > applied[p] THEN upto[p]
                                                    ELSE applied[p]
      OBVIOUS
    <3>1. upto[p] \in Int /\ applied[p] \in Int
      BY <2>1, MaxSeqAssumption DEF IInv, TypeOK
    <3> QED  BY <3>1 DEF Larger
  <2>3. /\ applied' = [p \in Producers |->
                         IF upto[p] > applied[p] THEN upto[p] ELSE applied[p]]
        /\ covered' = [p \in Producers |-> covered[p] \cup (1 .. upto[p])]
        /\ UNCHANGED <<changes, quarantined>>
    BY <1>8, <2>2 DEF ReceiveSnapshot, MergedFrontier
  <2>4. Delivery!Jump
    BY <2>1, <2>3 DEF Delivery!Jump
  <2> QED  BY <2>4 DEF Delivery!Next
<1>9. CASE Restart
  BY <1>9 DEF Restart, ComeBack, durable, Delivery!vars
<1>10. CASE UNCHANGED vars
  BY <1>10 DEF vars, durable, Delivery!vars
<1> QED  BY <1>1, <1>2, <1>3, <1>4, <1>5, <1>6, <1>7, <1>8, <1>9, <1>10
         DEF Next

-----------------------------------------------------------------------------
(* Theorems.                                                               *)

\* The inductive invariant holds in every reachable state.
THEOREM Invariance == Spec => []IInv
BY InitIInv, NextIInv, PTL DEF Spec

\* The tables, the copies and the history keep their types.
THEOREM TypeCorrect == Spec => []TypeOK
BY Invariance, PTL DEF IInv

\* No record is lost in silence (classifyArrival, advanceApplied).
THEOREM NothingLostInSilence == Spec => []FrontierAccounted
BY Invariance, PTL DEF IInv

\* T2 never inserts a record twice (applyRemoteChange).
THEOREM NothingAppliedTwice == Spec => []HistoryBelowFrontier
BY Invariance, PTL DEF IInv

\* HELLO advertises whatever was applied, buffered or taken over.
THEOREM NothingHeldUnadvertised == Spec => []AdvertisesAllItHolds
BY Invariance, PTL DEF IInv

\* A stale session never takes for held what the database lacks.
THEOREM StaleCopiesAreSafe == Spec => []MirrorNeverHides
BY Invariance, PTL DEF IInv

\* The pipeline delivers in the producer's order, at most once, and accounts
\* for what it passes over (applyRemoteChange, quarantine and snapshots).
THEOREM DeliveryRefined == Spec => ImplementsOrderedDelivery
BY InitIInv, NextIInv, InitDelivery, NextDelivery, PTL
   DEF Spec, ImplementsOrderedDelivery, Delivery!Spec
=============================================================================
