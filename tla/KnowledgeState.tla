--------------------------- MODULE KnowledgeState ---------------------------
(***************************************************************************)
(* What a device knows of ONE producer's change records: the arrival       *)
(* classifier and the frontier arithmetic of src/sync/knowledge_state.ts.  *)
(*                                                                         *)
(* A producer numbers its records 1, 2, 3, ...  The receiver keeps the     *)
(* frontier `applied` (appliedUpto[d]), the set `pending` of records that  *)
(* arrived early, and the set `skipped` of records it quarantined.  The    *)
(* operators are relations on these values and not a search for the least  *)
(* sequence number, so that nothing here is recursive.                     *)
(***************************************************************************)
EXTENDS Integers

\* s is the smallest sequence number above the frontier with no skip row.
IsNextExpected(applied, skipped, s) ==
  /\ s > applied
  /\ s \notin skipped
  /\ (applied + 1) .. (s - 1) \subseteq skipped

\* An arrival that is dropped, apart from the merge of its clock.
IsDuplicateArrival(applied, pending, skipped, s) ==
  \/ s \in skipped
  \/ s <= applied
  \/ s \in pending /\ ~ IsNextExpected(applied, skipped, s)

\* An arrival that is stored until the gap below it closes.
IsBufferedArrival(applied, pending, skipped, s) ==
  /\ s > applied
  /\ s \notin pending \cup skipped
  /\ ~ IsNextExpected(applied, skipped, s)

\* Applying s drains the buffered records s+1 .. top that follow it without
\* a hole; the drain stops at the first number that is not buffered, and at
\* the first one that carries a skip row.
DrainsTo(pending, skipped, s, top) ==
  /\ top >= s
  /\ (s + 1) .. top \subseteq pending \ skipped
  /\ top + 1 \notin pending \ skipped

\* Seeded fault: buffered records are taken for records still to be fetched,
\* and those at the edge of the gap are taken for held ones.
NeededAboveBuffered(applied, pending, skipped, advertised) ==
  {s \in (applied + 1) .. advertised : \A t \in pending \cup skipped : s > t}

\* The sequence numbers (the union of the requested ranges) that the receiver
\* asks of a peer whose clock shows `advertised` for the producer.
NeededSeqs(applied, pending, skipped, advertised) ==
  ((applied + 1) .. advertised) \ (pending \cup skipped)
=============================================================================
