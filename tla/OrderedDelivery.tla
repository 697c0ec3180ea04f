--------------------------- MODULE OrderedDelivery --------------------------
(***************************************************************************)
(* What a device promises about the change records of other producers,     *)
(* whatever the network, the other sessions, the user and restarts do:     *)
(* every record is delivered to the calendar at most once and in the       *)
(* producer's order, and the frontier passes a record only when that       *)
(* record was delivered, was put in quarantine, or is covered by a         *)
(* full-state snapshot.                                                    *)
(***************************************************************************)
EXTENDS Integers

CONSTANTS
  Producers,   \* the devices whose records are received
  MaxSeq       \* records per producer, a natural number

Seqs == 1 .. MaxSeq

VARIABLES
  frontier,    \* frontier[p]: everything of p up to here is accounted for
  delivered,   \* delivered[p]: the records of p applied to the calendar
  excused,     \* excused[p]: the records of p that were quarantined
  covered      \* covered[p]: the records of p inside an applied snapshot

vars == <<frontier, delivered, excused, covered>>

Init ==
  /\ frontier  = [p \in Producers |-> 0]
  /\ delivered = [p \in Producers |-> {}]
  /\ excused   = [p \in Producers |-> {}]
  /\ covered   = [p \in Producers |-> {}]

\* One record, and the run of earlier arrivals that follows it.
Deliver(p) ==
  \E first, last \in Seqs :
    /\ frontier[p] < first
    /\ first <= last
    /\ (frontier[p] + 1) .. (first - 1) \subseteq excused[p]
    /\ frontier'  = [frontier EXCEPT ![p] = last]
    /\ delivered' = [delivered EXCEPT ![p] = @ \cup (first .. last)]
    /\ UNCHANGED <<excused, covered>>

Excuse(p) ==
  \E s \in Seqs :
    /\ excused' = [excused EXCEPT ![p] = @ \cup {s}]
    /\ UNCHANGED <<frontier, delivered, covered>>

\* A snapshot moves the frontiers of several producers at once, never back.
Jump ==
  \E upto \in [Producers -> 0 .. MaxSeq] :
    /\ frontier' = [p \in Producers |->
                      IF upto[p] > frontier[p] THEN upto[p] ELSE frontier[p]]
    /\ covered'  = [p \in Producers |-> covered[p] \cup (1 .. upto[p])]
    /\ UNCHANGED <<delivered, excused>>

Next ==
  \/ \E p \in Producers : Deliver(p) \/ Excuse(p)
  \/ Jump

Spec == Init /\ [][Next]_vars
=============================================================================
