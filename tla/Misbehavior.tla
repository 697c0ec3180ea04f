----------------------------- MODULE Misbehavior -----------------------------
(***************************************************************************)
(* The two tiers of sync/misbehavior.ts for one producer, and the gates at *)
(* the head of applyBatch that obey them.  Books of different producers   *)
(* never touch, so one is enough.                                          *)
(*                                                                         *)
(* Tier 1 is a ladder in memory: 0 observe, 1 warn, 2 throttle (intake is  *)
(* dropped until a backoff has passed), 3 suspend (intake is dropped).     *)
(* Tier 2 is a durable row that only the user removes.  Records are        *)
(* numbers; a record that nothing has resolved is asked for in every       *)
(* session, so what the gates drop arrives again.                          *)
(***************************************************************************)
EXTENDS Integers, FiniteSets

CONSTANTS Records,    \* the producer's records
          Invalid,    \* those of them the validator refuses
          Window,     \* ticks an arrival stays in the rolling window
          Tier1Count, \* invalid arrivals that must be exceeded, and their share
          Tier1Ratio, \* in percent
          Tier2Count, \* invalid and dropped arrivals that must be exceeded
          Throttle,   \* ticks of the backoff at level 2
          MaxArrivals,\* bound: arrivals in one window
          MaxUser,    \* bound: resets and unblocks by the user
          MaxRestarts \* bound: restarts of the sidecar

ASSUME LadderAssumption ==
  /\ Invalid \subseteq Records
  /\ {Window, Tier1Count, Tier2Count, Throttle} \subseteq Nat \ {0}
  /\ Tier1Ratio \in 0 .. 99
  /\ {MaxArrivals, MaxUser, MaxRestarts} \subseteq Nat

VARIABLES
  level,     \* PeerBook.level
  since,     \* ticks since the level was entered, at most Window
  backoff,   \* ticks until backoffUntilMs
  recommend, \* PeerBook.recommendUnpair
  window,    \* PeerBook.events: [kind, age] -> number of arrivals
  blocked,   \* the producer's hard_blocks row exists
  intake,    \* what became of each record: "none", "handed" (to T2), "skipped"
  view,      \* the device's row on the paired-devices screen: "none", "clear", "blocked"
  armed,     \* the first click on its Unblock was made
  interventions, restarts

screen == <<view, armed>>
book == <<level, since, backoff, recommend, window>>
ladderVars ==
  <<level, since, backoff, recommend, window, blocked, intake, view, armed, interventions, restarts>>

Kinds == {"ok", "invalid", "dropped"}
Ages  == 0 .. Window - 1

Empty == [k \in Kinds |-> [a \in Ages |-> 0]]

(* The sum of a row over the ages. *)
Total(row) ==
  LET upto[a \in -1 .. Window - 1] == IF a = -1 THEN 0 ELSE upto[a - 1] + row[a]
  IN  upto[Window - 1]

Count(w, k) == Total(w[k])
All(w)      == Count(w, "ok") + Count(w, "invalid") + Count(w, "dropped")
Flood(w)    == Count(w, "invalid") + Count(w, "dropped")

LadderTypeOK ==
  /\ level \in 0 .. 3 /\ since \in 0 .. Window /\ backoff \in 0 .. Throttle
  /\ recommend \in BOOLEAN /\ blocked \in BOOLEAN
  /\ window \in [Kinds -> [Ages -> 0 .. MaxArrivals]]
  /\ intake \in [Records -> {"none", "handed", "skipped"}]
  /\ view \in {"none", "clear", "blocked"} /\ armed \in BOOLEAN
  /\ interventions \in 0 .. MaxUser /\ restarts \in 0 .. MaxRestarts

FreshBook ==
  /\ level' = 0 /\ since' = 0 /\ backoff' = 0
  /\ recommend' = FALSE /\ window' = Empty

LadderInit ==
  /\ level = 0 /\ since = 0 /\ backoff = 0
  /\ recommend = FALSE /\ window = Empty
  /\ blocked = FALSE
  /\ intake = [r \in Records |-> "none"]
  /\ view = "none" /\ armed = FALSE
  /\ interventions = 0 /\ restarts = 0

-----------------------------------------------------------------------------
(* isIntakeDropped *)
(* Seeded fault: a throttled producer is dropped whether or not its backoff has passed. *)
IntakeDroppedForGood == level >= 2

IntakeDropped == level = 3 \/ (level = 2 /\ backoff > 0)

(* Tier 2 counts what was dropped with what was invalid, at every level. *)
Flooded(w) == Flood(w) > Tier2Count

Clean(w) == Flood(w) = 0

(* Tier 1 climbs on a fresh invalid arrival only. *)
Breached(kind, w) ==
  /\ kind = "invalid"
  /\ Count(w, "invalid") > Tier1Count
  /\ 100 * Count(w, "invalid") > Tier1Ratio * All(w)

(* evaluate, with the arrival already in window w; the row of Tier 2 is the callback's. *)
Recover ==
  /\ level' = 0 /\ since' = 0 /\ backoff' = 0 /\ recommend' = FALSE

Climb(w) ==
  LET up == level + 1
  IN  /\ level' = up /\ since' = 0
      /\ backoff' = IF up = 2 THEN Throttle ELSE backoff
      /\ UNCHANGED recommend

Stay ==
  /\ UNCHANGED <<level, since, backoff>>
  /\ recommend' = (recommend \/ (level = 3 /\ since = Window))

(* hardBlockProducer: the row is written once and refreshed after that. *)
HardBlockProducer(w) == blocked' = (blocked \/ Flooded(w))

Evaluate(kind, w) ==
  /\ window' = w
  /\ HardBlockProducer(w)
  /\ \/ Flooded(w) /\ UNCHANGED <<level, since, backoff, recommend>>
     \/ ~Flooded(w) /\ Clean(w) /\ level > 0 /\ Recover
     \/ ~Flooded(w) /\ ~(Clean(w) /\ level > 0) /\ Breached(kind, w) /\ level < 3 /\ Climb(w)
     \/ ~Flooded(w) /\ ~(Clean(w) /\ level > 0) /\ ~(Breached(kind, w) /\ level < 3) /\ Stay

Note(kind) == Evaluate(kind, [window EXCEPT ![kind][0] = @ + 1])

(* applyBatch for one record, in its order: hard block, intake gate, skip row, validator. *)
GateBlocked == blocked /\ UNCHANGED <<book, blocked, intake>>

GateDropped ==
  /\ ~blocked /\ IntakeDropped
  /\ Note("dropped")
  /\ UNCHANGED intake

Redelivered(r) ==
  /\ ~blocked /\ ~IntakeDropped /\ intake[r] = "skipped"
  /\ Note("ok")
  /\ UNCHANGED intake

Quarantined(r) ==
  /\ ~blocked /\ ~IntakeDropped /\ intake[r] # "skipped" /\ r \in Invalid
  /\ Note("invalid")
  /\ intake' = [intake EXCEPT ![r] = "skipped"]

Processed(r) ==
  /\ ~blocked /\ ~IntakeDropped /\ intake[r] # "skipped" /\ r \notin Invalid
  /\ Note("ok")
  /\ intake' = [intake EXCEPT ![r] = "handed"]

Arrive(r) ==
  /\ All(window) < MaxArrivals
  /\ \/ GateBlocked \/ GateDropped \/ Redelivered(r) \/ Quarantined(r) \/ Processed(r)
  /\ UNCHANGED <<screen, interventions, restarts>>

-----------------------------------------------------------------------------
(* Time: arrivals leave the window, the backoff runs down. *)
Older(row) == [a \in Ages |-> IF a = 0 THEN 0 ELSE row[a - 1]]

Tick ==
  /\ window' = [k \in Kinds |-> Older(window[k])]
  /\ since' = IF level > 0 /\ since < Window THEN since + 1 ELSE since
  /\ backoff' = IF backoff > 0 THEN backoff - 1 ELSE 0
  /\ UNCHANGED <<level, recommend, blocked, intake, screen, interventions, restarts>>

(* render of the paired-devices screen: the rows go, the clicks with them, and come back from *)
(* peerStateSnapshot when its answer arrives. *)
Render == view' = "none" /\ armed' = FALSE

Snapshot == IF blocked THEN "blocked" ELSE "clear"

Shown ==
  /\ view = "none"
  /\ view' = Snapshot
  /\ UNCHANGED <<book, blocked, intake, armed, interventions, restarts>>

Leave ==
  /\ view # "none"
  /\ Render
  /\ UNCHANGED <<book, blocked, intake, interventions, restarts>>

(* "Reset peer state": one click; the hard block stays. *)
ResetPeer ==
  /\ view # "none" /\ interventions < MaxUser
  /\ interventions' = interventions + 1
  /\ FreshBook /\ Render
  /\ UNCHANGED <<blocked, intake, restarts>>

(* unhardBlockProducer: the row goes, and only the user makes it go. *)
UnhardBlock == blocked' = FALSE

(* "Unblock": the first click shows the warning, the second unblocks and resets the ladder. *)
ArmUnblock ==
  /\ view = "blocked" /\ ~armed
  /\ armed' = TRUE
  /\ UNCHANGED <<book, blocked, intake, view, interventions, restarts>>

(* Seeded fault: unblocking leaves the ladder and its window as they are. *)
UnblockPeerOnly ==
  /\ view = "blocked" /\ armed /\ interventions < MaxUser
  /\ interventions' = interventions + 1
  /\ UnhardBlock /\ Render
  /\ UNCHANGED <<book, intake, restarts>>

UnblockPeer ==
  /\ view = "blocked" /\ armed /\ interventions < MaxUser
  /\ interventions' = interventions + 1
  /\ UnhardBlock /\ FreshBook /\ Render
  /\ UNCHANGED <<intake, restarts>>

(* The tracker is memory; the hard block and what the intake resolved are rows. *)
Restart ==
  /\ restarts < MaxRestarts
  /\ restarts' = restarts + 1
  /\ FreshBook /\ Render
  /\ UNCHANGED <<blocked, intake, interventions>>

LadderNext ==
  \/ \E r \in Records : Arrive(r)
  \/ Tick
  \/ Shown \/ Leave \/ ResetPeer \/ ArmUnblock \/ UnblockPeer
  \/ Restart

(* Time passes; as long as sessions run, a record that is asked for arrives. *)
LadderFairness ==
  /\ WF_ladderVars(Tick)
  /\ \A r \in Records : SF_ladderVars(intake[r] = "none" /\ Arrive(r))

LadderSpec == LadderInit /\ [][LadderNext]_ladderVars

LadderFairSpec == LadderSpec /\ LadderFairness

-----------------------------------------------------------------------------
(* A producer that is not blocked has never had more invalid and dropped arrivals in a window *)
(* than Tier 2 allows, whatever the ladder, the user's resets and restarts did in between: the *)
(* block trips in the middle of a burst, and lifting it starts from an empty window. *)
FloodIsBounded == ~blocked => Flood(window) <= Tier2Count

(* What a gate drops is not lost: a producer that is neither suspended nor blocked for good *)
(* has every record handed on or quarantined in the end. *)
DroppedComesAgain ==
  <>[](level < 3 /\ ~blocked) => <>(\A r \in Records : intake[r] # "none")

=============================================================================
