---------------------------- MODULE SyncSession -----------------------------
(***************************************************************************)
(* One sync session between two Tide devices: both run the same runSession *)
(* over an ordered channel, each pulling what the other advertises and     *)
(* serving the other's pull, with a full-state exchange when two rounds in *)
(* a row brought nothing, and with CHANGES_ACK as the joint terminator.    *)
(*                                                                         *)
(* A device runs from one receive to the next without a break; an action   *)
(* below is one such run.  A record is a number; `have` are the records in *)
(* the changes table, which can be served, `know` those that are not       *)
(* requested (applied, buffered, skipped, covered by a snapshot, one's     *)
(* own), `clock` those that device_clock covers and HELLO advertises.      *)
(* Bounds: a batch carries one record, a snapshot is one message, the poll *)
(* budgets of the short loops exceed what can be in flight (running out of *)
(* one ends the loop as a quiet poll does, which may come at any time).    *)
(***************************************************************************)
EXTENDS Integers, Sequences, FiniteSets

CONSTANTS
  Low, High,   \* the devices, by the order of their ids
  Recs,        \* bound: the records in play, numbers
  MaxPulls,    \* the cap on the iterations of the pull loop
  MaxFaults    \* bound: carriers that fail and devices that hang

ASSUME DeviceAssumption == Low # High
ASSUME RecsAssumption == Recs \subseteq Nat /\ IsFiniteSet(Recs)
ASSUME PullAssumption == MaxPulls \in Nat /\ MaxFaults \in Nat

Devices == {Low, High}
Peer(d) == IF d = Low THEN High ELSE Low

GapRoundLimit == 2

VARIABLES
  have, know, clock,  \* what each device can serve, need not ask, advertises
  peerKey,     \* the name under which a device's own gap offer is remembered
  pc,          \* where the device's runSession awaits
  ret,         \* where it goes on after an offer exchange
  chan,        \* chan[d]: the messages on their way to d
  closed,      \* closed[d]: the peer's end of stream follows them
  stash,       \* messages set aside for later loops
  heard,       \* the clock of the peer's HELLO
  need,        \* the ranges last requested
  gap,         \* gapRetries, and the tracker's streak with it
  pulls,       \* pullIterations
  offered,     \* offers made in this session (OfferDedup)
  faults,      \* faults so far
  \* history
  gapOffers,   \* the devices that emitted a GAP_ROUNDS offer
  streamed,    \* the devices that streamed a snapshot
  late         \* a short wait ran out although the peer was not done

data    == <<have, know, clock>>
pulling == <<heard, need, gap, pulls>>
history == <<gapOffers, streamed, late>>
vars    == <<data, peerKey, pc, ret, chan, closed, stash, pulling, offered,
             faults, history>>

Hello(c)     == [type |-> "HELLO", clock |-> c]
Request(R)   == [type |-> "CHANGES_REQUEST", ranges |-> R]
Batch(R)     == [type |-> "CHANGES_BATCH", changes |-> R]
Offer(g)     == [type |-> "FULL_STATE_OFFER", gapRounds |-> g]
Accept       == [type |-> "FULL_STATE_ACCEPT"]
Snapshot(c)  == [type |-> "FULL_STATE_SNAPSHOT", clock |-> c]
Ack          == [type |-> "CHANGES_ACK"]

Messages ==
  {Accept, Ack} \cup {Offer(g) : g \in BOOLEAN}
    \cup UNION {{Hello(R), Request(R), Batch(R), Snapshot(R)} : R \in SUBSET Recs}

TypeOK ==
  /\ have \in [Devices -> SUBSET Recs]
  /\ know \in [Devices -> SUBSET Recs]
  /\ clock \in [Devices -> SUBSET Recs]
  /\ \A d \in Devices : have[d] \subseteq know[d] /\ know[d] \subseteq clock[d]
  /\ peerKey \in [Devices -> {"clock", "device"}]
  /\ pc \in [Devices -> {"start", "hello", "wait1", "wait2", "drive", "accept",
                         "barrier", "drain", "done", "failed", "hung"}]
  /\ ret \in [Devices -> {"ack", "wait2", "barrier"}]
  /\ chan \in [Devices -> Seq(Messages)]
  /\ stash \in [Devices -> Seq(Messages)]
  /\ closed \in [Devices -> BOOLEAN]
  /\ heard \in [Devices -> SUBSET Recs]
  /\ need \in [Devices -> SUBSET Recs]
  /\ gap \in [Devices -> 0 .. GapRoundLimit]
  /\ pulls \in [Devices -> 0 .. MaxPulls]
  /\ offered \in [Devices -> SUBSET {"clock", "device"}]
  /\ faults \in 0 .. MaxFaults
  /\ gapOffers \subseteq Devices
  /\ streamed \subseteq Devices
  /\ late \in BOOLEAN

Init ==
  /\ have \in [Devices -> SUBSET Recs]
  /\ know \in {k \in [Devices -> SUBSET Recs] : \A d \in Devices : have[d] \subseteq k[d]}
  /\ clock \in {c \in [Devices -> SUBSET Recs] : \A d \in Devices : know[d] \subseteq c[d]}
  /\ peerKey \in [Devices -> {"clock", "device"}]
  /\ pc = [d \in Devices |-> "start"]
  /\ ret = [d \in Devices |-> "ack"]
  /\ chan = [d \in Devices |-> <<>>]
  /\ stash = [d \in Devices |-> <<>>]
  /\ closed = [d \in Devices |-> FALSE]
  /\ heard = [d \in Devices |-> {}]
  /\ need = [d \in Devices |-> {}]
  /\ gap = [d \in Devices |-> 0]
  /\ pulls = [d \in Devices |-> 0]
  /\ offered = [d \in Devices |-> {}]
  /\ faults = 0
  /\ gapOffers = {}
  /\ streamed = {}
  /\ late = FALSE

-----------------------------------------------------------------------------
(* Receiving and sending.                                                  *)

Ended(d) == pc[d] \in {"done", "failed"}

\* Seeded fault: the barrier does not look at the stash.
FromChannelAtBarrier(d) == pc[d] = "wait2" /\ stash[d] # <<>>

\* The second pull wait and the barrier consult the stash before the channel.
FromStash(d) == pc[d] \in {"wait2", "barrier"} /\ stash[d] # <<>>

Inbox(d) == IF FromStash(d) THEN stash[d] ELSE chan[d]

\* What is sent to a device that has left is lost.
Sent(d, out, queues) ==
  [queues EXCEPT ![Peer(d)] = IF Ended(Peer(d)) THEN @ ELSE @ \o out]

\* d sends `out`.
Send(d, out) ==
  /\ chan' = Sent(d, out, chan)
  /\ UNCHANGED stash

\* d takes its next message and sends `out`.
Answer(d, out) ==
  IF FromStash(d)
    THEN /\ stash' = [stash EXCEPT ![d] = Tail(@)]
         /\ chan' = Sent(d, out, chan)
    ELSE /\ chan' = Sent(d, out, [chan EXCEPT ![d] = Tail(@)])
         /\ UNCHANGED stash

\* d takes its next message off the channel and sets it aside.
SetAside(d) ==
  /\ stash' = [stash EXCEPT ![d] = Append(@, Head(chan[d]))]
  /\ chan' = [chan EXCEPT ![d] = Tail(@)]

Awaits(d, where, type) ==
  /\ pc[d] \in where
  /\ Inbox(d) # <<>>
  /\ Head(Inbox(d)).type = type

Goto(d, where) == pc' = [pc EXCEPT ![d] = where]

\* The session of d is over and its socket is closed (session.done).
Leave(d, outcome) ==
  /\ Goto(d, outcome)
  /\ closed' = [closed EXCEPT ![Peer(d)] = TRUE]
  /\ chan' = [chan EXCEPT ![d] = <<>>]
  /\ stash' = [stash EXCEPT ![d] = <<>>]

ApplyBatch(d, R) ==
  /\ have' = [have EXCEPT ![d] = @ \cup R]
  /\ know' = [know EXCEPT ![d] = @ \cup R]
  /\ clock' = [clock EXCEPT ![d] = @ \cup R]

\* The records R in the order of their numbers (there is one such order).
Listings(R) ==
  {s \in [1 .. Cardinality(R) -> R] : \A i, j \in DOMAIN s : i < j => s[i] < s[j]}

\* The answer to a request: a batch for each record held, or an empty batch.
Batches(d, R) ==
  IF have[d] \cap R = {} THEN {<<Batch({})>>}
  ELSE {[i \in DOMAIN s |-> Batch({s[i]})] : s \in Listings(have[d] \cap R)}

-----------------------------------------------------------------------------
(* The pull loop.                                                          *)

\* One automatic offer per peer name and session.
MayOffer(d, key) == key \notin offered[d]

\* One round of the loop of d is over: it lacks `lack`, and has counted
\* `rounds` rounds in a row without progress.
GoOn(d, lack, rounds) ==
  \/ /\ lack # {} /\ rounds < GapRoundLimit /\ pulls[d] < MaxPulls
     /\ Answer(d, <<Request(lack)>>)
     /\ Goto(d, "wait1")
     /\ need' = [need EXCEPT ![d] = lack]
     /\ gap' = [gap EXCEPT ![d] = rounds]
     /\ pulls' = [pulls EXCEPT ![d] = @ + 1]
     /\ UNCHANGED <<ret, offered, gapOffers>>
  \/ /\ rounds >= GapRoundLimit /\ MayOffer(d, peerKey[d])
     /\ Answer(d, <<Offer(TRUE)>>)
     /\ Goto(d, "drive")
     /\ ret' = [ret EXCEPT ![d] = "ack"]
     /\ offered' = [offered EXCEPT ![d] = @ \cup {peerKey[d]}]
     /\ gap' = [gap EXCEPT ![d] = rounds]
     /\ gapOffers' = gapOffers \cup {d}
     /\ UNCHANGED <<need, pulls>>
  \/ /\ \/ rounds < GapRoundLimit /\ (lack = {} \/ pulls[d] = MaxPulls)
        \/ rounds >= GapRoundLimit /\ ~ MayOffer(d, peerKey[d])
     /\ Answer(d, <<Ack>>)
     /\ Goto(d, "barrier")
     /\ gap' = [gap EXCEPT ![d] = rounds]
     /\ UNCHANGED <<ret, need, pulls, offered, gapOffers>>

Start(d) ==
  /\ pc[d] = "start"
  /\ Send(d, <<Hello(clock[d])>>)
  /\ Goto(d, "hello")
  /\ UNCHANGED <<data, peerKey, ret, closed, pulling, offered, faults, history>>

ReceiveHello(d) ==
  /\ Awaits(d, {"hello"}, "HELLO")
  /\ heard' = [heard EXCEPT ![d] = Head(chan[d]).clock]
  /\ GoOn(d, heard'[d] \ know[d], 0)
  /\ UNCHANGED <<data, peerKey, closed, faults, streamed, late>>

\* The batch that the loop waits for. A round is without progress when what
\* is lacking is what was requested.
ReceiveBatch(d) ==
  /\ Awaits(d, {"wait1", "wait2"}, "CHANGES_BATCH")
  /\ ApplyBatch(d, Head(Inbox(d)).changes)
  /\ LET lack == heard[d] \ know'[d]
     IN  GoOn(d, lack, IF lack = need[d] THEN gap[d] + 1 ELSE 0)
  /\ UNCHANGED <<peerKey, closed, heard, faults, streamed, late>>

\* Seeded fault: a request of the peer ends the pull.
EndPullOnRequest(d) ==
  /\ pc[d] = "wait1"
  /\ chan[d] # <<>>
  /\ Head(chan[d]).type # "CHANGES_BATCH"
  /\ stash' = [stash EXCEPT ![d] = Append(@, Head(chan[d]))]
  /\ chan' = Sent(d, <<Ack>>, [chan EXCEPT ![d] = Tail(@)])
  /\ Goto(d, "barrier")
  /\ UNCHANGED <<data, peerKey, ret, closed, pulling, offered, faults, history>>

\* Anything else is set aside, and handled from the second wait on.
StashWhilePulling(d) ==
  /\ pc[d] = "wait1"
  /\ chan[d] # <<>>
  /\ Head(chan[d]).type # "CHANGES_BATCH"
  /\ SetAside(d)
  /\ Goto(d, "wait2")
  /\ UNCHANGED <<data, peerKey, ret, closed, pulling, offered, faults, history>>

-----------------------------------------------------------------------------
(* Serving the peer: while pulling, at the barrier and while draining.     *)

Serving == {"wait2", "barrier", "drain"}

ServeRequest(d) ==
  /\ Awaits(d, Serving, "CHANGES_REQUEST")
  /\ \E out \in Batches(d, Head(Inbox(d)).ranges) : Answer(d, out)
  /\ UNCHANGED <<data, peerKey, pc, ret, closed, pulling, offered, faults,
                 history>>

ApplyLateBatch(d) ==
  /\ Awaits(d, {"barrier", "drain"}, "CHANGES_BATCH")
  /\ ApplyBatch(d, Head(Inbox(d)).changes)
  /\ Answer(d, <<>>)
  /\ UNCHANGED <<peerKey, pc, ret, closed, pulling, offered, faults, history>>

\* A snapshot raises the frontier and the clock; it brings no history.
ApplySnapshot(d, c) ==
  /\ know' = [know EXCEPT ![d] = @ \cup c]
  /\ clock' = [clock EXCEPT ![d] = @ \cup c]
  /\ UNCHANGED have

ReceiveSnapshot(d) ==
  /\ Awaits(d, Serving, "FULL_STATE_SNAPSHOT")
  /\ ApplySnapshot(d, Head(Inbox(d)).clock)
  /\ Answer(d, <<>>)
  /\ UNCHANGED <<peerKey, pc, ret, closed, pulling, offered, faults, history>>

\* The joint terminator.
ReceiveAck(d) ==
  /\ Awaits(d, {"barrier"}, "CHANGES_ACK")
  /\ Answer(d, <<>>)
  /\ Goto(d, "drain")
  /\ UNCHANGED <<data, peerKey, ret, closed, pulling, offered, faults, history>>

\* Messages without effect on the session: an acknowledgement while pulling or
\* draining, an offer while draining, an acceptance that nobody waits for.
Ignore(d) ==
  /\ \/ Awaits(d, {"wait2", "drain"}, "CHANGES_ACK")
     \/ Awaits(d, {"drain"}, "FULL_STATE_OFFER")
     \/ Awaits(d, Serving, "FULL_STATE_ACCEPT")
  /\ Answer(d, <<>>)
  /\ UNCHANGED <<data, peerKey, pc, ret, closed, pulling, offered, faults,
                 history>>

-----------------------------------------------------------------------------
(* The full-state exchange.                                                *)

\* resolveOfferRace: the higher id wins.
WinsRace(d) == d = High

\* d counters the offer it received with one of its own.
Counter(d, gapRounds) ==
  /\ Answer(d, <<Offer(gapRounds)>>)
  /\ Goto(d, "drive")
  /\ ret' = [ret EXCEPT ![d] = pc[d]]
  /\ offered' = [offered EXCEPT ![d] = @ \cup {"device"}]
  /\ UNCHANGED <<data, peerKey, closed, pulling, faults, gapOffers, streamed,
                 late>>

\* d accepts the offer it received and awaits the snapshot.
AcceptOffer(d, back) ==
  /\ Answer(d, <<Accept>>)
  /\ Goto(d, "accept")
  /\ ret' = [ret EXCEPT ![d] = back]
  /\ UNCHANGED <<data, peerKey, closed, pulling, offered, faults, history>>

\* Seeded fault: an offer made for a gap enters the race like any other.
RaceEveryOffer(d) ==
  /\ Awaits(d, {"wait2", "barrier"}, "FULL_STATE_OFFER")
  /\ IF WinsRace(d) THEN Counter(d, FALSE) ELSE AcceptOffer(d, pc[d])

\* An offer made for a gap asks for our state: it is answered with our offer,
\* once. Any other is a race.
HandleIncomingOffer(d) ==
  /\ Awaits(d, {"wait2", "barrier"}, "FULL_STATE_OFFER")
  /\ IF \/ Head(Inbox(d)).gapRounds /\ MayOffer(d, "device")
        \/ WinsRace(d)
       THEN Counter(d, FALSE) ELSE AcceptOffer(d, pc[d])

\* The exchange is over: back to where it was entered, or on to the barrier.
Resume(d) ==
  Goto(d, IF ret[d] = "ack" THEN "barrier" ELSE ret[d])

AckIfPulled(d) == IF ret[d] = "ack" THEN <<Ack>> ELSE <<>>

\* Our offer is accepted: the snapshot goes out.
StreamSnapshot(d) ==
  /\ Awaits(d, {"drive"}, "FULL_STATE_ACCEPT")
  /\ Answer(d, <<Snapshot(clock[d])>> \o AckIfPulled(d))
  /\ Resume(d)
  /\ streamed' = streamed \cup {d}
  /\ UNCHANGED <<data, peerKey, ret, closed, pulling, offered, faults,
                 gapOffers, late>>

\* A rival offer while ours is open: who offered for a gap accepts it, who
\* wins the race lets it pass.
RivalOffer(d) ==
  /\ Awaits(d, {"drive"}, "FULL_STATE_OFFER")
  /\ IF ret[d] # "ack" /\ WinsRace(d)
       THEN /\ Answer(d, <<>>)
            /\ UNCHANGED <<data, peerKey, pc, ret, closed, pulling, offered,
                           faults, history>>
       ELSE AcceptOffer(d, ret[d])

\* The snapshot that was accepted.
TakeSnapshot(d) ==
  /\ Awaits(d, {"accept"}, "FULL_STATE_SNAPSHOT")
  /\ ApplySnapshot(d, Head(chan[d]).clock)
  /\ Answer(d, AckIfPulled(d))
  /\ Resume(d)
  /\ UNCHANGED <<peerKey, ret, closed, pulling, offered, faults, history>>

\* Other traffic during the exchange is kept for the loops after it.
StashDuringExchange(d) ==
  /\ chan[d] # <<>>
  /\ \/ /\ pc[d] = "drive"
        /\ Head(chan[d]).type \notin {"FULL_STATE_ACCEPT", "FULL_STATE_OFFER"}
     \/ /\ pc[d] = "accept"
        /\ Head(chan[d]).type # "FULL_STATE_SNAPSHOT"
  /\ SetAside(d)
  /\ UNCHANGED <<data, peerKey, pc, ret, closed, pulling, offered, faults,
                 history>>

-----------------------------------------------------------------------------
(* Waits that end without a message.                                       *)

Waiting(d) ==
  /\ pc[d] \in {"hello", "wait1", "wait2", "barrier", "drive", "accept", "drain"}
  /\ Inbox(d) = <<>>

\* Nothing is on its way to d, nor will be before d moves or a short wait of
\* the peer ends.
NothingComing(d) == Waiting(d) /\ (Waiting(Peer(d)) \/ Ended(Peer(d)))

\* A short wait (10 ms) of an exchange runs out, possibly because the message
\* is slow, or ends with the stream.
QuietExchange(d) ==
  /\ pc[d] \in {"drive", "accept"}
  /\ Send(d, AckIfPulled(d))
  /\ Resume(d)
  /\ late' = (late \/ ~ NothingComing(d))
  /\ UNCHANGED <<data, peerKey, ret, closed, pulling, offered, faults,
                 gapOffers, streamed>>

\* The drain behind the terminator is quiet: the session has ended.
QuietDrain(d) ==
  /\ pc[d] = "drain"
  /\ Leave(d, "done")
  /\ late' = (late \/ ~ NothingComing(d))
  /\ UNCHANGED <<data, peerKey, ret, pulling, offered, faults, gapOffers,
                 streamed>>

\* The peer's end of stream.
EndOfStream(d) == closed[d] /\ Waiting(d)

\* While pulling it ends the pull; the acknowledgement reaches nobody.
StreamEndsPull(d) ==
  /\ EndOfStream(d) /\ pc[d] \in {"wait1", "wait2"}
  /\ Goto(d, "barrier")
  /\ UNCHANGED <<data, peerKey, ret, chan, closed, stash, pulling, offered,
                 faults, history>>

StreamEndsSession(d) ==
  /\ EndOfStream(d) /\ pc[d] = "barrier"
  /\ Leave(d, "done")
  /\ UNCHANGED <<data, peerKey, ret, pulling, offered, faults, history>>

StreamEndsHello(d) ==
  /\ EndOfStream(d) /\ pc[d] = "hello"
  /\ Leave(d, "failed")
  /\ UNCHANGED <<data, peerKey, ret, pulling, offered, faults, history>>

\* Seeded fault: the pull waits without a bound.
IdleTimeoutOnlyAtBarrier(d) ==
  /\ pc[Peer(d)] = "hung" /\ Waiting(d) /\ pc[d] \in {"hello", "barrier"}
  /\ Leave(d, "failed")
  /\ UNCHANGED <<data, peerKey, ret, pulling, offered, faults, history>>

\* A bounded wait (15 s) runs out: the peer hangs.
IdleTimeout(d) ==
  /\ pc[Peer(d)] = "hung" /\ Waiting(d)
  /\ pc[d] \in {"hello", "wait1", "wait2", "barrier"}
  /\ Leave(d, "failed")
  /\ UNCHANGED <<data, peerKey, ret, pulling, offered, faults, history>>

-----------------------------------------------------------------------------
(* Faults.                                                                 *)

Running(d) == ~ Ended(d) /\ pc[d] # "hung"

\* The device sleeps, or dies without closing its socket.
Hang(d) ==
  /\ faults < MaxFaults
  /\ Running(d)
  /\ Goto(d, "hung")
  /\ faults' = faults + 1
  /\ UNCHANGED <<data, peerKey, ret, chan, closed, stash, pulling, offered,
                 history>>

\* The carrier fails under d: its session ends, and the end of what it sent
\* does not arrive.
CarrierFails(d) ==
  /\ faults < MaxFaults
  /\ Running(d)
  /\ faults' = faults + 1
  /\ Goto(d, "failed")
  /\ closed' = [closed EXCEPT ![Peer(d)] = TRUE]
  /\ \E n \in 0 .. Len(chan[Peer(d)]) :
       chan' = [chan EXCEPT ![d] = <<>>, ![Peer(d)] = SubSeq(@, 1, n)]
  /\ stash' = [stash EXCEPT ![d] = <<>>]
  /\ UNCHANGED <<data, peerKey, ret, pulling, offered, history>>

-----------------------------------------------------------------------------

\* What the code of d does by itself or on a message.
Step(d) ==
  \/ Start(d)
  \/ ReceiveHello(d)
  \/ ReceiveBatch(d)
  \/ StashWhilePulling(d)
  \/ ServeRequest(d)
  \/ ApplyLateBatch(d)
  \/ ReceiveSnapshot(d)
  \/ ReceiveAck(d)
  \/ Ignore(d)
  \/ HandleIncomingOffer(d)
  \/ StreamSnapshot(d)
  \/ RivalOffer(d)
  \/ TakeSnapshot(d)
  \/ StashDuringExchange(d)
  \/ QuietExchange(d)
  \/ QuietDrain(d)
  \/ StreamEndsPull(d)
  \/ StreamEndsSession(d)
  \/ StreamEndsHello(d)
  \/ IdleTimeout(d)

Next == \E d \in Devices : Step(d) \/ Hang(d) \/ CarrierFails(d)

Spec == Init /\ [][Next]_vars

\* The event loop of a device that runs goes on, and its timers fire.
Fairness == \A d \in Devices : WF_vars(Step(d))

FairSpec == Spec /\ Fairness

-----------------------------------------------------------------------------
(* Properties.                                                             *)

BothDone == \A d \in Devices : pc[d] = "done"

\* The two devices never wait for each other with nothing on the way, so that
\* only the idle bound could end the session (DC-08 A.2, A.3; TD-020).
NoMutualWait ==
  ~ \A d \in Devices :
      /\ pc[d] \in {"hello", "wait1", "wait2", "barrier"}
      /\ Inbox(d) = <<>>
      /\ ~ closed[d]

\* A session that both sides end in order has transferred everything that one
\* advertised, the other lacked and could be served, unless the pull loop
\* reached its cap: neither side tears the session down under the other's
\* pull, whatever the order of requests, offers and acknowledgements.
PullCompletes ==
  BothDone =>
    \A d \in Devices :
      pulls[d] < MaxPulls => heard[d] \cap have[Peer(d)] \subseteq know[d]

\* When only one side has a gap that the other cannot serve record by record,
\* and no answer comes too late for the short waits, the session closes the
\* gap with a snapshot, whichever of the two has the higher id
\* (handleIncomingOffer, driveFullStateOffer; QA C-1).
GapHeals ==
  BothDone /\ ~ late =>
    \A d \in Devices :
      gapOffers = {d} => heard[d] \subseteq know[d]

\* Every session ends, even when the peer hangs (receiveIdleBounded).
SessionEnds ==
  <> \A d \in Devices : Ended(d) \/ pc[d] = "hung"

\* DC-09 TR-10: "with both sides offering in the same session, exactly one
\* snapshot transfer completes per pair".
RaceHasAWinner ==
  BothDone /\ ~ late /\ gapOffers = Devices => streamed # {}
=============================================================================
