------------------------- MODULE SyncSession_proofs -------------------------
(***************************************************************************)
(* Proofs that the two devices of a session never wait for each other,     *)
(* that both pulls are complete when both have ended in order, and that an *)
(* exchange begun for a gap closes it: for any records, any cap on the     *)
(* pull loop, answers that come late and any number of faults.             *)
(***************************************************************************)
EXTENDS SyncSession, SequenceTheorems, FiniteSetTheorems, TLAPS

-----------------------------------------------------------------------------
(* The inductive invariant.                                                *)

Holds(q, t) == \E i \in DOMAIN q : q[i].type = t

\* A message of type t is on its way to d, or was set aside by it.
Has(d, t) == Holds(chan[d], t) \/ Holds(stash[d], t)

\* d is at `where`, or in an offer exchange that it entered from there.
Within(d, where) ==
  pc[d] = where \/ (pc[d] \in {"drive", "accept"} /\ ret[d] = where)

\* The socket of a session is closed when it is over.
EndIsTold == \A d \in Devices : Ended(d) <=> closed[Peer(d)]

\* A device whose pull loop runs has not yet given up on progress.
StreakIsShort ==
  \A d \in Devices : pc[d] = "wait1" \/ Within(d, "wait2") => gap[d] < GapRoundLimit

\* HELLO is the first message, and nothing is set aside before it.
HelloComes ==
  \A d \in Devices : pc[d] \in {"start", "hello"} =>
    /\ stash[d] = <<>>
    /\ pc[Peer(d)] \notin {"start", "hung"} /\ ~ closed[d] => chan[d] # <<>>

\* A device that waits for a batch has a request with the peer, or a batch to come.
PullAnswered ==
  \A d \in Devices : ~ closed[d] =>
    /\ pc[d] = "wait1" =>
         Has(Peer(d), "CHANGES_REQUEST") \/ Holds(chan[d], "CHANGES_BATCH")
    /\ Within(d, "wait2") =>
         Has(Peer(d), "CHANGES_REQUEST") \/ Has(d, "CHANGES_BATCH")

\* Of two devices in their first wait, the later has just sent its request.
WaitsCross ==
  (\A d \in Devices : pc[d] = "wait1" /\ ~ closed[d]) => \E d \in Devices : chan[d] # <<>>

\* Of two devices at the barrier, one has the acknowledgement of the other: who
\* ignored the peer's while pulling sent its own afterwards.
AcksMeet ==
  (\A d \in Devices : Within(d, "barrier") /\ ~ closed[d]) =>
    \E d \in Devices : Has(d, "CHANGES_ACK")

Meeting ==
  /\ EndIsTold /\ StreakIsShort /\ HelloComes /\ PullAnswered /\ WaitsCross /\ AcksMeet

IInv == TypeOK /\ Meeting

-----------------------------------------------------------------------------
(* Devices, messages and queues.                                           *)

LEMMA TwoSides ==
  ASSUME NEW d \in Devices
  PROVE  /\ Peer(d) \in Devices /\ Peer(d) # d /\ Peer(Peer(d)) = d
         /\ \A b \in Devices : b = d \/ b = Peer(d)
BY DeviceAssumption DEF Devices, Peer

\* What the messages carry.
LEMMA Carried ==
  ASSUME NEW m \in Messages
  PROVE  /\ m.type = "HELLO" => m.clock \subseteq Recs
         /\ m.type = "CHANGES_REQUEST" => m.ranges \subseteq Recs
         /\ m.type = "CHANGES_BATCH" => m.changes \subseteq Recs
         /\ m.type = "FULL_STATE_SNAPSHOT" => m.clock \subseteq Recs
<1>1. CASE m = Accept \/ m = Ack
  BY <1>1 DEF Accept, Ack
<1>2. ASSUME NEW g \in BOOLEAN, m = Offer(g)
      PROVE  m.type = "FULL_STATE_OFFER"
  BY <1>2 DEF Offer
<1>3. ASSUME NEW R \in SUBSET Recs, m \in {Hello(R), Request(R), Batch(R), Snapshot(R)}
      PROVE  \/ m.type = "HELLO" /\ m.clock = R
             \/ m.type = "CHANGES_REQUEST" /\ m.ranges = R
             \/ m.type = "CHANGES_BATCH" /\ m.changes = R
             \/ m.type = "FULL_STATE_SNAPSHOT" /\ m.clock = R
  BY <1>3 DEF Hello, Request, Batch, Snapshot
<1>4. \/ m = Accept \/ m = Ack
      \/ \E g \in BOOLEAN : m = Offer(g)
      \/ \E R \in SUBSET Recs : m \in {Hello(R), Request(R), Batch(R), Snapshot(R)}
  BY DEF Messages
<1> QED
  BY <1>1, <1>2, <1>3, <1>4

LEMMA MessagesTyped ==
  /\ Accept \in Messages /\ Ack \in Messages
  /\ \A g \in BOOLEAN : Offer(g) \in Messages
  /\ \A R \in SUBSET Recs : /\ Hello(R) \in Messages /\ Request(R) \in Messages
                            /\ Batch(R) \in Messages /\ Snapshot(R) \in Messages
BY DEF Messages

LEMMA HoldsSome ==
  ASSUME NEW q \in Seq(Messages), NEW t, Holds(q, t)
  PROVE  q # <<>>
BY DEF Holds

LEMMA HoldsAppend ==
  ASSUME NEW q \in Seq(Messages), NEW m \in Messages, NEW t, Holds(q, t) \/ m.type = t
  PROVE  Holds(Append(q, m), t)
<1>1. CASE Holds(q, t)
  <2>1. PICK i \in DOMAIN q : q[i].type = t
    BY <1>1 DEF Holds
  <2>2. i \in DOMAIN Append(q, m) /\ Append(q, m)[i] = q[i]
    OBVIOUS
  <2> QED
    BY <2>1, <2>2 DEF Holds
<1>2. CASE m.type = t
  <2>1. Len(q) + 1 \in DOMAIN Append(q, m) /\ Append(q, m)[Len(q) + 1] = m
    OBVIOUS
  <2> QED
    BY <1>2, <2>1 DEF Holds
<1> QED
  BY <1>1, <1>2

LEMMA HoldsConcat ==
  ASSUME NEW q \in Seq(Messages), NEW r \in Seq(Messages), NEW t, Holds(q, t) \/ Holds(r, t)
  PROVE  Holds(q \o r, t)
<1>1. CASE Holds(q, t)
  <2>1. PICK i \in DOMAIN q : q[i].type = t
    BY <1>1 DEF Holds
  <2>2. i \in DOMAIN (q \o r) /\ (q \o r)[i] = q[i]
    OBVIOUS
  <2> QED
    BY <2>1, <2>2 DEF Holds
<1>2. CASE Holds(r, t)
  <2>1. PICK i \in DOMAIN r : r[i].type = t
    BY <1>2 DEF Holds
  <2>2. Len(q) + i \in DOMAIN (q \o r) /\ (q \o r)[Len(q) + i] = r[i]
    OBVIOUS
  <2> QED
    BY <2>1, <2>2 DEF Holds
<1> QED
  BY <1>1, <1>2

LEMMA ConcatSome ==
  ASSUME NEW q \in Seq(Messages), NEW r \in Seq(Messages), q # <<>> \/ r # <<>>
  PROVE  q \o r # <<>>
<1>1. Len(q \o r) = Len(q) + Len(r) /\ Len(q) \in Nat /\ Len(r) \in Nat
  OBVIOUS
<1>2. Len(q) > 0 \/ Len(r) > 0
  BY EmptySeq
<1> QED
  BY <1>1, <1>2

LEMMA HoldsTail ==
  ASSUME NEW q \in Seq(Messages), q # <<>>, NEW t, Holds(q, t), Head(q).type # t
  PROVE  Holds(Tail(q), t)
<1>1. PICK i \in DOMAIN q : q[i].type = t
  BY DEF Holds
<1>2. i # 1
  BY <1>1
<1>3. i - 1 \in DOMAIN Tail(q) /\ Tail(q)[i - 1] = q[i]
  BY <1>1, <1>2
<1> QED
  BY <1>1, <1>3 DEF Holds

\* The answers to a request are batches, and there is one at least.
LEMMA BatchesTyped ==
  ASSUME TypeOK, NEW d \in Devices, NEW R \in SUBSET Recs, NEW out \in Batches(d, R)
  PROVE  out \in Seq(Messages) /\ Holds(out, "CHANGES_BATCH")
<1> DEFINE served == have[d] \cap R
<1>1. served \subseteq Recs /\ IsFiniteSet(served)
  <2>1. served \subseteq Recs
    OBVIOUS
  <2> QED
    BY <2>1, RecsAssumption, FS_Subset
<1>2. CASE served = {}
  <2>1. out = <<Batch({})>>
    BY <1>2 DEF Batches
  <2>2. Batch({}) \in Messages /\ Batch({}).type = "CHANGES_BATCH"
    BY MessagesTyped DEF Batch
  <2>3. out \in Seq(Messages) /\ 1 \in DOMAIN out /\ out[1] = Batch({})
    BY <2>1, <2>2
  <2> QED
    BY <2>2, <2>3 DEF Holds
<1>3. CASE served # {}
  <2>1. PICK s \in Listings(served) : out = [i \in DOMAIN s |-> Batch({s[i]})]
    BY <1>3 DEF Batches
  <2>2. s \in [1 .. Cardinality(served) -> served]
    BY <2>1 DEF Listings
  <2>3. Cardinality(served) \in Nat /\ Cardinality(served) # 0
    BY <1>1, <1>3, FS_CardinalityType, FS_EmptySet
  <2> DEFINE n == Cardinality(served)
  <2>4. \A i \in 1 .. n : {s[i]} \in SUBSET Recs
    BY <1>1, <2>2
  <2> HIDE DEF n, served
  <2>5. out = [i \in 1 .. n |-> Batch({s[i]})]
    BY <2>1, <2>2 DEF n
  <2>6. \A i \in 1 .. n : out[i] \in Messages /\ out[i].type = "CHANGES_BATCH"
    <3> TAKE i \in 1 .. n
    <3>1. out[i] = Batch({s[i]})
      BY <2>5
    <3>2. Batch({s[i]}) \in Messages
      BY <2>4, MessagesTyped
    <3> QED
      BY <3>1, <3>2 DEF Batch
  <2>7. n \in Nat /\ 1 \in 1 .. n
    BY <2>3 DEF n
  <2>8. out \in Seq(Messages) /\ DOMAIN out = 1 .. n
    BY <2>5, <2>6, <2>7
  <2> QED
    BY <2>6, <2>7, <2>8 DEF Holds
<1> QED
  BY <1>2, <1>3

-----------------------------------------------------------------------------
(* What a step of d does to the two devices.                               *)

QueuesTyped == chan \in [Devices -> Seq(Messages)] /\ stash \in [Devices -> Seq(Messages)]

\* Something for the peer of d is appended to its channel, and its stash is its own.
Reaches(d, out) ==
  /\ stash'[Peer(d)] = stash[Peer(d)]
  /\ chan'[Peer(d)] = IF Ended(Peer(d)) THEN chan[Peer(d)] ELSE chan[Peer(d)] \o out

\* Of what d has, only messages of the types T may be taken away.
Takes(d, T) == \A t : Has(d, t) /\ t \notin T => Has(d, t)'

\* What is common to all steps of d: the peer stays where it is, and what is on
\* its way to it stays unless the carrier is closed.
Apart(d) ==
  /\ \A b \in Devices : b # d => pc'[b] = pc[b] /\ ret'[b] = ret[b] /\ gap'[b] = gap[b]
  /\ closed'[d] = closed[d] /\ (closed[Peer(d)] => closed'[Peer(d)])
  /\ stash'[Peer(d)] = stash[Peer(d)]
  /\ ~ closed'[Peer(d)] =>
       /\ \A t : Holds(chan[Peer(d)], t) => Holds(chan'[Peer(d)], t)
       /\ chan[Peer(d)] # <<>> => chan'[Peer(d)] # <<>>

\* What a step of d may do, as far as the waits are concerned.
Effects(d) ==
  /\ Apart(d) /\ pc[d] # "hung"
  /\ Ended(d)' <=> closed'[Peer(d)]
  /\ pc'[d] = "wait1" \/ Within(d, "wait2")' => gap'[d] < GapRoundLimit
  /\ pc'[d] \in {"start", "hello"} =>
       pc[d] = "start" /\ stash'[d] = stash[d] /\ chan'[d] = chan[d]
  /\ pc[d] = "start" /\ pc'[d] # "hung" /\ ~ closed'[Peer(d)] /\ ~ Ended(Peer(d))
       => chan'[Peer(d)] # <<>>
  /\ pc'[d] = "wait1" =>
       Ended(Peer(d)) \/ Holds(chan'[Peer(d)], "CHANGES_REQUEST")
  /\ Within(d, "wait2")' =>
       /\ pc[d] = "wait1" \/ Within(d, "wait2")
       /\ Has(d, "CHANGES_BATCH") => Has(d, "CHANGES_BATCH")'
  /\ Has(d, "CHANGES_REQUEST") /\ ~ closed'[Peer(d)] /\ ~ Ended(Peer(d)) =>
       Has(d, "CHANGES_REQUEST")' \/ Holds(chan'[Peer(d)], "CHANGES_BATCH")
  /\ Within(d, "barrier")' =>
       \/ closed[d] \/ Ended(Peer(d))
       \/ Has(Peer(d), "CHANGES_ACK")'
       \/ Within(d, "barrier") /\ (Has(d, "CHANGES_ACK") => Has(d, "CHANGES_ACK")')

\* A step with these effects keeps the invariant of the waits.
LEMMA EffectsSuffice ==
  ASSUME TypeOK, TypeOK', Meeting, NEW d \in Devices, Effects(d)
  PROVE  Meeting'
<1> DEFINE p == Peer(d)
<1>1. /\ p \in Devices /\ p # d /\ Peer(p) = d /\ \A b \in Devices : b = d \/ b = p
  BY TwoSides
<1>2. /\ pc'[p] = pc[p] /\ ret'[p] = ret[p] /\ gap'[p] = gap[p]
      /\ closed'[d] = closed[d] /\ (closed[p] => closed'[p])
      /\ stash'[p] = stash[p]
  BY <1>1 DEF Effects, Apart
<1>3. ~ closed'[p] =>
        /\ \A t : Has(p, t) => Has(p, t)'
        /\ \A t : Holds(chan[p], t) => Holds(chan'[p], t)
        /\ chan[p] # <<>> => chan'[p] # <<>>
  BY <1>2 DEF Effects, Apart, Has
<1>4. EndIsTold'
  <2>1. Ended(d)' <=> closed'[p]
    BY DEF Effects
  <2>2. Ended(p)' <=> closed'[d]
    BY <1>1, <1>2 DEF Meeting, EndIsTold, Ended
  <2> QED
    BY <1>1, <2>1, <2>2 DEF EndIsTold
<1>5. Ended(p) => closed'[d]
  BY <1>1, <1>2 DEF Meeting, EndIsTold
<1>6. StreakIsShort'
  <2>1. pc'[d] = "wait1" \/ Within(d, "wait2")' => gap'[d] < GapRoundLimit
    BY DEF Effects
  <2>2. pc'[p] = "wait1" \/ Within(p, "wait2")' => gap'[p] < GapRoundLimit
    BY <1>1, <1>2 DEF Meeting, StreakIsShort, Within
  <2> QED
    BY <1>1, <2>1, <2>2 DEF StreakIsShort
<1>7. HelloComes'
  <2>1. pc'[d] \in {"start", "hello"} =>
          /\ stash'[d] = <<>>
          /\ pc'[p] \notin {"start", "hung"} /\ ~ closed'[d] => chan'[d] # <<>>
    <3>1. SUFFICES ASSUME pc'[d] \in {"start", "hello"}
                   PROVE  /\ stash'[d] = <<>>
                          /\ pc'[p] \notin {"start", "hung"} /\ ~ closed'[d] => chan'[d] # <<>>
      OBVIOUS
    <3>2. pc[d] = "start" /\ stash'[d] = stash[d] /\ chan'[d] = chan[d]
      BY <3>1 DEF Effects
    <3> QED
      BY <1>1, <1>2, <3>2 DEF Meeting, HelloComes
  <2>2. pc'[p] \in {"start", "hello"} =>
          /\ stash'[p] = <<>>
          /\ pc'[d] \notin {"start", "hung"} /\ ~ closed'[p] => chan'[p] # <<>>
    <3>1. SUFFICES ASSUME pc[p] \in {"start", "hello"}
                   PROVE  /\ stash'[p] = <<>>
                          /\ pc'[d] \notin {"start", "hung"} /\ ~ closed'[p] => chan'[p] # <<>>
      BY <1>2
    <3>2. stash'[p] = <<>>
      BY <1>1, <1>2, <3>1 DEF Meeting, HelloComes
    <3>3. ASSUME pc'[d] \notin {"start", "hung"}, ~ closed'[p]
          PROVE  chan'[p] # <<>>
      <4>1. ~ Ended(p)
        BY <3>1 DEF Ended
      <4>2. CASE pc[d] = "start"
        BY <3>3, <4>1, <4>2 DEF Effects
      <4>3. CASE pc[d] = "hung"
        BY <3>3, <4>3 DEF Effects
      <4>4. CASE pc[d] \notin {"start", "hung"}
        BY <1>1, <1>2, <1>3, <3>1, <3>3, <4>4 DEF Meeting, HelloComes
      <4> QED
        BY <4>2, <4>3, <4>4
    <3> QED
      BY <3>2, <3>3
  <2> QED
    BY <1>1, <2>1, <2>2 DEF HelloComes
<1>8. PullAnswered'
  <2>1. ASSUME ~ closed[d], pc'[d] = "wait1"
        PROVE  Has(p, "CHANGES_REQUEST")'
    <3>1. ~ Ended(p)
      BY <1>2, <1>5, <2>1
    <3> QED
      BY <2>1, <3>1 DEF Effects, Has
  <2>2. ASSUME ~ closed[d], Within(d, "wait2")'
        PROVE  Has(p, "CHANGES_REQUEST")' \/ Has(d, "CHANGES_BATCH")'
    <3>1. pc[d] = "wait1" \/ Within(d, "wait2")
      BY <2>2 DEF Effects
    <3>2. Has(p, "CHANGES_REQUEST") \/ Has(d, "CHANGES_BATCH")
      BY <2>2, <3>1 DEF Meeting, PullAnswered, Has
    <3>3. Has(d, "CHANGES_BATCH") => Has(d, "CHANGES_BATCH")'
      BY <2>2 DEF Effects
    <3>4. ~ closed'[p]
      BY <2>2 DEF Effects, Ended, Within
    <3>5. Has(p, "CHANGES_REQUEST") => Has(p, "CHANGES_REQUEST")'
      BY <1>3, <3>4
    <3> QED
      BY <3>2, <3>3, <3>5
  <2>3. ASSUME ~ closed[p], pc[p] = "wait1", ~ closed'[p]
        PROVE  Has(d, "CHANGES_REQUEST")' \/ Holds(chan'[p], "CHANGES_BATCH")
    <3>1. Has(d, "CHANGES_REQUEST") \/ Holds(chan[p], "CHANGES_BATCH")
      BY <1>1, <2>3 DEF Meeting, PullAnswered
    <3>2. ~ Ended(p)
      BY <2>3 DEF Ended
    <3>3. CASE Has(d, "CHANGES_REQUEST")
      BY <2>3, <3>2, <3>3 DEF Effects
    <3>4. CASE Holds(chan[p], "CHANGES_BATCH")
      BY <1>3, <2>3, <3>4
    <3> QED
      BY <3>1, <3>3, <3>4
  <2>4. ASSUME ~ closed[p], Within(p, "wait2"), ~ closed'[p]
        PROVE  Has(d, "CHANGES_REQUEST")' \/ Has(p, "CHANGES_BATCH")'
    <3>1. Has(d, "CHANGES_REQUEST") \/ Has(p, "CHANGES_BATCH")
      BY <1>1, <2>4 DEF Meeting, PullAnswered
    <3>2. ~ Ended(p)
      BY <2>4 DEF Ended, Within
    <3>3. CASE Has(d, "CHANGES_REQUEST")
      BY <2>4, <3>2, <3>3 DEF Effects, Has
    <3>4. CASE Has(p, "CHANGES_BATCH")
      BY <1>3, <2>4, <3>4
    <3> QED
      BY <3>1, <3>3, <3>4
  <2>5. ~ closed'[d] =>
          /\ pc'[d] = "wait1" => Has(p, "CHANGES_REQUEST")' \/ Holds(chan'[d], "CHANGES_BATCH")
          /\ Within(d, "wait2")' => Has(p, "CHANGES_REQUEST")' \/ Has(d, "CHANGES_BATCH")'
    BY <1>2, <2>1, <2>2
  <2>6. ~ closed'[p] =>
          /\ pc'[p] = "wait1" => Has(d, "CHANGES_REQUEST")' \/ Holds(chan'[p], "CHANGES_BATCH")
          /\ Within(p, "wait2")' => Has(d, "CHANGES_REQUEST")' \/ Has(p, "CHANGES_BATCH")'
    <3>1. Within(p, "wait2")' <=> Within(p, "wait2")
      BY <1>2 DEF Within
    <3> QED
      BY <1>2, <2>3, <2>4, <3>1
  <2> HIDE DEF p
  <2>7. ASSUME NEW b \in Devices, ~ closed'[b]
        PROVE  /\ pc'[b] = "wait1" =>
                    Has(Peer(b), "CHANGES_REQUEST")' \/ Holds(chan'[b], "CHANGES_BATCH")
               /\ Within(b, "wait2")' =>
                    Has(Peer(b), "CHANGES_REQUEST")' \/ Has(b, "CHANGES_BATCH")'
    <3>1. CASE b = d
      <4>1. Peer(b) = p
        BY <3>1 DEF p
      <4> QED
        BY <2>5, <2>7, <3>1, <4>1
    <3>2. CASE b = p
      BY <1>1, <2>6, <2>7, <3>2
    <3> QED
      BY <1>1, <3>1, <3>2
  <2> QED
    BY <2>7 DEF PullAnswered
<1>9. WaitsCross'
  <2>1. SUFFICES ASSUME pc'[d] = "wait1", ~ closed'[d]
                 PROVE  chan'[p] # <<>>
    BY <1>1 DEF WaitsCross
  <2>2. ~ Ended(p)
    BY <1>5, <2>1
  <2>3. Holds(chan'[p], "CHANGES_REQUEST") /\ chan'[p] \in Seq(Messages)
    BY <1>1, <2>1, <2>2 DEF Effects, TypeOK
  <2> QED
    BY <2>3, HoldsSome
<1>10. AcksMeet'
  <2>1. SUFFICES ASSUME Within(d, "barrier")', Within(p, "barrier")', ~ closed'[d], ~ closed'[p]
                 PROVE  Has(d, "CHANGES_ACK")' \/ Has(p, "CHANGES_ACK")'
    BY <1>1 DEF AcksMeet
  <2>2. Within(p, "barrier") /\ ~ closed[d] /\ ~ closed[p] /\ ~ Ended(p)
    BY <1>2, <1>5, <2>1 DEF Within
  <2>3. CASE Has(p, "CHANGES_ACK")'
    BY <2>3
  <2>4. CASE Within(d, "barrier") /\ (Has(d, "CHANGES_ACK") => Has(d, "CHANGES_ACK")')
    <3>1. Has(d, "CHANGES_ACK") \/ Has(p, "CHANGES_ACK")
      BY <1>1, <2>2, <2>4 DEF Meeting, AcksMeet
    <3> QED
      BY <1>3, <2>1, <2>4, <3>1
  <2> QED
    BY <2>1, <2>2, <2>3, <2>4 DEF Effects
<1> QED
  BY <1>4, <1>6, <1>7, <1>8, <1>9, <1>10 DEF Meeting

-----------------------------------------------------------------------------
(* What sending and receiving do to the queues.                            *)

LEMMA QueuesHere ==
  ASSUME TypeOK
  PROVE  QueuesTyped
BY DEF TypeOK, QueuesTyped

LEMMA SentTo ==
  ASSUME NEW queues \in [Devices -> Seq(Messages)], NEW d \in Devices,
         NEW out \in Seq(Messages)
  PROVE  /\ Sent(d, out, queues) \in [Devices -> Seq(Messages)]
         /\ Sent(d, out, queues)[d] = queues[d]
         /\ Sent(d, out, queues)[Peer(d)] =
              IF Ended(Peer(d)) THEN queues[Peer(d)] ELSE queues[Peer(d)] \o out
<1>1. Peer(d) \in Devices /\ Peer(d) # d
  BY TwoSides
<1>2. queues[Peer(d)] \in Seq(Messages) /\ queues[Peer(d)] \o out \in Seq(Messages)
  BY <1>1
<1> QED
  BY <1>1, <1>2 DEF Sent

LEMMA SendReaches ==
  ASSUME TypeOK, NEW d \in Devices, NEW out \in Seq(Messages), Send(d, out)
  PROVE  QueuesTyped' /\ Reaches(d, out) /\ chan'[d] = chan[d] /\ stash' = stash
<1>1. QueuesTyped
  BY QueuesHere
<1> QED
  BY <1>1, SentTo DEF Send, QueuesTyped, Reaches

LEMMA AnswerReaches ==
  ASSUME TypeOK, NEW d \in Devices, NEW out \in Seq(Messages), Inbox(d) # <<>>,
         Answer(d, out)
  PROVE  QueuesTyped' /\ Reaches(d, out) /\ Takes(d, {Head(Inbox(d)).type})
<1>1. QueuesTyped /\ Peer(d) \in Devices /\ Peer(d) # d
  BY QueuesHere, TwoSides
<1>2. CASE FromStash(d)
  <2>1. /\ stash' = [stash EXCEPT ![d] = Tail(@)] /\ chan' = Sent(d, out, chan)
        /\ Inbox(d) = stash[d]
    BY <1>2 DEF Answer, Inbox
  <2>2. QueuesTyped' /\ Reaches(d, out) /\ chan'[d] = chan[d] /\ stash'[d] = Tail(stash[d])
    <3>1. /\ chan' \in [Devices -> Seq(Messages)] /\ chan'[d] = chan[d]
          /\ chan'[Peer(d)] = IF Ended(Peer(d)) THEN chan[Peer(d)] ELSE chan[Peer(d)] \o out
      BY <1>1, <2>1, SentTo DEF QueuesTyped
    <3>2. stash[d] # <<>> /\ stash[d] \in Seq(Messages)
      BY <1>1, <2>1 DEF QueuesTyped
    <3>3. Tail(stash[d]) \in Seq(Messages)
      BY <3>2
    <3>4. /\ stash' \in [Devices -> Seq(Messages)] /\ stash'[d] = Tail(stash[d])
          /\ stash'[Peer(d)] = stash[Peer(d)]
      BY <1>1, <2>1, <3>3 DEF QueuesTyped
    <3> QED
      BY <3>1, <3>4 DEF QueuesTyped, Reaches
  <2>3. \A t : Holds(stash[d], t) /\ t # Head(stash[d]).type => Holds(stash'[d], t)
    BY <1>1, <2>1, <2>2, HoldsTail DEF QueuesTyped
  <2> QED
    BY <2>1, <2>2, <2>3 DEF Takes, Has
<1>3. CASE ~ FromStash(d)
  <2> DEFINE queues == [chan EXCEPT ![d] = Tail(@)]
  <2>1. stash' = stash /\ chan' = Sent(d, out, queues) /\ Inbox(d) = chan[d]
    BY <1>3 DEF Answer, Inbox
  <2>2. /\ queues \in [Devices -> Seq(Messages)]
        /\ queues[d] = Tail(chan[d]) /\ queues[Peer(d)] = chan[Peer(d)]
    BY <1>1, <2>1 DEF QueuesTyped
  <2> HIDE DEF queues
  <2>3. QueuesTyped' /\ Reaches(d, out) /\ chan'[d] = Tail(chan[d])
    <3>1. /\ chan' \in [Devices -> Seq(Messages)] /\ chan'[d] = queues[d]
          /\ chan'[Peer(d)] =
               IF Ended(Peer(d)) THEN queues[Peer(d)] ELSE queues[Peer(d)] \o out
      BY <2>1, <2>2, SentTo
    <3> QED
      BY <1>1, <2>1, <2>2, <3>1 DEF QueuesTyped, Reaches
  <2>4. \A t : Holds(chan[d], t) /\ t # Head(chan[d]).type => Holds(chan'[d], t)
    BY <1>1, <2>1, <2>3, HoldsTail DEF QueuesTyped
  <2> QED
    BY <2>1, <2>3, <2>4 DEF Takes, Has
<1> QED
  BY <1>2, <1>3

LEMMA SetAsideTakes ==
  ASSUME TypeOK, NEW d \in Devices, chan[d] # <<>>, SetAside(d)
  PROVE  QueuesTyped' /\ Reaches(d, <<>>) /\ Takes(d, {})
<1>1. QueuesTyped /\ Peer(d) \in Devices /\ Peer(d) # d
  BY QueuesHere, TwoSides
<1>2. Head(chan[d]) \in Messages /\ Tail(chan[d]) \in Seq(Messages)
  BY <1>1 DEF QueuesTyped
<1>3. /\ QueuesTyped'
      /\ chan'[d] = Tail(chan[d]) /\ chan'[Peer(d)] = chan[Peer(d)]
      /\ stash'[d] = Append(stash[d], Head(chan[d])) /\ stash'[Peer(d)] = stash[Peer(d)]
  BY <1>1, <1>2 DEF SetAside, QueuesTyped
<1>4. chan[Peer(d)] \o <<>> = chan[Peer(d)]
  BY <1>1 DEF QueuesTyped
<1>5. ASSUME NEW t, Has(d, t)
      PROVE  Has(d, t)'
  <2>1. CASE Holds(stash[d], t)
    BY <1>1, <1>2, <1>3, <2>1, HoldsAppend DEF QueuesTyped, Has
  <2>2. CASE Holds(chan[d], t) /\ Head(chan[d]).type # t
    BY <1>1, <1>3, <2>2, HoldsTail DEF QueuesTyped, Has
  <2>3. CASE Head(chan[d]).type = t
    BY <1>1, <1>2, <1>3, <2>3, HoldsAppend DEF QueuesTyped, Has
  <2> QED
    BY <1>5, <2>1, <2>2, <2>3 DEF Has
<1> QED
  BY <1>3, <1>4, <1>5 DEF Reaches, Takes

\* What is appended takes nothing away, and is there unless the peer has left.
LEMMA ReachedStays ==
  ASSUME TypeOK, NEW d \in Devices, NEW out \in Seq(Messages), Reaches(d, out)
  PROVE  /\ \A t : Holds(chan[Peer(d)], t) => Holds(chan'[Peer(d)], t)
         /\ chan[Peer(d)] # <<>> => chan'[Peer(d)] # <<>>
         /\ \A t : Holds(out, t) /\ ~ Ended(Peer(d)) => Holds(chan'[Peer(d)], t)
         /\ out # <<>> /\ ~ Ended(Peer(d)) => chan'[Peer(d)] # <<>>
<1>1. chan[Peer(d)] \in Seq(Messages)
  BY TwoSides DEF TypeOK
<1>2. CASE Ended(Peer(d))
  BY <1>2 DEF Reaches
<1>3. CASE ~ Ended(Peer(d))
  <2>1. chan'[Peer(d)] = chan[Peer(d)] \o out
    BY <1>3 DEF Reaches
  <2> QED
    BY <1>1, <2>1, HoldsConcat, ConcatSome
<1> QED
  BY <1>2, <1>3

\* A step that only sends, and changes pc, ret and gap of d alone.
LEMMA StaysApart ==
  ASSUME TypeOK, NEW d \in Devices, NEW out \in Seq(Messages), Reaches(d, out),
         closed' = closed,
         NEW w, pc' = [pc EXCEPT ![d] = w],
         NEW r, ret' = [ret EXCEPT ![d] = r],
         NEW g, gap' = [gap EXCEPT ![d] = g]
  PROVE  Apart(d)
<1>1. \A b \in Devices : b # d => pc'[b] = pc[b] /\ ret'[b] = ret[b] /\ gap'[b] = gap[b]
  BY DEF TypeOK
<1> QED
  BY <1>1, ReachedStays DEF Apart, Reaches

-----------------------------------------------------------------------------
(* The types, in parts.                                                    *)

PlacesTyped ==
  /\ pc \in [Devices -> {"start", "hello", "wait1", "wait2", "drive", "accept",
                         "barrier", "drain", "done", "failed", "hung"}]
  /\ ret \in [Devices -> {"ack", "wait2", "barrier"}]
  /\ closed \in [Devices -> BOOLEAN]

DataTyped ==
  /\ have \in [Devices -> SUBSET Recs]
  /\ know \in [Devices -> SUBSET Recs]
  /\ clock \in [Devices -> SUBSET Recs]
  /\ \A d \in Devices : have[d] \subseteq know[d] /\ know[d] \subseteq clock[d]

PullTyped ==
  /\ heard \in [Devices -> SUBSET Recs]
  /\ need \in [Devices -> SUBSET Recs]
  /\ gap \in [Devices -> 0 .. GapRoundLimit]
  /\ pulls \in [Devices -> 0 .. MaxPulls]

OffersTyped ==
  /\ peerKey \in [Devices -> {"clock", "device"}]
  /\ offered \in [Devices -> SUBSET {"clock", "device"}]
  /\ gapOffers \subseteq Devices

HistoryTyped ==
  faults \in 0 .. MaxFaults /\ streamed \subseteq Devices /\ late \in BOOLEAN

LEMMA TypesJoin ==
  TypeOK <=> PlacesTyped /\ QueuesTyped /\ DataTyped /\ PullTyped /\ OffersTyped /\ HistoryTyped
BY DEF TypeOK, PlacesTyped, QueuesTyped, DataTyped, PullTyped, OffersTyped, HistoryTyped

LEMMA TypesJoinNext ==
  PlacesTyped' /\ QueuesTyped' /\ DataTyped' /\ PullTyped' /\ OffersTyped' /\ HistoryTyped'
  => TypeOK'
BY DEF TypeOK, PlacesTyped, QueuesTyped, DataTyped, PullTyped, OffersTyped, HistoryTyped

LEMMA HoldsOne ==
  ASSUME NEW m \in Messages
  PROVE  <<m>> \in Seq(Messages) /\ Holds(<<m>>, m.type) /\ <<m>> # <<>>
BY DEF Holds

LEMMA HoldsNone ==
  <<>> \in Seq(Messages) /\ \A t : ~ Holds(<<>>, t)
BY DEF Holds

-----------------------------------------------------------------------------
(* The steps of a device that goes on.                                     *)

Live == {"hello", "wait1", "wait2", "drive", "accept", "barrier", "drain"}

\* The message that d receives is of one of the types T, and out is sent.
Exchanges(d, T, out) ==
  /\ out \in Seq(Messages) /\ Reaches(d, out) /\ Takes(d, T)
  /\ closed' = closed
  /\ pc[d] \in Live /\ pc'[d] \in Live \ {"hello"}
  /\ \A b \in Devices : b # d => pc'[b] = pc[b] /\ ret'[b] = ret[b] /\ gap'[b] = gap[b]

LEMMA ExchangeEffects ==
  ASSUME TypeOK, Meeting, NEW d \in Devices, NEW T, NEW out, Exchanges(d, T, out),
         pc'[d] = "wait1" => gap'[d] < GapRoundLimit /\ Holds(out, "CHANGES_REQUEST"),
         Within(d, "wait2")' =>
           /\ gap'[d] < GapRoundLimit
           /\ pc[d] = "wait1" \/ Within(d, "wait2")
           /\ "CHANGES_BATCH" \notin T,
         "CHANGES_REQUEST" \in T => Holds(out, "CHANGES_BATCH"),
         Within(d, "barrier")' =>
           \/ closed[d] \/ Holds(out, "CHANGES_ACK")
           \/ Within(d, "barrier") /\ "CHANGES_ACK" \notin T
  PROVE  Effects(d)
<1> DEFINE p == Peer(d)
<1>1. p \in Devices /\ p # d /\ Peer(p) = d
  BY TwoSides
<1>2. out \in Seq(Messages) /\ Reaches(d, out)
  BY DEF Exchanges
<1>3. /\ \A t : Holds(chan[p], t) => Holds(chan'[p], t)
      /\ chan[p] # <<>> => chan'[p] # <<>>
      /\ \A t : Holds(out, t) /\ ~ Ended(p) => Holds(chan'[p], t)
      /\ out # <<>> /\ ~ Ended(p) => chan'[p] # <<>>
  BY <1>2, ReachedStays
<1>4. Apart(d)
  BY <1>3 DEF Exchanges, Reaches, Apart
<1>5. ~ Ended(d) /\ ~ closed[p]
  BY <1>1 DEF Exchanges, Live, Ended, Meeting, EndIsTold
<1>6. ~ Ended(d)' /\ ~ closed'[p] /\ pc[d] \notin {"start", "hung"}
      /\ pc'[d] \notin {"start", "hello"}
  BY <1>5 DEF Exchanges, Live, Ended
<1>7. \A t : Has(d, t) /\ t \notin T => Has(d, t)'
  BY DEF Exchanges, Takes
<1>8. Has(d, "CHANGES_REQUEST") /\ ~ Ended(p) =>
        Has(d, "CHANGES_REQUEST")' \/ Holds(chan'[p], "CHANGES_BATCH")
  BY <1>3, <1>7
<1>9. Within(d, "wait2")' =>
        /\ gap'[d] < GapRoundLimit
        /\ pc[d] = "wait1" \/ Within(d, "wait2")
        /\ Has(d, "CHANGES_BATCH") => Has(d, "CHANGES_BATCH")'
  BY <1>7
<1>10. pc'[d] = "wait1" =>
         gap'[d] < GapRoundLimit /\ (Ended(p) \/ Holds(chan'[p], "CHANGES_REQUEST"))
  BY <1>3
<1>11. Within(d, "barrier")' =>
         \/ closed[d] \/ Ended(p)
         \/ Has(p, "CHANGES_ACK")'
         \/ Within(d, "barrier") /\ (Has(d, "CHANGES_ACK") => Has(d, "CHANGES_ACK")')
  BY <1>3, <1>7 DEF Has
<1> QED
  BY <1>4, <1>6, <1>8, <1>9, <1>10, <1>11 DEF Effects

\* The end of a round of the pull loop, whichever way it goes on.
LEMMA GoOnEffects ==
  ASSUME TypeOK, Meeting, NEW d \in Devices, NEW lack \in SUBSET Recs,
         NEW rounds \in 0 .. GapRoundLimit, pc[d] \in {"hello", "wait1", "wait2"},
         Inbox(d) # <<>>, Head(Inbox(d)).type \in {"HELLO", "CHANGES_BATCH"},
         GoOn(d, lack, rounds), closed' = closed
  PROVE  /\ Effects(d) /\ QueuesTyped' /\ PlacesTyped'
         /\ need' \in [Devices -> SUBSET Recs]
         /\ gap' \in [Devices -> 0 .. GapRoundLimit]
         /\ pulls' \in [Devices -> 0 .. MaxPulls]
         /\ offered' \in [Devices -> SUBSET {"clock", "device"}]
         /\ gapOffers' \subseteq Devices
<1>1. PlacesTyped /\ PullTyped /\ OffersTyped
  BY TypesJoin
<1> DEFINE T == {Head(Inbox(d)).type}
<1>2. T \subseteq {"HELLO", "CHANGES_BATCH"}
  OBVIOUS
<1>3. ASSUME NEW m \in Messages, Answer(d, <<m>>)
      PROVE  /\ QueuesTyped' /\ <<m>> \in Seq(Messages) /\ Reaches(d, <<m>>)
             /\ Takes(d, T) /\ Holds(<<m>>, m.type)
  BY <1>3, HoldsOne, AnswerReaches
<1>4. CASE /\ lack # {} /\ rounds < GapRoundLimit /\ pulls[d] < MaxPulls
           /\ Answer(d, <<Request(lack)>>)
           /\ Goto(d, "wait1")
           /\ need' = [need EXCEPT ![d] = lack]
           /\ gap' = [gap EXCEPT ![d] = rounds]
           /\ pulls' = [pulls EXCEPT ![d] = @ + 1]
           /\ UNCHANGED <<ret, offered, gapOffers>>
  <2>1. Request(lack) \in Messages /\ Request(lack).type = "CHANGES_REQUEST"
    BY MessagesTyped DEF Request
  <2> DEFINE out == <<Request(lack)>>
  <2>2. /\ QueuesTyped' /\ out \in Seq(Messages) /\ Reaches(d, out)
        /\ Takes(d, T) /\ Holds(out, "CHANGES_REQUEST")
    BY <1>3, <1>4, <2>1
  <2> HIDE DEF out, T
  <2>3. pc'[d] = "wait1" /\ gap'[d] = rounds
    BY <1>1, <1>4 DEF Goto, PlacesTyped, PullTyped
  <2>4. Exchanges(d, T, out)
    BY <1>1, <1>4, <2>2, <2>3 DEF Exchanges, Live, Goto, PlacesTyped, PullTyped
  <2>5. Effects(d)
    BY <1>2, <1>4, <2>2, <2>3, <2>4, ExchangeEffects DEF Within
  <2>6. /\ PlacesTyped' /\ need' \in [Devices -> SUBSET Recs]
        /\ gap' \in [Devices -> 0 .. GapRoundLimit]
    BY <1>1, <1>4 DEF Goto, PlacesTyped, PullTyped
  <2>7. pulls' \in [Devices -> 0 .. MaxPulls]
    BY <1>1, <1>4, PullAssumption DEF PullTyped
  <2> QED
    BY <1>1, <1>4, <2>2, <2>5, <2>6, <2>7 DEF OffersTyped
<1>5. CASE /\ rounds >= GapRoundLimit /\ MayOffer(d, peerKey[d])
           /\ Answer(d, <<Offer(TRUE)>>)
           /\ Goto(d, "drive")
           /\ ret' = [ret EXCEPT ![d] = "ack"]
           /\ offered' = [offered EXCEPT ![d] = @ \cup {peerKey[d]}]
           /\ gap' = [gap EXCEPT ![d] = rounds]
           /\ gapOffers' = gapOffers \cup {d}
           /\ UNCHANGED <<need, pulls>>
  <2> DEFINE out == <<Offer(TRUE)>>
  <2>2. QueuesTyped' /\ out \in Seq(Messages) /\ Reaches(d, out) /\ Takes(d, T)
    BY <1>3, <1>5, MessagesTyped
  <2> HIDE DEF out, T
  <2>3. pc'[d] = "drive" /\ ret'[d] = "ack"
    BY <1>1, <1>5 DEF Goto, PlacesTyped
  <2>4. Exchanges(d, T, out)
    BY <1>1, <1>5, <2>2, <2>3 DEF Exchanges, Live, Goto, PlacesTyped, PullTyped
  <2>5. Effects(d)
    BY <1>2, <2>3, <2>4, ExchangeEffects DEF Within
  <2>6. PlacesTyped' /\ gap' \in [Devices -> 0 .. GapRoundLimit]
    BY <1>1, <1>5 DEF Goto, PlacesTyped, PullTyped
  <2>7. offered' \in [Devices -> SUBSET {"clock", "device"}]
    BY <1>1, <1>5 DEF OffersTyped
  <2> QED
    BY <1>1, <1>5, <2>2, <2>5, <2>6, <2>7 DEF OffersTyped, PullTyped
<1>6. CASE /\ Answer(d, <<Ack>>)
           /\ Goto(d, "barrier")
           /\ gap' = [gap EXCEPT ![d] = rounds]
           /\ UNCHANGED <<ret, need, pulls, offered, gapOffers>>
  <2>1. Ack \in Messages /\ Ack.type = "CHANGES_ACK"
    BY MessagesTyped DEF Ack
  <2> DEFINE out == <<Ack>>
  <2>2. /\ QueuesTyped' /\ out \in Seq(Messages) /\ Reaches(d, out)
        /\ Takes(d, T) /\ Holds(out, "CHANGES_ACK")
    BY <1>3, <1>6, <2>1
  <2> HIDE DEF out, T
  <2>3. pc'[d] = "barrier"
    BY <1>1, <1>6 DEF Goto, PlacesTyped
  <2>4. Exchanges(d, T, out)
    BY <1>1, <1>6, <2>2, <2>3 DEF Exchanges, Live, Goto, PlacesTyped, PullTyped
  <2>5. Effects(d)
    BY <1>2, <2>2, <2>3, <2>4, ExchangeEffects DEF Within
  <2>6. PlacesTyped' /\ gap' \in [Devices -> 0 .. GapRoundLimit]
    BY <1>1, <1>6 DEF Goto, PlacesTyped, PullTyped
  <2> QED
    BY <1>1, <1>6, <2>2, <2>5, <2>6 DEF OffersTyped, PullTyped
<1> QED
  BY <1>4, <1>5, <1>6 DEF GoOn

LEMMA InboxTyped ==
  ASSUME TypeOK, NEW d \in Devices
  PROVE  /\ Inbox(d) \in Seq(Messages)
         /\ Inbox(d) # <<>> => Head(Inbox(d)) \in Messages
         /\ pc[d] \notin {"wait2", "barrier"} => Inbox(d) = chan[d]
<1>1. Inbox(d) \in Seq(Messages)
  BY DEF TypeOK, Inbox
<1> QED
  BY <1>1 DEF Inbox, FromStash

\* A message is answered, and d goes to w.
LEMMA AnswerExchanges ==
  ASSUME TypeOK, NEW d \in Devices, NEW out \in Seq(Messages),
         Inbox(d) # <<>>, Answer(d, out), closed' = closed, gap' = gap,
         pc[d] \in Live,
         NEW w \in Live \ {"hello"}, pc' = [pc EXCEPT ![d] = w],
         NEW r \in {"ack", "wait2", "barrier"}, ret' = [ret EXCEPT ![d] = r]
  PROVE  /\ PlacesTyped' /\ QueuesTyped' /\ pc'[d] = w /\ ret'[d] = r
         /\ Exchanges(d, {Head(Inbox(d)).type}, out)
<1>1. PlacesTyped
  BY TypesJoin
<1>2. QueuesTyped' /\ Reaches(d, out) /\ Takes(d, {Head(Inbox(d)).type})
  BY AnswerReaches
<1>3. PlacesTyped' /\ pc'[d] = w /\ ret'[d] = r
  BY <1>1 DEF PlacesTyped, Live
<1>4. \A b \in Devices : b # d => pc'[b] = pc[b] /\ ret'[b] = ret[b] /\ gap'[b] = gap[b]
  BY <1>1 DEF PlacesTyped
<1> QED
  BY <1>2, <1>3, <1>4 DEF Exchanges

\* The same, where d stays.
LEMMA AnswerStays ==
  ASSUME TypeOK, NEW d \in Devices, NEW out \in Seq(Messages),
         Inbox(d) # <<>>, Answer(d, out), closed' = closed, gap' = gap,
         pc[d] \in Live \ {"hello"}, pc' = pc, ret' = ret
  PROVE  /\ PlacesTyped' /\ QueuesTyped'
         /\ Exchanges(d, {Head(Inbox(d)).type}, out)
<1>1. PlacesTyped
  BY TypesJoin
<1>2. pc' = [pc EXCEPT ![d] = pc[d]] /\ ret' = [ret EXCEPT ![d] = ret[d]]
  BY <1>1 DEF PlacesTyped
<1>3. ret[d] \in {"ack", "wait2", "barrier"}
  BY <1>1 DEF PlacesTyped
<1> QED
  BY <1>2, <1>3, AnswerExchanges DEF Live

LEMMA StartPreserves ==
  ASSUME IInv, NEW d \in Devices, Start(d)
  PROVE  Effects(d) /\ TypeOK'
<1>1. TypeOK /\ PlacesTyped /\ DataTyped
  BY TypesJoin DEF IInv
<1> DEFINE m == Hello(clock[d])
<1>2. m \in Messages
  BY <1>1, MessagesTyped DEF DataTyped
<1> HIDE DEF m
<1>3. <<m>> \in Seq(Messages) /\ <<m>> # <<>>
  BY <1>2, HoldsOne
<1>4. Send(d, <<m>>)
  BY DEF Start, m
<1>5. QueuesTyped' /\ Reaches(d, <<m>>) /\ chan'[d] = chan[d] /\ stash' = stash
  BY <1>1, <1>3, <1>4, SendReaches
<1>6. /\ PlacesTyped' /\ pc[d] = "start" /\ pc'[d] = "hello"
      /\ \A b \in Devices : b # d => pc'[b] = pc[b]
  BY <1>1 DEF Start, Goto, PlacesTyped
<1>7. UNCHANGED <<data, peerKey, ret, closed, pulling, offered, faults, history>>
  BY DEF Start
<1>8. TypeOK'
  <2>1. DataTyped' /\ PullTyped' /\ OffersTyped' /\ HistoryTyped'
    BY <1>1, <1>7, TypesJoin DEF DataTyped, PullTyped, OffersTyped, HistoryTyped, data,
       pulling, history
  <2> QED
    BY <1>5, <1>6, <2>1, TypesJoinNext
<1>9. Effects(d)
  <2>1. /\ \A t : Holds(chan[Peer(d)], t) => Holds(chan'[Peer(d)], t)
        /\ chan[Peer(d)] # <<>> => chan'[Peer(d)] # <<>>
        /\ ~ Ended(Peer(d)) => chan'[Peer(d)] # <<>>
    BY <1>1, <1>3, <1>5, ReachedStays
  <2>2. Apart(d)
    BY <1>5, <1>6, <1>7, <2>1 DEF Apart, pulling
  <2>3. ~ Ended(d) /\ ~ Ended(d)' /\ ~ closed'[Peer(d)]
    BY <1>6, <1>7 DEF Ended, IInv, Meeting, EndIsTold
  <2>4. \A t : Has(d, t) => Has(d, t)'
    BY <1>5 DEF Has
  <2>5. ~ Within(d, "wait2")' /\ ~ Within(d, "barrier")'
    BY <1>6 DEF Within
  <2> QED
    BY <1>5, <1>6, <2>1, <2>2, <2>3, <2>4, <2>5 DEF Effects
<1> QED
  BY <1>8, <1>9

LEMMA ReceiveHelloPreserves ==
  ASSUME IInv, NEW d \in Devices, ReceiveHello(d)
  PROVE  Effects(d) /\ TypeOK'
<1>1. TypeOK /\ Meeting /\ PullTyped /\ DataTyped
  BY TypesJoin DEF IInv
<1>2. /\ pc[d] = "hello" /\ Inbox(d) # <<>> /\ Inbox(d) = chan[d]
      /\ Head(Inbox(d)) \in Messages /\ Head(Inbox(d)).type = "HELLO"
  BY <1>1, InboxTyped DEF ReceiveHello, Awaits
<1>3. Head(chan[d]).clock \subseteq Recs
  BY <1>2, Carried
<1>4. heard' \in [Devices -> SUBSET Recs] /\ heard'[d] \subseteq Recs
  BY <1>1, <1>3 DEF ReceiveHello, PullTyped
<1> DEFINE lack == heard'[d] \ know[d]
<1>5. lack \in SUBSET Recs /\ GoOn(d, lack, 0) /\ closed' = closed
  BY <1>4 DEF ReceiveHello
<1> HIDE DEF lack
<1>6. /\ Effects(d) /\ QueuesTyped' /\ PlacesTyped'
      /\ need' \in [Devices -> SUBSET Recs]
      /\ gap' \in [Devices -> 0 .. GapRoundLimit]
      /\ pulls' \in [Devices -> 0 .. MaxPulls]
      /\ offered' \in [Devices -> SUBSET {"clock", "device"}]
      /\ gapOffers' \subseteq Devices
  <2>1. 0 \in 0 .. GapRoundLimit
    BY DEF GapRoundLimit
  <2> QED
    BY <1>1, <1>2, <1>5, <2>1, GoOnEffects
<1>7. DataTyped' /\ OffersTyped' /\ HistoryTyped'
  BY <1>1, <1>6, TypesJoin DEF ReceiveHello, DataTyped, OffersTyped, HistoryTyped, data
<1>8. PullTyped'
  BY <1>4, <1>6 DEF PullTyped
<1> QED
  BY <1>6, <1>7, <1>8, TypesJoinNext

\* Records that are taken in are held, known and counted.
LEMMA ApplyBatchTyped ==
  ASSUME TypeOK, NEW d \in Devices, NEW R \in SUBSET Recs, ApplyBatch(d, R)
  PROVE  DataTyped'
<1>1. DataTyped
  BY TypesJoin
<1> QED
  BY <1>1 DEF ApplyBatch, DataTyped

LEMMA ApplySnapshotTyped ==
  ASSUME TypeOK, NEW d \in Devices, NEW R \in SUBSET Recs, ApplySnapshot(d, R)
  PROVE  DataTyped'
<1>1. DataTyped
  BY TypesJoin
<1> QED
  BY <1>1 DEF ApplySnapshot, DataTyped

LEMMA ReceiveBatchPreserves ==
  ASSUME IInv, NEW d \in Devices, ReceiveBatch(d)
  PROVE  Effects(d) /\ TypeOK'
<1>1. TypeOK /\ Meeting /\ PullTyped
  BY TypesJoin DEF IInv
<1>2. /\ pc[d] \in {"wait1", "wait2"} /\ Inbox(d) # <<>>
      /\ Head(Inbox(d)) \in Messages /\ Head(Inbox(d)).type = "CHANGES_BATCH"
  BY <1>1, InboxTyped DEF ReceiveBatch, Awaits
<1>3. DataTyped'
  BY <1>1, <1>2, Carried, ApplyBatchTyped DEF ReceiveBatch
<1> DEFINE lack == heard[d] \ know'[d]
           rounds == IF lack = need[d] THEN gap[d] + 1 ELSE 0
<1>4. lack \in SUBSET Recs
  BY <1>1 DEF PullTyped
<1>5. rounds \in 0 .. GapRoundLimit
  <2>1. gap[d] \in 0 .. GapRoundLimit /\ gap[d] < GapRoundLimit
    BY <1>1, <1>2 DEF PullTyped, Meeting, StreakIsShort, Within
  <2> HIDE DEF lack
  <2> QED
    BY <2>1 DEF GapRoundLimit
<1>6. GoOn(d, lack, rounds) /\ closed' = closed
  BY DEF ReceiveBatch
<1> HIDE DEF lack, rounds
<1>7. /\ Effects(d) /\ QueuesTyped' /\ PlacesTyped'
      /\ need' \in [Devices -> SUBSET Recs]
      /\ gap' \in [Devices -> 0 .. GapRoundLimit]
      /\ pulls' \in [Devices -> 0 .. MaxPulls]
      /\ offered' \in [Devices -> SUBSET {"clock", "device"}]
      /\ gapOffers' \subseteq Devices
  BY <1>1, <1>2, <1>4, <1>5, <1>6, GoOnEffects
<1>8. OffersTyped' /\ HistoryTyped' /\ PullTyped'
  BY <1>1, <1>7, TypesJoin DEF ReceiveBatch, OffersTyped, HistoryTyped, PullTyped
<1> QED
  BY <1>3, <1>7, <1>8, TypesJoinNext

-----------------------------------------------------------------------------
(* Setting aside, serving.                                                 *)

LEMMA StashWhilePullingPreserves ==
  ASSUME IInv, NEW d \in Devices, StashWhilePulling(d)
  PROVE  Effects(d) /\ TypeOK'
<1>1. TypeOK /\ Meeting /\ PlacesTyped
  BY TypesJoin DEF IInv
<1>2. pc[d] = "wait1" /\ QueuesTyped' /\ Reaches(d, <<>>) /\ Takes(d, {})
  BY <1>1, SetAsideTakes DEF StashWhilePulling
<1>3. /\ PlacesTyped' /\ pc'[d] = "wait2"
      /\ \A b \in Devices : b # d => pc'[b] = pc[b]
  BY <1>1 DEF StashWhilePulling, Goto, PlacesTyped
<1>4. UNCHANGED <<data, peerKey, ret, closed, pulling, offered, faults, history>>
  BY DEF StashWhilePulling
<1>5. TypeOK'
  <2>1. DataTyped' /\ PullTyped' /\ OffersTyped' /\ HistoryTyped'
    BY <1>1, <1>4, TypesJoin DEF DataTyped, PullTyped, OffersTyped, HistoryTyped, data,
       pulling, history
  <2> QED
    BY <1>2, <1>3, <2>1, TypesJoinNext
<1>6. Effects(d)
  <2>1. Exchanges(d, {}, <<>>)
    BY <1>2, <1>3, <1>4, HoldsNone DEF Exchanges, Live, pulling
  <2>2. gap'[d] = gap[d] /\ gap[d] < GapRoundLimit
    BY <1>1, <1>2, <1>4 DEF pulling, Meeting, StreakIsShort
  <2> QED
    BY <1>1, <1>2, <1>3, <2>1, <2>2, ExchangeEffects DEF Within
<1> QED
  BY <1>5, <1>6

LEMMA StashDuringExchangePreserves ==
  ASSUME IInv, NEW d \in Devices, StashDuringExchange(d)
  PROVE  Effects(d) /\ TypeOK'
<1>1. TypeOK /\ Meeting /\ PlacesTyped
  BY TypesJoin DEF IInv
<1>2. /\ pc[d] \in {"drive", "accept"} /\ QueuesTyped' /\ Reaches(d, <<>>)
      /\ Takes(d, {})
  BY <1>1, SetAsideTakes DEF StashDuringExchange
<1>3. UNCHANGED <<data, peerKey, pc, ret, closed, pulling, offered, faults, history>>
  BY DEF StashDuringExchange
<1>4. TypeOK'
  <2>1. /\ PlacesTyped' /\ DataTyped' /\ PullTyped' /\ OffersTyped'
        /\ HistoryTyped'
    BY <1>1, <1>3, TypesJoin DEF PlacesTyped, DataTyped, PullTyped, OffersTyped,
       HistoryTyped, data, pulling, history
  <2> QED
    BY <1>2, <2>1, TypesJoinNext
<1>5. Effects(d)
  <2>1. Exchanges(d, {}, <<>>)
    BY <1>2, <1>3, HoldsNone DEF Exchanges, Live, pulling
  <2>2. /\ gap'[d] = gap[d] /\ (Within(d, "wait2") => gap[d] < GapRoundLimit)
        /\ \A x : Within(d, x)' <=> Within(d, x)
    BY <1>1, <1>3 DEF pulling, Meeting, StreakIsShort, Within
  <2> QED
    BY <1>1, <1>2, <1>3, <2>1, <2>2, ExchangeEffects
<1> QED
  BY <1>4, <1>5

\* d answers a message and stays where it is.
LEMMA StayPreserves ==
  ASSUME IInv, NEW d \in Devices, pc[d] \in Serving \cup {"drive"}, Inbox(d) # <<>>,
         NEW out \in Seq(Messages), Answer(d, out),
         UNCHANGED <<peerKey, pc, ret, closed, pulling, offered, faults, history>>,
         DataTyped',
         Head(Inbox(d)).type = "CHANGES_REQUEST" => Holds(out, "CHANGES_BATCH"),
         Head(Inbox(d)).type = "CHANGES_BATCH" => pc[d] \in {"barrier", "drain"},
         Head(Inbox(d)).type = "CHANGES_ACK" => pc[d] \in {"wait2", "drain"},
         pc[d] = "drive" => Head(Inbox(d)).type = "FULL_STATE_OFFER"
  PROVE  Effects(d) /\ TypeOK'
<1> DEFINE T == {Head(Inbox(d)).type}
<1>1. TypeOK /\ Meeting
  BY DEF IInv
<1>2. PlacesTyped' /\ QueuesTyped' /\ Exchanges(d, T, out)
  BY <1>1, AnswerStays DEF Serving, Live, pulling
<1>3. TypeOK'
  <2>1. PullTyped' /\ OffersTyped' /\ HistoryTyped'
    BY <1>1, TypesJoin DEF PullTyped, OffersTyped, HistoryTyped, pulling, history
  <2> QED
    BY <1>2, <2>1, TypesJoinNext
<1>4. /\ gap'[d] = gap[d] /\ (Within(d, "wait2") => gap[d] < GapRoundLimit)
      /\ \A x : Within(d, x)' <=> Within(d, x)
  BY <1>1 DEF pulling, Meeting, StreakIsShort, Within
<1>5. pc'[d] # "wait1"
  BY DEF Serving
<1>6. Within(d, "wait2") => "CHANGES_BATCH" \notin T
  BY DEF Within
<1>7. Within(d, "barrier") => "CHANGES_ACK" \notin T
  BY DEF Within
<1>8. "CHANGES_REQUEST" \in T => Holds(out, "CHANGES_BATCH")
  OBVIOUS
<1> HIDE DEF T
<1>9. Effects(d)
  BY <1>1, <1>2, <1>4, <1>5, <1>6, <1>7, <1>8, ExchangeEffects
<1> QED
  BY <1>3, <1>9

LEMMA ServeRequestPreserves ==
  ASSUME IInv, NEW d \in Devices, ServeRequest(d)
  PROVE  Effects(d) /\ TypeOK'
<1>1. TypeOK /\ DataTyped
  BY TypesJoin DEF IInv
<1>2. /\ pc[d] \in Serving /\ Inbox(d) # <<>> /\ Head(Inbox(d)) \in Messages
      /\ Head(Inbox(d)).type = "CHANGES_REQUEST"
  BY <1>1, InboxTyped DEF ServeRequest, Awaits
<1>3. PICK out \in Batches(d, Head(Inbox(d)).ranges) : Answer(d, out)
  BY DEF ServeRequest
<1>4. out \in Seq(Messages) /\ Holds(out, "CHANGES_BATCH")
  BY <1>1, <1>2, <1>3, Carried, BatchesTyped
<1>5. /\ UNCHANGED <<peerKey, pc, ret, closed, pulling, offered, faults, history>>
      /\ UNCHANGED data
  BY DEF ServeRequest
<1>6. DataTyped'
  BY <1>1, <1>5 DEF DataTyped, data
<1> QED
  BY <1>2, <1>3, <1>4, <1>5, <1>6, StayPreserves DEF Serving

LEMMA ApplyLateBatchPreserves ==
  ASSUME IInv, NEW d \in Devices, ApplyLateBatch(d)
  PROVE  Effects(d) /\ TypeOK'
<1>1. TypeOK
  BY DEF IInv
<1>2. /\ pc[d] \in {"barrier", "drain"} /\ Inbox(d) # <<>> /\ Head(Inbox(d)) \in Messages
      /\ Head(Inbox(d)).type = "CHANGES_BATCH"
  BY <1>1, InboxTyped DEF ApplyLateBatch, Awaits
<1>3. DataTyped'
  BY <1>1, <1>2, Carried, ApplyBatchTyped DEF ApplyLateBatch
<1>4. /\ UNCHANGED <<peerKey, pc, ret, closed, pulling, offered, faults, history>>
      /\ Answer(d, <<>>)
  BY DEF ApplyLateBatch
<1> QED
  BY <1>2, <1>3, <1>4, HoldsNone, StayPreserves DEF Serving

LEMMA ReceiveSnapshotPreserves ==
  ASSUME IInv, NEW d \in Devices, ReceiveSnapshot(d)
  PROVE  Effects(d) /\ TypeOK'
<1>1. TypeOK
  BY DEF IInv
<1>2. /\ pc[d] \in Serving /\ Inbox(d) # <<>> /\ Head(Inbox(d)) \in Messages
      /\ Head(Inbox(d)).type = "FULL_STATE_SNAPSHOT"
  BY <1>1, InboxTyped DEF ReceiveSnapshot, Awaits
<1>3. DataTyped'
  BY <1>1, <1>2, Carried, ApplySnapshotTyped DEF ReceiveSnapshot
<1>4. /\ UNCHANGED <<peerKey, pc, ret, closed, pulling, offered, faults, history>>
      /\ Answer(d, <<>>)
  BY DEF ReceiveSnapshot
<1> QED
  BY <1>2, <1>3, <1>4, HoldsNone, StayPreserves DEF Serving

LEMMA IgnorePreserves ==
  ASSUME IInv, NEW d \in Devices, Ignore(d)
  PROVE  Effects(d) /\ TypeOK'
<1>1. TypeOK /\ DataTyped
  BY TypesJoin DEF IInv
<1>2. /\ pc[d] \in Serving /\ Inbox(d) # <<>>
      /\ \/ Head(Inbox(d)).type = "CHANGES_ACK" /\ pc[d] \in {"wait2", "drain"}
         \/ Head(Inbox(d)).type \in {"FULL_STATE_OFFER", "FULL_STATE_ACCEPT"}
  BY DEF Ignore, Awaits, Serving
<1>3. /\ UNCHANGED <<peerKey, pc, ret, closed, pulling, offered, faults, history>>
      /\ UNCHANGED data
      /\ Answer(d, <<>>)
  BY DEF Ignore
<1>4. DataTyped'
  BY <1>1, <1>3 DEF DataTyped, data
<1> QED
  BY <1>2, <1>3, <1>4, HoldsNone, StayPreserves DEF Serving

LEMMA ReceiveAckPreserves ==
  ASSUME IInv, NEW d \in Devices, ReceiveAck(d)
  PROVE  Effects(d) /\ TypeOK'
<1> DEFINE T == {Head(Inbox(d)).type}
<1>1. TypeOK /\ Meeting /\ PlacesTyped
  BY TypesJoin DEF IInv
<1>2. pc[d] = "barrier" /\ Inbox(d) # <<>> /\ T = {"CHANGES_ACK"}
  BY DEF ReceiveAck, Awaits
<1>3. /\ UNCHANGED <<data, peerKey, ret, closed, pulling, offered, faults, history>>
      /\ Answer(d, <<>>) /\ pc' = [pc EXCEPT ![d] = "drain"]
  BY DEF ReceiveAck, Goto
<1>4. ret' = [ret EXCEPT ![d] = ret[d]] /\ ret[d] \in {"ack", "wait2", "barrier"}
  BY <1>1, <1>3 DEF PlacesTyped
<1>5. PlacesTyped' /\ QueuesTyped' /\ pc'[d] = "drain" /\ Exchanges(d, T, <<>>)
  BY <1>1, <1>2, <1>3, <1>4, HoldsNone, AnswerExchanges DEF Live, pulling
<1>6. TypeOK'
  <2>1. DataTyped' /\ PullTyped' /\ OffersTyped' /\ HistoryTyped'
    BY <1>1, <1>3, TypesJoin DEF DataTyped, PullTyped, OffersTyped, HistoryTyped, data,
       pulling, history
  <2> QED
    BY <1>5, <2>1, TypesJoinNext
<1> HIDE DEF T
<1>7. Effects(d)
  BY <1>1, <1>2, <1>5, ExchangeEffects DEF Within
<1> QED
  BY <1>6, <1>7

-----------------------------------------------------------------------------
(* The full-state exchange.                                                *)

\* d answers a message of the exchange and goes to w.
LEMMA MoveEffects ==
  ASSUME IInv, NEW d \in Devices, pc[d] \in {"wait2", "barrier", "drive", "accept"},
         Inbox(d) # <<>>,
         Head(Inbox(d)).type \in
           {"FULL_STATE_OFFER", "FULL_STATE_ACCEPT", "FULL_STATE_SNAPSHOT"},
         NEW out \in Seq(Messages), Answer(d, out), closed' = closed, gap' = gap,
         NEW w \in {"wait2", "barrier", "drive", "accept"}, pc' = [pc EXCEPT ![d] = w],
         NEW r \in {"ack", "wait2", "barrier"}, ret' = [ret EXCEPT ![d] = r],
         w = "wait2" \/ (w \in {"drive", "accept"} /\ r = "wait2") => Within(d, "wait2"),
         w = "barrier" \/ (w \in {"drive", "accept"} /\ r = "barrier") =>
           Within(d, "barrier") \/ Holds(out, "CHANGES_ACK")
  PROVE  Effects(d) /\ PlacesTyped' /\ QueuesTyped'
<1> DEFINE T == {Head(Inbox(d)).type}
<1>1. TypeOK /\ Meeting
  BY DEF IInv
<1>2. PlacesTyped' /\ QueuesTyped' /\ pc'[d] = w /\ ret'[d] = r /\ Exchanges(d, T, out)
  BY <1>1, AnswerExchanges DEF Live
<1>3. T \subseteq {"FULL_STATE_OFFER", "FULL_STATE_ACCEPT", "FULL_STATE_SNAPSHOT"}
  OBVIOUS
<1> HIDE DEF T
<1>4. gap'[d] = gap[d] /\ (Within(d, "wait2") => gap[d] < GapRoundLimit)
  BY <1>1 DEF Meeting, StreakIsShort
<1>5. Within(d, "wait2")' => Within(d, "wait2")
  BY <1>2 DEF Within
<1>6. Within(d, "barrier")' => Within(d, "barrier") \/ Holds(out, "CHANGES_ACK")
  BY <1>2 DEF Within
<1>7. pc'[d] # "wait1"
  BY <1>2
<1>8. Effects(d)
  BY <1>1, <1>2, <1>3, <1>4, <1>5, <1>6, <1>7, ExchangeEffects
<1> QED
  BY <1>2, <1>8

LEMMA CounterPreserves ==
  ASSUME IInv, NEW d \in Devices, pc[d] \in {"wait2", "barrier"}, Inbox(d) # <<>>,
         Head(Inbox(d)).type = "FULL_STATE_OFFER", Counter(d, FALSE)
  PROVE  Effects(d) /\ TypeOK'
<1>1. TypeOK /\ PlacesTyped /\ OffersTyped
  BY TypesJoin DEF IInv
<1> DEFINE out == <<Offer(FALSE)>>
<1>2. out \in Seq(Messages)
  BY MessagesTyped, HoldsOne
<1>3. /\ Answer(d, out) /\ pc' = [pc EXCEPT ![d] = "drive"] /\ ret' = [ret EXCEPT ![d] = pc[d]]
      /\ offered' = [offered EXCEPT ![d] = @ \cup {"device"}]
      /\ UNCHANGED <<data, peerKey, closed, pulling, faults, gapOffers, streamed, late>>
  BY DEF Counter, Goto
<1> HIDE DEF out
<1>4. Effects(d) /\ PlacesTyped' /\ QueuesTyped'
  BY <1>2, <1>3, MoveEffects DEF pulling, Within
<1>5. offered' \in [Devices -> SUBSET {"clock", "device"}]
  BY <1>1, <1>3 DEF OffersTyped
<1>6. DataTyped' /\ PullTyped' /\ OffersTyped' /\ HistoryTyped'
  BY <1>1, <1>3, <1>5, TypesJoin DEF DataTyped, PullTyped, OffersTyped, HistoryTyped, data,
     pulling
<1> QED
  BY <1>4, <1>6, TypesJoinNext

LEMMA AcceptPreserves ==
  ASSUME IInv, NEW d \in Devices, pc[d] \in {"wait2", "barrier", "drive"}, Inbox(d) # <<>>,
         Head(Inbox(d)).type = "FULL_STATE_OFFER",
         NEW back \in {"ack", "wait2", "barrier"}, AcceptOffer(d, back),
         back = "wait2" => Within(d, "wait2"), back = "barrier" => Within(d, "barrier")
  PROVE  Effects(d) /\ TypeOK'
<1>1. TypeOK
  BY DEF IInv
<1> DEFINE out == <<Accept>>
<1>2. out \in Seq(Messages)
  BY MessagesTyped, HoldsOne
<1>3. /\ Answer(d, out) /\ pc' = [pc EXCEPT ![d] = "accept"] /\ ret' = [ret EXCEPT ![d] = back]
      /\ UNCHANGED <<data, peerKey, closed, pulling, offered, faults, history>>
  BY DEF AcceptOffer, Goto
<1> HIDE DEF out
<1>4. Effects(d) /\ PlacesTyped' /\ QueuesTyped'
  BY <1>2, <1>3, MoveEffects DEF pulling
<1>5. DataTyped' /\ PullTyped' /\ OffersTyped' /\ HistoryTyped'
  BY <1>1, <1>3, TypesJoin DEF DataTyped, PullTyped, OffersTyped, HistoryTyped, data,
     pulling, history
<1> QED
  BY <1>4, <1>5, TypesJoinNext

LEMMA HandleIncomingOfferPreserves ==
  ASSUME IInv, NEW d \in Devices, HandleIncomingOffer(d)
  PROVE  Effects(d) /\ TypeOK'
<1>1. /\ pc[d] \in {"wait2", "barrier"} /\ Inbox(d) # <<>>
      /\ Head(Inbox(d)).type = "FULL_STATE_OFFER"
  BY DEF HandleIncomingOffer, Awaits
<1>2. Counter(d, FALSE) \/ AcceptOffer(d, pc[d])
  BY DEF HandleIncomingOffer
<1>3. CASE Counter(d, FALSE)
  BY <1>1, <1>3, CounterPreserves
<1>4. CASE AcceptOffer(d, pc[d])
  BY <1>1, <1>4, AcceptPreserves DEF Within
<1> QED
  BY <1>2, <1>3, <1>4

LEMMA RivalOfferPreserves ==
  ASSUME IInv, NEW d \in Devices, RivalOffer(d)
  PROVE  Effects(d) /\ TypeOK'
<1>1. TypeOK /\ PlacesTyped /\ DataTyped
  BY TypesJoin DEF IInv
<1>2. /\ pc[d] = "drive" /\ Inbox(d) # <<>>
      /\ Head(Inbox(d)).type = "FULL_STATE_OFFER"
  BY DEF RivalOffer, Awaits
<1>3. CASE /\ Answer(d, <<>>)
           /\ UNCHANGED <<data, peerKey, pc, ret, closed, pulling, offered, faults, history>>
  <2>1. DataTyped'
    BY <1>1, <1>3 DEF DataTyped, data
  <2> QED
    BY <1>2, <1>3, <2>1, HoldsNone, StayPreserves
<1>4. CASE AcceptOffer(d, ret[d])
  <2>1. ret[d] \in {"ack", "wait2", "barrier"}
    BY <1>1 DEF PlacesTyped
  <2> QED
    BY <1>2, <1>4, <2>1, AcceptPreserves DEF Within
<1> QED
  BY <1>3, <1>4 DEF RivalOffer

\* The acknowledgement goes out when the exchange ends the pull.
LEMMA AckTyped ==
  ASSUME NEW d \in Devices
  PROVE  /\ AckIfPulled(d) \in Seq(Messages)
         /\ ret[d] = "ack" => Holds(AckIfPulled(d), "CHANGES_ACK")
<1>1. Ack \in Messages /\ Ack.type = "CHANGES_ACK"
  BY MessagesTyped DEF Ack
<1> QED
  BY <1>1, HoldsOne, HoldsNone DEF AckIfPulled

\* The exchange of d is over.
LEMMA ResumeEffects ==
  ASSUME IInv, NEW d \in Devices, pc[d] \in {"drive", "accept"}, Inbox(d) # <<>>,
         Head(Inbox(d)).type \in {"FULL_STATE_ACCEPT", "FULL_STATE_SNAPSHOT"},
         NEW out \in Seq(Messages), Answer(d, out), Resume(d), closed' = closed, gap' = gap,
         ret' = ret, ret[d] = "ack" => Holds(out, "CHANGES_ACK")
  PROVE  Effects(d) /\ PlacesTyped' /\ QueuesTyped'
<1>1. PlacesTyped
  BY TypesJoin DEF IInv
<1> DEFINE w == IF ret[d] = "ack" THEN "barrier" ELSE ret[d]
<1>2. ret[d] \in {"ack", "wait2", "barrier"} /\ ret' = [ret EXCEPT ![d] = ret[d]]
  BY <1>1 DEF PlacesTyped
<1>3. w \in {"wait2", "barrier"} /\ pc' = [pc EXCEPT ![d] = w]
  BY <1>2 DEF Resume, Goto
<1>4. w = "wait2" => Within(d, "wait2")
  BY DEF Within
<1>5. w = "barrier" => Within(d, "barrier") \/ Holds(out, "CHANGES_ACK")
  BY <1>2 DEF Within
<1> HIDE DEF w
<1> QED
  BY <1>2, <1>3, <1>4, <1>5, MoveEffects

LEMMA StreamSnapshotPreserves ==
  ASSUME IInv, NEW d \in Devices, StreamSnapshot(d)
  PROVE  Effects(d) /\ TypeOK'
<1>1. TypeOK /\ DataTyped
  BY TypesJoin DEF IInv
<1>2. /\ pc[d] = "drive" /\ Inbox(d) # <<>>
      /\ Head(Inbox(d)).type = "FULL_STATE_ACCEPT"
  BY DEF StreamSnapshot, Awaits
<1> DEFINE first == <<Snapshot(clock[d])>>
           out == first \o AckIfPulled(d)
<1>3. first \in Seq(Messages)
  BY <1>1, MessagesTyped, HoldsOne DEF DataTyped
<1> HIDE DEF first
<1>4. out \in Seq(Messages) /\ (ret[d] = "ack" => Holds(out, "CHANGES_ACK"))
  BY <1>3, AckTyped, HoldsConcat
<1>5. /\ Answer(d, out) /\ Resume(d) /\ streamed' = streamed \cup {d}
      /\ UNCHANGED <<data, peerKey, ret, closed, pulling, offered, faults, gapOffers, late>>
  BY DEF StreamSnapshot, first
<1> HIDE DEF out
<1>6. Effects(d) /\ PlacesTyped' /\ QueuesTyped'
  BY <1>2, <1>4, <1>5, ResumeEffects DEF pulling
<1>7. DataTyped' /\ PullTyped' /\ OffersTyped' /\ HistoryTyped'
  BY <1>1, <1>5, TypesJoin DEF DataTyped, PullTyped, OffersTyped, HistoryTyped, data,
     pulling
<1> QED
  BY <1>6, <1>7, TypesJoinNext

LEMMA TakeSnapshotPreserves ==
  ASSUME IInv, NEW d \in Devices, TakeSnapshot(d)
  PROVE  Effects(d) /\ TypeOK'
<1>1. TypeOK
  BY DEF IInv
<1>2. /\ pc[d] = "accept" /\ Inbox(d) # <<>> /\ Inbox(d) = chan[d]
      /\ Head(Inbox(d)) \in Messages /\ Head(Inbox(d)).type = "FULL_STATE_SNAPSHOT"
  BY <1>1, InboxTyped DEF TakeSnapshot, Awaits
<1>3. DataTyped'
  BY <1>1, <1>2, Carried, ApplySnapshotTyped DEF TakeSnapshot
<1>4. /\ Answer(d, AckIfPulled(d)) /\ Resume(d)
      /\ UNCHANGED <<peerKey, ret, closed, pulling, offered, faults, history>>
  BY DEF TakeSnapshot
<1>5. Effects(d) /\ PlacesTyped' /\ QueuesTyped'
  BY <1>2, <1>4, AckTyped, ResumeEffects DEF pulling
<1>6. PullTyped' /\ OffersTyped' /\ HistoryTyped'
  BY <1>1, <1>4, TypesJoin DEF PullTyped, OffersTyped, HistoryTyped, pulling, history
<1> QED
  BY <1>3, <1>5, <1>6, TypesJoinNext

-----------------------------------------------------------------------------
(* Waits that end without a message, and faults.                           *)

LEMMA QuietExchangePreserves ==
  ASSUME IInv, NEW d \in Devices, QuietExchange(d)
  PROVE  Effects(d) /\ TypeOK'
<1>1. TypeOK /\ Meeting /\ PlacesTyped
  BY TypesJoin DEF IInv
<1> DEFINE out == AckIfPulled(d)
           w == IF ret[d] = "ack" THEN "barrier" ELSE ret[d]
<1>2. out \in Seq(Messages) /\ (ret[d] = "ack" => Holds(out, "CHANGES_ACK"))
  BY AckTyped
<1>3. /\ pc[d] \in {"drive", "accept"} /\ Send(d, out)
      /\ pc' = [pc EXCEPT ![d] = w]
      /\ UNCHANGED <<data, peerKey, ret, closed, pulling, offered, faults, gapOffers, streamed>>
  BY DEF QuietExchange, Resume, Goto
<1>4. w \in {"wait2", "barrier"} /\ ret[d] \in {"ack", "wait2", "barrier"}
  BY <1>1 DEF PlacesTyped
<1>5. w = "wait2" => Within(d, "wait2")
  BY <1>3 DEF Within
<1>6. w = "barrier" => Within(d, "barrier") \/ Holds(out, "CHANGES_ACK")
  BY <1>2, <1>3 DEF Within
<1> HIDE DEF out, w
<1>7. QueuesTyped' /\ Reaches(d, out) /\ chan'[d] = chan[d] /\ stash' = stash
  BY <1>1, <1>2, <1>3, SendReaches
<1>8. /\ PlacesTyped' /\ pc'[d] = w
      /\ \A b \in Devices : b # d => pc'[b] = pc[b]
  BY <1>1, <1>3, <1>4 DEF PlacesTyped
<1>9. Effects(d)
  <2>1. Takes(d, {})
    BY <1>7 DEF Takes, Has
  <2>2. Exchanges(d, {}, out)
    BY <1>2, <1>3, <1>4, <1>7, <1>8, <2>1 DEF Exchanges, Live, pulling
  <2>3. gap'[d] = gap[d] /\ (Within(d, "wait2") => gap[d] < GapRoundLimit)
    BY <1>1, <1>3 DEF pulling, Meeting, StreakIsShort
  <2>4. Within(d, "wait2")' => w = "wait2"
    BY <1>4, <1>8 DEF Within
  <2>5. Within(d, "barrier")' => w = "barrier"
    BY <1>4, <1>8 DEF Within
  <2>6. pc'[d] # "wait1"
    BY <1>4, <1>8
  <2> QED
    BY <1>1, <1>5, <1>6, <2>2, <2>3, <2>4, <2>5, <2>6, ExchangeEffects
<1>10. late' \in BOOLEAN
  BY <1>1 DEF QuietExchange, TypeOK
<1>11. DataTyped' /\ PullTyped' /\ OffersTyped' /\ HistoryTyped'
  BY <1>1, <1>3, <1>10, TypesJoin DEF DataTyped, PullTyped, OffersTyped, HistoryTyped, data,
     pulling
<1> QED
  BY <1>7, <1>8, <1>9, <1>11, TypesJoinNext

\* d leaves, and its socket is closed.
LEMMA LeaveEffects ==
  ASSUME IInv, NEW d \in Devices, NEW outcome \in {"done", "failed"}, Leave(d, outcome),
         pc[d] \in Live, ret' = ret, gap' = gap
  PROVE  Effects(d) /\ PlacesTyped' /\ QueuesTyped'
<1>1. QueuesTyped /\ PlacesTyped /\ Peer(d) \in Devices /\ Peer(d) # d
  BY TypesJoin, TwoSides DEF IInv
<1>2. <<>> \in Seq(Messages)
  BY HoldsNone
<1>3. /\ QueuesTyped' /\ stash'[Peer(d)] = stash[Peer(d)]
  BY <1>1, <1>2 DEF Leave, QueuesTyped
<1>4. /\ PlacesTyped' /\ pc'[d] = outcome
      /\ closed'[d] = closed[d] /\ closed'[Peer(d)] = TRUE
      /\ \A b \in Devices : b # d => pc'[b] = pc[b]
  BY <1>1 DEF Leave, Goto, PlacesTyped
<1>5. Apart(d)
  BY <1>3, <1>4 DEF Apart
<1>6. Ended(d)' /\ ~ Within(d, "wait2")' /\ ~ Within(d, "barrier")'
  BY <1>4 DEF Ended, Within
<1> QED
  BY <1>3, <1>4, <1>5, <1>6 DEF Effects, Live

LEMMA LeavesPreserve ==
  ASSUME IInv, NEW d \in Devices,
         QuietDrain(d) \/ StreamEndsSession(d) \/ StreamEndsHello(d) \/ IdleTimeout(d)
  PROVE  Effects(d) /\ TypeOK'
<1>1. TypeOK
  BY DEF IInv
<1>2. /\ Leave(d, "done") \/ Leave(d, "failed")
      /\ pc[d] \in Live
      /\ UNCHANGED <<data, peerKey, ret, pulling, offered, faults, gapOffers, streamed>>
      /\ late' = late \/ late' = (late \/ ~ NothingComing(d))
  BY DEF QuietDrain, StreamEndsSession, StreamEndsHello, IdleTimeout, Live, history
<1>3. Effects(d) /\ PlacesTyped' /\ QueuesTyped'
  BY <1>2, LeaveEffects DEF pulling
<1>4. late' \in BOOLEAN
  BY <1>1, <1>2 DEF TypeOK
<1>5. DataTyped' /\ PullTyped' /\ OffersTyped' /\ HistoryTyped'
  BY <1>1, <1>2, <1>4, TypesJoin DEF DataTyped, PullTyped, OffersTyped, HistoryTyped, data,
     pulling
<1> QED
  BY <1>3, <1>5, TypesJoinNext

\* Nothing moves in the queues.
LEMMA StillReaches ==
  ASSUME TypeOK, NEW d \in Devices, chan' = chan, stash' = stash
  PROVE  QueuesTyped' /\ Reaches(d, <<>>) /\ Takes(d, {})
<1>1. QueuesTyped /\ Peer(d) \in Devices
  BY QueuesHere, TwoSides
<1>2. chan[Peer(d)] \o <<>> = chan[Peer(d)]
  BY <1>1 DEF QueuesTyped
<1> QED
  BY <1>1, <1>2 DEF QueuesTyped, Reaches, Takes, Has

LEMMA StreamEndsPullPreserves ==
  ASSUME IInv, NEW d \in Devices, StreamEndsPull(d)
  PROVE  Effects(d) /\ TypeOK'
<1>1. TypeOK /\ Meeting /\ PlacesTyped
  BY TypesJoin DEF IInv
<1>2. /\ closed[d] /\ pc[d] \in {"wait1", "wait2"} /\ pc' = [pc EXCEPT ![d] = "barrier"]
      /\ UNCHANGED <<data, peerKey, ret, chan, closed, stash, pulling, offered, faults, history>>
  BY DEF StreamEndsPull, EndOfStream, Goto
<1>3. QueuesTyped' /\ Reaches(d, <<>>) /\ Takes(d, {})
  BY <1>1, <1>2, StillReaches
<1>4. /\ PlacesTyped' /\ pc'[d] = "barrier"
      /\ \A b \in Devices : b # d => pc'[b] = pc[b]
  BY <1>1, <1>2 DEF PlacesTyped
<1>5. Exchanges(d, {}, <<>>)
  BY <1>2, <1>3, <1>4, HoldsNone DEF Exchanges, Live, pulling
<1>6. Effects(d)
  BY <1>1, <1>2, <1>4, <1>5, ExchangeEffects DEF Within
<1>7. DataTyped' /\ PullTyped' /\ OffersTyped' /\ HistoryTyped'
  BY <1>1, <1>2, TypesJoin DEF DataTyped, PullTyped, OffersTyped, HistoryTyped, data,
     pulling, history
<1> QED
  BY <1>3, <1>4, <1>6, <1>7, TypesJoinNext

LEMMA HangPreserves ==
  ASSUME IInv, NEW d \in Devices, Hang(d)
  PROVE  Effects(d) /\ TypeOK'
<1>1. TypeOK /\ Meeting /\ PlacesTyped
  BY TypesJoin DEF IInv
<1>2. /\ ~ Ended(d) /\ pc[d] # "hung" /\ pc' = [pc EXCEPT ![d] = "hung"]
      /\ faults < MaxFaults /\ faults' = faults + 1
      /\ UNCHANGED <<data, peerKey, ret, chan, closed, stash, pulling, offered, history>>
  BY DEF Hang, Running, Goto
<1>3. QueuesTyped' /\ Reaches(d, <<>>) /\ Takes(d, {})
  BY <1>1, <1>2, StillReaches
<1>4. /\ PlacesTyped' /\ pc'[d] = "hung"
      /\ \A b \in Devices : b # d => pc'[b] = pc[b]
  BY <1>1, <1>2 DEF PlacesTyped
<1>5. faults' \in 0 .. MaxFaults
  BY <1>1, <1>2, PullAssumption DEF TypeOK
<1>6. Effects(d)
  <2>1. Apart(d)
    BY <1>1, <1>2, <1>4 DEF Apart, pulling
  <2>2. ~ Ended(d)' /\ ~ closed'[Peer(d)]
    BY <1>1, <1>2, <1>4 DEF Ended, Meeting, EndIsTold
  <2>3. \A t : Has(d, t) => Has(d, t)'
    BY <1>2 DEF Has
  <2>4. ~ Within(d, "wait2")' /\ ~ Within(d, "barrier")'
    BY <1>4 DEF Within
  <2> QED
    BY <1>2, <1>4, <2>1, <2>2, <2>3, <2>4 DEF Effects
<1>7. DataTyped' /\ PullTyped' /\ OffersTyped' /\ HistoryTyped'
  BY <1>1, <1>2, <1>5, TypesJoin DEF DataTyped, PullTyped, OffersTyped, HistoryTyped, data,
     pulling, history
<1> QED
  BY <1>3, <1>4, <1>6, <1>7, TypesJoinNext

LEMMA CarrierFailsPreserves ==
  ASSUME IInv, NEW d \in Devices, CarrierFails(d)
  PROVE  Effects(d) /\ TypeOK'
<1> DEFINE p == Peer(d)
<1>1. /\ TypeOK /\ PlacesTyped /\ QueuesTyped /\ p \in Devices /\ p # d
  BY TypesJoin, TwoSides DEF IInv
<1>2. /\ pc[d] # "hung" /\ pc' = [pc EXCEPT ![d] = "failed"]
      /\ closed' = [closed EXCEPT ![p] = TRUE] /\ stash' = [stash EXCEPT ![d] = <<>>]
      /\ faults < MaxFaults /\ faults' = faults + 1
      /\ UNCHANGED <<data, peerKey, ret, pulling, offered, history>>
  BY DEF CarrierFails, Running, Goto
<1>3. PICK n \in 0 .. Len(chan[p]) :
        chan' = [chan EXCEPT ![d] = <<>>, ![p] = SubSeq(@, 1, n)]
  BY DEF CarrierFails
<1> HIDE DEF p
<1>4. <<>> \in Seq(Messages) /\ SubSeq(chan[p], 1, n) \in Seq(Messages)
  <2>1. chan[p] \in Seq(Messages)
    BY <1>1 DEF QueuesTyped
  <2> QED
    BY <2>1, SubSeqProperties
<1>5. QueuesTyped' /\ stash'[p] = stash[p]
  BY <1>1, <1>2, <1>3, <1>4 DEF QueuesTyped
<1>6. /\ PlacesTyped' /\ pc'[d] = "failed"
      /\ closed'[d] = closed[d] /\ closed'[p] = TRUE
      /\ \A b \in Devices : b # d => pc'[b] = pc[b]
  BY <1>1, <1>2 DEF PlacesTyped
<1>7. Apart(d)
  BY <1>2, <1>5, <1>6 DEF Apart, pulling, p
<1>8. Ended(d)' /\ ~ Within(d, "wait2")' /\ ~ Within(d, "barrier")'
  BY <1>6 DEF Ended, Within
<1>9. Effects(d)
  BY <1>2, <1>6, <1>7, <1>8 DEF Effects, p
<1>10. faults' \in 0 .. MaxFaults
  BY <1>1, <1>2, PullAssumption DEF TypeOK
<1>11. DataTyped' /\ PullTyped' /\ OffersTyped' /\ HistoryTyped'
  BY <1>1, <1>2, <1>10, TypesJoin DEF DataTyped, PullTyped, OffersTyped, HistoryTyped, data,
     pulling, history
<1> QED
  BY <1>5, <1>6, <1>9, <1>11, TypesJoinNext

-----------------------------------------------------------------------------
(* The theorems.                                                           *)

LEMMA InitEstablishes ==
  Init => IInv
<1>1. SUFFICES ASSUME Init PROVE IInv
  OBVIOUS
<1>2. <<>> \in Seq(Messages) /\ 0 \in 0 .. GapRoundLimit /\ 0 \in 0 .. MaxPulls
      /\ 0 \in 0 .. MaxFaults
  BY HoldsNone, PullAssumption DEF GapRoundLimit
<1>3. PlacesTyped /\ QueuesTyped /\ PullTyped /\ OffersTyped /\ HistoryTyped
  BY <1>1, <1>2 DEF Init, PlacesTyped, QueuesTyped, PullTyped, OffersTyped, HistoryTyped
<1>4. DataTyped
  BY <1>1 DEF Init, DataTyped
<1>5. Meeting
  <2>1. \A d \in Devices : /\ pc[d] = "start" /\ ~ closed[d] /\ stash[d] = <<>>
                           /\ pc[Peer(d)] = "start" /\ ~ closed[Peer(d)]
    BY <1>1, TwoSides DEF Init
  <2>2. Low \in Devices
    BY DEF Devices
  <2> QED
    BY <2>1, <2>2 DEF Meeting, EndIsTold, Ended, StreakIsShort, HelloComes, PullAnswered,
       WaitsCross, AcksMeet, Within
<1> QED
  BY <1>3, <1>4, <1>5, TypesJoin DEF IInv

LEMMA NextPreserves ==
  IInv /\ [Next]_vars => IInv'
<1>1. SUFFICES ASSUME IInv, [Next]_vars PROVE IInv'
  OBVIOUS
<1>2. ASSUME NEW d \in Devices, Step(d) \/ Hang(d) \/ CarrierFails(d)
      PROVE  IInv'
  <2>1. Effects(d) /\ TypeOK'
    BY <1>1, <1>2, StartPreserves, ReceiveHelloPreserves, ReceiveBatchPreserves,
       StashWhilePullingPreserves, ServeRequestPreserves, ApplyLateBatchPreserves,
       ReceiveSnapshotPreserves, ReceiveAckPreserves, IgnorePreserves,
       HandleIncomingOfferPreserves, StreamSnapshotPreserves, RivalOfferPreserves,
       TakeSnapshotPreserves, StashDuringExchangePreserves, QuietExchangePreserves,
       LeavesPreserve, StreamEndsPullPreserves, HangPreserves, CarrierFailsPreserves
    DEF Step
  <2> QED
    BY <1>1, <2>1, EffectsSuffice DEF IInv
<1>3. CASE UNCHANGED vars
  <2>1. TypeOK'
    BY <1>1, <1>3 DEF IInv, TypeOK, vars, data, pulling, history
  <2>2. /\ pc' = pc /\ ret' = ret /\ chan' = chan /\ stash' = stash /\ closed' = closed
        /\ gap' = gap
    BY <1>3 DEF vars, pulling
  <2>3. Meeting'
    BY <1>1, <2>2 DEF IInv, Meeting, EndIsTold, Ended, StreakIsShort, HelloComes,
       PullAnswered, WaitsCross, AcksMeet, Within, Has
  <2> QED
    BY <2>1, <2>3 DEF IInv
<1> QED
  BY <1>1, <1>2, <1>3 DEF Next

\* The inductive invariant: types, and what each wait of a device rests on.
THEOREM Invariance == Spec => []IInv
BY InitEstablishes, NextPreserves, PTL DEF Spec

\* Messages, queues, places and counters of the two sessions keep their types.
THEOREM TypeCorrect == Spec => []TypeOK
<1>1. IInv => TypeOK
  BY DEF IInv
<1> QED
  BY <1>1, Invariance, PTL

LEMMA NobodyWaits ==
  IInv => NoMutualWait
<1>1. SUFFICES ASSUME IInv,
                      \A d \in Devices :
                        /\ pc[d] \in {"hello", "wait1", "wait2", "barrier"}
                        /\ Inbox(d) = <<>>
                        /\ ~ closed[d]
               PROVE  FALSE
  BY DEF NoMutualWait
<1>2. \A d \in Devices :
        /\ chan[d] = <<>>
        /\ pc[d] \in {"wait2", "barrier"} => stash[d] = <<>>
  BY <1>1 DEF Inbox, FromStash
<1>3. \A d \in Devices : \A t : ~ Holds(chan[d], t)
  BY <1>2 DEF Holds
<1>4. \A d \in Devices : pc[d] # "hello"
  BY <1>1, <1>2, TwoSides DEF IInv, Meeting, HelloComes
<1>5. \A d \in Devices : \A t : Has(d, t) => pc[d] = "wait1"
  <2>1. \A d \in Devices : \A t : Holds(stash[d], t) => stash[d] # <<>>
    BY DEF Holds
  <2> QED
    BY <1>1, <1>2, <1>3, <1>4, <2>1 DEF Has
<1>6. \A d \in Devices : pc[d] = "wait1" => pc[Peer(d)] = "wait1"
  BY <1>1, <1>3, <1>5, TwoSides DEF IInv, Meeting, PullAnswered
<1>7. \A d \in Devices : pc[d] = "wait2" => FALSE
  <2>1. SUFFICES ASSUME NEW d \in Devices, pc[d] = "wait2" PROVE FALSE
    OBVIOUS
  <2>2. Has(Peer(d), "CHANGES_REQUEST") \/ Has(d, "CHANGES_BATCH")
    BY <1>1, <2>1 DEF IInv, Meeting, PullAnswered, Within
  <2>3. pc[Peer(d)] = "wait1"
    BY <1>5, <2>1, <2>2, TwoSides
  <2>4. pc[d] = "wait1"
    BY <1>6, <2>3, TwoSides
  <2> QED
    BY <2>1, <2>4
<1>8. Low \in Devices
  BY DEF Devices
<1>9. CASE pc[Low] = "wait1"
  <2>1. \A d \in Devices : pc[d] = "wait1"
    BY <1>6, <1>8, <1>9, TwoSides
  <2> QED
    BY <1>1, <1>2, <2>1 DEF IInv, Meeting, WaitsCross
<1>10. CASE pc[Low] = "barrier"
  <2>1. \A d \in Devices : pc[d] = "barrier"
    <3>1. pc[Peer(Low)] # "wait1"
      BY <1>6, <1>8, <1>10, TwoSides
    <3> QED
      BY <1>1, <1>4, <1>7, <1>8, <1>10, <3>1, TwoSides
  <2> QED
    BY <1>1, <1>5, <2>1 DEF IInv, Meeting, AcksMeet, Within
<1> QED
  BY <1>1, <1>4, <1>7, <1>8, <1>9, <1>10

\* However requests, batches, offers, acceptances and acknowledgements of the two
\* devices cross, whatever is late or set aside, and whoever hangs or loses its
\* carrier: never do both wait with nothing to read (DC-08 A.2, A.3; TD-020).
THEOREM NeverBothWait == Spec => []NoMutualWait
BY NobodyWaits, Invariance, PTL

-----------------------------------------------------------------------------
(* The pull: the second invariant, on top of the first.                    *)

\* What d has set aside and what is on its way to it, in the order of arrival.
Queue(d) == stash[d] \o chan[d]

\* What d has heard of, its peer can serve and d still lacks.
Missing(d) == (heard[d] \cap have[Peer(d)]) \ know[d]

IsBatch(m) == m.type = "CHANGES_BATCH"
IsRequest(m) == m.type = "CHANGES_REQUEST"
IsAck(m) == m.type = "CHANGES_ACK"
Brings(m, r) == IsBatch(m) /\ r \in m.changes

\* The queue q brings r before any acknowledgement.
Ahead(q, r) == \E k \in DOMAIN q : Brings(q[k], r) /\ \A j \in 1 .. k : ~ IsAck(q[j])

\* Once q brings a batch, it brings r before the next acknowledgement.
Answered(q, r) ==
  \/ \A k \in DOMAIN q : ~ IsBatch(q[k])
  \/ \E k \in DOMAIN q :
       /\ Brings(q[k], r)
       /\ \A i, j \in 1 .. k : i < j /\ IsBatch(q[i]) => ~ IsAck(q[j])

\* Before HELLO, while pulling, and when the pull is over.
Fresh(d) == pc[d] \in {"start", "hello"}
Pulling(d) == pc[d] = "wait1" \/ Within(d, "wait2")
Past(d) == Within(d, "barrier") \/ Within(d, "ack")

\* The acknowledgement of d is still to be sent: after the pull, or after the
\* exchange that a gap led to.
Unacked(d) == Fresh(d) \/ Pulling(d) \/ Within(d, "ack")

\* Batches come from the history of the peer, and requests lack nothing.
BatchesAreHeld ==
  \A d \in Devices : \A i \in DOMAIN Queue(d) :
    IsBatch(Queue(d)[i]) => Queue(d)[i].changes \subseteq have[Peer(d)]

RequestsAskForAll ==
  \A d \in Devices : \A i \in DOMAIN Queue(d) :
    IsRequest(Queue(d)[i]) => Missing(Peer(d)) \subseteq Queue(d)[i].ranges

\* Before HELLO nothing was requested, and nothing served.
NothingAsked ==
  \A d \in Devices : Fresh(d) =>
    /\ heard[d] = {} /\ pulls[d] = 0
    /\ \A i \in DOMAIN Queue(d) : ~ IsBatch(Queue(d)[i])
    /\ \A i \in DOMAIN Queue(Peer(d)) : ~ IsRequest(Queue(Peer(d))[i])

\* Until its acknowledgement is sent there is none, and its peer stays.
PeerStays ==
  \A d \in Devices : Unacked(d) =>
    /\ pc[Peer(d)] \notin {"drain", "done"}
    /\ \A i \in DOMAIN Queue(Peer(d)) : ~ IsAck(Queue(Peer(d))[i])

\* The answer to the first request brings all that is missing, and the peer's
\* acknowledgement follows it.
PullOf(d) ==
  pc[Peer(d)] # "failed" =>
    /\ Pulling(d) =>
         /\ pulls[d] >= 1
         /\ pulls[d] = 1 =>
              /\ pc[d] = "wait1" => stash[d] = <<>>
              /\ \A r \in Missing(d) : Answered(Queue(d), r)
         /\ pulls[d] > 1 => \A r \in Missing(d) : Ahead(Queue(d), r)
    /\ Past(d) /\ pulls[d] < MaxPulls => \A r \in Missing(d) : Ahead(Queue(d), r)
    /\ pc[d] \in {"drain", "done"} /\ pulls[d] < MaxPulls => Missing(d) = {}

PullServed ==
  /\ BatchesAreHeld /\ RequestsAskForAll /\ NothingAsked /\ PeerStays
  /\ \A d \in Devices : PullOf(d)

-----------------------------------------------------------------------------
(* What a queue brings, when it loses a message or gains some.             *)

\* z is q without its n-th message.
Without(q, z, n) ==
  /\ n \in DOMAIN q /\ DOMAIN z = 1 .. Len(q) - 1
  /\ \A i \in DOMAIN z : z[i] = q[IF i < n THEN i ELSE i + 1]

\* out answers a request for r.
Serves(out, r) ==
  \/ \A i \in DOMAIN out : ~ IsBatch(out[i])
  \/ /\ \A i \in DOMAIN out : IsBatch(out[i])
     /\ \E i \in DOMAIN out : Brings(out[i], r)

LEMMA BatchIsNoAck ==
  ASSUME NEW m, IsBatch(m)
  PROVE  ~ IsAck(m) /\ ~ IsRequest(m)
BY DEF IsBatch, IsAck, IsRequest

LEMMA AheadWithout ==
  ASSUME NEW q \in Seq(Messages), NEW z \in Seq(Messages), NEW n, Without(q, z, n),
         NEW r, Ahead(q, r), ~ Brings(q[n], r)
  PROVE  Ahead(z, r)
<1>1. PICK k \in DOMAIN q : Brings(q[k], r) /\ \A j \in 1 .. k : ~ IsAck(q[j])
  BY DEF Ahead
<1>2. DOMAIN q = 1 .. Len(q) /\ Len(q) \in Nat /\ n \in 1 .. Len(q) /\ k \in 1 .. Len(q) /\ k # n
  BY <1>1 DEF Without
<1> DEFINE l == IF k < n THEN k ELSE k - 1
<1>3. l \in 1 .. Len(q) - 1
  BY <1>2
<1>4. l \in DOMAIN z /\ z[l] = q[k]
  <2>1. (IF l < n THEN l ELSE l + 1) = k
    BY <1>2
  <2> QED
    BY <1>3, <2>1 DEF Without
<1>5. \A j \in 1 .. l : ~ IsAck(z[j])
  <2> TAKE j \in 1 .. l
  <2>1. j \in 1 .. Len(q) - 1
    BY <1>3
  <2>2. (IF j < n THEN j ELSE j + 1) \in 1 .. k
    BY <1>2, <1>3
  <2>3. z[j] = q[IF j < n THEN j ELSE j + 1]
    BY <2>1 DEF Without
  <2> QED
    BY <1>1, <2>2, <2>3
<1> QED
  BY <1>1, <1>4, <1>5 DEF Ahead

LEMMA AnsweredWithout ==
  ASSUME NEW q \in Seq(Messages), NEW z \in Seq(Messages), NEW n, Without(q, z, n),
         NEW r, Answered(q, r), ~ IsBatch(q[n])
  PROVE  Answered(z, r)
<1>1. DOMAIN q = 1 .. Len(q) /\ Len(q) \in Nat /\ n \in 1 .. Len(q)
  BY DEF Without
<1>2. CASE \A k \in DOMAIN q : ~ IsBatch(q[k])
  <2>1. ASSUME NEW i \in DOMAIN z
        PROVE  ~ IsBatch(z[i])
    <3>1. i \in 1 .. Len(q) - 1 /\ z[i] = q[IF i < n THEN i ELSE i + 1]
      BY <2>1 DEF Without
    <3>2. (IF i < n THEN i ELSE i + 1) \in DOMAIN q
      BY <1>1, <3>1
    <3> QED
      BY <1>2, <3>1, <3>2
  <2> QED
    BY <2>1 DEF Answered
<1>3. ASSUME NEW k \in DOMAIN q, Brings(q[k], r),
             \A i, j \in 1 .. k : i < j /\ IsBatch(q[i]) => ~ IsAck(q[j])
      PROVE  Answered(z, r)
  <2> DEFINE l == IF k < n THEN k ELSE k - 1
  <2>1. k # n /\ k \in 1 .. Len(q)
    BY <1>1, <1>3 DEF Brings
  <2>2. l \in 1 .. Len(q) - 1
    BY <1>1, <2>1
  <2>3. l \in DOMAIN z /\ z[l] = q[k]
    <3>1. (IF l < n THEN l ELSE l + 1) = k
      BY <1>1, <2>1
    <3> QED
      BY <2>2, <3>1 DEF Without
  <2>4. ASSUME NEW i \in 1 .. l, NEW j \in 1 .. l, i < j, IsBatch(z[i])
        PROVE  ~ IsAck(z[j])
    <3> DEFINE a == IF i < n THEN i ELSE i + 1
               b == IF j < n THEN j ELSE j + 1
    <3>1. a \in 1 .. k /\ b \in 1 .. k /\ a < b
      BY <1>1, <2>1, <2>2, <2>4
    <3>2. i \in 1 .. Len(q) - 1 /\ j \in 1 .. Len(q) - 1
      BY <1>1, <2>2
    <3>3. z[i] = q[a] /\ z[j] = q[b]
      BY <3>2 DEF Without
    <3> HIDE DEF a, b
    <3> QED
      BY <1>3, <2>4, <3>1, <3>3
  <2> HIDE DEF l
  <2> QED
    BY <1>3, <2>3, <2>4 DEF Answered
<1> QED
  BY <1>2, <1>3 DEF Answered

\* The first batch brings r, or r follows.
LEMMA FirstBatch ==
  ASSUME NEW q \in Seq(Messages), NEW z \in Seq(Messages), Without(q, z, 1),
         NEW r, Answered(q, r), IsBatch(q[1]), ~ Brings(q[1], r)
  PROVE  Ahead(z, r)
<1>1. DOMAIN q = 1 .. Len(q) /\ Len(q) \in Nat /\ 1 \in 1 .. Len(q)
  BY DEF Without
<1>2. PICK k \in DOMAIN q :
        /\ Brings(q[k], r)
        /\ \A i, j \in 1 .. k : i < j /\ IsBatch(q[i]) => ~ IsAck(q[j])
  BY <1>1 DEF Answered
<1>3. k \in 2 .. Len(q)
  BY <1>1, <1>2
<1>4. \A i \in 1 .. Len(q) - 1 : i \in DOMAIN z /\ z[i] = q[i + 1]
  <2> TAKE i \in 1 .. Len(q) - 1
  <2>1. ~ (i < 1)
    BY <1>1
  <2> QED
    BY <2>1 DEF Without
<1>5. k - 1 \in 1 .. Len(q) - 1 /\ (k - 1) + 1 = k
  BY <1>3
<1>6. k - 1 \in DOMAIN z /\ z[k - 1] = q[k]
  BY <1>4, <1>5
<1>7. \A j \in 1 .. k - 1 : ~ IsAck(z[j])
  <2> TAKE j \in 1 .. k - 1
  <2>1. j \in 1 .. Len(q) - 1 /\ j + 1 \in 1 .. k /\ 1 \in 1 .. k /\ 1 < j + 1
    BY <1>3
  <2>2. ~ IsAck(q[j + 1])
    BY <1>2, <2>1
  <2> QED
    BY <1>4, <2>1, <2>2
<1> QED
  BY <1>2, <1>6, <1>7 DEF Ahead

LEMMA AheadConcat ==
  ASSUME NEW q \in Seq(Messages), NEW out \in Seq(Messages), NEW r, Ahead(q, r)
  PROVE  Ahead(q \o out, r)
<1>1. PICK k \in DOMAIN q : Brings(q[k], r) /\ \A j \in 1 .. k : ~ IsAck(q[j])
  BY DEF Ahead
<1>2. \A j \in 1 .. Len(q) : j \in DOMAIN (q \o out) /\ (q \o out)[j] = q[j]
  OBVIOUS
<1>3. k \in 1 .. Len(q) /\ \A j \in 1 .. k : j \in 1 .. Len(q)
  BY <1>1
<1> QED
  BY <1>1, <1>2, <1>3 DEF Ahead

LEMMA AnsweredConcat ==
  ASSUME NEW q \in Seq(Messages), NEW out \in Seq(Messages), NEW r, Answered(q, r),
         Serves(out, r)
  PROVE  Answered(q \o out, r)
<1> DEFINE z == q \o out
           n == Len(q)
<1>1. n \in Nat /\ Len(out) \in Nat /\ DOMAIN q = 1 .. n /\ DOMAIN out = 1 .. Len(out)
  OBVIOUS
<1>2. /\ DOMAIN z = 1 .. n + Len(out)
      /\ \A j \in 1 .. n : z[j] = q[j]
      /\ \A j \in 1 .. Len(out) : z[n + j] = out[j]
  OBVIOUS
<1>3. \A j \in DOMAIN z : j \in 1 .. n \/ (j - n \in DOMAIN out /\ z[j] = out[j - n])
  <2> TAKE j \in DOMAIN z
  <2>1. CASE j \notin 1 .. n
    <3>1. j - n \in 1 .. Len(out) /\ n + (j - n) = j
      BY <1>1, <1>2, <2>1
    <3> QED
      BY <1>1, <1>2, <3>1
  <2> QED
    BY <2>1
<1> HIDE DEF z, n
<1>4. ASSUME NEW k \in DOMAIN q, Brings(q[k], r),
             \A i, j \in 1 .. k : i < j /\ IsBatch(q[i]) => ~ IsAck(q[j])
      PROVE  Answered(z, r)
  <2>1. k \in 1 .. n /\ k \in DOMAIN z /\ \A j \in 1 .. k : j \in 1 .. n
    BY <1>1, <1>2
  <2> QED
    BY <1>2, <1>4, <2>1 DEF Answered
<1>5. ASSUME \A k \in DOMAIN q : ~ IsBatch(q[k]),
             \A i \in DOMAIN out : ~ IsBatch(out[i])
      PROVE  Answered(z, r)
  <2>1. \A j \in DOMAIN z : ~ IsBatch(z[j])
    BY <1>1, <1>2, <1>3, <1>5
  <2> QED
    BY <2>1 DEF Answered
<1>6. ASSUME \A k \in DOMAIN q : ~ IsBatch(q[k]),
             \A i \in DOMAIN out : IsBatch(out[i]),
             NEW i \in DOMAIN out, Brings(out[i], r)
      PROVE  Answered(z, r)
  <2>1. n + i \in DOMAIN z /\ Brings(z[n + i], r)
    BY <1>1, <1>2, <1>6
  <2>2. ASSUME NEW a \in 1 .. n + i, NEW b \in 1 .. n + i, a < b, IsBatch(z[a])
        PROVE  ~ IsAck(z[b])
    <3>1. a \in DOMAIN z /\ b \in DOMAIN z
      BY <1>1, <1>2, <1>6
    <3>2. a \notin 1 .. n
      BY <1>1, <1>2, <1>6, <2>2
    <3>3. b \notin 1 .. n
      BY <1>1, <1>6, <2>2, <3>2
    <3> QED
      BY <1>3, <1>6, <3>1, <3>3, BatchIsNoAck
  <2> QED
    BY <2>1, <2>2 DEF Answered
<1>7. Answered(z, r)
  BY <1>4, <1>5, <1>6 DEF Answered, Serves
<1> QED
  BY <1>7 DEF z

\* A request is answered with batches of what is held, one for each record.
LEMMA BatchesServe ==
  ASSUME TypeOK, NEW d \in Devices, NEW R \in SUBSET Recs, NEW out \in Batches(d, R)
  PROVE  /\ \A i \in DOMAIN out : IsBatch(out[i]) /\ out[i].changes \subseteq have[d]
         /\ \A r \in have[d] \cap R : Serves(out, r)
<1> DEFINE served == have[d] \cap R
<1>1. served \subseteq Nat /\ IsFiniteSet(served)
  <2>1. served \subseteq Recs
    OBVIOUS
  <2> QED
    BY <2>1, RecsAssumption, FS_Subset
<1>2. CASE served = {}
  <2>1. out = <<Batch({})>>
    BY <1>2 DEF Batches
  <2>2. DOMAIN out = {1} /\ out[1] = Batch({})
    BY <2>1
  <2> QED
    BY <1>2, <2>2 DEF IsBatch, Batch
<1>3. CASE served # {}
  <2>1. PICK s \in Listings(served) : out = [i \in DOMAIN s |-> Batch({s[i]})]
    BY <1>3 DEF Batches
  <2> DEFINE n == Cardinality(served)
  <2>2. /\ s \in [1 .. n -> served]
        /\ \A i, j \in 1 .. n : i < j => s[i] < s[j]
    BY <2>1 DEF Listings
  <2>3. n \in Nat
    BY <1>1, FS_CardinalityType
  <2>4. Cardinality(1 .. n) = n
    BY <2>3, FS_Interval
  <2> HIDE DEF served
  <2>5. \A i, j \in 1 .. n : s[i] = s[j] => i = j
    <3>1. SUFFICES ASSUME NEW i \in 1 .. n, NEW j \in 1 .. n, s[i] = s[j], i # j
                   PROVE  FALSE
      OBVIOUS
    <3>2. s[i] \in Nat /\ s[j] \in Nat
      BY <1>1, <2>2
    <3>3. i < j \/ j < i
      BY <2>3, <3>1
    <3> QED
      BY <2>2, <3>1, <3>2, <3>3
  <2> HIDE DEF n
  <2>6. s \in Injection(1 .. n, served)
    BY <2>2, <2>5 DEF Injection, IsInjective
  <2>7. s \in Surjection(1 .. n, served)
    BY <1>1, <2>4, <2>6, FS_Injection DEF n
  <2>8. \A r \in served : \E i \in 1 .. n : s[i] = r
    BY <2>7 DEF Surjection
  <2>9. DOMAIN out = 1 .. n /\ \A i \in 1 .. n : out[i] = Batch({s[i]})
    BY <2>1, <2>2
  <2>10. \A i \in 1 .. n : IsBatch(out[i]) /\ out[i].changes = {s[i]}
    BY <2>9 DEF IsBatch, Batch
  <2>11. \A i \in 1 .. n : s[i] \in have[d]
    BY <2>2 DEF served
  <2>12. \A r \in served : Serves(out, r)
    BY <2>8, <2>9, <2>10 DEF Serves, Brings
  <2> QED
    BY <2>9, <2>10, <2>11, <2>12 DEF served
<1> QED
  BY <1>2, <1>3

-----------------------------------------------------------------------------
(* What a step of d does to the pulls.                                     *)

Among(z, q) == \A i \in DOMAIN z : \E j \in DOMAIN q : z[i] = q[j]

\* What d may send: batches of what it holds, to who asked; requests for all it
\* lacks; an acknowledgement when its pull is over.
MaySend(d, out) ==
  /\ \A i \in DOMAIN out :
       /\ IsBatch(out[i]) => /\ out[i].changes \subseteq have[d]
                             /\ \E j \in DOMAIN Queue(d) : IsRequest(Queue(d)[j])
       /\ IsRequest(out[i]) => heard'[d] \ know'[d] \subseteq out[i].ranges /\ ~ Fresh(d)'
       /\ IsAck(out[i]) => ~ Unacked(d)'
  /\ \A r \in Missing(Peer(d)) : Serves(out, r)

PeerGets(d) ==
  \/ Queue(Peer(d))' = Queue(Peer(d))
  \/ \E out \in Seq(Messages) :
       Queue(Peer(d))' = Queue(Peer(d)) \o out /\ MaySend(d, out)
  \/ pc'[d] = "failed" /\ Among(Queue(Peer(d))', Queue(Peer(d)))

OthersKept(d) ==
  \A b \in Devices : b # d =>
    /\ pc'[b] = pc[b] /\ ret'[b] = ret[b] /\ heard'[b] = heard[b] /\ pulls'[b] = pulls[b]
    /\ have'[b] = have[b] /\ know'[b] = know[b]

\* d learns what it hears of, and gets what the peer holds.
Learns(d) ==
  /\ know[d] \subseteq know'[d]
  /\ have[d] \subseteq have'[d] /\ have'[d] \subseteq have[d] \cup have[Peer(d)]

PullEffects(d) ==
  /\ pc[d] # "failed" /\ OthersKept(d) /\ Learns(d) /\ PeerGets(d)
  /\ stash'[Peer(d)] = stash[Peer(d)]
  /\ heard'[d] = heard[d] \/ pc[d] = "hello"
  /\ Among(Queue(d)', Queue(d))
  /\ Fresh(d)' => Fresh(d) /\ heard'[d] = heard[d] /\ pulls'[d] = pulls[d]
  /\ Unacked(d)' => Unacked(d)
  /\ pc'[d] = "drain" => pc[d] = "drain" \/ \E i \in DOMAIN Queue(d) : IsAck(Queue(d)[i])
  /\ pc'[d] = "done" => pc[d] = "drain" \/ closed[d]
  /\ PullOf(d)'

LEMMA QueuesQueue ==
  ASSUME TypeOK, NEW d \in Devices
  PROVE  Queue(d) \in Seq(Messages) /\ chan[d] \in Seq(Messages) /\ stash[d] \in Seq(Messages)
BY DEF TypeOK, Queue

\* The peer's queue gains what d may send, or loses.
LEMMA PeerGetsMembers ==
  ASSUME IInv, NEW d \in Devices, PeerGets(d), NEW i \in DOMAIN Queue(Peer(d))'
  PROVE  \/ \E j \in DOMAIN Queue(Peer(d)) : Queue(Peer(d))'[i] = Queue(Peer(d))[j]
         \/ \E out \in Seq(Messages) : \E j \in DOMAIN out :
              Queue(Peer(d))'[i] = out[j] /\ MaySend(d, out)
<1> DEFINE p == Peer(d)
<1>1. Queue(p) \in Seq(Messages)
  BY TwoSides, QueuesQueue DEF IInv
<1>2. CASE Queue(p)' = Queue(p) \/ Among(Queue(p)', Queue(p))
  BY <1>2 DEF Among
<1>3. ASSUME NEW out \in Seq(Messages), Queue(p)' = Queue(p) \o out, MaySend(d, out)
      PROVE  \/ \E j \in DOMAIN Queue(p) : Queue(p)'[i] = Queue(p)[j]
             \/ \E j \in DOMAIN out : Queue(p)'[i] = out[j]
  <2> DEFINE q == Queue(p)
  <2>1. i \in DOMAIN (q \o out)
    BY <1>3
  <2> HIDE DEF q
  <2>2. i \in 1 .. Len(q) + Len(out) /\ q \in Seq(Messages)
    BY <1>1, <2>1 DEF q
  <2>3. CASE i \in 1 .. Len(q)
    <3>1. i \in DOMAIN q /\ (q \o out)[i] = q[i]
      BY <2>2, <2>3
    <3> QED
      BY <1>3, <3>1 DEF q
  <2>4. CASE i \notin 1 .. Len(q)
    <3>1. i - Len(q) \in DOMAIN out /\ (q \o out)[i] = out[i - Len(q)]
      BY <2>2, <2>4
    <3> QED
      BY <1>3, <3>1 DEF q
  <2> QED
    BY <2>3, <2>4
<1> QED
  BY <1>2, <1>3 DEF PeerGets

\* A step with these effects keeps the invariant of the pulls.
LEMMA PullEffectsSuffice ==
  ASSUME IInv, IInv', PullServed, NEW d \in Devices, PullEffects(d)
  PROVE  PullServed'
<1> DEFINE p == Peer(d)
<1>1. /\ p \in Devices /\ p # d /\ Peer(p) = d /\ \A b \in Devices : b = d \/ b = p
  BY TwoSides
<1>2. /\ pc'[p] = pc[p] /\ ret'[p] = ret[p] /\ heard'[p] = heard[p]
      /\ pulls'[p] = pulls[p] /\ have'[p] = have[p] /\ know'[p] = know[p]
      /\ stash'[p] = stash[p]
  BY <1>1 DEF PullEffects, OthersKept
<1>3. /\ know[d] \subseteq know'[d] /\ have[d] \subseteq have'[d]
      /\ have'[d] \subseteq have[d] \cup have[p]
  BY DEF PullEffects, Learns
<1>4. have[p] \subseteq know[p]
  BY <1>1 DEF IInv, TypeOK
<1>5. Missing(p)' \subseteq Missing(p)
  BY <1>1, <1>2, <1>3, <1>4 DEF Missing
<1>6. heard'[d] = heard[d] => Missing(d)' \subseteq Missing(d)
  BY <1>1, <1>2, <1>3 DEF Missing
<1>7. Missing(d)' \subseteq heard'[d] \ know'[d]
  BY DEF Missing
<1>8. /\ Fresh(p)' <=> Fresh(p)
      /\ Pulling(p)' <=> Pulling(p)
      /\ Past(p)' <=> Past(p)
      /\ Unacked(p)' <=> Unacked(p)
  BY <1>2 DEF Fresh, Pulling, Past, Unacked, Within
<1>9. /\ \A i \in DOMAIN Queue(d)' : \E j \in DOMAIN Queue(d) : Queue(d)'[i] = Queue(d)[j]
      /\ \A i \in DOMAIN Queue(p)' :
           \/ \E j \in DOMAIN Queue(p) : Queue(p)'[i] = Queue(p)[j]
           \/ \E out \in Seq(Messages) : \E j \in DOMAIN out :
                Queue(p)'[i] = out[j] /\ MaySend(d, out)
  BY PeerGetsMembers DEF PullEffects, Among
<1>10. BatchesAreHeld'
  <2>1. \A i \in DOMAIN Queue(d)' : IsBatch(Queue(d)'[i]) => Queue(d)'[i].changes \subseteq have'[p]
    BY <1>1, <1>2, <1>9 DEF PullServed, BatchesAreHeld
  <2>2. \A i \in DOMAIN Queue(p)' : IsBatch(Queue(p)'[i]) => Queue(p)'[i].changes \subseteq have'[d]
    <3> TAKE i \in DOMAIN Queue(p)'
    <3>1. ASSUME NEW j \in DOMAIN Queue(p), Queue(p)'[i] = Queue(p)[j]
          PROVE  IsBatch(Queue(p)'[i]) => Queue(p)'[i].changes \subseteq have[d]
      BY <1>1, <3>1 DEF PullServed, BatchesAreHeld
    <3>2. ASSUME NEW out, NEW j \in DOMAIN out, Queue(p)'[i] = out[j], MaySend(d, out)
          PROVE  IsBatch(Queue(p)'[i]) => Queue(p)'[i].changes \subseteq have[d]
      BY <3>2 DEF MaySend
    <3> QED
      BY <1>3, <1>9, <3>1, <3>2
  <2>3. \A b \in Devices : \A i \in DOMAIN Queue(b)' :
          IsBatch(Queue(b)'[i]) => Queue(b)'[i].changes \subseteq have'[Peer(b)]
    BY <1>1, <2>1, <2>2
  <2> QED
    BY <2>3 DEF BatchesAreHeld, IsBatch
<1>11. RequestsAskForAll'
  <2>1. \A i \in DOMAIN Queue(d)' :
          IsRequest(Queue(d)'[i]) => Missing(p)' \subseteq Queue(d)'[i].ranges
    BY <1>1, <1>5, <1>9 DEF PullServed, RequestsAskForAll
  <2>2. \A i \in DOMAIN Queue(p)' :
          IsRequest(Queue(p)'[i]) => Missing(d)' \subseteq Queue(p)'[i].ranges
    <3> TAKE i \in DOMAIN Queue(p)'
    <3>1. ASSUME NEW j \in DOMAIN Queue(p), Queue(p)'[i] = Queue(p)[j], IsRequest(Queue(p)[j])
          PROVE  Missing(d)' \subseteq Queue(p)'[i].ranges
      <4>1. ~ Fresh(d)
        BY <1>1, <3>1 DEF PullServed, NothingAsked
      <4>2. heard'[d] = heard[d]
        BY <4>1 DEF PullEffects, Fresh
      <4> QED
        BY <1>1, <1>6, <3>1, <4>2 DEF PullServed, RequestsAskForAll
    <3>2. ASSUME NEW out, NEW j \in DOMAIN out, Queue(p)'[i] = out[j], MaySend(d, out),
                 IsRequest(out[j])
          PROVE  Missing(d)' \subseteq Queue(p)'[i].ranges
      BY <1>7, <3>2 DEF MaySend
    <3> QED
      BY <1>9, <3>1, <3>2
  <2>3. \A b \in Devices : \A i \in DOMAIN Queue(b)' :
          IsRequest(Queue(b)'[i]) => Missing(Peer(b))' \subseteq Queue(b)'[i].ranges
    BY <1>1, <2>1, <2>2
  <2> QED
    BY <2>3 DEF RequestsAskForAll, IsRequest
<1>12. NothingAsked'
  <2>1. ASSUME Fresh(d)'
        PROVE  /\ heard'[d] = {} /\ pulls'[d] = 0
               /\ \A i \in DOMAIN Queue(d)' : ~ IsBatch(Queue(d)'[i])
               /\ \A i \in DOMAIN Queue(p)' : ~ IsRequest(Queue(p)'[i])
    <3>1. Fresh(d) /\ heard'[d] = heard[d] /\ pulls'[d] = pulls[d]
      BY <2>1 DEF PullEffects
    <3>2. \A i \in DOMAIN Queue(p)' : ~ IsRequest(Queue(p)'[i])
      BY <1>1, <1>9, <2>1, <3>1 DEF PullServed, NothingAsked, MaySend
    <3> QED
      BY <1>9, <3>1, <3>2 DEF PullServed, NothingAsked
  <2>2. ASSUME Fresh(p)'
        PROVE  /\ heard'[p] = {} /\ pulls'[p] = 0
               /\ \A i \in DOMAIN Queue(p)' : ~ IsBatch(Queue(p)'[i])
               /\ \A i \in DOMAIN Queue(d)' : ~ IsRequest(Queue(d)'[i])
    <3>1. Fresh(p)
      BY <1>8, <2>2
    <3>2. \A j \in DOMAIN Queue(d) : ~ IsRequest(Queue(d)[j])
      BY <1>1, <3>1 DEF PullServed, NothingAsked
    <3>3. \A i \in DOMAIN Queue(p)' : ~ IsBatch(Queue(p)'[i])
      BY <1>1, <1>9, <3>1, <3>2 DEF PullServed, NothingAsked, MaySend
    <3> QED
      BY <1>1, <1>2, <1>9, <3>1, <3>2, <3>3 DEF PullServed, NothingAsked
  <2>3. \A b \in Devices : Fresh(b)' =>
          /\ heard'[b] = {} /\ pulls'[b] = 0
          /\ \A i \in DOMAIN Queue(b)' : ~ IsBatch(Queue(b)'[i])
          /\ \A i \in DOMAIN Queue(Peer(b))' : ~ IsRequest(Queue(Peer(b))'[i])
    BY <1>1, <2>1, <2>2
  <2> QED
    BY <2>3 DEF NothingAsked, IsBatch, IsRequest
<1>13. PeerStays'
  <2>1. ASSUME Unacked(d)'
        PROVE  /\ pc'[p] \notin {"drain", "done"}
               /\ \A i \in DOMAIN Queue(p)' : ~ IsAck(Queue(p)'[i])
    <3>1. Unacked(d)
      BY <2>1 DEF PullEffects
    <3>2. \A i \in DOMAIN Queue(p)' : ~ IsAck(Queue(p)'[i])
      BY <1>1, <1>9, <2>1, <3>1 DEF PullServed, PeerStays, MaySend
    <3> QED
      BY <1>1, <1>2, <3>1, <3>2 DEF PullServed, PeerStays
  <2>2. ASSUME Unacked(p)'
        PROVE  /\ pc'[d] \notin {"drain", "done"}
               /\ \A i \in DOMAIN Queue(d)' : ~ IsAck(Queue(d)'[i])
    <3>1. Unacked(p)
      BY <1>8, <2>2
    <3>2. pc[d] # "drain" /\ \A i \in DOMAIN Queue(d) : ~ IsAck(Queue(d)[i])
      BY <1>1, <3>1 DEF PullServed, PeerStays
    <3>3. ~ closed[d]
      BY <1>1, <3>1 DEF Unacked, Fresh, Pulling, Within, IInv, Meeting, EndIsTold, Ended
    <3>4. pc'[d] \notin {"drain", "done"}
      BY <3>2, <3>3 DEF PullEffects
    <3> QED
      BY <1>9, <3>2, <3>4
  <2>3. \A b \in Devices : Unacked(b)' =>
          /\ pc'[Peer(b)] \notin {"drain", "done"}
          /\ \A i \in DOMAIN Queue(Peer(b))' : ~ IsAck(Queue(Peer(b))'[i])
    BY <1>1, <2>1, <2>2
  <2> QED
    BY <2>3 DEF PeerStays, IsAck
<1>14. PullOf(p)'
  <2>1. PullOf(p) /\ pc[d] # "failed"
    BY <1>1 DEF PullServed, PullEffects
  <2>2. ASSUME pc'[d] # "failed"
        PROVE  \A r \in Missing(p)' :
                 /\ Answered(Queue(p), r) => Answered(Queue(p)', r)
                 /\ Ahead(Queue(p), r) => Ahead(Queue(p)', r)
    <3> TAKE r \in Missing(p)'
    <3>1. CASE Queue(p)' = Queue(p)
      BY <3>1
    <3>2. ASSUME NEW out \in Seq(Messages), Queue(p)' = Queue(p) \o out, MaySend(d, out)
          PROVE  /\ Answered(Queue(p), r) => Answered(Queue(p)', r)
                 /\ Ahead(Queue(p), r) => Ahead(Queue(p)', r)
      <4>1. Serves(out, r) /\ Queue(p) \in Seq(Messages)
        BY <1>1, <1>5, <3>2, QueuesQueue DEF MaySend, IInv
      <4>2. Answered(Queue(p), r) => Answered(Queue(p) \o out, r)
        BY <4>1, AnsweredConcat
      <4>3. Ahead(Queue(p), r) => Ahead(Queue(p) \o out, r)
        BY <4>1, AheadConcat
      <4> QED
        BY <3>2, <4>2, <4>3
    <3> QED
      BY <2>2, <3>1, <3>2 DEF PullEffects, PeerGets
  <2>3. SUFFICES ASSUME pc'[d] # "failed"
                 PROVE  /\ Pulling(p)' =>
                             /\ pulls'[p] >= 1
                             /\ pulls'[p] = 1 =>
                                  /\ pc'[p] = "wait1" => stash'[p] = <<>>
                                  /\ \A r \in Missing(p)' : Answered(Queue(p)', r)
                             /\ pulls'[p] > 1 => \A r \in Missing(p)' : Ahead(Queue(p)', r)
                        /\ Past(p)' /\ pulls'[p] < MaxPulls =>
                             \A r \in Missing(p)' : Ahead(Queue(p)', r)
                        /\ pc'[p] \in {"drain", "done"} /\ pulls'[p] < MaxPulls =>
                             Missing(p)' = {}
    BY <1>1 DEF PullOf, Ahead, Answered, Brings, IsBatch, IsAck
  <2> QED
    BY <1>1, <1>2, <1>5, <1>8, <2>1, <2>2, <2>3 DEF PullOf
<1>15. \A b \in Devices : PullOf(b)'
  BY <1>1, <1>14 DEF PullEffects
<1> QED
  BY <1>10, <1>11, <1>12, <1>13, <1>15 DEF PullServed

-----------------------------------------------------------------------------
(* What sending and receiving do to the queues, for the pulls.             *)

LEMMA TailOfConcat ==
  ASSUME NEW s \in Seq(Messages), NEW t \in Seq(Messages)
  PROVE  /\ t # <<>> => /\ Without(s \o t, s \o Tail(t), Len(s) + 1)
                        /\ (s \o t)[Len(s) + 1] = Head(t)
                        /\ Append(s, Head(t)) \o Tail(t) = s \o t
         /\ s # <<>> => Without(s \o t, Tail(s) \o t, 1) /\ (s \o t)[1] = Head(s)
<1>1. ASSUME t # <<>>
      PROVE  /\ Without(s \o t, s \o Tail(t), Len(s) + 1)
             /\ (s \o t)[Len(s) + 1] = Head(t)
             /\ Append(s, Head(t)) \o Tail(t) = s \o t
  <2>1. /\ Len(t) \in Nat \ {0} /\ Len(s) \in Nat /\ Tail(t) \in Seq(Messages)
        /\ Len(Tail(t)) = Len(t) - 1 /\ \A i \in 1 .. Len(t) - 1 : Tail(t)[i] = t[i + 1]
    BY <1>1
  <2> DEFINE u == Tail(t)
  <2> HIDE DEF u
  <2>2. /\ s \o u \in Seq(Messages) /\ Len(s \o u) = Len(s) + Len(t) - 1
        /\ \A i \in 1 .. Len(s) + Len(t) - 1 :
             (s \o u)[i] = IF i <= Len(s) THEN s[i] ELSE u[i - Len(s)]
    BY <2>1 DEF u
  <2>3. /\ Len(s \o t) = Len(s) + Len(t)
        /\ \A i \in 1 .. Len(s) + Len(t) :
             (s \o t)[i] = IF i <= Len(s) THEN s[i] ELSE t[i - Len(s)]
    OBVIOUS
  <2>4. \A i \in 1 .. Len(s) + Len(t) - 1 :
          (s \o u)[i] = (s \o t)[IF i < Len(s) + 1 THEN i ELSE i + 1]
    <3> TAKE i \in 1 .. Len(s) + Len(t) - 1
    <3>1. CASE i <= Len(s)
      BY <2>1, <2>2, <2>3, <3>1
    <3>2. CASE i > Len(s)
      <4>1. i - Len(s) \in 1 .. Len(t) - 1 /\ (i - Len(s)) + 1 = (i + 1) - Len(s)
        BY <2>1, <3>2
      <4>2. u[i - Len(s)] = t[(i + 1) - Len(s)]
        BY <2>1, <4>1 DEF u
      <4>3. i + 1 \in 1 .. Len(s) + Len(t) /\ ~ (i + 1 <= Len(s)) /\ ~ (i <= Len(s))
            /\ ~ (i < Len(s) + 1)
        BY <2>1, <3>2
      <4> QED
        BY <2>2, <2>3, <4>2, <4>3
    <3> HIDE DEF u
    <3>3. i <= Len(s) \/ i > Len(s)
      BY <2>1
    <3> QED
      BY <3>1, <3>2, <3>3
  <2>5. Without(s \o t, s \o u, Len(s) + 1)
    <3>1. /\ Len(s) + 1 \in DOMAIN (s \o t)
          /\ DOMAIN (s \o u) = 1 .. Len(s \o t) - 1
      BY <2>1, <2>2, <2>3
    <3>2. \A i \in DOMAIN (s \o u) :
            (s \o u)[i] = (s \o t)[IF i < Len(s) + 1 THEN i ELSE i + 1]
      <4> TAKE i \in DOMAIN (s \o u)
      <4>1. i \in 1 .. Len(s) + Len(t) - 1
        BY <2>1, <2>3, <3>1
      <4> QED
        BY <2>4, <4>1
    <3> QED
      BY <3>1, <3>2 DEF Without
  <2>6. (s \o t)[Len(s) + 1] = Head(t)
    <3>1. Len(s) + 1 \in 1 .. Len(s) + Len(t) /\ (Len(s) + 1) - Len(s) = 1
          /\ ~ (Len(s) + 1 <= Len(s))
      BY <2>1
    <3>2. Head(t) = t[1]
      BY <1>1
    <3> QED
      BY <2>3, <3>1, <3>2
  <2>7. Append(s, Head(t)) \o Tail(t) = s \o t
    <3>1. Head(t) \in Messages
      BY <1>1
    <3>2. t = <<Head(t)>> \o Tail(t)
      BY <1>1
    <3>3. Append(s, Head(t)) = s \o <<Head(t)>>
      BY <3>1
    <3>4. <<Head(t)>> \in Seq(Messages)
      BY <3>1
    <3> DEFINE a == <<Head(t)>>
    <3> HIDE DEF a, u
    <3>5. (s \o a) \o u = s \o (a \o u)
      BY <2>1, <3>4, ConcatAssociative DEF a, u
    <3> QED
      BY <3>2, <3>3, <3>5 DEF a, u
  <2> QED
    BY <2>5, <2>6, <2>7 DEF u
<1>2. ASSUME s # <<>>
      PROVE  Without(s \o t, Tail(s) \o t, 1) /\ (s \o t)[1] = Head(s)
  <2>1. /\ Len(s) \in Nat \ {0} /\ Len(t) \in Nat /\ Tail(s) \in Seq(Messages)
        /\ Len(Tail(s)) = Len(s) - 1 /\ \A i \in 1 .. Len(s) - 1 : Tail(s)[i] = s[i + 1]
    BY <1>2
  <2> DEFINE u == Tail(s)
  <2> HIDE DEF u
  <2>2. /\ u \o t \in Seq(Messages) /\ Len(u \o t) = Len(s) + Len(t) - 1
        /\ \A i \in 1 .. Len(s) + Len(t) - 1 :
             (u \o t)[i] = IF i <= Len(s) - 1 THEN u[i] ELSE t[i - (Len(s) - 1)]
    BY <2>1 DEF u
  <2>3. /\ Len(s \o t) = Len(s) + Len(t)
        /\ \A i \in 1 .. Len(s) + Len(t) :
             (s \o t)[i] = IF i <= Len(s) THEN s[i] ELSE t[i - Len(s)]
    OBVIOUS
  <2>4. \A i \in 1 .. Len(s) + Len(t) - 1 : (u \o t)[i] = (s \o t)[i + 1]
    <3> TAKE i \in 1 .. Len(s) + Len(t) - 1
    <3>1. CASE i <= Len(s) - 1
      BY <2>1, <2>2, <2>3, <3>1 DEF u
    <3>2. CASE i > Len(s) - 1
      <4>1. i - (Len(s) - 1) = (i + 1) - Len(s) /\ ~ (i <= Len(s) - 1) /\ ~ (i + 1 <= Len(s))
            /\ i + 1 \in 1 .. Len(s) + Len(t)
        BY <2>1, <3>2
      <4> QED
        BY <2>2, <2>3, <4>1
    <3>3. i <= Len(s) - 1 \/ i > Len(s) - 1
      BY <2>1
    <3> QED
      BY <3>1, <3>2, <3>3
  <2>5. Without(s \o t, u \o t, 1)
    <3>1. 1 \in DOMAIN (s \o t) /\ DOMAIN (u \o t) = 1 .. Len(s \o t) - 1
      BY <2>1, <2>2, <2>3
    <3>2. \A i \in DOMAIN (u \o t) : (u \o t)[i] = (s \o t)[IF i < 1 THEN i ELSE i + 1]
      <4> TAKE i \in DOMAIN (u \o t)
      <4>1. i \in 1 .. Len(s) + Len(t) - 1 /\ ~ (i < 1)
        BY <2>1, <2>3, <3>1
      <4> QED
        BY <2>4, <4>1
    <3> QED
      BY <3>1, <3>2 DEF Without
  <2>6. (s \o t)[1] = Head(s)
    BY <1>2, <2>1, <2>3
  <2> QED
    BY <2>5, <2>6 DEF u
<1> QED
  BY <1>1, <1>2

LEMMA WithoutAmong ==
  ASSUME NEW q \in Seq(Messages), NEW z, NEW n, Without(q, z, n)
  PROVE  Among(z, q)
<1>1. SUFFICES ASSUME NEW i \in DOMAIN z
               PROVE  \E j \in DOMAIN q : z[i] = q[j]
  BY DEF Among
<1>2. i \in 1 .. Len(q) - 1 /\ z[i] = q[IF i < n THEN i ELSE i + 1]
  BY DEF Without
<1>3. (IF i < n THEN i ELSE i + 1) \in DOMAIN q
  BY <1>2
<1> QED
  BY <1>2, <1>3

LEMMA AmongSelf ==
  ASSUME NEW q
  PROVE  Among(q, q)
BY DEF Among

\* What is sent to the peer comes last in its queue.
LEMMA ReachesQueue ==
  ASSUME TypeOK, NEW d \in Devices, NEW out \in Seq(Messages), Reaches(d, out)
  PROVE  /\ stash'[Peer(d)] = stash[Peer(d)]
         /\ Queue(Peer(d))' = Queue(Peer(d)) \/ Queue(Peer(d))' = Queue(Peer(d)) \o out
         /\ ~ Ended(Peer(d)) => Queue(Peer(d))' = Queue(Peer(d)) \o out
<1> DEFINE p == Peer(d)
<1>1. chan[p] \in Seq(Messages) /\ stash[p] \in Seq(Messages)
  BY TwoSides, QueuesQueue
<1>2. /\ stash'[p] = stash[p] /\ (chan'[p] = chan[p] \/ chan'[p] = chan[p] \o out)
      /\ ~ Ended(p) => chan'[p] = chan[p] \o out
  BY DEF Reaches
<1>3. stash[p] \o (chan[p] \o out) = (stash[p] \o chan[p]) \o out
  <2> DEFINE s == stash[p]
             c == chan[p]
  <2>1. s \in Seq(Messages) /\ c \in Seq(Messages)
    BY <1>1
  <2> HIDE DEF s, c
  <2>2. s \o (c \o out) = (s \o c) \o out
    BY <2>1, ConcatAssociative
  <2> QED
    BY <2>2 DEF s, c
<1> QED
  BY <1>2, <1>3 DEF Queue

\* The message that d takes leaves its queue; it is the first unless some were set aside.
LEMMA AnswerQueue ==
  ASSUME TypeOK, NEW d \in Devices, NEW out \in Seq(Messages), Inbox(d) # <<>>,
         Answer(d, out)
  PROVE  \E n \in DOMAIN Queue(d) :
           /\ Without(Queue(d), Queue(d)', n) /\ Queue(d)[n] = Head(Inbox(d))
           /\ FromStash(d) \/ stash[d] = <<>> => n = 1
<1>1. QueuesTyped /\ chan[d] \in Seq(Messages) /\ stash[d] \in Seq(Messages)
  BY QueuesHere, QueuesQueue
<1>2. CASE FromStash(d)
  <2>1. Inbox(d) = stash[d] /\ stash[d] # <<>>
    BY <1>2 DEF Inbox, FromStash
  <2>a. stash' = [stash EXCEPT ![d] = Tail(@)] /\ chan' = Sent(d, out, chan)
    BY <1>2 DEF Answer
  <2>2. chan'[d] = chan[d] /\ stash'[d] = Tail(stash[d])
    BY <1>1, <2>a, SentTo DEF QueuesTyped
  <2>3. Without(Queue(d), Queue(d)', 1) /\ Queue(d)[1] = Head(Inbox(d))
    BY <1>1, <2>1, <2>2, TailOfConcat DEF Queue
  <2> QED
    BY <2>3 DEF Without
<1>3. CASE ~ FromStash(d)
  <2>1. Inbox(d) = chan[d] /\ chan[d] # <<>>
    BY <1>3 DEF Inbox
  <2> DEFINE queues == [chan EXCEPT ![d] = Tail(@)]
  <2>2. queues \in [Devices -> Seq(Messages)] /\ queues[d] = Tail(chan[d])
    BY <1>1, <2>1 DEF QueuesTyped
  <2> HIDE DEF queues
  <2>3. chan' = Sent(d, out, queues) /\ stash' = stash
    BY <1>3 DEF Answer, queues
  <2>4. chan'[d] = Tail(chan[d]) /\ stash'[d] = stash[d]
    BY <2>2, <2>3, SentTo
  <2> DEFINE n == Len(stash[d]) + 1
  <2>a. /\ Without(stash[d] \o chan[d], stash[d] \o Tail(chan[d]), n)
        /\ (stash[d] \o chan[d])[n] = Head(chan[d])
    BY <1>1, <2>1, TailOfConcat
  <2>5. Without(Queue(d), Queue(d)', n) /\ Queue(d)[n] = Head(Inbox(d))
    BY <2>1, <2>4, <2>a DEF Queue
  <2>6. stash[d] = <<>> => n = 1
    OBVIOUS
  <2> QED
    BY <1>3, <2>5, <2>6 DEF Without
<1> QED
  BY <1>2, <1>3

\* Setting aside changes no queue.
LEMMA SetAsideQueue ==
  ASSUME TypeOK, NEW d \in Devices, chan[d] # <<>>, SetAside(d)
  PROVE  /\ Queue(d)' = Queue(d) /\ Queue(Peer(d))' = Queue(Peer(d))
         /\ stash'[Peer(d)] = stash[Peer(d)]
<1>1. /\ QueuesTyped /\ Peer(d) \in Devices /\ Peer(d) # d
      /\ chan[d] \in Seq(Messages) /\ stash[d] \in Seq(Messages)
  BY QueuesHere, TwoSides, QueuesQueue
<1>2. Head(chan[d]) \in Messages /\ Tail(chan[d]) \in Seq(Messages)
  BY <1>1
<1>3. /\ chan'[d] = Tail(chan[d]) /\ chan'[Peer(d)] = chan[Peer(d)]
      /\ stash'[d] = Append(stash[d], Head(chan[d])) /\ stash'[Peer(d)] = stash[Peer(d)]
  BY <1>1, <1>2 DEF SetAside, QueuesTyped
<1>4. Append(stash[d], Head(chan[d])) \o Tail(chan[d]) = stash[d] \o chan[d]
  BY <1>1, TailOfConcat
<1> QED
  BY <1>3, <1>4 DEF Queue

LEMMA MaySendNothing ==
  ASSUME NEW d
  PROVE  MaySend(d, <<>>)
BY DEF MaySend, Serves

\* Messages of the full-state exchange may always be sent.
LEMMA MaySendOne ==
  ASSUME NEW d, NEW m \in Messages,
         \/ m.type \in {"HELLO", "FULL_STATE_OFFER", "FULL_STATE_ACCEPT", "FULL_STATE_SNAPSHOT"}
         \/ m.type = "CHANGES_ACK" /\ ~ Unacked(d)'
         \/ /\ m.type = "CHANGES_REQUEST" /\ ~ Fresh(d)'
            /\ heard'[d] \ know'[d] \subseteq m.ranges
  PROVE  MaySend(d, <<m>>)
<1>1. DOMAIN <<m>> = {1} /\ <<m>>[1] = m
  OBVIOUS
<1>2. ~ IsBatch(m)
  BY DEF IsBatch
<1>3. IsRequest(m) => ~ Fresh(d)' /\ heard'[d] \ know'[d] \subseteq m.ranges
  BY DEF IsRequest
<1>4. IsAck(m) => ~ Unacked(d)'
  BY DEF IsAck
<1> DEFINE out == <<m>>
<1>5. DOMAIN out = {1} /\ out[1] = m
  BY <1>1
<1> HIDE DEF out
<1>6. MaySend(d, out)
  BY <1>2, <1>3, <1>4, <1>5 DEF MaySend, Serves
<1> QED
  BY <1>6 DEF out

LEMMA MaySendBoth ==
  ASSUME NEW d, NEW m \in Messages, NEW out \in Seq(Messages),
         m.type = "FULL_STATE_SNAPSHOT", MaySend(d, out),
         \A i \in DOMAIN out : ~ IsBatch(out[i])
  PROVE  MaySend(d, <<m>> \o out)
<1> DEFINE z == <<m>> \o out
<1>1. \A i \in DOMAIN z : z[i] = m \/ \E j \in DOMAIN out : z[i] = out[j]
  <2> TAKE i \in DOMAIN z
  <2>1. CASE i = 1
    BY <2>1
  <2>2. CASE i # 1
    <3>1. i - 1 \in DOMAIN out /\ z[i] = out[i - 1]
      BY <2>2
    <3> QED
      BY <3>1
  <2> QED
    BY <2>1, <2>2
<1>2. ~ IsBatch(m) /\ ~ IsRequest(m) /\ ~ IsAck(m)
  BY DEF IsBatch, IsRequest, IsAck
<1> HIDE DEF z
<1>3. \A i \in DOMAIN z : ~ IsBatch(z[i])
  BY <1>1, <1>2
<1>4. MaySend(d, z)
  BY <1>1, <1>2, <1>3 DEF MaySend, Serves
<1> QED
  BY <1>4 DEF z

LEMMA MaySendAckIfPulled ==
  ASSUME NEW d, ret[d] = "ack" => ~ Unacked(d)'
  PROVE  MaySend(d, AckIfPulled(d)) /\ \A i \in DOMAIN AckIfPulled(d) : ~ IsBatch(AckIfPulled(d)[i])
<1>1. Ack \in Messages /\ Ack.type = "CHANGES_ACK"
  BY MessagesTyped DEF Ack
<1>2. CASE ret[d] = "ack"
  <2>1. AckIfPulled(d) = <<Ack>> /\ MaySend(d, <<Ack>>)
    BY <1>1, <1>2, MaySendOne DEF AckIfPulled
  <2>2. DOMAIN <<Ack>> = {1} /\ <<Ack>>[1] = Ack
    OBVIOUS
  <2> QED
    BY <1>1, <2>1, <2>2 DEF IsBatch
<1>3. CASE ret[d] # "ack"
  BY <1>3, MaySendNothing DEF AckIfPulled
<1> QED
  BY <1>2, <1>3

-----------------------------------------------------------------------------
(* The steps that go on with a pull, or leave it as it is.                 *)

LEMMA OthersStay ==
  ASSUME TypeOK, NEW d \in Devices,
         pc' = pc \/ \E w : pc' = [pc EXCEPT ![d] = w],
         ret' = ret \/ \E w : ret' = [ret EXCEPT ![d] = w],
         heard' = heard \/ \E w : heard' = [heard EXCEPT ![d] = w],
         pulls' = pulls \/ \E w : pulls' = [pulls EXCEPT ![d] = w],
         have' = have \/ \E w : have' = [have EXCEPT ![d] = w],
         know' = know \/ \E w : know' = [know EXCEPT ![d] = w]
  PROVE  OthersKept(d)
<1>1. PlacesTyped /\ PullTyped /\ DataTyped
  BY TypesJoin
<1>2. \A b \in Devices : b # d => pc'[b] = pc[b]
  BY <1>1 DEF PlacesTyped
<1>3. \A b \in Devices : b # d => ret'[b] = ret[b]
  BY <1>1 DEF PlacesTyped
<1>4. \A b \in Devices : b # d => heard'[b] = heard[b]
  BY <1>1 DEF PullTyped
<1>5. \A b \in Devices : b # d => pulls'[b] = pulls[b]
  BY <1>1 DEF PullTyped
<1>6. \A b \in Devices : b # d => have'[b] = have[b]
  BY <1>1 DEF DataTyped
<1>7. \A b \in Devices : b # d => know'[b] = know[b]
  BY <1>1 DEF DataTyped
<1> QED
  BY <1>2, <1>3, <1>4, <1>5, <1>6, <1>7 DEF OthersKept

\* What is missing gets less.
LEMMA MissingLess ==
  ASSUME NEW d \in Devices, OthersKept(d), Learns(d), heard'[d] = heard[d]
  PROVE  Missing(d)' \subseteq Missing(d)
<1>1. have'[Peer(d)] = have[Peer(d)]
  BY TwoSides DEF OthersKept
<1> QED
  BY <1>1 DEF Missing, Learns

\* What PullOf states, for the next state.
PullOfNext(d) ==
  pc'[Peer(d)] # "failed" =>
    /\ Pulling(d)' =>
         /\ pulls'[d] >= 1
         /\ pulls'[d] = 1 =>
              /\ pc'[d] = "wait1" => stash'[d] = <<>>
              /\ \A r \in Missing(d)' : Answered(Queue(d)', r)
         /\ pulls'[d] > 1 => \A r \in Missing(d)' : Ahead(Queue(d)', r)
    /\ Past(d)' /\ pulls'[d] < MaxPulls => \A r \in Missing(d)' : Ahead(Queue(d)', r)
    /\ pc'[d] \in {"drain", "done"} /\ pulls'[d] < MaxPulls => Missing(d)' = {}

LEMMA PullOfPrimed ==
  ASSUME NEW d, PullOfNext(d)
  PROVE  PullOf(d)'
BY DEF PullOfNext, PullOf, Ahead, Answered, Brings, IsBatch, IsAck

\* A pull that has nothing to do with the step goes on.
LEMMA CalmPull ==
  ASSUME IInv, IInv', NEW d \in Devices, PullOf(d), OthersKept(d), Learns(d),
         heard'[d] = heard[d], pulls'[d] = pulls[d],
         Pulling(d)' => Pulling(d), Past(d)' => Past(d),
         pc'[d] \in {"drain", "done"} => pc[d] \in {"drain", "done"},
         pc'[d] = "wait1" => pc[d] = "wait1" /\ stash'[d] = stash[d],
         Pulling(d)' \/ Past(d)' =>
           \/ Queue(d)' = Queue(d)
           \/ \E n \in DOMAIN Queue(d) :
                /\ Without(Queue(d), Queue(d)', n)
                /\ IsBatch(Queue(d)[n]) =>
                     ~ Pulling(d)' /\ Queue(d)[n].changes \subseteq know'[d]
  PROVE  PullOf(d)'
<1>1. Missing(d)' \subseteq Missing(d) /\ pc'[Peer(d)] = pc[Peer(d)]
  BY MissingLess, TwoSides DEF OthersKept
<1>2. Queue(d) \in Seq(Messages) /\ Queue(d)' \in Seq(Messages)
  <2>1. chan'[d] \in Seq(Messages) /\ stash'[d] \in Seq(Messages)
    BY DEF IInv, TypeOK
  <2> QED
    BY <2>1, QueuesQueue DEF IInv, Queue
<1>3. ASSUME NEW r \in Missing(d)', Pulling(d)' \/ Past(d)'
      PROVE  /\ Pulling(d)' /\ Answered(Queue(d), r) => Answered(Queue(d)', r)
             /\ Ahead(Queue(d), r) => Ahead(Queue(d)', r)
  <2>1. CASE Queue(d)' = Queue(d)
    BY <2>1
  <2>2. ASSUME NEW n \in DOMAIN Queue(d), Without(Queue(d), Queue(d)', n),
               IsBatch(Queue(d)[n]) =>
                 ~ Pulling(d)' /\ Queue(d)[n].changes \subseteq know'[d]
        PROVE  /\ Pulling(d)' /\ Answered(Queue(d), r) => Answered(Queue(d)', r)
               /\ Ahead(Queue(d), r) => Ahead(Queue(d)', r)
    <3>1. r \notin know'[d]
      BY <1>3 DEF Missing
    <3>2. ~ Brings(Queue(d)[n], r)
      BY <2>2, <3>1 DEF Brings
    <3> DEFINE q == Queue(d)
    <3>3. PICK z : z = Queue(d)'
      OBVIOUS
    <3>4. q \in Seq(Messages) /\ z \in Seq(Messages) /\ Without(q, z, n) /\ ~ Brings(q[n], r)
      BY <1>2, <2>2, <3>2, <3>3
    <3>5. Pulling(d)' => ~ IsBatch(q[n])
      BY <2>2
    <3> HIDE DEF q
    <3>6. Pulling(d)' /\ Answered(q, r) => Answered(z, r)
      BY <3>4, <3>5, AnsweredWithout
    <3>7. Ahead(q, r) => Ahead(z, r)
      BY <3>4, AheadWithout
    <3> QED
      BY <3>3, <3>6, <3>7 DEF q
  <2> QED
    BY <1>3, <2>1, <2>2
<1>4. PullOfNext(d)
  <2>1. SUFFICES ASSUME pc[Peer(d)] # "failed"
                 PROVE  PullOfNext(d)
    BY <1>1 DEF PullOfNext
  <2>2. Pulling(d)' =>
          /\ pulls'[d] >= 1
          /\ pulls'[d] = 1 =>
               /\ pc'[d] = "wait1" => stash'[d] = <<>>
               /\ \A r \in Missing(d)' : Answered(Queue(d)', r)
          /\ pulls'[d] > 1 => \A r \in Missing(d)' : Ahead(Queue(d)', r)
    BY <1>1, <1>3, <2>1 DEF PullOf
  <2>3. Past(d)' /\ pulls'[d] < MaxPulls => \A r \in Missing(d)' : Ahead(Queue(d)', r)
    BY <1>1, <1>3, <2>1 DEF PullOf
  <2>4. pc'[d] \in {"drain", "done"} /\ pulls'[d] < MaxPulls => Missing(d)' = {}
    BY <1>1, <2>1 DEF PullOf
  <2> QED
    BY <2>2, <2>3, <2>4 DEF PullOfNext
<1> QED
  BY <1>4, PullOfPrimed

\* d takes a message that leaves its pull as it is.
LEMMA AnswerCalm ==
  ASSUME IInv, IInv', PullServed, NEW d \in Devices, Inbox(d) # <<>>,
         NEW out \in Seq(Messages), Answer(d, out), MaySend(d, out),
         OthersKept(d), Learns(d), heard'[d] = heard[d], pulls'[d] = pulls[d],
         pc[d] \notin {"start", "hello", "wait1", "failed", "done"},
         pc'[d] \notin {"start", "hello", "wait1", "done"},
         pc'[d] = "drain" => pc[d] = "drain",
         Pulling(d)' => Pulling(d), Past(d)' => Past(d), Unacked(d)' => Unacked(d),
         IsBatch(Head(Inbox(d))) =>
           ~ Pulling(d)' /\ Head(Inbox(d)).changes \subseteq know'[d]
  PROVE  PullEffects(d)
<1>1. TypeOK /\ Queue(d) \in Seq(Messages)
  BY QueuesQueue DEF IInv
<1>2. PICK n \in DOMAIN Queue(d) :
        Without(Queue(d), Queue(d)', n) /\ Queue(d)[n] = Head(Inbox(d))
  BY <1>1, AnswerQueue
<1>3. Among(Queue(d)', Queue(d))
  BY <1>1, <1>2, WithoutAmong
<1>4. stash'[Peer(d)] = stash[Peer(d)] /\ PeerGets(d)
  <2>1. Reaches(d, out)
    BY <1>1, AnswerReaches
  <2> QED
    BY <1>1, <2>1, ReachesQueue DEF PeerGets
<1>5. PullOf(d)'
  <2>1. PullOf(d)
    BY DEF PullServed
  <2> QED
    BY <1>2, <2>1, CalmPull
<1>6. ~ Fresh(d)'
  BY DEF Fresh
<1> QED
  BY <1>3, <1>4, <1>5, <1>6 DEF PullEffects

\* Only queues change, if anything, and what is sent is harmless.
LEMMA QueueCalm ==
  ASSUME IInv, IInv', PullServed, NEW d \in Devices, Queue(d)' = Queue(d), PeerGets(d),
         stash'[Peer(d)] = stash[Peer(d)],
         OthersKept(d), Learns(d), heard'[d] = heard[d], pulls'[d] = pulls[d],
         pc[d] # "failed", pc'[d] \notin {"drain", "done", "wait1"},
         Fresh(d)' => Fresh(d),
         Pulling(d)' => Pulling(d), Past(d)' => Past(d), Unacked(d)' => Unacked(d)
  PROVE  PullEffects(d)
<1>1. PullOf(d)'
  <2>1. PullOf(d)
    BY DEF PullServed
  <2> QED
    BY <2>1, CalmPull
<1>2. Among(Queue(d)', Queue(d))
  BY AmongSelf
<1> QED
  BY <1>1, <1>2 DEF PullEffects

\* Nothing is learnt.
LEMMA LearnsNothing ==
  ASSUME NEW d, have' = have, know' = know
  PROVE  Learns(d)
BY DEF Learns

\* A batch brings what the peer holds.
LEMMA LearnsBatch ==
  ASSUME IInv, PullServed, NEW d \in Devices, Inbox(d) # <<>>, IsBatch(Head(Inbox(d))),
         NEW out \in Seq(Messages), Answer(d, out), ApplyBatch(d, Head(Inbox(d)).changes)
  PROVE  Learns(d) /\ Head(Inbox(d)).changes \subseteq know'[d]
<1>1. TypeOK /\ DataTyped
  BY TypesJoin DEF IInv
<1>2. PICK n \in DOMAIN Queue(d) : Queue(d)[n] = Head(Inbox(d))
  BY <1>1, AnswerQueue
<1>3. Head(Inbox(d)).changes \subseteq have[Peer(d)]
  BY <1>2 DEF PullServed, BatchesAreHeld
<1>4. /\ have'[d] = have[d] \cup Head(Inbox(d)).changes
      /\ know'[d] = know[d] \cup Head(Inbox(d)).changes
  BY <1>1 DEF ApplyBatch, DataTyped
<1> QED
  BY <1>3, <1>4 DEF Learns

LEMMA LearnsSnapshot ==
  ASSUME IInv, NEW d \in Devices, NEW R, ApplySnapshot(d, R)
  PROVE  Learns(d)
<1>1. DataTyped
  BY TypesJoin DEF IInv
<1> QED
  BY <1>1 DEF ApplySnapshot, DataTyped, Learns

-----------------------------------------------------------------------------
(* The steps, for the pulls.                                               *)

LEMMA StartPulls ==
  ASSUME IInv, IInv', PullServed, NEW d \in Devices, Start(d)
  PROVE  PullEffects(d)
<1>1. TypeOK /\ DataTyped /\ PlacesTyped
  BY TypesJoin DEF IInv
<1>2. PICK m : m = Hello(clock[d])
  OBVIOUS
<1>3. m \in Messages /\ m.type = "HELLO"
  BY <1>1, <1>2, MessagesTyped DEF DataTyped, Hello
<1>4. /\ pc[d] = "start" /\ pc' = [pc EXCEPT ![d] = "hello"] /\ Send(d, <<m>>)
      /\ UNCHANGED <<data, peerKey, ret, closed, pulling, offered, faults, history>>
  BY <1>2 DEF Start, Goto
<1>5. <<m>> \in Seq(Messages) /\ MaySend(d, <<m>>)
  BY <1>3, MaySendOne
<1>6. Reaches(d, <<m>>) /\ chan'[d] = chan[d] /\ stash' = stash
  BY <1>1, <1>4, <1>5, SendReaches
<1>7. PeerGets(d) /\ stash'[Peer(d)] = stash[Peer(d)]
  BY <1>1, <1>5, <1>6, ReachesQueue DEF PeerGets
<1>8. OthersKept(d) /\ Learns(d)
  BY <1>1, <1>4, OthersStay, LearnsNothing DEF data, pulling
<1>9. pc'[d] = "hello" /\ Queue(d)' = Queue(d) /\ heard'[d] = heard[d] /\ pulls'[d] = pulls[d]
  BY <1>1, <1>4, <1>6 DEF PlacesTyped, Queue, pulling
<1> QED
  BY <1>4, <1>7, <1>8, <1>9, QueueCalm DEF Unacked, Fresh, Pulling, Past, Within

\* The end of a round: what is still missing is on its way.
LEMMA GoOnPulls ==
  ASSUME IInv, IInv', PullServed, NEW d \in Devices, NEW lack \in SUBSET Recs,
         NEW rounds \in 0 .. GapRoundLimit, pc[d] \in {"hello", "wait1", "wait2"},
         Inbox(d) # <<>>, GoOn(d, lack, rounds), lack = heard'[d] \ know'[d],
         Learns(d), have' = have \/ (\E w : have' = [have EXCEPT ![d] = w]),
         know' = know \/ (\E w : know' = [know EXCEPT ![d] = w]),
         heard' = heard \/ (\E w : heard' = [heard EXCEPT ![d] = w]),
         heard'[d] = heard[d] \/ pc[d] = "hello",
         pc[Peer(d)] # "failed" =>
           \/ pulls[d] = 0 /\ rounds = 0 /\ stash[d] = <<>> /\ ~ FromStash(d)
              /\ \A r \in Missing(d)' : Answered(Queue(d)', r)
           \/ pulls[d] >= 1 /\ \A r \in Missing(d)' : Ahead(Queue(d)', r)
  PROVE  PullEffects(d)
<1>1. /\ TypeOK /\ PlacesTyped /\ PullTyped /\ QueuesTyped
      /\ Queue(d) \in Seq(Messages) /\ Peer(d) \in Devices /\ Peer(d) # d
  BY TypesJoin, QueuesQueue, TwoSides DEF IInv
<1>2. Missing(d)' \subseteq lack
  BY DEF Missing
<1>3. ASSUME NEW m \in Messages, Answer(d, <<m>>), MaySend(d, <<m>>)
      PROVE  /\ PeerGets(d) /\ stash'[Peer(d)] = stash[Peer(d)]
             /\ Among(Queue(d)', Queue(d))
             /\ stash[d] = <<>> /\ ~ FromStash(d) => stash'[d] = <<>>
  <2>1. <<m>> \in Seq(Messages)
    BY HoldsOne
  <2>2. Reaches(d, <<m>>)
    BY <1>1, <1>3, <2>1, AnswerReaches
  <2>3. PeerGets(d) /\ stash'[Peer(d)] = stash[Peer(d)]
    BY <1>1, <1>3, <2>1, <2>2, ReachesQueue DEF PeerGets
  <2>4. \E n \in DOMAIN Queue(d) : Without(Queue(d), Queue(d)', n)
    BY <1>1, <1>3, <2>1, AnswerQueue
  <2>5. stash[d] = <<>> /\ ~ FromStash(d) => stash'[d] = <<>>
    BY <1>3 DEF Answer
  <2> QED
    BY <1>1, <2>3, <2>4, <2>5, WithoutAmong
<1>4. CASE /\ lack # {} /\ rounds < GapRoundLimit /\ pulls[d] < MaxPulls
           /\ Answer(d, <<Request(lack)>>)
           /\ Goto(d, "wait1")
           /\ need' = [need EXCEPT ![d] = lack]
           /\ gap' = [gap EXCEPT ![d] = rounds]
           /\ pulls' = [pulls EXCEPT ![d] = @ + 1]
           /\ UNCHANGED <<ret, offered, gapOffers>>
  <2>1. PICK m : m = Request(lack)
    OBVIOUS
  <2>2. m \in Messages /\ m.type = "CHANGES_REQUEST" /\ m.ranges = lack
    BY <2>1, MessagesTyped DEF Request
  <2>3. pc'[d] = "wait1" /\ pulls'[d] = pulls[d] + 1 /\ pulls[d] \in Nat
    BY <1>1, <1>4, PullAssumption DEF Goto, PlacesTyped, PullTyped
  <2>4. MaySend(d, <<m>>)
    BY <2>2, <2>3, MaySendOne DEF Fresh
  <2>5. /\ PeerGets(d) /\ stash'[Peer(d)] = stash[Peer(d)] /\ Among(Queue(d)', Queue(d))
        /\ stash[d] = <<>> /\ ~ FromStash(d) => stash'[d] = <<>>
    BY <1>3, <1>4, <2>1, <2>2, <2>4
  <2>6. OthersKept(d)
    <3>1. pc' = [pc EXCEPT ![d] = "wait1"] /\ pulls' = [pulls EXCEPT ![d] = pulls[d] + 1]
          /\ ret' = ret
      BY <1>4 DEF Goto
    <3> QED
      BY <1>1, <3>1, OthersStay
  <2>7. pc'[Peer(d)] = pc[Peer(d)]
    BY <1>1, <2>6 DEF OthersKept
  <2>8. PullOfNext(d)
    BY <2>3, <2>5, <2>7 DEF PullOfNext, Past, Within
  <2>9. PullOf(d)'
    BY <2>8, PullOfPrimed
  <2> QED
    BY <2>3, <2>5, <2>6, <2>9 DEF PullEffects, Unacked, Fresh, Pulling, Within
<1>5. CASE /\ rounds >= GapRoundLimit /\ MayOffer(d, peerKey[d])
           /\ Answer(d, <<Offer(TRUE)>>)
           /\ Goto(d, "drive")
           /\ ret' = [ret EXCEPT ![d] = "ack"]
           /\ offered' = [offered EXCEPT ![d] = @ \cup {peerKey[d]}]
           /\ gap' = [gap EXCEPT ![d] = rounds]
           /\ gapOffers' = gapOffers \cup {d}
           /\ UNCHANGED <<need, pulls>>
  <2>1. PICK m : m = Offer(TRUE)
    OBVIOUS
  <2>2. m \in Messages /\ m.type = "FULL_STATE_OFFER"
    BY <2>1, MessagesTyped DEF Offer
  <2>3. pc'[d] = "drive" /\ ret'[d] = "ack" /\ pulls'[d] = pulls[d] /\ rounds # 0
    BY <1>1, <1>5 DEF Goto, PlacesTyped, GapRoundLimit
  <2>4. MaySend(d, <<m>>)
    BY <2>2, MaySendOne
  <2>5. PeerGets(d) /\ stash'[Peer(d)] = stash[Peer(d)] /\ Among(Queue(d)', Queue(d))
    BY <1>3, <1>5, <2>1, <2>2, <2>4
  <2>6. OthersKept(d)
    BY <1>1, <1>5, OthersStay DEF Goto
  <2>7. pc'[Peer(d)] = pc[Peer(d)]
    BY <1>1, <2>6 DEF OthersKept
  <2>8. PullOfNext(d)
    BY <2>3, <2>7 DEF PullOfNext, Pulling, Within
  <2>9. PullOf(d)'
    BY <2>8, PullOfPrimed
  <2> QED
    BY <2>3, <2>5, <2>6, <2>9 DEF PullEffects, Unacked, Fresh, Pulling, Within
<1>6. CASE /\ \/ rounds < GapRoundLimit /\ (lack = {} \/ pulls[d] = MaxPulls)
              \/ rounds >= GapRoundLimit /\ ~ MayOffer(d, peerKey[d])
           /\ Answer(d, <<Ack>>)
           /\ Goto(d, "barrier")
           /\ gap' = [gap EXCEPT ![d] = rounds]
           /\ UNCHANGED <<ret, need, pulls, offered, gapOffers>>
  <2>1. PICK m : m = Ack
    OBVIOUS
  <2>2. m \in Messages /\ m.type = "CHANGES_ACK"
    BY <2>1, MessagesTyped DEF Ack
  <2>3. pc'[d] = "barrier" /\ pulls'[d] = pulls[d]
    BY <1>1, <1>6 DEF Goto, PlacesTyped
  <2>4. MaySend(d, <<m>>)
    BY <2>2, <2>3, MaySendOne DEF Unacked, Fresh, Pulling, Within
  <2>5. PeerGets(d) /\ stash'[Peer(d)] = stash[Peer(d)] /\ Among(Queue(d)', Queue(d))
    BY <1>3, <1>6, <2>1, <2>2, <2>4
  <2>6. OthersKept(d)
    BY <1>1, <1>6, OthersStay DEF Goto
  <2>7. pc'[Peer(d)] = pc[Peer(d)]
    BY <1>1, <2>6 DEF OthersKept
  <2>8. rounds = 0 => lack = {} \/ pulls[d] = MaxPulls
    BY <1>6 DEF GapRoundLimit
  <2>9. pulls[d] = MaxPulls => ~ (pulls'[d] < MaxPulls)
    BY <2>3, PullAssumption
  <2>10. PullOfNext(d)
    BY <1>2, <2>3, <2>7, <2>8, <2>9 DEF PullOfNext, Pulling, Within
  <2>11. PullOf(d)'
    BY <2>10, PullOfPrimed
  <2> QED
    BY <2>3, <2>5, <2>6, <2>11 DEF PullEffects, Unacked, Fresh, Pulling, Within
<1> QED
  BY <1>4, <1>5, <1>6 DEF GoOn

LEMMA ReceiveHelloPulls ==
  ASSUME IInv, IInv', PullServed, NEW d \in Devices, ReceiveHello(d)
  PROVE  PullEffects(d)
<1>1. TypeOK /\ PullTyped
  BY TypesJoin DEF IInv
<1>2. /\ pc[d] = "hello" /\ Inbox(d) # <<>> /\ UNCHANGED <<data, closed>>
      /\ heard' = [heard EXCEPT ![d] = Head(chan[d]).clock]
      /\ Head(Inbox(d)).type = "HELLO"
  BY DEF ReceiveHello, Awaits
<1>3. PICK lack : lack = heard'[d] \ know[d]
  OBVIOUS
<1>4. GoOn(d, lack, 0)
  BY <1>3 DEF ReceiveHello
<1>5. lack \in SUBSET Recs /\ lack = heard'[d] \ know'[d]
  <2>1. heard' \in [Devices -> SUBSET Recs]
    BY DEF IInv, TypeOK
  <2> QED
    BY <1>2, <1>3, <2>1 DEF data
<1>6. Learns(d) /\ have' = have /\ know' = know
  BY <1>2, LearnsNothing DEF data
<1>7. pulls[d] = 0 /\ stash[d] = <<>> /\ ~ FromStash(d)
  <2>1. pulls[d] = 0
    BY <1>2 DEF PullServed, NothingAsked, Fresh
  <2>2. stash[d] = <<>>
    BY <1>2 DEF IInv, Meeting, HelloComes
  <2> QED
    BY <2>1, <2>2 DEF FromStash
<1>8. Among(Queue(d)', Queue(d))
  <2>1. Queue(d) \in Seq(Messages)
    BY <1>1, QueuesQueue
  <2>2. PICK m \in Messages : Answer(d, <<m>>)
    <3>1. Request(lack) \in Messages /\ Offer(TRUE) \in Messages /\ Ack \in Messages
      BY <1>5, MessagesTyped
    <3> QED
      BY <1>4, <3>1 DEF GoOn
  <2>3. <<m>> \in Seq(Messages)
    BY HoldsOne
  <2>4. \E n \in DOMAIN Queue(d) : Without(Queue(d), Queue(d)', n)
    BY <1>1, <1>2, <2>2, <2>3, AnswerQueue
  <2> QED
    BY <2>1, <2>4, WithoutAmong
<1>9. \A r : Answered(Queue(d)', r)
  <2>1. \A i \in DOMAIN Queue(d) : ~ IsBatch(Queue(d)[i])
    BY <1>2 DEF PullServed, NothingAsked, Fresh
  <2>2. \A i \in DOMAIN Queue(d)' : ~ IsBatch(Queue(d)'[i])
    BY <1>8, <2>1 DEF Among
  <2> QED
    BY <2>2 DEF Answered
<1>10. 0 \in 0 .. GapRoundLimit
  BY DEF GapRoundLimit
<1> QED
  BY <1>2, <1>4, <1>5, <1>6, <1>7, <1>9, <1>10, GoOnPulls

LEMMA ReceiveBatchPulls ==
  ASSUME IInv, IInv', PullServed, NEW d \in Devices, ReceiveBatch(d)
  PROVE  PullEffects(d)
<1>1. TypeOK /\ PullTyped /\ DataTyped /\ Queue(d) \in Seq(Messages)
  BY TypesJoin, QueuesQueue DEF IInv
<1>2. /\ pc[d] \in {"wait1", "wait2"} /\ Inbox(d) # <<>> /\ IsBatch(Head(Inbox(d)))
      /\ ApplyBatch(d, Head(Inbox(d)).changes) /\ heard' = heard
  BY DEF ReceiveBatch, Awaits, IsBatch
<1>3. PICK lack : lack = heard[d] \ know'[d]
  OBVIOUS
<1>4. PICK rounds : rounds = IF lack = need[d] THEN gap[d] + 1 ELSE 0
  OBVIOUS
<1>5. lack \in SUBSET Recs /\ lack = heard'[d] \ know'[d]
  BY <1>1, <1>2, <1>3 DEF PullTyped
<1>6. rounds \in 0 .. GapRoundLimit
  <2>1. gap[d] \in 0 .. GapRoundLimit /\ gap[d] < GapRoundLimit
    BY <1>1, <1>2 DEF PullTyped, IInv, Meeting, StreakIsShort, Within
  <2> QED
    BY <1>4, <2>1 DEF GapRoundLimit
<1>7. GoOn(d, lack, rounds)
  BY <1>3, <1>4 DEF ReceiveBatch
<1>8. PICK m \in Messages : Answer(d, <<m>>)
  <2>1. Request(lack) \in Messages /\ Offer(TRUE) \in Messages /\ Ack \in Messages
    BY <1>5, MessagesTyped
  <2> QED
    BY <1>7, <2>1 DEF GoOn
<1>9. <<m>> \in Seq(Messages)
  BY HoldsOne
<1>10. Learns(d) /\ Head(Inbox(d)).changes \subseteq know'[d]
  BY <1>2, <1>8, <1>9, LearnsBatch
<1>11. PICK n \in DOMAIN Queue(d) :
         /\ Without(Queue(d), Queue(d)', n) /\ Queue(d)[n] = Head(Inbox(d))
         /\ FromStash(d) \/ stash[d] = <<>> => n = 1
  BY <1>1, <1>2, <1>8, <1>9, AnswerQueue
<1>12. ASSUME pc[Peer(d)] # "failed"
       PROVE  pulls[d] >= 1 /\ \A r \in Missing(d)' : Ahead(Queue(d)', r)
  <2>1. PullOf(d) /\ Pulling(d)
    BY <1>2 DEF PullServed, Pulling, Within
  <2>2. pulls[d] \in Nat /\ pulls[d] >= 1
    BY <1>1, <1>12, <2>1, PullAssumption DEF PullOf, PullTyped
  <2>3. ASSUME NEW r \in Missing(d)'
        PROVE  Ahead(Queue(d)', r)
    <3>1. r \in Missing(d) /\ r \notin know'[d]
      <4>1. have'[Peer(d)] = have[Peer(d)]
        BY <1>1, <1>2, TwoSides DEF ApplyBatch, DataTyped
      <4> QED
        BY <1>2, <1>10, <2>3, <4>1 DEF Missing, Learns
    <3> DEFINE q == Queue(d)
    <3>2. PICK z : z = Queue(d)'
      OBVIOUS
    <3>3. /\ q \in Seq(Messages) /\ z \in Seq(Messages) /\ Without(q, z, n)
          /\ IsBatch(q[n]) /\ ~ Brings(q[n], r)
      <4>1. Queue(d)' \in Seq(Messages)
        <5>1. chan'[d] \in Seq(Messages) /\ stash'[d] \in Seq(Messages)
          BY DEF IInv, TypeOK
        <5> QED
          BY <5>1 DEF Queue
      <4> QED
        BY <1>1, <1>2, <1>10, <1>11, <3>1, <3>2, <4>1 DEF Brings
    <3>4. CASE pulls[d] = 1
      <4>1. (pc[d] = "wait1" => stash[d] = <<>>) /\ Answered(q, r)
        BY <1>12, <2>1, <3>1, <3>4 DEF PullOf
      <4>2. n = 1
        BY <1>2, <1>11, <4>1 DEF FromStash
      <4> HIDE DEF q
      <4>3. Ahead(z, r)
        BY <3>3, <4>1, <4>2, FirstBatch
      <4> QED
        BY <3>2, <4>3
    <3>5. CASE pulls[d] > 1
      <4>1. Ahead(q, r)
        BY <1>12, <2>1, <3>1, <3>5 DEF PullOf
      <4> HIDE DEF q
      <4>2. Ahead(z, r)
        BY <3>3, <4>1, AheadWithout
      <4> QED
        BY <3>2, <4>2
    <3> QED
      BY <2>2, <3>4, <3>5
  <2> QED
    BY <2>2, <2>3
<1>13. /\ \E w : have' = [have EXCEPT ![d] = w]
       /\ \E w : know' = [know EXCEPT ![d] = w]
  BY <1>2 DEF ApplyBatch
<1> QED
  BY <1>2, <1>5, <1>6, <1>7, <1>10, <1>12, <1>13, GoOnPulls

\* Setting aside, serving, and the exchange leave the pull as it is.
LEMMA StashWhilePullingPulls ==
  ASSUME IInv, IInv', PullServed, NEW d \in Devices, StashWhilePulling(d)
  PROVE  PullEffects(d)
<1>1. TypeOK /\ PlacesTyped
  BY TypesJoin DEF IInv
<1>2. /\ pc[d] = "wait1" /\ chan[d] # <<>> /\ SetAside(d)
      /\ pc' = [pc EXCEPT ![d] = "wait2"]
      /\ UNCHANGED <<data, peerKey, ret, closed, pulling, offered, faults, history>>
  BY DEF StashWhilePulling, Goto
<1>3. /\ Queue(d)' = Queue(d) /\ Queue(Peer(d))' = Queue(Peer(d))
      /\ stash'[Peer(d)] = stash[Peer(d)]
  BY <1>1, <1>2, SetAsideQueue
<1>4. OthersKept(d) /\ Learns(d)
  BY <1>1, <1>2, OthersStay, LearnsNothing DEF data, pulling
<1>5. pc'[d] = "wait2" /\ heard'[d] = heard[d] /\ pulls'[d] = pulls[d]
  BY <1>1, <1>2 DEF PlacesTyped, pulling
<1> QED
  BY <1>2, <1>3, <1>4, <1>5, QueueCalm DEF PeerGets, Unacked, Fresh, Pulling, Past, Within

LEMMA StashDuringExchangePulls ==
  ASSUME IInv, IInv', PullServed, NEW d \in Devices, StashDuringExchange(d)
  PROVE  PullEffects(d)
<1>1. TypeOK
  BY DEF IInv
<1>2. /\ pc[d] \in {"drive", "accept"} /\ chan[d] # <<>> /\ SetAside(d)
      /\ UNCHANGED <<data, peerKey, pc, ret, closed, pulling, offered, faults, history>>
  BY DEF StashDuringExchange
<1>3. /\ Queue(d)' = Queue(d) /\ Queue(Peer(d))' = Queue(Peer(d))
      /\ stash'[Peer(d)] = stash[Peer(d)]
  BY <1>1, <1>2, SetAsideQueue
<1>4. OthersKept(d) /\ Learns(d)
  BY <1>1, <1>2, OthersStay, LearnsNothing DEF data, pulling
<1> QED
  BY <1>2, <1>3, <1>4, QueueCalm DEF PeerGets, Unacked, Fresh, Pulling, Past, Within, pulling

\* d takes a message, answers and stays.
LEMMA StayPulls ==
  ASSUME IInv, IInv', PullServed, NEW d \in Devices, pc[d] \in Serving \cup {"drive"},
         Inbox(d) # <<>>, NEW out \in Seq(Messages), Answer(d, out), MaySend(d, out),
         Learns(d), have' = have \/ (\E w : have' = [have EXCEPT ![d] = w]),
         know' = know \/ (\E w : know' = [know EXCEPT ![d] = w]),
         UNCHANGED <<peerKey, pc, ret, closed, pulling, offered, faults, history>>,
         IsBatch(Head(Inbox(d))) =>
           pc[d] \in {"barrier", "drain"} /\ Head(Inbox(d)).changes \subseteq know'[d]
  PROVE  PullEffects(d)
<1>1. OthersKept(d)
  BY OthersStay DEF IInv, pulling
<1> QED
  BY <1>1, AnswerCalm DEF Serving, Unacked, Fresh, Pulling, Past, Within, pulling

LEMMA ServeRequestPulls ==
  ASSUME IInv, IInv', PullServed, NEW d \in Devices, ServeRequest(d)
  PROVE  PullEffects(d)
<1>1. TypeOK /\ Peer(d) \in Devices /\ Peer(Peer(d)) = d
  BY TwoSides DEF IInv
<1>2. /\ pc[d] \in Serving /\ Inbox(d) # <<>> /\ Head(Inbox(d)) \in Messages
      /\ Head(Inbox(d)).type = "CHANGES_REQUEST"
  BY <1>1, InboxTyped DEF ServeRequest, Awaits
<1>3. PICK R : R = Head(Inbox(d)).ranges
  OBVIOUS
<1>4. R \in SUBSET Recs
  BY <1>2, <1>3, Carried
<1>5. PICK out \in Batches(d, R) : Answer(d, out)
  BY <1>3 DEF ServeRequest
<1>6. out \in Seq(Messages)
  BY <1>1, <1>4, BatchesTyped
<1>7. PICK n \in DOMAIN Queue(d) : Queue(d)[n] = Head(Inbox(d))
  BY <1>1, <1>2, <1>5, <1>6, AnswerQueue
<1>8. IsRequest(Queue(d)[n])
  BY <1>2, <1>7 DEF IsRequest
<1>9. Missing(Peer(d)) \subseteq R
  BY <1>3, <1>7, <1>8 DEF PullServed, RequestsAskForAll
<1>10. Missing(Peer(d)) \subseteq have[d] \cap R
  BY <1>1, <1>9 DEF Missing
<1>11. MaySend(d, out)
  <2>1. /\ \A i \in DOMAIN out : IsBatch(out[i]) /\ out[i].changes \subseteq have[d]
        /\ \A r \in have[d] \cap R : Serves(out, r)
    BY <1>1, <1>4, BatchesServe
  <2> QED
    BY <1>8, <1>10, <2>1, BatchIsNoAck DEF MaySend
<1>12. /\ have' = have /\ know' = know
       /\ UNCHANGED <<peerKey, pc, ret, closed, pulling, offered, faults, history>>
  BY DEF ServeRequest, data
<1>13. Learns(d) /\ ~ IsBatch(Head(Inbox(d)))
  BY <1>2, <1>12, LearnsNothing DEF IsBatch
<1> QED
  BY <1>2, <1>5, <1>6, <1>11, <1>12, <1>13, StayPulls

LEMMA ApplyLateBatchPulls ==
  ASSUME IInv, IInv', PullServed, NEW d \in Devices, ApplyLateBatch(d)
  PROVE  PullEffects(d)
<1>1. /\ pc[d] \in {"barrier", "drain"} /\ Inbox(d) # <<>> /\ IsBatch(Head(Inbox(d)))
      /\ ApplyBatch(d, Head(Inbox(d)).changes) /\ Answer(d, <<>>)
      /\ UNCHANGED <<peerKey, pc, ret, closed, pulling, offered, faults, history>>
  BY DEF ApplyLateBatch, Awaits, IsBatch
<1>2. <<>> \in Seq(Messages) /\ MaySend(d, <<>>)
  BY HoldsNone, MaySendNothing
<1>3. Learns(d) /\ Head(Inbox(d)).changes \subseteq know'[d]
  BY <1>1, <1>2, LearnsBatch
<1>4. /\ \E w : have' = [have EXCEPT ![d] = w]
      /\ \E w : know' = [know EXCEPT ![d] = w]
  BY <1>1 DEF ApplyBatch
<1> QED
  BY <1>1, <1>2, <1>3, <1>4, StayPulls DEF Serving

LEMMA ReceiveSnapshotPulls ==
  ASSUME IInv, IInv', PullServed, NEW d \in Devices, ReceiveSnapshot(d)
  PROVE  PullEffects(d)
<1>1. /\ pc[d] \in Serving /\ Inbox(d) # <<>> /\ ~ IsBatch(Head(Inbox(d)))
      /\ ApplySnapshot(d, Head(Inbox(d)).clock) /\ Answer(d, <<>>)
      /\ UNCHANGED <<peerKey, pc, ret, closed, pulling, offered, faults, history>>
  BY DEF ReceiveSnapshot, Awaits, IsBatch
<1>2. <<>> \in Seq(Messages) /\ MaySend(d, <<>>)
  BY HoldsNone, MaySendNothing
<1>3. Learns(d)
  BY <1>1, LearnsSnapshot
<1>4. have' = have /\ \E w : know' = [know EXCEPT ![d] = w]
  BY <1>1 DEF ApplySnapshot
<1> QED
  BY <1>1, <1>2, <1>3, <1>4, StayPulls

LEMMA IgnorePulls ==
  ASSUME IInv, IInv', PullServed, NEW d \in Devices, Ignore(d)
  PROVE  PullEffects(d)
<1>1. /\ pc[d] \in Serving /\ Inbox(d) # <<>> /\ ~ IsBatch(Head(Inbox(d)))
      /\ Answer(d, <<>>) /\ have' = have /\ know' = know
      /\ UNCHANGED <<peerKey, pc, ret, closed, pulling, offered, faults, history>>
  BY DEF Ignore, Awaits, Serving, IsBatch, data
<1>2. <<>> \in Seq(Messages) /\ MaySend(d, <<>>) /\ Learns(d)
  BY <1>1, HoldsNone, MaySendNothing, LearnsNothing
<1> QED
  BY <1>1, <1>2, StayPulls

\* Behind the first acknowledgement that a device reads nothing is missing.
LEMMA ReceiveAckPulls ==
  ASSUME IInv, IInv', PullServed, NEW d \in Devices, ReceiveAck(d)
  PROVE  PullEffects(d)
<1>1. TypeOK /\ PlacesTyped /\ Queue(d) \in Seq(Messages) /\ Peer(d) \in Devices /\ Peer(d) # d
  BY TypesJoin, QueuesQueue, TwoSides DEF IInv
<1>2. /\ pc[d] = "barrier" /\ Inbox(d) # <<>> /\ IsAck(Head(Inbox(d)))
      /\ Answer(d, <<>>) /\ pc' = [pc EXCEPT ![d] = "drain"]
      /\ UNCHANGED <<data, peerKey, ret, closed, pulling, offered, faults, history>>
  BY DEF ReceiveAck, Awaits, Goto, IsAck
<1>3. <<>> \in Seq(Messages) /\ MaySend(d, <<>>)
  BY HoldsNone, MaySendNothing
<1>4. OthersKept(d) /\ Learns(d)
  BY <1>1, <1>2, OthersStay, LearnsNothing DEF data, pulling
<1>5. PICK n \in DOMAIN Queue(d) :
        /\ Without(Queue(d), Queue(d)', n) /\ Queue(d)[n] = Head(Inbox(d))
        /\ FromStash(d) \/ stash[d] = <<>> => n = 1
  BY <1>1, <1>2, <1>3, AnswerQueue
<1>6. n = 1 /\ IsAck(Queue(d)[1]) /\ Among(Queue(d)', Queue(d))
  BY <1>1, <1>2, <1>5, WithoutAmong DEF FromStash
<1>7. \A r : ~ Ahead(Queue(d), r)
  <2>1. \A k \in DOMAIN Queue(d) : 1 \in 1 .. k
    BY <1>1
  <2> QED
    BY <1>6, <2>1 DEF Ahead
<1>8. /\ pc'[d] = "drain" /\ heard'[d] = heard[d] /\ pulls'[d] = pulls[d]
      /\ pc'[Peer(d)] = pc[Peer(d)]
  BY <1>1, <1>2 DEF PlacesTyped, pulling
<1>9. PullOfNext(d)
  <2>1. ASSUME pc'[Peer(d)] # "failed", pulls'[d] < MaxPulls
        PROVE  Missing(d)' = {}
    <3>1. \A r \in Missing(d) : Ahead(Queue(d), r)
      BY <1>2, <1>8, <2>1 DEF PullServed, PullOf, Past, Within
    <3>2. Missing(d)' \subseteq Missing(d)
      BY <1>4, <1>8, MissingLess
    <3> QED
      BY <1>7, <3>1, <3>2
  <2> QED
    BY <1>8, <2>1 DEF PullOfNext, Pulling, Past, Within
<1>10. PeerGets(d) /\ stash'[Peer(d)] = stash[Peer(d)]
  <2>1. Reaches(d, <<>>)
    BY <1>1, <1>2, <1>3, AnswerReaches
  <2> QED
    BY <1>1, <1>3, <2>1, ReachesQueue DEF PeerGets
<1>11. PullOf(d)'
  BY <1>9, PullOfPrimed
<1> QED
  BY <1>2, <1>4, <1>5, <1>6, <1>8, <1>10, <1>11 DEF PullEffects, Unacked, Fresh, Pulling, Within

\* An offer is countered or accepted.
LEMMA EntersExchange ==
  ASSUME IInv, IInv', PullServed, NEW d \in Devices,
         pc[d] \in {"wait2", "barrier", "drive"}, Inbox(d) # <<>>,
         ~ IsBatch(Head(Inbox(d))), NEW m \in {Offer(FALSE), Accept}, Answer(d, <<m>>),
         NEW w \in {"drive", "accept"}, pc' = [pc EXCEPT ![d] = w],
         NEW r, ret' = [ret EXCEPT ![d] = r],
         r = pc[d] \/ (pc[d] = "drive" /\ r = ret[d]),
         UNCHANGED <<data, pulling>>
  PROVE  PullEffects(d)
<1>1. TypeOK /\ PlacesTyped
  BY TypesJoin DEF IInv
<1>2. m \in Messages /\ m.type \in {"FULL_STATE_OFFER", "FULL_STATE_ACCEPT"}
  <2>1. Offer(FALSE) \in Messages /\ Accept \in Messages
    BY MessagesTyped
  <2>2. Offer(FALSE).type = "FULL_STATE_OFFER" /\ Accept.type = "FULL_STATE_ACCEPT"
    BY DEF Offer, Accept
  <2> QED
    BY <2>1, <2>2
<1>3. <<m>> \in Seq(Messages) /\ MaySend(d, <<m>>)
  BY <1>2, HoldsOne, MaySendOne
<1>4. OthersKept(d) /\ Learns(d)
  BY <1>1, OthersStay, LearnsNothing DEF data, pulling
<1>5. /\ pc'[d] = w /\ ret'[d] = r /\ heard'[d] = heard[d] /\ pulls'[d] = pulls[d]
  BY <1>1 DEF PlacesTyped, pulling
<1>6. Pulling(d)' => Pulling(d)
  BY <1>5 DEF Pulling, Within
<1>7. (Past(d)' => Past(d)) /\ (Unacked(d)' => Unacked(d))
  <2>1. Past(d)' => Past(d)
    BY <1>5 DEF Past, Within
  <2>2. ~ Fresh(d)' /\ (Within(d, "ack")' => Within(d, "ack"))
    BY <1>5 DEF Fresh, Within
  <2> QED
    BY <1>6, <2>1, <2>2 DEF Unacked
<1> QED
  BY <1>3, <1>4, <1>5, <1>6, <1>7, AnswerCalm

LEMMA OffersPull ==
  ASSUME IInv, IInv', PullServed, NEW d \in Devices, HandleIncomingOffer(d) \/ RivalOffer(d)
  PROVE  PullEffects(d)
<1>1. /\ pc[d] \in {"wait2", "barrier", "drive"} /\ Inbox(d) # <<>>
      /\ ~ IsBatch(Head(Inbox(d)))
  BY DEF HandleIncomingOffer, RivalOffer, Awaits, IsBatch
<1>2. CASE Counter(d, FALSE)
  BY <1>1, <1>2, EntersExchange DEF Counter, Goto
<1>3. CASE AcceptOffer(d, pc[d]) \/ (pc[d] = "drive" /\ AcceptOffer(d, ret[d]))
  BY <1>1, <1>3, EntersExchange DEF AcceptOffer, Goto
<1>4. CASE /\ pc[d] = "drive" /\ Answer(d, <<>>)
           /\ UNCHANGED <<data, peerKey, pc, ret, closed, pulling, offered, faults, history>>
  <2>1. <<>> \in Seq(Messages) /\ MaySend(d, <<>>) /\ Learns(d)
    BY <1>4, HoldsNone, MaySendNothing, LearnsNothing DEF data
  <2> QED
    BY <1>1, <1>4, <2>1, StayPulls DEF data
<1> QED
  BY <1>2, <1>3, <1>4 DEF HandleIncomingOffer, RivalOffer, Awaits

LEMMA StreamSnapshotPulls ==
  ASSUME IInv, IInv', PullServed, NEW d \in Devices,
         StreamSnapshot(d) \/ TakeSnapshot(d) \/ QuietExchange(d)
  PROVE  PullEffects(d)
<1>1. TypeOK /\ PlacesTyped /\ DataTyped
  BY TypesJoin DEF IInv
<1>2. PICK w : w = IF ret[d] = "ack" THEN "barrier" ELSE ret[d]
  OBVIOUS
<1>3. /\ pc[d] \in {"drive", "accept"} /\ pc' = [pc EXCEPT ![d] = w]
      /\ ret' = ret /\ UNCHANGED pulling
  BY <1>2 DEF StreamSnapshot, TakeSnapshot, QuietExchange, Awaits, Resume, Goto
<1>4. ret[d] \in {"ack", "wait2", "barrier"} /\ w \in {"wait2", "barrier"}
  BY <1>1, <1>2 DEF PlacesTyped
<1>5. pc'[d] = w /\ ret'[d] = ret[d] /\ heard'[d] = heard[d] /\ pulls'[d] = pulls[d]
  BY <1>1, <1>3 DEF PlacesTyped, pulling
<1>6. /\ Pulling(d)' => Pulling(d) /\ ret[d] # "ack"
      /\ Past(d)' => Past(d)
      /\ ~ Fresh(d)' /\ ~ Within(d, "ack")'
      /\ Unacked(d)' => Unacked(d) /\ ret[d] # "ack"
  <2>1. Pulling(d)' => ret[d] = "wait2"
    BY <1>2, <1>4, <1>5 DEF Pulling, Within
  <2>2. Past(d)' => ret[d] \in {"ack", "barrier"}
    BY <1>2, <1>4, <1>5 DEF Past, Within
  <2>3. ~ Fresh(d)' /\ ~ Within(d, "ack")'
    BY <1>4, <1>5 DEF Fresh, Within
  <2>4. (Pulling(d)' => Pulling(d) /\ ret[d] # "ack") /\ (Past(d)' => Past(d))
    BY <1>3, <2>1, <2>2 DEF Pulling, Past, Within
  <2> QED
    BY <2>3, <2>4 DEF Unacked
<1>7. /\ MaySend(d, AckIfPulled(d)) /\ AckIfPulled(d) \in Seq(Messages)
      /\ \A i \in DOMAIN AckIfPulled(d) : ~ IsBatch(AckIfPulled(d)[i])
  BY <1>6, MaySendAckIfPulled, AckTyped
<1>8. CASE StreamSnapshot(d)
  <2>1. PICK m : m = Snapshot(clock[d])
    OBVIOUS
  <2>2. m \in Messages /\ m.type = "FULL_STATE_SNAPSHOT"
    BY <1>1, <2>1, MessagesTyped DEF DataTyped, Snapshot
  <2>3. PICK out : out = <<m>> \o AckIfPulled(d)
    OBVIOUS
  <2>4. MaySend(d, out) /\ out \in Seq(Messages)
    <3>1. <<m>> \in Seq(Messages)
      BY <2>2, HoldsOne
    <3> QED
      BY <1>7, <2>2, <2>3, <3>1, MaySendBoth
  <2>5. /\ Inbox(d) # <<>> /\ ~ IsBatch(Head(Inbox(d))) /\ Answer(d, out)
        /\ have' = have /\ know' = know
    BY <1>8, <2>1, <2>3 DEF StreamSnapshot, Awaits, IsBatch, data
  <2>6. OthersKept(d) /\ Learns(d)
    BY <1>1, <1>3, <2>5, OthersStay, LearnsNothing DEF pulling
  <2> QED
    BY <1>3, <1>4, <1>5, <1>6, <2>4, <2>5, <2>6, AnswerCalm
<1>9. CASE TakeSnapshot(d)
  <2>1. /\ Inbox(d) # <<>> /\ ~ IsBatch(Head(Inbox(d))) /\ Answer(d, AckIfPulled(d))
        /\ ApplySnapshot(d, Head(chan[d]).clock)
    BY <1>9 DEF TakeSnapshot, Awaits, IsBatch
  <2>2. have' = have /\ \E x : know' = [know EXCEPT ![d] = x]
    BY <2>1 DEF ApplySnapshot
  <2>3. OthersKept(d) /\ Learns(d)
    BY <1>1, <1>3, <2>1, <2>2, OthersStay, LearnsSnapshot DEF pulling
  <2> QED
    BY <1>3, <1>4, <1>5, <1>6, <1>7, <2>1, <2>3, AnswerCalm
<1>10. CASE QuietExchange(d)
  <2>1. Send(d, AckIfPulled(d)) /\ have' = have /\ know' = know
    BY <1>10 DEF QuietExchange, data
  <2>2. Reaches(d, AckIfPulled(d)) /\ chan'[d] = chan[d] /\ stash' = stash
    BY <1>1, <1>7, <2>1, SendReaches
  <2>3. PeerGets(d) /\ stash'[Peer(d)] = stash[Peer(d)]
    BY <1>1, <1>7, <2>2, ReachesQueue DEF PeerGets
  <2>4. Queue(d)' = Queue(d)
    BY <2>2 DEF Queue
  <2>5. OthersKept(d) /\ Learns(d)
    BY <1>1, <1>3, <2>1, OthersStay, LearnsNothing DEF pulling
  <2> QED
    BY <1>3, <1>4, <1>5, <1>6, <2>3, <2>4, <2>5, QueueCalm
<1> QED
  BY <1>8, <1>9, <1>10

\* d leaves.
LEMMA LeavePulls ==
  ASSUME IInv, IInv', PullServed, NEW d \in Devices, NEW outcome \in {"done", "failed"},
         Leave(d, outcome), pc[d] # "failed",
         UNCHANGED <<data, peerKey, ret, pulling, offered, faults, gapOffers, streamed>>,
         outcome = "done" => pc[d] = "drain" \/ closed[d],
         outcome = "done" /\ pc[Peer(d)] # "failed" /\ pulls[d] < MaxPulls => Missing(d) = {}
  PROVE  PullEffects(d)
<1>1. /\ TypeOK /\ PlacesTyped /\ QueuesTyped /\ Peer(d) \in Devices /\ Peer(d) # d
  BY TypesJoin, TwoSides DEF IInv
<1>2. /\ pc' = [pc EXCEPT ![d] = outcome] /\ chan' = [chan EXCEPT ![d] = <<>>]
      /\ stash' = [stash EXCEPT ![d] = <<>>]
  BY DEF Leave, Goto
<1>3. OthersKept(d) /\ Learns(d)
  BY <1>1, <1>2, OthersStay, LearnsNothing DEF data, pulling
<1>4. /\ pc'[d] = outcome /\ heard'[d] = heard[d] /\ pulls'[d] = pulls[d]
      /\ pc'[Peer(d)] = pc[Peer(d)]
  BY <1>1, <1>2 DEF PlacesTyped, pulling
<1>5. /\ chan'[d] = <<>> /\ stash'[d] = <<>>
      /\ chan'[Peer(d)] = chan[Peer(d)] /\ stash'[Peer(d)] = stash[Peer(d)]
  BY <1>1, <1>2 DEF QueuesTyped
<1>6. Queue(Peer(d))' = Queue(Peer(d)) /\ Among(Queue(d)', Queue(d))
  <2>1. DOMAIN Queue(d)' = {}
    BY <1>5 DEF Queue
  <2> QED
    BY <1>5, <2>1 DEF Queue, Among
<1>7. PullOf(d)'
  <2>1. Missing(d)' \subseteq Missing(d)
    BY <1>3, <1>4, MissingLess
  <2>2. PullOfNext(d)
    BY <1>4, <2>1 DEF PullOfNext, Pulling, Past, Within
  <2> QED
    BY <2>2, PullOfPrimed
<1> QED
  BY <1>3, <1>4, <1>5, <1>6, <1>7 DEF PullEffects, PeerGets, Unacked, Fresh, Pulling, Within

\* Who leaves in order lacks nothing that the peer could have served.
LEMMA LeavesPull ==
  ASSUME IInv, IInv', PullServed, NEW d \in Devices,
         QuietDrain(d) \/ StreamEndsSession(d) \/ StreamEndsHello(d) \/ IdleTimeout(d)
  PROVE  PullEffects(d)
<1>1. PullOf(d) /\ TypeOK
  BY DEF PullServed, IInv
<1>2. UNCHANGED <<data, peerKey, ret, pulling, offered, faults, gapOffers, streamed>>
  BY DEF QuietDrain, StreamEndsSession, StreamEndsHello, IdleTimeout, history
<1>3. CASE QuietDrain(d)
  <2>1. pc[d] = "drain" /\ Leave(d, "done")
    BY <1>3 DEF QuietDrain
  <2>2. pc[Peer(d)] # "failed" /\ pulls[d] < MaxPulls => Missing(d) = {}
    BY <1>1, <2>1 DEF PullOf
  <2> QED
    BY <1>2, <2>1, <2>2, LeavePulls
<1>4. CASE StreamEndsSession(d)
  <2>1. pc[d] = "barrier" /\ Leave(d, "done") /\ closed[d] /\ Inbox(d) = <<>>
    BY <1>4 DEF StreamEndsSession, EndOfStream, Waiting
  <2>2. chan[d] = <<>> /\ stash[d] = <<>>
    BY <2>1 DEF Inbox, FromStash
  <2>3. DOMAIN Queue(d) = {}
    BY <2>2 DEF Queue
  <2>4. pc[Peer(d)] # "failed" /\ pulls[d] < MaxPulls => Missing(d) = {}
    BY <1>1, <2>1, <2>3 DEF PullOf, Past, Within, Ahead
  <2> QED
    BY <1>2, <2>1, <2>4, LeavePulls
<1>5. CASE StreamEndsHello(d) \/ IdleTimeout(d)
  <2>1. Leave(d, "failed") /\ pc[d] # "failed"
    BY <1>5 DEF StreamEndsHello, IdleTimeout
  <2> QED
    BY <1>2, <2>1, LeavePulls
<1> QED
  BY <1>3, <1>4, <1>5

\* The stream ends under a pull only when the peer has failed.
LEMMA StreamEndsPullPulls ==
  ASSUME IInv, IInv', PullServed, NEW d \in Devices, StreamEndsPull(d)
  PROVE  PullEffects(d)
<1>1. TypeOK /\ PlacesTyped /\ Peer(d) \in Devices /\ Peer(d) # d /\ Peer(Peer(d)) = d
  BY TypesJoin, TwoSides DEF IInv
<1>2. /\ closed[d] /\ pc[d] \in {"wait1", "wait2"} /\ pc' = [pc EXCEPT ![d] = "barrier"]
      /\ UNCHANGED <<data, peerKey, ret, chan, closed, stash, pulling, offered, faults, history>>
  BY DEF StreamEndsPull, EndOfStream, Goto
<1>3. pc[Peer(d)] = "failed"
  <2>1. Ended(Peer(d))
    BY <1>1, <1>2 DEF IInv, Meeting, EndIsTold
  <2>2. pc[Peer(d)] # "done"
    BY <1>2 DEF PullServed, PeerStays, Unacked, Pulling, Within
  <2> QED
    BY <2>1, <2>2 DEF Ended
<1>4. OthersKept(d) /\ Learns(d)
  BY <1>1, <1>2, OthersStay, LearnsNothing DEF data, pulling
<1>5. pc'[d] = "barrier" /\ pc'[Peer(d)] = "failed"
  BY <1>1, <1>2, <1>3 DEF PlacesTyped
<1>6. PullOf(d)'
  BY <1>5, PullOfPrimed DEF PullOfNext
<1>7. /\ Queue(d)' = Queue(d) /\ Queue(Peer(d))' = Queue(Peer(d))
      /\ stash' = stash /\ Among(Queue(d)', Queue(d))
  BY <1>2, AmongSelf DEF Queue
<1> QED
  BY <1>2, <1>4, <1>5, <1>6, <1>7 DEF PullEffects, PeerGets, Unacked, Fresh, Pulling, Within, pulling

\* The carrier that fails under d cuts what is on its way to the peer.
LEMMA CarrierCuts ==
  ASSUME IInv, NEW d \in Devices, CarrierFails(d)
  PROVE  Among(Queue(Peer(d))', Queue(Peer(d)))
<1> DEFINE p == Peer(d)
<1>1. /\ QueuesTyped /\ p \in Devices /\ p # d
      /\ chan[p] \in Seq(Messages) /\ stash[p] \in Seq(Messages)
  BY TypesJoin, QueuesHere, TwoSides, QueuesQueue DEF IInv
<1>2. PICK n \in 0 .. Len(chan[p]) :
        chan' = [chan EXCEPT ![d] = <<>>, ![p] = SubSeq(@, 1, n)]
  BY DEF CarrierFails
<1>3. stash'[p] = stash[p] /\ chan'[p] = SubSeq(chan[p], 1, n)
  BY <1>1, <1>2 DEF QueuesTyped, CarrierFails
<1>4. Among(Queue(p)', Queue(p))
  <2>1. PICK s : s = stash[p]
    OBVIOUS
  <2>2. PICK c : c = chan[p]
    OBVIOUS
  <2>3. PICK u : u = SubSeq(c, 1, n)
    OBVIOUS
  <2>4. s \in Seq(Messages) /\ c \in Seq(Messages) /\ n \in 0 .. Len(c)
    BY <1>1, <2>1, <2>2
  <2>5. u \in Seq(Messages) /\ Len(u) = n /\ \A i \in 1 .. n : u[i] = c[i]
    BY <2>3, <2>4
  <2>6. ASSUME NEW i \in DOMAIN (s \o u)
        PROVE  i \in DOMAIN (s \o c) /\ (s \o u)[i] = (s \o c)[i]
    <3>1. i \in 1 .. Len(s) + n
      BY <2>4, <2>5, <2>6
    <3>2. CASE i <= Len(s)
      BY <2>4, <2>5, <3>1, <3>2
    <3>3. CASE i > Len(s)
      <4>1. i - Len(s) \in 1 .. n
        BY <2>4, <3>1, <3>3
      <4>2. (s \o u)[i] = u[i - Len(s)] /\ (s \o c)[i] = c[i - Len(s)]
        BY <2>4, <2>5, <3>1, <3>3
      <4> QED
        BY <2>4, <2>5, <3>1, <4>1, <4>2
    <3> QED
      BY <2>4, <3>1, <3>2, <3>3
  <2>7. Queue(p)' = s \o u /\ Queue(p) = s \o c
    BY <1>3, <2>1, <2>2, <2>3 DEF Queue
  <2> QED
    BY <2>6, <2>7 DEF Among
<1> QED
  BY <1>4

LEMMA FaultsPull ==
  ASSUME IInv, IInv', PullServed, NEW d \in Devices, Hang(d) \/ CarrierFails(d)
  PROVE  PullEffects(d)
<1>1. /\ TypeOK /\ PlacesTyped /\ QueuesTyped /\ Peer(d) \in Devices /\ Peer(d) # d
      /\ chan[Peer(d)] \in Seq(Messages) /\ stash[Peer(d)] \in Seq(Messages)
  BY TypesJoin, TwoSides, QueuesQueue DEF IInv
<1>2. /\ pc[d] # "failed" /\ UNCHANGED <<data, peerKey, ret, pulling, offered, history>>
      /\ pc' = [pc EXCEPT ![d] = "hung"] \/ pc' = [pc EXCEPT ![d] = "failed"]
  BY DEF Hang, CarrierFails, Running, Ended, Goto
<1>3. OthersKept(d) /\ Learns(d)
  BY <1>1, <1>2, OthersStay, LearnsNothing DEF data, pulling
<1>4. pc'[d] \in {"hung", "failed"}
  BY <1>1, <1>2 DEF PlacesTyped
<1>5. PullOf(d)' /\ ~ Fresh(d)' /\ ~ Unacked(d)'
  <2>1. PullOfNext(d)
    BY <1>4 DEF PullOfNext, Pulling, Past, Within
  <2> QED
    BY <1>4, <2>1, PullOfPrimed DEF Unacked, Fresh, Pulling, Within
<1>6. CASE Hang(d)
  <2>1. chan' = chan /\ stash' = stash
    BY <1>6 DEF Hang
  <2>2. /\ Queue(d)' = Queue(d) /\ Queue(Peer(d))' = Queue(Peer(d))
        /\ Among(Queue(d)', Queue(d))
    BY <2>1, AmongSelf DEF Queue
  <2> QED
    BY <1>2, <1>3, <1>4, <1>5, <2>1, <2>2 DEF PullEffects, PeerGets, pulling
<1>7. CASE CarrierFails(d)
  <2> DEFINE p == Peer(d)
  <2>1. PICK n \in 0 .. Len(chan[p]) :
          chan' = [chan EXCEPT ![d] = <<>>, ![p] = SubSeq(@, 1, n)]
    BY <1>7 DEF CarrierFails
  <2>2. stash' = [stash EXCEPT ![d] = <<>>] /\ pc' = [pc EXCEPT ![d] = "failed"]
    BY <1>7 DEF CarrierFails, Goto
  <2>3. pc'[d] = "failed"
    BY <1>1, <2>2 DEF PlacesTyped
  <2>4. /\ chan'[d] = <<>> /\ stash'[d] = <<>> /\ stash'[p] = stash[p]
        /\ chan'[p] = SubSeq(chan[p], 1, n)
    BY <1>1, <2>1, <2>2 DEF QueuesTyped
  <2>5. Among(Queue(d)', Queue(d))
    <3>1. DOMAIN Queue(d)' = {}
      BY <2>4 DEF Queue
    <3> QED
      BY <3>1 DEF Among
  <2>6. Among(Queue(p)', Queue(p))
    BY <1>7, CarrierCuts
  <2> QED
    BY <1>2, <1>3, <1>5, <2>3, <2>4, <2>5, <2>6 DEF PullEffects, PeerGets, pulling
<1> QED
  BY <1>6, <1>7

LEMMA NobodyAsked ==
  Init => PullServed
<1>1. SUFFICES ASSUME Init PROVE PullServed
  OBVIOUS
<1>2. ASSUME NEW d \in Devices
      PROVE  /\ pc[d] = "start" /\ heard[d] = {} /\ pulls[d] = 0
             /\ DOMAIN Queue(d) = {} /\ Missing(d) = {}
  BY <1>1 DEF Init, Queue, Missing
<1>3. \A d \in Devices : PullOf(d)
  BY <1>2 DEF PullOf, Pulling, Past, Within
<1> QED
  BY <1>2, <1>3, TwoSides DEF PullServed, BatchesAreHeld, RequestsAskForAll, NothingAsked,
     PeerStays

LEMMA EveryStepPulls ==
  ASSUME IInv, IInv', PullServed, NEW d \in Devices, Step(d) \/ Hang(d) \/ CarrierFails(d)
  PROVE  PullEffects(d)
BY StartPulls, ReceiveHelloPulls, ReceiveBatchPulls, StashWhilePullingPulls,
   ServeRequestPulls, ApplyLateBatchPulls, ReceiveSnapshotPulls, ReceiveAckPulls, IgnorePulls,
   OffersPull, StreamSnapshotPulls, StashDuringExchangePulls, LeavesPull,
   StreamEndsPullPulls, FaultsPull
DEF Step

LEMMA NextServes ==
  IInv /\ PullServed /\ [Next]_vars => PullServed'
<1>1. SUFFICES ASSUME IInv, PullServed, [Next]_vars PROVE PullServed'
  OBVIOUS
<1>2. IInv'
  BY <1>1, NextPreserves
<1>3. ASSUME NEW d \in Devices, Step(d) \/ Hang(d) \/ CarrierFails(d)
      PROVE  PullServed'
  <2>1. PullEffects(d)
    BY <1>1, <1>2, <1>3, EveryStepPulls
  <2> QED
    BY <1>1, <1>2, <2>1, PullEffectsSuffice
<1>4. CASE UNCHANGED vars
  <2>1. /\ pc' = pc /\ ret' = ret /\ chan' = chan /\ stash' = stash
        /\ heard' = heard /\ pulls' = pulls /\ have' = have /\ know' = know
    BY <1>4 DEF vars, pulling, data
  <2>2. \A d : Queue(d)' = Queue(d) /\ Missing(d)' = Missing(d)
    BY <2>1 DEF Queue, Missing
  <2>3. \A d : /\ Fresh(d)' <=> Fresh(d)
               /\ Pulling(d)' <=> Pulling(d)
               /\ Past(d)' <=> Past(d)
               /\ Unacked(d)' <=> Unacked(d)
    BY <2>1 DEF Unacked, Fresh, Pulling, Past, Within
  <2>4. \A d \in Devices : PullOf(d)'
    <3> TAKE d \in Devices
    <3>1. PullOf(d)
      BY <1>1 DEF PullServed
    <3>2. PullOfNext(d)
      BY <2>1, <2>2, <2>3, <3>1 DEF PullOf, PullOfNext
    <3> QED
      BY <3>2, PullOfPrimed
  <2>5. BatchesAreHeld'
    BY <1>1, <2>1, <2>2 DEF PullServed, BatchesAreHeld, IsBatch
  <2>6. RequestsAskForAll'
    BY <1>1, <2>1, <2>2 DEF PullServed, RequestsAskForAll, IsRequest
  <2>7. NothingAsked'
    BY <1>1, <2>1, <2>2, <2>3 DEF PullServed, NothingAsked, IsBatch, IsRequest
  <2>8. PeerStays'
    BY <1>1, <2>1, <2>2, <2>3 DEF PullServed, PeerStays, IsAck
  <2> QED
    BY <2>4, <2>5, <2>6, <2>7, <2>8 DEF PullServed
<1> QED
  BY <1>1, <1>3, <1>4 DEF Next

LEMMA NothingIsMissing ==
  PullServed => PullCompletes
<1>1. SUFFICES ASSUME PullServed, BothDone, NEW d \in Devices, pulls[d] < MaxPulls
               PROVE  heard[d] \cap have[Peer(d)] \subseteq know[d]
  BY DEF PullCompletes
<1>2. pc[d] = "done" /\ pc[Peer(d)] = "done"
  BY <1>1, TwoSides DEF BothDone
<1>3. Missing(d) = {}
  BY <1>1, <1>2 DEF PullServed, PullOf
<1> QED
  BY <1>3 DEF Missing

\* When both devices have ended in order, each has got every record that the other
\* advertised and held, unless its pull loop reached the cap: for any records, with
\* any crossing of pulls, offers and acknowledgements, and answers that come late.
THEOREM BothPullsComplete == Spec => []PullCompletes
<1>1. Init => PullServed
  BY NobodyAsked
<1>2. IInv /\ PullServed /\ [Next]_vars => PullServed'
  BY NextServes
<1>3. PullServed => PullCompletes
  BY NothingIsMissing
<1> QED
  BY <1>1, <1>2, <1>3, Invariance, PTL DEF Spec
-----------------------------------------------------------------------------
(* The gap: the third invariant, on top of the other two.                  *)

IsHello(m) == m.type = "HELLO"
IsOffer(m) == m.type = "FULL_STATE_OFFER"
IsSnapshot(m) == m.type = "FULL_STATE_SNAPSHOT"
OfExchange(m) == m.type \in {"FULL_STATE_OFFER", "FULL_STATE_ACCEPT", "FULL_STATE_SNAPSHOT"}

\* Nothing of an exchange is in the queue q.
Calm(q) == \A i \in DOMAIN q : ~ OfExchange(q[i])

\* An offer for a gap is in the queue q, and nothing else of an exchange.
LoneOffer(q) ==
  \E k \in DOMAIN q :
    /\ IsOffer(q[k]) /\ q[k].gapRounds
    /\ \A i \in DOMAIN q : i # k => ~ OfExchange(q[i])

\* d has made no offer, and no wait of its pull has more set aside than the
\* one message that it began with.
Settled(d) ==
  /\ offered[d] = {} /\ pc[d] \notin {"drive", "accept"}
  /\ pc[d] = "wait1" => stash[d] = <<>>
  /\ pc[d] = "wait2" => Len(stash[d]) <= 1

\* What a device hears of is in the clock of its peer.
HeardKnown ==
  \A d \in Devices :
    /\ heard[d] \subseteq clock[Peer(d)]
    /\ \A i \in DOMAIN Queue(d) :
         IsHello(Queue(d)[i]) => Queue(d)[i].clock \subseteq clock[Peer(d)]

\* Before HELLO a device has served nothing.
NothingServed ==
  \A d \in Devices : Fresh(d) =>
    \A i \in DOMAIN Queue(Peer(d)) : ~ IsBatch(Queue(Peer(d))[i])

\* Before the first offer for a gap there is no exchange.
BeforeOffers == gapOffers = {} => \A d \in Devices : Settled(d) /\ Calm(Queue(d))

\* The stages of the exchange that d began for its gap: its offer is on its way;
\* the peer's own offer answers it; d has accepted that one; the snapshot is on
\* its way; the gap is closed.
OpenGap(d, where) == pc[d] = where /\ ret[d] = "ack"

Asked(d) ==
  /\ OpenGap(d, "drive") /\ Calm(Queue(d))
  /\ Settled(Peer(d)) /\ pc[Peer(d)] \in {"wait1", "wait2", "barrier"}
  /\ LoneOffer(Queue(Peer(d)))

Countered(d) ==
  /\ OpenGap(d, "drive") /\ Holds(chan[d], "FULL_STATE_OFFER")
  /\ ~ Holds(chan[d], "FULL_STATE_ACCEPT") /\ ~ Holds(chan[d], "FULL_STATE_SNAPSHOT")
  /\ pc[Peer(d)] = "drive" /\ Calm(chan[Peer(d)])

Accepted(d) ==
  /\ OpenGap(d, "accept") /\ ~ Holds(chan[d], "FULL_STATE_SNAPSHOT")
  /\ pc[Peer(d)] = "drive"
  /\ Holds(chan[Peer(d)], "FULL_STATE_ACCEPT") /\ ~ Holds(chan[Peer(d)], "FULL_STATE_OFFER")

Served(d) ==
  /\ OpenGap(d, "accept") /\ Holds(chan[d], "FULL_STATE_SNAPSHOT")
  /\ \A i \in DOMAIN chan[d] : IsSnapshot(chan[d][i]) => heard[d] \subseteq chan[d][i].clock

Healed(d) == heard[d] \subseteq know[d] /\ ~ Fresh(d)

Alive(d) == pc[d] \notin {"failed", "hung"}

Healing ==
  ~ late => \A d \in Devices :
    gapOffers = {d} /\ Alive(d) /\ Alive(Peer(d)) =>
      Asked(d) \/ Countered(d) \/ Accepted(d) \/ Served(d) \/ Healed(d)

GapsClose == HeardKnown /\ NothingServed /\ BeforeOffers /\ Healing

-----------------------------------------------------------------------------
(* What a step of d does to the exchange, as long as d takes no part in it. *)

\* d reads an offer where it answers one.
Meets(d) ==
  pc[d] \in {"wait2", "barrier"} /\ Inbox(d) # <<>> /\ IsOffer(Head(Inbox(d)))

\* What d says: its clock, and nothing of an exchange without a reason.
Sayable(d, out) ==
  \A i \in DOMAIN out :
    /\ IsHello(out[i]) \/ IsSnapshot(out[i]) => out[i].clock = clock[d]
    /\ OfExchange(out[i]) => pc[d] = "drive" \/ Meets(d) \/ d \in gapOffers'
    /\ IsBatch(out[i]) => ~ Fresh(d)

Speaks(d) ==
  \/ Queue(Peer(d))' = Queue(Peer(d)) /\ chan'[Peer(d)] = chan[Peer(d)]
  \/ \E out \in Seq(Messages) : Reaches(d, out) /\ Sayable(d, out)
  \/ /\ pc'[d] = "failed"
     /\ Among(Queue(Peer(d))', Queue(Peer(d)))

Reads(d) ==
  \/ Queue(d)' = Queue(d)
  \/ \E n \in DOMAIN Queue(d) :
       /\ Without(Queue(d), Queue(d)', n)
       /\ IsOffer(Queue(d)[n]) => Meets(d) \/ pc[d] \in {"drain", "drive"}
  \/ pc'[d] \in {"done", "failed"}

Grows(d) ==
  /\ clock[d] \subseteq clock'[d] /\ clock'[Peer(d)] = clock[Peer(d)]
  /\ offered'[Peer(d)] = offered[Peer(d)]

HealEffects(d) ==
  /\ Grows(d) /\ (late => late') /\ pc[d] # "hung"
  /\ gapOffers' = gapOffers \/ gapOffers' = gapOffers \cup {d}
  /\ \/ heard'[d] = heard[d]
     \/ \E i \in DOMAIN Queue(d) : IsHello(Queue(d)[i]) /\ heard'[d] = Queue(d)[i].clock
  /\ Speaks(d) /\ Reads(d)
  /\ Settled(d) /\ ~ Meets(d) /\ d \notin gapOffers' => Settled(d)'

LEMMA OfferWithout ==
  ASSUME NEW q \in Seq(Messages), NEW z, NEW n, Without(q, z, n)
  PROVE  /\ LoneOffer(q) /\ ~ IsOffer(q[n]) => LoneOffer(z)
         /\ LoneOffer(q) /\ IsOffer(q[n]) => q[n].gapRounds /\ Calm(z)
<1>1. DOMAIN q = 1 .. Len(q) /\ Len(q) \in Nat /\ n \in 1 .. Len(q)
      /\ DOMAIN z = 1 .. Len(q) - 1
      /\ \A i \in DOMAIN z : z[i] = q[IF i < n THEN i ELSE i + 1]
  BY DEF Without
<1>2. SUFFICES ASSUME LoneOffer(q)
               PROVE  /\ ~ IsOffer(q[n]) => LoneOffer(z)
                      /\ IsOffer(q[n]) => q[n].gapRounds /\ Calm(z)
  OBVIOUS
<1>3. PICK k \in DOMAIN q :
        /\ IsOffer(q[k]) /\ q[k].gapRounds
        /\ \A i \in DOMAIN q : i # k => ~ OfExchange(q[i])
  BY <1>2 DEF LoneOffer
<1>4. ASSUME ~ IsOffer(q[n]) PROVE LoneOffer(z)
  <2>1. k # n
    BY <1>3, <1>4
  <2> DEFINE l == IF k < n THEN k ELSE k - 1
  <2>2. l \in DOMAIN z /\ z[l] = q[k]
    BY <1>1, <1>3, <2>1
  <2>3. \A i \in DOMAIN z : i # l => ~ OfExchange(z[i])
    <3> TAKE i \in DOMAIN z
    <3>1. (IF i < n THEN i ELSE i + 1) \in DOMAIN q
      BY <1>1
    <3>2. i # l => (IF i < n THEN i ELSE i + 1) # k
      BY <1>1, <1>3, <2>1
    <3> QED
      BY <1>1, <1>3, <3>1, <3>2
  <2> HIDE DEF l
  <2> QED
    BY <1>3, <2>2, <2>3 DEF LoneOffer
<1>5. ASSUME IsOffer(q[n]) PROVE q[n].gapRounds /\ Calm(z)
  <2>1. n = k
    BY <1>1, <1>3, <1>5 DEF IsOffer, OfExchange
  <2>2. \A i \in DOMAIN z :
          (IF i < n THEN i ELSE i + 1) \in DOMAIN q /\ (IF i < n THEN i ELSE i + 1) # k
    BY <1>1, <2>1
  <2> QED
    BY <1>1, <1>3, <2>1, <2>2 DEF Calm
<1> QED
  BY <1>4, <1>5

LEMMA CalmAmong ==
  ASSUME NEW z, NEW q, Among(z, q), Calm(q)
  PROVE  Calm(z)
BY DEF Among, Calm

LEMMA CalmConcat ==
  ASSUME NEW q \in Seq(Messages), NEW out \in Seq(Messages), Calm(q), Calm(out)
  PROVE  Calm(q \o out)
<1> SUFFICES ASSUME NEW i \in DOMAIN (q \o out)
             PROVE  ~ OfExchange((q \o out)[i])
  BY DEF Calm
<1>1. i \in 1 .. Len(q) + Len(out)
  OBVIOUS
<1>2. CASE i <= Len(q)
  BY <1>1, <1>2 DEF Calm
<1>3. CASE i > Len(q)
  <2>1. i - Len(q) \in DOMAIN out /\ (q \o out)[i] = out[i - Len(q)]
    BY <1>1, <1>3
  <2> QED
    BY <2>1 DEF Calm
<1> QED
  BY <1>1, <1>2, <1>3

LEMMA OfferLast ==
  ASSUME NEW q \in Seq(Messages), NEW m \in Messages, Calm(q), IsOffer(m), m.gapRounds
  PROVE  LoneOffer(q \o <<m>>)
<1> DEFINE z == q \o <<m>>
           k == Len(q) + 1
<1>1. k \in DOMAIN z /\ z[k] = m
  OBVIOUS
<1>2. \A i \in DOMAIN z : i # k => ~ OfExchange(z[i])
  <2> TAKE i \in DOMAIN z
  <2>1. i \in 1 .. Len(q) + 1
    OBVIOUS
  <2>2. i # k => i \in DOMAIN q /\ z[i] = q[i]
    BY <2>1
  <2> QED
    BY <2>2 DEF Calm
<1> HIDE DEF z, k
<1>3. LoneOffer(z)
  BY <1>1, <1>2 DEF LoneOffer
<1> QED
  BY <1>3 DEF z

LEMMA InboxQueue ==
  ASSUME TypeOK, NEW d \in Devices, Inbox(d) # <<>>
  PROVE  \E n \in DOMAIN Queue(d) : Queue(d)[n] = Head(Inbox(d))
<1> DEFINE s == stash[d]
           c == chan[d]
<1>1. s \in Seq(Messages) /\ c \in Seq(Messages)
  BY QueuesQueue
<1> HIDE DEF s, c
<1>2. s # <<>> => 1 \in DOMAIN (s \o c) /\ (s \o c)[1] = Head(s)
  BY <1>1, TailOfConcat DEF Without
<1>3. c # <<>> => Len(s) + 1 \in DOMAIN (s \o c) /\ (s \o c)[Len(s) + 1] = Head(c)
  BY <1>1, TailOfConcat DEF Without
<1>4. Inbox(d) = s \/ Inbox(d) = c
  BY DEF Inbox, s, c
<1>5. Queue(d) = s \o c
  BY DEF Queue, s, c
<1> QED
  BY <1>2, <1>3, <1>4, <1>5

LEMMA CalmMeets ==
  ASSUME TypeOK, NEW d \in Devices, Calm(Queue(d))
  PROVE  ~ Meets(d)
BY InboxQueue DEF Meets, Calm, IsOffer, OfExchange

LEMMA HoldsIn ==
  ASSUME NEW q, NEW t, Holds(q, t),
         t \in {"FULL_STATE_OFFER", "FULL_STATE_ACCEPT", "FULL_STATE_SNAPSHOT"}
  PROVE  ~ Calm(q)
BY DEF Holds, Calm, OfExchange
-----------------------------------------------------------------------------
(* The invariant under steps that take no part in the exchange of a gap.   *)

LEMMA ConcatMembers ==
  ASSUME NEW q \in Seq(Messages), NEW out \in Seq(Messages), NEW i \in DOMAIN (q \o out)
  PROVE  \/ i \in DOMAIN q /\ (q \o out)[i] = q[i]
         \/ \E j \in DOMAIN out : (q \o out)[i] = out[j]
<1>1. i \in 1 .. Len(q) + Len(out)
  OBVIOUS
<1>2. CASE i <= Len(q)
  BY <1>1, <1>2
<1>3. CASE i > Len(q)
  <2>1. i - Len(q) \in DOMAIN out /\ (q \o out)[i] = out[i - Len(q)]
    BY <1>1, <1>3
  <2> QED
    BY <2>1
<1> QED
  BY <1>1, <1>2, <1>3

\* What comes to the peer of d.
LEMMA PeerHears ==
  ASSUME IInv, NEW d \in Devices, Speaks(d), NEW i \in DOMAIN Queue(Peer(d))'
  PROVE  \/ \E j \in DOMAIN Queue(Peer(d)) : Queue(Peer(d))'[i] = Queue(Peer(d))[j]
         \/ \E out \in Seq(Messages) : \E j \in DOMAIN out :
              Queue(Peer(d))'[i] = out[j] /\ Sayable(d, out)
<1> DEFINE p == Peer(d)
<1>1. TypeOK /\ Queue(p) \in Seq(Messages)
  BY TwoSides, QueuesQueue DEF IInv
<1>2. CASE Queue(p)' = Queue(p) \/ Among(Queue(p)', Queue(p))
  BY <1>2 DEF Among
<1>3. ASSUME NEW out \in Seq(Messages), Reaches(d, out), Sayable(d, out), Queue(p)' # Queue(p)
      PROVE  \/ \E j \in DOMAIN Queue(p) : Queue(p)'[i] = Queue(p)[j]
             \/ \E j \in DOMAIN out : Queue(p)'[i] = out[j]
  <2> DEFINE q == Queue(p)
  <2>1. Queue(p)' = q \o out
    BY <1>1, <1>3, ReachesQueue
  <2>2. i \in DOMAIN (q \o out) /\ q \in Seq(Messages)
    BY <1>1, <2>1
  <2> HIDE DEF q
  <2>3. (i \in DOMAIN q /\ (q \o out)[i] = q[i]) \/ \E j \in DOMAIN out : (q \o out)[i] = out[j]
    BY <2>2, ConcatMembers
  <2> QED
    BY <2>1, <2>3 DEF q
<1> QED
  BY <1>2, <1>3 DEF Speaks

LEMMA HeardStaysKnown ==
  ASSUME IInv, HeardKnown, NEW d \in Devices, PullEffects(d), HealEffects(d)
  PROVE  HeardKnown'
<1> DEFINE p == Peer(d)
<1>1. /\ p \in Devices /\ p # d /\ Peer(p) = d /\ \A b \in Devices : b = d \/ b = p
  BY TwoSides
<1>2. /\ heard'[p] = heard[p] /\ clock'[p] = clock[p] /\ clock[d] \subseteq clock'[d]
  BY <1>1 DEF PullEffects, OthersKept, HealEffects, Grows
<1>3. /\ heard[d] \subseteq clock[p] /\ heard[p] \subseteq clock[d]
      /\ \A j \in DOMAIN Queue(d) : IsHello(Queue(d)[j]) => Queue(d)[j].clock \subseteq clock[p]
      /\ \A j \in DOMAIN Queue(p) : IsHello(Queue(p)[j]) => Queue(p)[j].clock \subseteq clock[d]
  BY <1>1 DEF HeardKnown
<1>4. heard'[d] \subseteq clock[p]
  BY <1>3 DEF HealEffects
<1>5. \A i \in DOMAIN Queue(d)' : IsHello(Queue(d)'[i]) => Queue(d)'[i].clock \subseteq clock[p]
  BY <1>3 DEF PullEffects, Among
<1>6. \A i \in DOMAIN Queue(p)' : IsHello(Queue(p)'[i]) => Queue(p)'[i].clock \subseteq clock[d]
  <2> TAKE i \in DOMAIN Queue(p)'
  <2>1. \/ \E j \in DOMAIN Queue(p) : Queue(p)'[i] = Queue(p)[j]
        \/ \E out \in Seq(Messages) : \E j \in DOMAIN out :
             Queue(p)'[i] = out[j] /\ Sayable(d, out)
    BY PeerHears DEF HealEffects
  <2> QED
    BY <1>3, <2>1 DEF Sayable
<1>7. \A b \in Devices :
        /\ heard'[b] \subseteq clock'[Peer(b)]
        /\ \A i \in DOMAIN Queue(b)' :
             IsHello(Queue(b)'[i]) => Queue(b)'[i].clock \subseteq clock'[Peer(b)]
  BY <1>1, <1>2, <1>3, <1>4, <1>5, <1>6
<1> QED
  BY <1>7 DEF HeardKnown, IsHello

LEMMA SettledStays ==
  ASSUME IInv, IInv', BeforeOffers, NEW d \in Devices, PullEffects(d), HealEffects(d)
  PROVE  BeforeOffers'
<1> DEFINE p == Peer(d)
<1>1. /\ p \in Devices /\ p # d /\ Peer(p) = d /\ \A b \in Devices : b = d \/ b = p
  BY TwoSides
<1>2. SUFFICES ASSUME gapOffers' = {}
               PROVE  Settled(d)' /\ Settled(p)' /\ Calm(Queue(d))' /\ Calm(Queue(p))'
  BY <1>1 DEF BeforeOffers
<1>3. gapOffers = {} /\ d \notin gapOffers'
  BY <1>2 DEF HealEffects
<1>4. Settled(d) /\ Settled(p) /\ Calm(Queue(d)) /\ Calm(Queue(p))
  BY <1>1, <1>3 DEF BeforeOffers
<1>5. ~ Meets(d) /\ pc[d] # "drive"
  BY <1>4, CalmMeets DEF IInv, Settled
<1>6. Settled(d)'
  BY <1>3, <1>4, <1>5 DEF HealEffects
<1>7. Settled(p)'
  <2>1. pc'[p] = pc[p] /\ stash'[p] = stash[p] /\ offered'[p] = offered[p]
    BY <1>1 DEF PullEffects, OthersKept, HealEffects, Grows
  <2> QED
    BY <1>4, <2>1 DEF Settled
<1>8. Calm(Queue(d))'
  <2>1. \A i \in DOMAIN Queue(d)' : ~ OfExchange(Queue(d)'[i])
    BY <1>4 DEF PullEffects, Among, Calm
  <2> QED
    BY <2>1 DEF Calm, OfExchange
<1>9. Calm(Queue(p))'
  <2>1. ASSUME NEW i \in DOMAIN Queue(p)' PROVE ~ OfExchange(Queue(p)'[i])
    <3>1. \/ \E j \in DOMAIN Queue(p) : Queue(p)'[i] = Queue(p)[j]
          \/ \E out \in Seq(Messages) : \E j \in DOMAIN out :
               Queue(p)'[i] = out[j] /\ Sayable(d, out)
      BY PeerHears DEF HealEffects
    <3> QED
      BY <1>3, <1>4, <1>5, <3>1 DEF Sayable, Calm
  <2> QED
    BY <2>1 DEF Calm, OfExchange
<1> QED
  BY <1>6, <1>7, <1>8, <1>9

\* The stages of q, for the next state.
AskedNext(q) ==
  /\ pc'[q] = "drive" /\ ret'[q] = "ack" /\ \A i \in DOMAIN Queue(q)' : ~ OfExchange(Queue(q)'[i])
  /\ Settled(Peer(q))' /\ pc'[Peer(q)] \in {"wait1", "wait2", "barrier"}
  /\ \E k \in DOMAIN Queue(Peer(q))' :
       /\ IsOffer(Queue(Peer(q))'[k]) /\ Queue(Peer(q))'[k].gapRounds
       /\ \A i \in DOMAIN Queue(Peer(q))' : i # k => ~ OfExchange(Queue(Peer(q))'[i])

LEMMA AskedPrimed ==
  ASSUME NEW q, AskedNext(q)
  PROVE  Asked(q)'
BY DEF AskedNext, Asked, OpenGap, Calm, LoneOffer, IsOffer, OfExchange

\* What the peer does by itself leaves a request for the snapshot standing.
LEMMA AskedStays ==
  ASSUME IInv, IInv', PullServed', NEW q \in Devices, Asked(q),
         NEW d \in Devices, d = Peer(q), PullEffects(d), HealEffects(d),
         d \notin gapOffers', ~ Meets(d), Alive(d)'
  PROVE  Asked(q)'
<1>1. q = Peer(d) /\ q # d
  BY TwoSides
<1>2. /\ pc'[q] = pc[q] /\ ret'[q] = ret[q] /\ pc[q] = "drive" /\ ret[q] = "ack"
  BY <1>1 DEF PullEffects, OthersKept, Asked, OpenGap
<1>3. Settled(d)' /\ pc[d] \in {"wait1", "wait2", "barrier"}
  BY DEF Asked, HealEffects
<1>4. pc'[d] \in {"wait1", "wait2", "barrier"}
  <2>1. pc'[d] \notin {"drive", "accept", "failed", "hung"}
    BY <1>3 DEF Settled, Alive
  <2>2. pc'[d] \notin {"start", "hello"}
    BY <1>3 DEF PullEffects, Fresh
  <2>3. pc'[d] \notin {"drain", "done"}
    BY <1>2 DEF PullServed, PeerStays, Unacked, Within
  <2>4. pc'[d] \in {"start", "hello", "wait1", "wait2", "drive", "accept", "barrier",
                    "drain", "done", "failed", "hung"}
    BY DEF IInv, TypeOK
  <2> QED
    BY <2>1, <2>2, <2>3, <2>4
<1>5. \A i \in DOMAIN Queue(q)' : ~ OfExchange(Queue(q)'[i])
  <2> TAKE i \in DOMAIN Queue(q)'
  <2>1. \/ \E j \in DOMAIN Queue(q) : Queue(q)'[i] = Queue(q)[j]
        \/ \E out \in Seq(Messages) : \E j \in DOMAIN out :
             Queue(q)'[i] = out[j] /\ Sayable(d, out)
    BY <1>1, PeerHears DEF HealEffects
  <2>2. Calm(Queue(q)) /\ pc[d] # "drive"
    BY <1>3 DEF Asked
  <2> QED
    BY <2>1, <2>2 DEF Sayable, Calm
<1>6. LoneOffer(Queue(d)) /\ Queue(d) \in Seq(Messages)
  BY QueuesQueue DEF Asked, IInv
<1>7. PICK z : z = Queue(d)'
  OBVIOUS
<1>8. LoneOffer(z)
  <2>1. CASE Queue(d)' = Queue(d)
    BY <1>6, <1>7, <2>1
  <2>2. ASSUME NEW n \in DOMAIN Queue(d), Without(Queue(d), Queue(d)', n),
               ~ IsOffer(Queue(d)[n])
        PROVE  LoneOffer(z)
    BY <1>6, <1>7, <2>2, OfferWithout
  <2> QED
    BY <1>3, <1>4, <2>1, <2>2 DEF HealEffects, Reads
<1>9. AskedNext(q)
  BY <1>2, <1>3, <1>4, <1>5, <1>7, <1>8 DEF AskedNext, LoneOffer
<1> QED
  BY <1>9, AskedPrimed

LEMMA ServedStays ==
  ASSUME IInv, HeardKnown, NEW q \in Devices, Served(q), NEW d \in Devices, d = Peer(q),
         PullEffects(d), HealEffects(d), Alive(d)'
  PROVE  Served(q)'
<1>1. q = Peer(d) /\ q # d
  BY TwoSides
<1>2. pc'[q] = pc[q] /\ ret'[q] = ret[q] /\ heard'[q] = heard[q]
  BY <1>1 DEF PullEffects, OthersKept
<1>3. chan[q] \in Seq(Messages)
  BY QueuesQueue DEF IInv
<1>4. PICK k \in DOMAIN chan[q] : chan[q][k].type = "FULL_STATE_SNAPSHOT"
  BY DEF Served, Holds
<1>5. heard[q] \subseteq clock[d]
  BY DEF HeardKnown
<1>6. /\ \E l \in DOMAIN chan'[q] : chan'[q][l].type = "FULL_STATE_SNAPSHOT"
      /\ \A i \in DOMAIN chan'[q] : IsSnapshot(chan'[q][i]) => heard[q] \subseteq chan'[q][i].clock
  <2>1. CASE chan'[q] = chan[q]
    BY <1>4, <2>1 DEF Served
  <2>2. ASSUME NEW out \in Seq(Messages), Sayable(d, out), chan'[q] = chan[q] \o out
        PROVE  /\ \E l \in DOMAIN chan'[q] : chan'[q][l].type = "FULL_STATE_SNAPSHOT"
               /\ \A i \in DOMAIN chan'[q] :
                    IsSnapshot(chan'[q][i]) => heard[q] \subseteq chan'[q][i].clock
    <3> DEFINE c == chan[q]
    <3>1. c \in Seq(Messages) /\ k \in DOMAIN c /\ c[k].type = "FULL_STATE_SNAPSHOT"
          /\ \A i \in DOMAIN c : IsSnapshot(c[i]) => heard[q] \subseteq c[i].clock
      BY <1>3, <1>4 DEF Served
    <3> HIDE DEF c
    <3>2. k \in DOMAIN (c \o out) /\ (c \o out)[k] = c[k]
      BY <3>1
    <3>3. ASSUME NEW i \in DOMAIN (c \o out), IsSnapshot((c \o out)[i])
          PROVE  heard[q] \subseteq (c \o out)[i].clock
      <4>1. (i \in DOMAIN c /\ (c \o out)[i] = c[i]) \/ \E j \in DOMAIN out : (c \o out)[i] = out[j]
        BY <3>1, <3>3, ConcatMembers
      <4> QED
        BY <1>5, <2>2, <3>1, <3>3, <4>1 DEF Sayable
    <3>4. chan'[q] = c \o out
      BY <2>2 DEF c
    <3> QED
      BY <3>1, <3>2, <3>3, <3>4
  <2> QED
    BY <1>1, <2>1, <2>2 DEF HealEffects, Speaks, Reaches, Alive
<1>7. pc'[q] = "accept" /\ ret'[q] = "ack"
  BY <1>2 DEF Served, OpenGap
<1> QED
  BY <1>2, <1>6, <1>7 DEF Served, OpenGap, Holds, IsSnapshot

\* A closed gap stays closed, whoever moves.
LEMMA HealedStays ==
  ASSUME IInv, NEW q \in Devices, Healed(q), NEW d \in Devices, PullEffects(d)
  PROVE  Healed(q)'
<1>1. CASE q # d
  BY <1>1 DEF PullEffects, OthersKept, Healed, Fresh
<1>2. CASE q = d
  BY <1>2 DEF PullEffects, Learns, Healed, Fresh
<1> QED
  BY <1>1, <1>2
-----------------------------------------------------------------------------
(* The steps, for the gap.                                                 *)

LEMMA SayPlain ==
  ASSUME NEW d, NEW out,
         \A i \in DOMAIN out : out[i].type \in {"CHANGES_REQUEST", "CHANGES_BATCH", "CHANGES_ACK"},
         (\A i \in DOMAIN out : ~ IsBatch(out[i])) \/ ~ Fresh(d)
  PROVE  Sayable(d, out)
BY DEF Sayable, IsHello, IsSnapshot, OfExchange

LEMMA SayNothing ==
  ASSUME NEW d
  PROVE  Sayable(d, <<>>)
BY DEF Sayable

LEMMA SayOne ==
  ASSUME NEW d, NEW m \in Messages,
         IsHello(m) \/ IsSnapshot(m) => m.clock = clock[d], ~ IsBatch(m),
         OfExchange(m) => pc[d] = "drive" \/ Meets(d) \/ d \in gapOffers'
  PROVE  Sayable(d, <<m>>)
<1>1. DOMAIN <<m>> = {1} /\ <<m>>[1] = m
  OBVIOUS
<1> QED
  BY <1>1 DEF Sayable

LEMMA SayAckIfPulled ==
  ASSUME NEW d
  PROVE  Sayable(d, AckIfPulled(d))
<1>1. \A i \in DOMAIN AckIfPulled(d) : AckIfPulled(d)[i].type = "CHANGES_ACK"
  BY DEF AckIfPulled, Ack
<1> QED
  BY <1>1, SayPlain DEF IsBatch

LEMMA ClockGrows ==
  ASSUME IInv, NEW d \in Devices, NEW R, clock' = [clock EXCEPT ![d] = @ \cup R]
  PROVE  clock[d] \subseteq clock'[d] /\ clock'[Peer(d)] = clock[Peer(d)]
BY TwoSides DEF IInv, TypeOK

LEMMA Growth ==
  ASSUME IInv, NEW d \in Devices,
         clock[d] \subseteq clock'[d], clock'[Peer(d)] = clock[Peer(d)],
         offered' = offered \/ (\E w : offered' = [offered EXCEPT ![d] = w])
  PROVE  Grows(d)
<1>1. /\ offered \in [Devices -> SUBSET {"clock", "device"}]
      /\ Peer(d) \in Devices /\ Peer(d) # d
  BY TwoSides DEF IInv, TypeOK
<1>2. offered'[Peer(d)] = offered[Peer(d)]
  BY <1>1
<1> QED
  BY <1>2 DEF Grows

\* d takes a message and answers it.
LEMMA AnswerHeals ==
  ASSUME IInv, NEW d \in Devices, Inbox(d) # <<>>, NEW out \in Seq(Messages),
         Answer(d, out), Sayable(d, out), Grows(d), late' = late, pc[d] # "hung",
         IsOffer(Head(Inbox(d))) => Meets(d) \/ pc[d] \in {"drain", "drive"},
         gapOffers' = gapOffers \/ gapOffers' = gapOffers \cup {d},
         heard'[d] = heard[d] \/ (IsHello(Head(Inbox(d))) /\ heard'[d] = Head(Inbox(d)).clock),
         Settled(d) /\ ~ Meets(d) /\ d \notin gapOffers' =>
           /\ offered'[d] = offered[d] /\ pc'[d] \notin {"drive", "accept"}
           /\ pc'[d] \in {"wait1", "wait2"} => pc[d] \in {"hello", "wait1", "wait2"}
  PROVE  HealEffects(d)
<1>1. TypeOK /\ chan[d] \in Seq(Messages) /\ stash[d] \in Seq(Messages) /\ QueuesTyped
  BY QueuesQueue, QueuesHere DEF IInv
<1>2. PICK n \in DOMAIN Queue(d) :
        Without(Queue(d), Queue(d)', n) /\ Queue(d)[n] = Head(Inbox(d))
  BY <1>1, AnswerQueue
<1>3. Reads(d)
  BY <1>2 DEF Reads
<1>4. Speaks(d)
  BY <1>1, AnswerReaches DEF Speaks
<1>5. \/ heard'[d] = heard[d]
      \/ \E i \in DOMAIN Queue(d) : IsHello(Queue(d)[i]) /\ heard'[d] = Queue(d)[i].clock
  BY <1>2
<1>6. Settled(d) /\ pc[d] \in {"hello", "wait1", "wait2"} => stash'[d] = <<>>
  <2>1. CASE FromStash(d)
    <3>1. stash'[d] = Tail(stash[d]) /\ stash[d] # <<>> /\ pc[d] \in {"wait2", "barrier"}
      BY <1>1, <2>1 DEF Answer, QueuesTyped, FromStash
    <3>2. Settled(d) /\ pc[d] = "wait2" => Len(stash[d]) <= 1
      BY DEF Settled
    <3> QED
      BY <1>1, <3>1, <3>2
  <2>2. CASE ~ FromStash(d)
    <3>1. stash'[d] = stash[d]
      BY <2>2 DEF Answer
    <3>2. pc[d] = "wait2" => stash[d] = <<>>
      BY <2>2 DEF FromStash
    <3>3. pc[d] = "hello" => stash[d] = <<>>
      BY DEF IInv, Meeting, HelloComes
    <3>4. Settled(d) /\ pc[d] = "wait1" => stash[d] = <<>>
      BY DEF Settled
    <3> QED
      BY <3>1, <3>2, <3>3, <3>4
  <2> QED
    BY <2>1, <2>2
<1>7. Settled(d) /\ ~ Meets(d) /\ d \notin gapOffers' => Settled(d)'
  <2>1. Len(<<>>) <= 1
    OBVIOUS
  <2> QED
    BY <1>6, <2>1 DEF Settled
<1> QED
  BY <1>3, <1>4, <1>5, <1>7 DEF HealEffects

\* d reads nothing: it sends, or moves.
LEMMA QuietHeals ==
  ASSUME IInv, NEW d \in Devices, Grows(d), late => late', pc[d] # "hung",
         gapOffers' = gapOffers, heard'[d] = heard[d], Speaks(d),
         Queue(d)' = Queue(d) \/ pc'[d] \in {"done", "failed"},
         offered'[d] = offered[d],
         pc'[d] \notin {"drive", "accept", "wait1", "wait2"} \/ pc[d] \in {"drive", "accept"}
  PROVE  HealEffects(d)
<1>1. Settled(d) => Settled(d)'
  BY DEF Settled
<1>2. Reads(d)
  BY DEF Reads
<1> QED
  BY <1>1, <1>2 DEF HealEffects

LEMMA StartHeals ==
  ASSUME IInv, NEW d \in Devices, Start(d)
  PROVE  HealEffects(d)
<1>1. TypeOK /\ DataTyped /\ PlacesTyped
  BY TypesJoin DEF IInv
<1>2. PICK m : m = Hello(clock[d])
  OBVIOUS
<1>3. m \in Messages /\ m.type = "HELLO" /\ m.clock = clock[d]
  BY <1>1, <1>2, MessagesTyped DEF DataTyped, Hello
<1>4. /\ pc[d] = "start" /\ pc' = [pc EXCEPT ![d] = "hello"] /\ Send(d, <<m>>)
      /\ UNCHANGED <<data, peerKey, ret, closed, pulling, offered, faults, history>>
  BY <1>2 DEF Start, Goto
<1>5. <<m>> \in Seq(Messages) /\ Sayable(d, <<m>>)
  BY <1>3, SayOne, HoldsOne DEF OfExchange, IsBatch
<1>6. Reaches(d, <<m>>) /\ chan'[d] = chan[d] /\ stash' = stash
  BY <1>1, <1>4, <1>5, SendReaches
<1>7. Grows(d) /\ Speaks(d) /\ Queue(d)' = Queue(d)
  BY <1>4, <1>5, <1>6, Growth DEF data, Speaks, Queue
<1>8. pc'[d] = "hello"
  BY <1>1, <1>4 DEF PlacesTyped
<1> QED
  BY <1>4, <1>7, <1>8, QuietHeals DEF history, pulling

LEMMA GoOnHeals ==
  ASSUME IInv, NEW d \in Devices, NEW lack \in SUBSET Recs, NEW rounds,
         pc[d] \in {"hello", "wait1", "wait2"}, Inbox(d) # <<>>, GoOn(d, lack, rounds),
         ~ IsOffer(Head(Inbox(d))), late' = late,
         clock[d] \subseteq clock'[d], clock'[Peer(d)] = clock[Peer(d)],
         heard'[d] = heard[d] \/ (IsHello(Head(Inbox(d))) /\ heard'[d] = Head(Inbox(d)).clock)
  PROVE  HealEffects(d)
<1>1. TypeOK /\ PlacesTyped
  BY TypesJoin DEF IInv
<1>2. CASE /\ Answer(d, <<Request(lack)>>) /\ Goto(d, "wait1")
           /\ UNCHANGED <<ret, offered, gapOffers>>
  <2>1. PICK m : m = Request(lack)
    OBVIOUS
  <2>2. m \in Messages /\ m.type = "CHANGES_REQUEST"
    BY <2>1, MessagesTyped DEF Request
  <2>3. <<m>> \in Seq(Messages) /\ Sayable(d, <<m>>) /\ Answer(d, <<m>>)
    BY <1>2, <2>1, <2>2, HoldsOne, SayOne DEF IsHello, IsBatch, IsSnapshot, OfExchange
  <2>4. pc'[d] = "wait1" /\ Grows(d)
    BY <1>1, <1>2, Growth DEF Goto, PlacesTyped
  <2> QED
    BY <1>2, <2>3, <2>4, AnswerHeals
<1>3. CASE /\ Answer(d, <<Offer(TRUE)>>) /\ gapOffers' = gapOffers \cup {d}
           /\ offered' = [offered EXCEPT ![d] = @ \cup {peerKey[d]}]
  <2>1. PICK m : m = Offer(TRUE)
    OBVIOUS
  <2>2. m \in Messages /\ m.type = "FULL_STATE_OFFER"
    BY <2>1, MessagesTyped DEF Offer
  <2>3. <<m>> \in Seq(Messages) /\ Sayable(d, <<m>>) /\ Answer(d, <<m>>)
    BY <1>3, <2>1, <2>2, HoldsOne, SayOne DEF IsHello, IsBatch, IsSnapshot
  <2>4. Grows(d)
    BY <1>3, Growth
  <2> QED
    BY <1>3, <2>3, <2>4, AnswerHeals
<1>4. CASE /\ Answer(d, <<Ack>>) /\ Goto(d, "barrier")
           /\ UNCHANGED <<ret, need, pulls, offered, gapOffers>>
  <2>1. PICK m : m = Ack
    OBVIOUS
  <2>2. m \in Messages /\ m.type = "CHANGES_ACK"
    BY <2>1, MessagesTyped DEF Ack
  <2>3. <<m>> \in Seq(Messages) /\ Sayable(d, <<m>>) /\ Answer(d, <<m>>)
    BY <1>4, <2>1, <2>2, HoldsOne, SayOne DEF IsHello, IsBatch, IsSnapshot, OfExchange
  <2>4. pc'[d] = "barrier" /\ Grows(d)
    BY <1>1, <1>4, Growth DEF Goto, PlacesTyped
  <2> QED
    BY <1>4, <2>3, <2>4, AnswerHeals
<1> QED
  BY <1>2, <1>3, <1>4 DEF GoOn

LEMMA PullingHeals ==
  ASSUME IInv, IInv', NEW d \in Devices, ReceiveHello(d) \/ ReceiveBatch(d)
  PROVE  HealEffects(d)
<1>1. TypeOK /\ PullTyped /\ DataTyped
  BY TypesJoin DEF IInv
<1>2. heard' \in [Devices -> SUBSET Recs]
  BY DEF IInv, TypeOK
<1>3. CASE ReceiveHello(d)
  <2>1. /\ pc[d] = "hello" /\ Inbox(d) # <<>> /\ UNCHANGED <<data, closed>>
        /\ heard' = [heard EXCEPT ![d] = Head(chan[d]).clock]
        /\ IsHello(Head(Inbox(d))) /\ late' = late
    BY <1>3 DEF ReceiveHello, Awaits, IsHello
  <2>2. Inbox(d) = chan[d] /\ ~ IsOffer(Head(Inbox(d)))
    BY <2>1 DEF Inbox, FromStash, IsHello, IsOffer
  <2>3. heard'[d] = Head(Inbox(d)).clock
    BY <1>1, <2>1, <2>2 DEF PullTyped
  <2>4. PICK lack : lack = heard'[d] \ know[d]
    OBVIOUS
  <2>5. lack \in SUBSET Recs /\ GoOn(d, lack, 0)
    BY <1>2, <1>3, <2>4 DEF ReceiveHello
  <2> QED
    BY <2>1, <2>2, <2>3, <2>5, GoOnHeals DEF data
<1>4. CASE ReceiveBatch(d)
  <2>1. /\ pc[d] \in {"wait1", "wait2"} /\ Inbox(d) # <<>> /\ IsBatch(Head(Inbox(d)))
        /\ ApplyBatch(d, Head(Inbox(d)).changes) /\ heard' = heard /\ late' = late
    BY <1>4 DEF ReceiveBatch, Awaits, IsBatch
  <2>2. PICK lack : lack = heard[d] \ know'[d]
    OBVIOUS
  <2>3. PICK rounds : rounds = IF lack = need[d] THEN gap[d] + 1 ELSE 0
    OBVIOUS
  <2>4. lack \in SUBSET Recs /\ GoOn(d, lack, rounds)
    BY <1>1, <1>4, <2>2, <2>3 DEF ReceiveBatch, PullTyped
  <2>5. ~ IsOffer(Head(Inbox(d))) 
    BY <2>1 DEF IsBatch, IsOffer
  <2>6. heard'[d] = heard[d] /\ pc[d] \in {"hello", "wait1", "wait2"}
    BY <2>1
  <2>7. clock[d] \subseteq clock'[d] /\ clock'[Peer(d)] = clock[Peer(d)]
    BY <2>1, ClockGrows DEF ApplyBatch
  <2> QED
    BY <2>1, <2>4, <2>5, <2>6, <2>7, GoOnHeals
<1> QED
  BY <1>3, <1>4

LEMMA ServesPlain ==
  ASSUME NEW d, NEW R, NEW out \in Batches(d, R), ~ Fresh(d)
  PROVE  Sayable(d, out)
<1>1. \A i \in DOMAIN out : out[i].type = "CHANGES_BATCH"
  BY DEF Batches, Batch
<1> QED
  BY <1>1, SayPlain

\* d takes a message and stays.
LEMMA StayHeals ==
  ASSUME IInv, NEW d \in Devices, pc[d] \in Serving \cup {"drive"}, Inbox(d) # <<>>,
         NEW out \in Seq(Messages), Answer(d, out), Sayable(d, out),
         clock[d] \subseteq clock'[d], clock'[Peer(d)] = clock[Peer(d)],
         UNCHANGED <<pc, pulling, offered, history>>,
         IsOffer(Head(Inbox(d))) => pc[d] \in {"drain", "drive"}
  PROVE  HealEffects(d)
<1>1. Grows(d) /\ late' = late /\ gapOffers' = gapOffers /\ heard'[d] = heard[d]
  BY Growth DEF history, pulling
<1>2. pc[d] # "hung" /\ (pc[d] = "drive" => ~ Settled(d))
  BY DEF Serving, Settled
<1>3. Settled(d) /\ ~ Meets(d) /\ d \notin gapOffers' =>
        /\ offered'[d] = offered[d] /\ pc'[d] \notin {"drive", "accept"}
        /\ pc'[d] \in {"wait1", "wait2"} => pc[d] \in {"hello", "wait1", "wait2"}
  BY <1>2 DEF Serving
<1> QED
  BY <1>1, <1>2, <1>3, AnswerHeals

LEMMA ServingHeals ==
  ASSUME IInv, NEW d \in Devices,
         ServeRequest(d) \/ ApplyLateBatch(d) \/ ReceiveSnapshot(d) \/ Ignore(d)
  PROVE  HealEffects(d)
<1>1. pc[d] \in Serving \cup {"drive"} /\ Inbox(d) # <<>>
      /\ UNCHANGED <<pc, pulling, offered, history>>
  BY DEF ServeRequest, ApplyLateBatch, ReceiveSnapshot, Ignore, Awaits, Serving
<1>2. IsOffer(Head(Inbox(d))) => pc[d] \in {"drain", "drive"}
  BY DEF ServeRequest, ApplyLateBatch, ReceiveSnapshot, Ignore, Awaits, IsOffer
<1>3. CASE ServeRequest(d)
  <2>1. PICK R : R = Head(Inbox(d)).ranges
    OBVIOUS
  <2>2. R \in SUBSET Recs
    BY <1>3, <2>1, InboxTyped, Carried DEF ServeRequest, Awaits, IInv
  <2>3. PICK out \in Batches(d, R) : Answer(d, out)
    BY <1>3, <2>1 DEF ServeRequest
  <2>4. out \in Seq(Messages) /\ Sayable(d, out)
    BY <1>1, <2>2, BatchesTyped, ServesPlain DEF IInv, Serving, Fresh
  <2>5. clock' = clock
    BY <1>3 DEF ServeRequest, data
  <2> QED
    BY <1>1, <1>2, <2>3, <2>4, <2>5, StayHeals
<1>4. CASE ApplyLateBatch(d) \/ ReceiveSnapshot(d) \/ Ignore(d)
  <2>1. Answer(d, <<>>) /\ <<>> \in Seq(Messages) /\ Sayable(d, <<>>)
    BY <1>4, HoldsNone, SayNothing DEF ApplyLateBatch, ReceiveSnapshot, Ignore
  <2>2. clock[d] \subseteq clock'[d] /\ clock'[Peer(d)] = clock[Peer(d)]
    <3>1. CASE ApplyLateBatch(d)
      BY <3>1, ClockGrows DEF ApplyLateBatch, ApplyBatch
    <3>2. CASE ReceiveSnapshot(d)
      BY <3>2, ClockGrows DEF ReceiveSnapshot, ApplySnapshot
    <3>3. CASE Ignore(d)
      BY <3>3 DEF Ignore, data
    <3> QED
      BY <1>4, <3>1, <3>2, <3>3
  <2> QED
    BY <1>1, <1>2, <2>1, <2>2, StayHeals
<1> QED
  BY <1>3, <1>4

LEMMA ReceiveAckHeals ==
  ASSUME IInv, NEW d \in Devices, ReceiveAck(d)
  PROVE  HealEffects(d)
<1>1. /\ pc[d] = "barrier" /\ Inbox(d) # <<>> /\ ~ IsOffer(Head(Inbox(d)))
      /\ Answer(d, <<>>) /\ pc' = [pc EXCEPT ![d] = "drain"]
      /\ UNCHANGED <<data, peerKey, ret, closed, pulling, offered, faults, history>>
  BY DEF ReceiveAck, Awaits, Goto, IsOffer
<1>2. <<>> \in Seq(Messages) /\ Sayable(d, <<>>)
  BY HoldsNone, SayNothing
<1>3. Grows(d) /\ late' = late /\ gapOffers' = gapOffers /\ heard'[d] = heard[d]
      /\ offered'[d] = offered[d]
  BY <1>1, Growth DEF history, pulling, data
<1>4. pc'[d] = "drain"
  BY <1>1, TypesJoin DEF PlacesTyped, IInv
<1> QED
  BY <1>1, <1>2, <1>3, <1>4, AnswerHeals

LEMMA SetAsideSpeaks ==
  ASSUME IInv, NEW d \in Devices, chan[d] # <<>>, SetAside(d)
  PROVE  Queue(d)' = Queue(d) /\ Speaks(d) /\ stash'[d] = Append(stash[d], Head(chan[d]))
<1>1. Queue(d)' = Queue(d) /\ Queue(Peer(d))' = Queue(Peer(d))
  BY SetAsideQueue DEF IInv
<1>2. QueuesTyped /\ Peer(d) \in Devices /\ Peer(d) # d
  BY QueuesHere, TwoSides DEF IInv
<1>3. chan'[Peer(d)] = chan[Peer(d)] /\ stash'[d] = Append(stash[d], Head(chan[d]))
  BY <1>2 DEF SetAside, QueuesTyped
<1> QED
  BY <1>1, <1>3 DEF Speaks

LEMMA SettingAsideHeals ==
  ASSUME IInv, NEW d \in Devices, StashWhilePulling(d) \/ StashDuringExchange(d)
  PROVE  HealEffects(d)
<1>1. /\ chan[d] # <<>> /\ SetAside(d)
      /\ UNCHANGED <<data, peerKey, ret, closed, pulling, offered, faults, history>>
  BY DEF StashWhilePulling, StashDuringExchange
<1>2. Queue(d)' = Queue(d) /\ Speaks(d) /\ stash'[d] = Append(stash[d], Head(chan[d]))
  BY <1>1, SetAsideSpeaks
<1>3. Grows(d) /\ late' = late /\ gapOffers' = gapOffers /\ heard'[d] = heard[d]
      /\ offered'[d] = offered[d]
  BY <1>1, Growth DEF history, pulling, data
<1>4. CASE StashWhilePulling(d)
  <2>1. pc[d] = "wait1" /\ pc'[d] = "wait2"
    BY <1>4, TypesJoin DEF StashWhilePulling, Goto, PlacesTyped, IInv
  <2>2. Settled(d) => Len(stash'[d]) <= 1
    <3>1. stash[d] \in Seq(Messages) /\ chan[d] \in Seq(Messages)
      BY QueuesQueue DEF IInv
    <3>2. Len(stash'[d]) = Len(stash[d]) + 1
      BY <1>1, <1>2, <3>1
    <3>3. Settled(d) => Len(stash[d]) = 0
      BY <2>1 DEF Settled
    <3> QED
      BY <3>2, <3>3
  <2>3. Settled(d) => Settled(d)'
    BY <1>3, <2>1, <2>2 DEF Settled
  <2> QED
    BY <1>2, <1>3, <2>1, <2>3 DEF HealEffects, Reads
<1>5. CASE StashDuringExchange(d)
  <2>1. pc[d] \in {"drive", "accept"}
    BY <1>5 DEF StashDuringExchange
  <2> QED
    BY <1>2, <1>3, <2>1, QuietHeals
<1> QED
  BY <1>4, <1>5

\* An offer is read where one is answered, or in an exchange.
LEMMA OffersHeal ==
  ASSUME IInv, NEW d \in Devices, HandleIncomingOffer(d) \/ RivalOffer(d)
  PROVE  HealEffects(d)
<1>1. /\ pc[d] \in {"wait2", "barrier", "drive"} /\ Inbox(d) # <<>>
      /\ IsOffer(Head(Inbox(d))) /\ (Meets(d) \/ pc[d] = "drive")
  BY DEF HandleIncomingOffer, RivalOffer, Awaits, IsOffer, Meets
<1>2. ASSUME NEW m \in {Offer(FALSE), Accept}, Answer(d, <<m>>), UNCHANGED <<data, pulling>>,
             gapOffers' = gapOffers, late' = late,
             offered' = offered \/ \E w : offered' = [offered EXCEPT ![d] = w]
      PROVE  HealEffects(d)
  <2>1. m \in Messages /\ m.type \in {"FULL_STATE_OFFER", "FULL_STATE_ACCEPT"}
    <3>1. Offer(FALSE) \in Messages /\ Accept \in Messages
      BY MessagesTyped
    <3>2. Offer(FALSE).type = "FULL_STATE_OFFER" /\ Accept.type = "FULL_STATE_ACCEPT"
      BY DEF Offer, Accept
    <3> QED
      BY <3>1, <3>2
  <2>2. <<m>> \in Seq(Messages) /\ Sayable(d, <<m>>)
    BY <1>1, <2>1, HoldsOne, SayOne DEF IsHello, IsBatch, IsSnapshot
  <2>3. Grows(d) /\ heard'[d] = heard[d]
    BY <1>2, Growth DEF data, pulling
  <2>4. ~ (Settled(d) /\ ~ Meets(d))
    BY <1>1 DEF Settled
  <2> QED
    BY <1>1, <1>2, <2>2, <2>3, <2>4, AnswerHeals
<1>3. CASE Counter(d, FALSE)
  BY <1>2, <1>3 DEF Counter
<1>4. CASE \E back : AcceptOffer(d, back)
  BY <1>2, <1>4 DEF AcceptOffer, history
<1>5. CASE /\ pc[d] = "drive" /\ Answer(d, <<>>)
           /\ UNCHANGED <<data, peerKey, pc, ret, closed, pulling, offered, faults, history>>
  <2>1. <<>> \in Seq(Messages) /\ Sayable(d, <<>>)
    BY HoldsNone, SayNothing
  <2> QED
    BY <1>1, <1>5, <2>1, StayHeals DEF data
<1> QED
  BY <1>3, <1>4, <1>5 DEF HandleIncomingOffer, RivalOffer, Awaits

LEMMA EndOfExchangeHeals ==
  ASSUME IInv, NEW d \in Devices,
         StreamSnapshot(d) \/ TakeSnapshot(d) \/ QuietExchange(d)
  PROVE  HealEffects(d)
<1>1. TypeOK /\ DataTyped
  BY TypesJoin DEF IInv
<1>2. /\ pc[d] \in {"drive", "accept"} /\ gapOffers' = gapOffers /\ (late => late')
      /\ heard' = heard /\ offered' = offered
  <2>1. CASE StreamSnapshot(d)
    BY <2>1 DEF StreamSnapshot, Awaits, pulling
  <2>2. CASE TakeSnapshot(d)
    BY <2>2 DEF TakeSnapshot, Awaits, pulling, history
  <2>3. CASE QuietExchange(d)
    <3>1. late => late'
      BY <2>3, Zenon DEF QuietExchange
    <3> QED
      BY <2>3, <3>1 DEF QuietExchange, pulling
  <2> QED
    BY <2>1, <2>2, <2>3
<1>3. AckIfPulled(d) \in Seq(Messages) /\ Sayable(d, AckIfPulled(d))
  BY AckTyped, SayAckIfPulled
<1>4. ~ Settled(d)
  BY <1>2 DEF Settled
<1>5. CASE StreamSnapshot(d)
  <2>1. PICK m : m = Snapshot(clock[d])
    OBVIOUS
  <2>2. m \in Messages /\ m.type = "FULL_STATE_SNAPSHOT" /\ m.clock = clock[d]
    BY <1>1, <2>1, MessagesTyped DEF DataTyped, Snapshot
  <2>3. PICK out : out = <<m>> \o AckIfPulled(d)
    OBVIOUS
  <2>4. /\ pc[d] = "drive" /\ Inbox(d) # <<>> /\ ~ IsOffer(Head(Inbox(d))) /\ Answer(d, out)
        /\ clock' = clock /\ late' = late
    BY <1>5, <2>1, <2>3 DEF StreamSnapshot, Awaits, IsOffer, data
  <2>5. out \in Seq(Messages) /\ Sayable(d, out)
    <3>1. PICK a \in Seq(Messages) : a = AckIfPulled(d) /\ Sayable(d, a)
      BY <1>3
    <3>2. <<m>> \in Seq(Messages) /\ Sayable(d, <<m>>)
      BY <2>2, <2>4, HoldsOne, SayOne DEF IsHello, IsBatch, OfExchange
    <3>3. PICK b \in Seq(Messages) : b = <<m>> /\ Sayable(d, b)
      BY <3>2
    <3>4. out = b \o a /\ out \in Seq(Messages)
      BY <2>3, <3>1, <3>3
    <3>5. \A i \in DOMAIN (b \o a) :
            (\E j \in DOMAIN b : (b \o a)[i] = b[j]) \/ \E j \in DOMAIN a : (b \o a)[i] = a[j]
      BY ConcatMembers
    <3> QED
      BY <3>1, <3>3, <3>4, <3>5 DEF Sayable
  <2>6. Grows(d)
    BY <1>2, <2>4, Growth
  <2> QED
    BY <1>2, <1>4, <2>4, <2>5, <2>6, AnswerHeals
<1>6. CASE TakeSnapshot(d)
  <2>1. /\ pc[d] = "accept" /\ Inbox(d) # <<>> /\ ~ IsOffer(Head(Inbox(d)))
        /\ Answer(d, AckIfPulled(d)) /\ late' = late
        /\ ApplySnapshot(d, Head(chan[d]).clock)
    BY <1>6 DEF TakeSnapshot, Awaits, IsOffer, history
  <2>2. Grows(d)
    BY <1>2, <2>1, ClockGrows, Growth DEF ApplySnapshot
  <2> QED
    BY <1>2, <1>3, <1>4, <2>1, <2>2, AnswerHeals
<1>7. CASE QuietExchange(d)
  <2>1. Send(d, AckIfPulled(d)) /\ clock' = clock
    BY <1>7 DEF QuietExchange, data
  <2>2. Reaches(d, AckIfPulled(d)) /\ chan'[d] = chan[d] /\ stash' = stash
    BY <1>1, <1>3, <2>1, SendReaches
  <2>3. Speaks(d) /\ Queue(d)' = Queue(d) /\ Grows(d)
    BY <1>2, <1>3, <2>1, <2>2, Growth DEF Speaks, Queue
  <2> QED
    BY <1>2, <2>3, QuietHeals
<1> QED
  BY <1>5, <1>6, <1>7

LEMMA LeavingHeals ==
  ASSUME IInv, NEW d \in Devices,
         \/ QuietDrain(d) \/ StreamEndsSession(d) \/ StreamEndsHello(d) \/ IdleTimeout(d)
         \/ StreamEndsPull(d) \/ Hang(d) \/ CarrierFails(d)
  PROVE  HealEffects(d)
<1>1. /\ TypeOK /\ PlacesTyped /\ QueuesTyped /\ Peer(d) \in Devices /\ Peer(d) # d
  BY TypesJoin, QueuesHere, TwoSides DEF IInv
<1>2. /\ pc[d] # "hung" /\ gapOffers' = gapOffers /\ (late => late') /\ heard' = heard
      /\ offered' = offered /\ clock' = clock
  <2>1. CASE QuietDrain(d)
    <3>1. late => late'
      BY <2>1, Zenon DEF QuietDrain
    <3> QED
      BY <2>1, <3>1 DEF QuietDrain, pulling, data
  <2>2. CASE StreamEndsSession(d) \/ StreamEndsHello(d) \/ StreamEndsPull(d)
    BY <2>2 DEF StreamEndsSession, StreamEndsHello, StreamEndsPull, pulling, history, data
  <2>3. CASE IdleTimeout(d)
    BY <2>3 DEF IdleTimeout, pulling, history, data
  <2>4. CASE Hang(d) \/ CarrierFails(d)
    BY <2>4 DEF Hang, CarrierFails, Running, pulling, history, data
  <2> QED
    BY <2>1, <2>2, <2>3, <2>4
<1>3. Grows(d)
  BY <1>2, Growth
<1>4. ASSUME NEW outcome \in {"done", "failed"}, Leave(d, outcome) PROVE HealEffects(d)
  <2>1. /\ pc'[d] = outcome /\ chan'[Peer(d)] = chan[Peer(d)] /\ stash'[Peer(d)] = stash[Peer(d)]
    BY <1>1, <1>4 DEF Leave, Goto, PlacesTyped, QueuesTyped
  <2>2. Speaks(d)
    BY <2>1 DEF Speaks, Queue
  <2> QED
    BY <1>2, <1>3, <1>4, <2>1, <2>2, QuietHeals
<1>5. CASE StreamEndsPull(d) \/ Hang(d)
  <2>1. chan' = chan /\ stash' = stash /\ pc'[d] \in {"barrier", "hung"}
    BY <1>1, <1>5 DEF StreamEndsPull, Hang, Goto, PlacesTyped
  <2>2. Queue(d)' = Queue(d) /\ Speaks(d)
    BY <2>1 DEF Queue, Speaks
  <2> QED
    BY <1>2, <1>3, <2>1, <2>2, QuietHeals
<1>6. CASE CarrierFails(d)
  <2>1. pc'[d] = "failed"
    BY <1>1, <1>6 DEF CarrierFails, Goto, PlacesTyped
  <2>2. Speaks(d)
    BY <1>6, <2>1, CarrierCuts DEF Speaks
  <2> QED
    BY <1>2, <1>3, <2>1, <2>2, QuietHeals
<1> QED
  BY <1>4, <1>5, <1>6 DEF QuietDrain, StreamEndsSession, StreamEndsHello, IdleTimeout

LEMMA EveryStepHeals ==
  ASSUME IInv, IInv', NEW d \in Devices, Step(d) \/ Hang(d) \/ CarrierFails(d)
  PROVE  HealEffects(d)
BY StartHeals, PullingHeals, ServingHeals, ReceiveAckHeals, SettingAsideHeals, OffersHeal,
   EndOfExchangeHeals, LeavingHeals DEF Step
-----------------------------------------------------------------------------
(* The stages of the exchange, one after the other.                        *)

\* What an exchange does to the queues: what is set aside is not looked at.
LEMMA ExchangeTakes ==
  ASSUME IInv, NEW d \in Devices, pc[d] \in {"drive", "accept"}, Inbox(d) # <<>>,
         NEW out \in Seq(Messages), Answer(d, out)
  PROVE  /\ chan[d] # <<>> /\ Head(Inbox(d)) = Head(chan[d]) /\ chan'[d] = Tail(chan[d])
         /\ Reaches(d, out)
<1>1. /\ QueuesTyped /\ ~ FromStash(d) /\ Inbox(d) = chan[d]
      /\ chan[d] \in Seq(Messages) /\ chan[d] # <<>>
  BY QueuesHere, QueuesQueue DEF IInv, FromStash, Inbox
<1> DEFINE queues == [chan EXCEPT ![d] = Tail(@)]
<1>2. queues \in [Devices -> Seq(Messages)] /\ queues[d] = Tail(chan[d])
  BY <1>1 DEF QueuesTyped
<1> HIDE DEF queues
<1>3. chan' = Sent(d, out, queues)
  BY <1>1 DEF Answer, queues
<1>4. chan'[d] = Tail(chan[d])
  BY <1>2, <1>3, SentTo
<1> QED
  BY <1>1, <1>4, AnswerReaches DEF IInv

LEMMA ExchangeAside ==
  ASSUME IInv, NEW d \in Devices, chan[d] # <<>>, SetAside(d)
  PROVE  /\ chan'[d] = Tail(chan[d]) /\ chan'[Peer(d)] = chan[Peer(d)]
         /\ stash'[Peer(d)] = stash[Peer(d)]
<1>1. QueuesTyped /\ Peer(d) \in Devices /\ Peer(d) # d
  BY QueuesHere, TwoSides DEF IInv
<1> QED
  BY <1>1 DEF SetAside, QueuesTyped

LEMMA HoldsLess ==
  ASSUME NEW q \in Seq(Messages), q # <<>>, NEW t
  PROVE  /\ ~ Holds(q, t) => ~ Holds(Tail(q), t) /\ Head(q).type # t
         /\ Holds(q, t) /\ Head(q).type # t => Holds(Tail(q), t)
         /\ Calm(q) => Calm(Tail(q)) /\ ~ OfExchange(Head(q))
<1>1. /\ DOMAIN Tail(q) = 1 .. Len(q) - 1 /\ Len(q) \in Nat /\ DOMAIN q = 1 .. Len(q)
      /\ \A i \in DOMAIN Tail(q) : Tail(q)[i] = q[i + 1]
      /\ 1 \in DOMAIN q /\ Head(q) = q[1]
  OBVIOUS
<1>2. \A i \in DOMAIN Tail(q) : i + 1 \in DOMAIN q
  BY <1>1
<1>3. \A j \in DOMAIN q : j = 1 \/ (j - 1 \in DOMAIN Tail(q) /\ Tail(q)[j - 1] = q[j])
  BY <1>1
<1>4. ~ Holds(q, t) => ~ Holds(Tail(q), t) /\ Head(q).type # t
  BY <1>1, <1>2 DEF Holds
<1>5. Holds(q, t) /\ Head(q).type # t => Holds(Tail(q), t)
  BY <1>1, <1>3 DEF Holds
<1>6. Calm(q) => Calm(Tail(q)) /\ ~ OfExchange(Head(q))
  BY <1>1, <1>2 DEF Calm
<1> QED
  BY <1>4, <1>5, <1>6

LEMMA HoldsMore ==
  ASSUME NEW q \in Seq(Messages), NEW out \in Seq(Messages), NEW t
  PROVE  Holds(q \o out, t) <=> Holds(q, t) \/ Holds(out, t)
<1>1. Holds(q \o out, t) => Holds(q, t) \/ Holds(out, t)
  BY ConcatMembers DEF Holds
<1>2. Holds(q, t) \/ Holds(out, t) => Holds(q \o out, t)
  BY HoldsConcat
<1> QED
  BY <1>1, <1>2

LEMMA CalmParts ==
  ASSUME NEW s \in Seq(Messages), NEW c \in Seq(Messages), Calm(s \o c)
  PROVE  Calm(s) /\ Calm(c)
<1>1. \A i \in DOMAIN s : i \in DOMAIN (s \o c) /\ (s \o c)[i] = s[i]
  OBVIOUS
<1>2. \A i \in DOMAIN c : Len(s) + i \in DOMAIN (s \o c) /\ (s \o c)[Len(s) + i] = c[i]
  OBVIOUS
<1>3. Calm(s)
  BY <1>1 DEF Calm
<1>4. Calm(c)
  BY <1>2 DEF Calm
<1> QED
  BY <1>3, <1>4

\* What a device can do in an exchange, unless its session breaks.
LEMMA DriveSteps ==
  ASSUME IInv, NEW d \in Devices, Step(d) \/ Hang(d) \/ CarrierFails(d), Alive(d)',
         pc[d] = "drive"
  PROVE  StreamSnapshot(d) \/ RivalOffer(d) \/ StashDuringExchange(d) \/ QuietExchange(d)
<1>1. ~ (Hang(d) \/ CarrierFails(d))
  BY TypesJoin DEF Hang, CarrierFails, Goto, Alive, PlacesTyped, IInv
<1>2. Step(d)
  BY <1>1
<1> QED
  BY <1>2 DEF Step, Start, ReceiveHello, ReceiveBatch, StashWhilePulling, ServeRequest,
     ApplyLateBatch, ReceiveSnapshot, ReceiveAck, Ignore, HandleIncomingOffer, TakeSnapshot,
     QuietDrain, StreamEndsPull, StreamEndsSession, StreamEndsHello, IdleTimeout, Awaits, Serving

LEMMA AcceptSteps ==
  ASSUME IInv, NEW d \in Devices, Step(d) \/ Hang(d) \/ CarrierFails(d), Alive(d)',
         pc[d] = "accept"
  PROVE  TakeSnapshot(d) \/ StashDuringExchange(d) \/ QuietExchange(d)
<1>1. ~ (Hang(d) \/ CarrierFails(d))
  BY TypesJoin DEF Hang, CarrierFails, Goto, Alive, PlacesTyped, IInv
<1>2. Step(d)
  BY <1>1
<1> QED
  BY <1>2 DEF Step, Start, ReceiveHello, ReceiveBatch, StashWhilePulling, ServeRequest,
     ApplyLateBatch, ReceiveSnapshot, ReceiveAck, Ignore, HandleIncomingOffer, StreamSnapshot,
     RivalOffer,
     QuietDrain, StreamEndsPull, StreamEndsSession, StreamEndsHello, IdleTimeout, Awaits, Serving

LEMMA MeetingSteps ==
  ASSUME IInv, NEW d \in Devices, Step(d) \/ Hang(d) \/ CarrierFails(d), Alive(d)', Meets(d)
  PROVE  HandleIncomingOffer(d)
<1>1. ~ (Hang(d) \/ CarrierFails(d))
  BY TypesJoin DEF Hang, CarrierFails, Goto, Alive, PlacesTyped, IInv
<1>2. /\ pc[d] \in {"wait2", "barrier"} /\ Inbox(d) # <<>>
      /\ Head(Inbox(d)).type = "FULL_STATE_OFFER" /\ ~ Waiting(d)
  BY DEF Meets, IsOffer, Waiting
<1>3. Step(d)
  BY <1>1
<1> QED
  BY <1>2, <1>3 DEF Step, Start, ReceiveHello, ReceiveBatch, StashWhilePulling, ServeRequest,
     ApplyLateBatch, ReceiveSnapshot, ReceiveAck, Ignore, StreamSnapshot, RivalOffer, TakeSnapshot,
     StashDuringExchange, QuietExchange,
     QuietDrain, StreamEndsPull, StreamEndsSession, StreamEndsHello, IdleTimeout, EndOfStream,
     Awaits

\* A wait that runs out in time finds nothing, and a peer that waits or has left.
LEMMA QuietInTime ==
  ASSUME IInv, NEW d \in Devices, QuietExchange(d), ~ late'
  PROVE  /\ chan[d] = <<>>
         /\ ~ Ended(Peer(d)) /\ stash[Peer(d)] # <<>> =>
              pc[Peer(d)] \notin {"wait2", "barrier"}
         /\ ~ Ended(Peer(d)) => chan[Peer(d)] = <<>>
<1>1. NothingComing(d) /\ pc[d] \in {"drive", "accept"}
  BY Zenon DEF QuietExchange
<1>2. Inbox(d) = chan[d] /\ chan[d] = <<>>
  BY <1>1 DEF NothingComing, Waiting, Inbox, FromStash
<1>3. ~ Ended(Peer(d)) => Inbox(Peer(d)) = <<>>
  BY <1>1 DEF NothingComing, Waiting
<1> QED
  BY <1>2, <1>3 DEF Inbox, FromStash

\* Only the pull loop makes an offer for a gap, after a batch that brought nothing.
LEMMA OffersComeFromBatches ==
  ASSUME IInv, NEW d \in Devices, Step(d) \/ Hang(d) \/ CarrierFails(d),
         gapOffers' # gapOffers
  PROVE  /\ ReceiveBatch(d) /\ Answer(d, <<Offer(TRUE)>>)
         /\ pc'[d] = "drive" /\ ret'[d] = "ack"
<1>1. ReceiveHello(d) \/ ReceiveBatch(d)
  BY DEF Step, Start, StashWhilePulling, ServeRequest, ApplyLateBatch, ReceiveSnapshot,
     ReceiveAck, Ignore, HandleIncomingOffer, Counter, AcceptOffer, StreamSnapshot, RivalOffer,
     TakeSnapshot, StashDuringExchange, QuietExchange, QuietDrain, StreamEndsPull,
     StreamEndsSession, StreamEndsHello, IdleTimeout, Hang, CarrierFails, history
<1>2. ASSUME NEW lack, NEW rounds, GoOn(d, lack, rounds)
      PROVE  /\ rounds >= GapRoundLimit /\ Answer(d, <<Offer(TRUE)>>)
             /\ pc'[d] = "drive" /\ ret'[d] = "ack"
  BY <1>2, TypesJoin DEF GoOn, Goto, IInv, PlacesTyped
<1>3. ~ ReceiveHello(d)
  BY <1>2 DEF ReceiveHello, GapRoundLimit
<1>4. ReceiveBatch(d)
  BY <1>1, <1>3
<1> QED
  BY <1>2, <1>4 DEF ReceiveBatch

\* Nobody has offered before: the offer finds a peer that answers it.
LEMMA OfferIsMade ==
  ASSUME IInv, PullServed, NothingServed, BeforeOffers, NEW d \in Devices,
         Step(d) \/ Hang(d) \/ CarrierFails(d), PullEffects(d), HealEffects(d),
         gapOffers = {}, gapOffers' # {}, Alive(Peer(d))'
  PROVE  Asked(d)'
<1> DEFINE p == Peer(d)
<1>1. /\ TypeOK /\ p \in Devices /\ p # d /\ Peer(p) = d
      /\ Queue(p) \in Seq(Messages) /\ Queue(d) \in Seq(Messages)
  BY TwoSides, QueuesQueue DEF IInv
<1>2. /\ ReceiveBatch(d) /\ Answer(d, <<Offer(TRUE)>>)
      /\ pc'[d] = "drive" /\ ret'[d] = "ack"
  BY OffersComeFromBatches
<1>3. /\ pc[d] \in {"wait1", "wait2"} /\ Inbox(d) # <<>> /\ IsBatch(Head(Inbox(d)))
  BY <1>2 DEF ReceiveBatch, Awaits, IsBatch
<1>4. Settled(p) /\ Calm(Queue(d)) /\ Calm(Queue(p))
  BY <1>1 DEF BeforeOffers
<1>5. pc'[p] = pc[p] /\ stash'[p] = stash[p] /\ offered'[p] = offered[p]
  BY <1>1 DEF PullEffects, OthersKept, HealEffects, Grows
<1>6. Settled(p)'
  BY <1>4, <1>5 DEF Settled
<1>7. pc[p] \in {"wait1", "wait2", "barrier"}
  <2>1. pc[p] \notin {"drive", "accept", "failed", "hung"}
    BY <1>4, <1>5 DEF Settled, Alive
  <2>2. ~ Fresh(p)
    <3>1. PICK n \in DOMAIN Queue(d) : Queue(d)[n] = Head(Inbox(d))
      BY <1>1, <1>3, InboxQueue
    <3> QED
      BY <1>1, <1>3, <3>1 DEF NothingServed
  <2>3. pc[p] \notin {"drain", "done"}
    BY <1>3 DEF PullServed, PeerStays, Unacked, Pulling, Within
  <2>4. pc[p] \in {"start", "hello", "wait1", "wait2", "drive", "accept", "barrier",
                   "drain", "done", "failed", "hung"}
    BY <1>1 DEF TypeOK
  <2> QED
    BY <2>1, <2>2, <2>3, <2>4 DEF Fresh
<1>8. \A i \in DOMAIN Queue(d)' : ~ OfExchange(Queue(d)'[i])
  BY <1>4 DEF PullEffects, Among, Calm
<1>9. PICK m : m = Offer(TRUE)
  OBVIOUS
<1>10. m \in Messages /\ IsOffer(m) /\ m.gapRounds = TRUE /\ <<m>> \in Seq(Messages)
  BY <1>9, MessagesTyped, HoldsOne DEF Offer, IsOffer
<1>11. Queue(p)' = Queue(p) \o <<m>>
  <2>1. Reaches(d, <<m>>)
    BY <1>1, <1>2, <1>3, <1>9, <1>10, AnswerReaches
  <2>2. ~ Ended(p)
    BY <1>7 DEF Ended
  <2> QED
    BY <1>1, <1>10, <2>1, <2>2, ReachesQueue
<1>12. PICK z : z = Queue(p) \o <<m>>
  OBVIOUS
<1>13. LoneOffer(z)
  BY <1>1, <1>4, <1>10, <1>12, OfferLast
<1>14. AskedNext(d)
  BY <1>2, <1>5, <1>6, <1>7, <1>8, <1>11, <1>12, <1>13 DEF AskedNext, LoneOffer
<1> QED
  BY <1>14, AskedPrimed

\* The peer answers an offer made for a gap with its own, whatever its id.
LEMMA OfferIsCountered ==
  ASSUME IInv, NEW q \in Devices, Asked(q), NEW d \in Devices, d = Peer(q),
         Step(d) \/ Hang(d) \/ CarrierFails(d), PullEffects(d), Meets(d), Alive(d)'
  PROVE  Countered(q)'
<1>1. /\ TypeOK /\ q = Peer(d) /\ q # d /\ QueuesTyped
      /\ Queue(d) \in Seq(Messages) /\ chan[q] \in Seq(Messages) /\ stash[q] \in Seq(Messages)
  BY TwoSides, QueuesQueue, QueuesHere DEF IInv
<1>2. HandleIncomingOffer(d)
  BY MeetingSteps
<1>3. /\ Inbox(d) # <<>> /\ IsOffer(Head(Inbox(d)))
  BY DEF Meets
<1>4. PICK m : m = Offer(FALSE)
  OBVIOUS
<1>5. m \in Messages /\ IsOffer(m) /\ <<m>> \in Seq(Messages)
  BY <1>4, MessagesTyped, HoldsOne DEF Offer, IsOffer
<1>6. ASSUME NEW out \in Seq(Messages), Answer(d, out)
      PROVE  Head(Inbox(d)).gapRounds /\ \E z : z = Queue(d)' /\ Calm(z)
  <2>1. PICK n \in DOMAIN Queue(d) :
          Without(Queue(d), Queue(d)', n) /\ Queue(d)[n] = Head(Inbox(d))
    BY <1>1, <1>3, <1>6, AnswerQueue
  <2>2. PICK z : z = Queue(d)'
    OBVIOUS
  <2>3. LoneOffer(Queue(d)) /\ IsOffer(Queue(d)[n]) /\ Without(Queue(d), z, n)
    BY <1>3, <2>1, <2>2 DEF Asked
  <2>4. Queue(d)[n].gapRounds /\ Calm(z)
    BY <1>1, <2>3, OfferWithout
  <2> QED
    BY <2>1, <2>2, <2>4
<1>7. Counter(d, FALSE)
  <2>1. CASE AcceptOffer(d, pc[d]) /\ ~ (Head(Inbox(d)).gapRounds /\ MayOffer(d, "device"))
    <3>1. Accept \in Messages /\ Answer(d, <<Accept>>)
      BY <2>1, MessagesTyped DEF AcceptOffer
    <3>2. <<Accept>> \in Seq(Messages)
      BY <3>1, HoldsOne
    <3>3. Head(Inbox(d)).gapRounds
      BY <1>6, <3>1, <3>2
    <3>4. MayOffer(d, "device")
      BY DEF Asked, Settled, MayOffer
    <3> QED
      BY <2>1, <3>3, <3>4
  <2> QED
    BY <1>2, <2>1 DEF HandleIncomingOffer
<1>8. Answer(d, <<m>>) /\ pc'[d] = "drive"
  BY <1>4, <1>7, TypesJoin DEF Counter, Goto, IInv, PlacesTyped
<1>9. pc'[q] = "drive" /\ ret'[q] = "ack" /\ pc[q] = "drive"
  BY <1>1 DEF PullEffects, OthersKept, Asked, OpenGap
<1>10. chan'[q] = chan[q] \o <<m>>
  <2>1. Reaches(d, <<m>>)
    BY <1>1, <1>3, <1>5, <1>8, AnswerReaches
  <2> QED
    BY <1>1, <1>9, <2>1 DEF Reaches, Ended
<1>11. PICK c : c = chan[q] \o <<m>>
  OBVIOUS
<1>12. /\ Holds(c, "FULL_STATE_OFFER") /\ ~ Holds(c, "FULL_STATE_ACCEPT")
       /\ ~ Holds(c, "FULL_STATE_SNAPSHOT")
  <2>1. Calm(chan[q])
    BY <1>1, CalmParts DEF Asked, Queue
  <2>2. /\ ~ Holds(chan[q], "FULL_STATE_ACCEPT") /\ ~ Holds(chan[q], "FULL_STATE_SNAPSHOT")
    BY <2>1, HoldsIn
  <2>3. \A t : Holds(<<m>>, t) <=> t = m.type
    BY DEF Holds
  <2> QED
    BY <1>1, <1>5, <1>11, <2>2, <2>3, HoldsMore DEF IsOffer
<1>13. \A i \in DOMAIN chan'[d] : ~ OfExchange(chan'[d][i])
  <2>1. PICK z : z = Queue(d)' /\ Calm(z)
    BY <1>5, <1>6, <1>8
  <2>2. PICK s : s = stash'[d]
    OBVIOUS
  <2>3. PICK e : e = chan'[d]
    OBVIOUS
  <2>4. s \in Seq(Messages) /\ e \in Seq(Messages)
    BY <1>1, <1>3, <1>5, <1>8, <2>2, <2>3, AnswerReaches DEF QueuesTyped
  <2>5. Calm(s \o e)
    BY <2>1, <2>2, <2>3 DEF Queue
  <2>6. Calm(e)
    BY <2>4, <2>5, CalmParts
  <2> QED
    BY <2>3, <2>6 DEF Calm
<1>14. pc'[Peer(q)] = "drive" /\ chan'[Peer(q)] = chan'[d]
  BY <1>8
<1> QED
  BY <1>9, <1>10, <1>11, <1>12, <1>13, <1>14 DEF Countered, OpenGap, Holds, Calm, OfExchange

\* Setting aside in an exchange keeps the queues' exchange messages.
LEMMA AsideKeeps ==
  ASSUME IInv, NEW d \in Devices, StashDuringExchange(d)
  PROVE  /\ pc' = pc /\ ret' = ret /\ chan[d] # <<>> /\ chan'[d] = Tail(chan[d])
         /\ chan'[Peer(d)] = chan[Peer(d)] /\ stash'[Peer(d)] = stash[Peer(d)]
         /\ Queue(d)' = Queue(d) /\ Queue(Peer(d))' = Queue(Peer(d))
         /\ offered' = offered /\ heard' = heard
         /\ pc[d] = "drive" => Head(chan[d]).type \notin {"FULL_STATE_ACCEPT", "FULL_STATE_OFFER"}
         /\ pc[d] = "accept" => Head(chan[d]).type # "FULL_STATE_SNAPSHOT"
<1>1. /\ chan[d] # <<>> /\ SetAside(d) /\ pc' = pc /\ ret' = ret /\ offered' = offered
      /\ heard' = heard
      /\ pc[d] = "drive" => Head(chan[d]).type \notin {"FULL_STATE_ACCEPT", "FULL_STATE_OFFER"}
      /\ pc[d] = "accept" => Head(chan[d]).type # "FULL_STATE_SNAPSHOT"
  BY DEF StashDuringExchange, pulling
<1> QED
  BY <1>1, ExchangeAside, SetAsideQueue DEF IInv

\* The steps of the device that has asked.
LEMMA AskerWaits ==
  ASSUME IInv, NEW q \in Devices, Asked(q), Step(q) \/ Hang(q) \/ CarrierFails(q),
         Alive(q)', ~ late'
  PROVE  Asked(q)'
<1> DEFINE p == Peer(q)
<1>1. /\ p \in Devices /\ p # q /\ chan[q] \in Seq(Messages) /\ stash[q] \in Seq(Messages)
      /\ stash[p] \in Seq(Messages) /\ chan[p] \in Seq(Messages)
  BY TwoSides, QueuesQueue DEF IInv
<1>2. pc[q] = "drive" /\ ret[q] = "ack" /\ Calm(chan[q])
  BY <1>1, CalmParts DEF Asked, OpenGap, Queue
<1>3. chan[q] # <<>> => ~ OfExchange(Head(chan[q]))
  BY <1>1, <1>2, HoldsLess
<1>4. ~ (StreamSnapshot(q) \/ RivalOffer(q))
  BY <1>2, <1>3 DEF StreamSnapshot, RivalOffer, Awaits, Inbox, FromStash, OfExchange
<1>5. ~ QuietExchange(q)
  <2>1. SUFFICES ASSUME QuietExchange(q) PROVE FALSE
    OBVIOUS
  <2>2. ~ Ended(p) /\ pc[p] \in {"wait1", "wait2", "barrier"} /\ Settled(p)
    BY DEF Asked, Ended
  <2>3. chan[p] = <<>> /\ stash[p] = <<>>
    BY <2>1, <2>2, QuietInTime DEF Settled
  <2>4. DOMAIN Queue(p) = {}
    BY <2>3 DEF Queue
  <2> QED
    BY <2>4 DEF Asked, LoneOffer
<1>6. StashDuringExchange(q)
  BY <1>2, <1>4, <1>5, DriveSteps
<1>7. /\ pc' = pc /\ ret' = ret /\ stash'[p] = stash[p] /\ offered' = offered
      /\ Queue(q)' = Queue(q) /\ Queue(p)' = Queue(p)
  BY <1>6, AsideKeeps
<1>8. Settled(p)'
  BY <1>7 DEF Asked, Settled
<1>9. AskedNext(q)
  BY <1>2, <1>7, <1>8 DEF Asked, AskedNext, LoneOffer, Calm
<1> QED
  BY <1>9, AskedPrimed

LEMMA AskerAccepts ==
  ASSUME IInv, NEW q \in Devices, Countered(q), Step(q) \/ Hang(q) \/ CarrierFails(q),
         Alive(q)', ~ late'
  PROVE  Countered(q)' \/ Accepted(q)'
<1> DEFINE p == Peer(q)
<1>1. /\ p \in Devices /\ p # q /\ chan[q] \in Seq(Messages) /\ chan[p] \in Seq(Messages)
  BY TwoSides, QueuesQueue DEF IInv
<1>2. /\ pc[q] = "drive" /\ ret[q] = "ack" /\ pc[p] = "drive" /\ Calm(chan[p])
      /\ Holds(chan[q], "FULL_STATE_OFFER") /\ ~ Holds(chan[q], "FULL_STATE_ACCEPT")
      /\ ~ Holds(chan[q], "FULL_STATE_SNAPSHOT")
  BY DEF Countered, OpenGap
<1>3. chan[q] # <<>>
  BY <1>2 DEF Holds
<1>4. /\ Head(chan[q]).type # "FULL_STATE_ACCEPT"
      /\ \A t \in {"FULL_STATE_ACCEPT", "FULL_STATE_SNAPSHOT"} : ~ Holds(Tail(chan[q]), t)
      /\ Head(chan[q]).type # "FULL_STATE_OFFER" => Holds(Tail(chan[q]), "FULL_STATE_OFFER")
  BY <1>1, <1>2, <1>3, HoldsLess
<1>5. ~ StreamSnapshot(q)
  BY <1>2, <1>4 DEF StreamSnapshot, Awaits, Inbox, FromStash
<1>6. ~ QuietExchange(q)
  BY <1>3, QuietInTime
<1>7. CASE StashDuringExchange(q)
  <2>1. /\ pc' = pc /\ ret' = ret /\ chan'[q] = Tail(chan[q]) /\ chan'[p] = chan[p]
        /\ Head(chan[q]).type # "FULL_STATE_OFFER"
    BY <1>2, <1>7, AsideKeeps
  <2>2. PICK c : c = Tail(chan[q])
    OBVIOUS
  <2>3. /\ Holds(c, "FULL_STATE_OFFER") /\ ~ Holds(c, "FULL_STATE_ACCEPT")
        /\ ~ Holds(c, "FULL_STATE_SNAPSHOT") /\ chan'[q] = c
    BY <1>4, <2>1, <2>2
  <2> QED
    BY <1>2, <2>1, <2>3 DEF Countered, OpenGap, Holds, Calm, OfExchange
<1>8. CASE RivalOffer(q)
  <2>1. AcceptOffer(q, "ack") /\ Inbox(q) # <<>>
    BY <1>2, <1>8 DEF RivalOffer, Awaits
  <2>2. PICK m : m = Accept
    OBVIOUS
  <2>3. m \in Messages /\ m.type = "FULL_STATE_ACCEPT" /\ <<m>> \in Seq(Messages)
    BY <2>2, MessagesTyped, HoldsOne DEF Accept
  <2>4. /\ Answer(q, <<m>>) /\ pc' = [pc EXCEPT ![q] = "accept"]
        /\ ret' = [ret EXCEPT ![q] = "ack"]
    BY <2>1, <2>2 DEF AcceptOffer, Goto
  <2>5. pc'[q] = "accept" /\ ret'[q] = "ack" /\ pc'[p] = "drive"
    BY <1>1, <1>2, <2>4, TypesJoin DEF PlacesTyped, IInv
  <2>6. chan'[q] = Tail(chan[q]) /\ chan'[p] = chan[p] \o <<m>>
    <3>1. chan'[q] = Tail(chan[q]) /\ Reaches(q, <<m>>)
      BY <1>2, <2>1, <2>3, <2>4, ExchangeTakes
    <3> QED
      BY <1>2, <3>1 DEF Reaches, Ended
  <2>7. PICK c : c = Tail(chan[q])
    OBVIOUS
  <2>8. PICK e : e = chan[p] \o <<m>>
    OBVIOUS
  <2>9. Holds(e, "FULL_STATE_ACCEPT") /\ ~ Holds(e, "FULL_STATE_OFFER")
    <3>1. ~ Holds(chan[p], "FULL_STATE_OFFER")
      BY <1>2, HoldsIn
    <3>2. \A t : Holds(<<m>>, t) <=> t = m.type
      BY DEF Holds
    <3> QED
      BY <1>1, <2>3, <2>8, <3>1, <3>2, HoldsMore
  <2>10. ~ Holds(c, "FULL_STATE_SNAPSHOT") /\ chan'[q] = c /\ chan'[p] = e
    BY <1>4, <2>6, <2>7, <2>8
  <2>11. Accepted(q)'
    BY <2>5, <2>9, <2>10 DEF Accepted, OpenGap, Holds
  <2> QED
    BY <2>11
<1> QED
  BY <1>2, <1>5, <1>6, <1>7, <1>8, DriveSteps

LEMMA AcceptorWaits ==
  ASSUME IInv, NEW q \in Devices, Accepted(q), Step(q) \/ Hang(q) \/ CarrierFails(q),
         Alive(q)', ~ late'
  PROVE  Accepted(q)'
<1> DEFINE p == Peer(q)
<1>1. /\ p \in Devices /\ p # q /\ chan[q] \in Seq(Messages)
  BY TwoSides, QueuesQueue DEF IInv
<1>2. /\ pc[q] = "accept" /\ ret[q] = "ack" /\ pc[p] = "drive"
      /\ ~ Holds(chan[q], "FULL_STATE_SNAPSHOT")
      /\ Holds(chan[p], "FULL_STATE_ACCEPT") /\ ~ Holds(chan[p], "FULL_STATE_OFFER")
  BY DEF Accepted, OpenGap
<1>3. chan[q] # <<>> =>
        /\ Head(chan[q]).type # "FULL_STATE_SNAPSHOT"
        /\ ~ Holds(Tail(chan[q]), "FULL_STATE_SNAPSHOT")
  BY <1>1, <1>2, HoldsLess
<1>4. ~ TakeSnapshot(q)
  BY <1>2, <1>3 DEF TakeSnapshot, Awaits, Inbox, FromStash
<1>5. ~ QuietExchange(q)
  <2>1. chan[p] # <<>> /\ ~ Ended(p)
    BY <1>2 DEF Holds, Ended
  <2> QED
    BY <2>1, QuietInTime
<1>6. StashDuringExchange(q)
  BY <1>2, <1>4, <1>5, AcceptSteps
<1>7. /\ pc' = pc /\ ret' = ret /\ chan'[q] = Tail(chan[q]) /\ chan'[p] = chan[p]
      /\ chan[q] # <<>>
  BY <1>6, AsideKeeps
<1>8. PICK c : c = Tail(chan[q])
  OBVIOUS
<1>9. ~ Holds(c, "FULL_STATE_SNAPSHOT") /\ chan'[q] = c
  BY <1>3, <1>7, <1>8
<1> QED
  BY <1>2, <1>7, <1>9 DEF Accepted, OpenGap, Holds

LEMMA AcceptorTakes ==
  ASSUME IInv, NEW q \in Devices, Served(q), Step(q) \/ Hang(q) \/ CarrierFails(q),
         Alive(q)', ~ late'
  PROVE  Served(q)' \/ Healed(q)'
<1>1. /\ chan[q] \in Seq(Messages) /\ PlacesTyped /\ DataTyped
  BY QueuesQueue, TypesJoin DEF IInv
<1>2. /\ pc[q] = "accept" /\ ret[q] = "ack" /\ Holds(chan[q], "FULL_STATE_SNAPSHOT")
      /\ \A i \in DOMAIN chan[q] : IsSnapshot(chan[q][i]) => heard[q] \subseteq chan[q][i].clock
  BY DEF Served, OpenGap
<1>3. chan[q] # <<>>
  BY <1>2 DEF Holds
<1>4. ~ QuietExchange(q)
  BY <1>3, QuietInTime
<1>5. CASE StashDuringExchange(q)
  <2>1. /\ pc' = pc /\ ret' = ret /\ chan'[q] = Tail(chan[q]) /\ heard' = heard
        /\ Head(chan[q]).type # "FULL_STATE_SNAPSHOT"
    BY <1>2, <1>5, AsideKeeps
  <2>2. PICK c : c = Tail(chan[q])
    OBVIOUS
  <2>3. Holds(c, "FULL_STATE_SNAPSHOT") /\ chan'[q] = c
    BY <1>1, <1>2, <1>3, <2>1, <2>2, HoldsLess
  <2>4. \A i \in DOMAIN c : IsSnapshot(c[i]) => heard[q] \subseteq c[i].clock
    <3> TAKE i \in DOMAIN c
    <3>1. i + 1 \in DOMAIN chan[q] /\ c[i] = chan[q][i + 1]
      BY <1>1, <1>3, <2>2
    <3> QED
      BY <1>2, <3>1
  <2>5. Served(q)'
    BY <1>2, <2>1, <2>3, <2>4 DEF Served, OpenGap, Holds, IsSnapshot
  <2> QED
    BY <2>5
<1>6. CASE TakeSnapshot(q)
  <2>1. /\ IsSnapshot(Head(chan[q])) /\ ApplySnapshot(q, Head(chan[q]).clock)
        /\ pc' = [pc EXCEPT ![q] = "barrier"] /\ heard' = heard
    BY <1>2, <1>6 DEF TakeSnapshot, Awaits, Inbox, FromStash, Resume, Goto, IsSnapshot, pulling
  <2>2. heard[q] \subseteq Head(chan[q]).clock
    <3>1. 1 \in DOMAIN chan[q] /\ chan[q][1] = Head(chan[q])
      BY <1>1, <1>3
    <3> QED
      BY <1>2, <2>1, <3>1
  <2>3. know'[q] = know[q] \cup Head(chan[q]).clock /\ pc'[q] = "barrier"
    BY <1>1, <2>1 DEF ApplySnapshot, DataTyped, PlacesTyped
  <2>4. Healed(q)'
    BY <2>1, <2>2, <2>3 DEF Healed, Fresh
  <2> QED
    BY <2>4
<1> QED
  BY <1>2, <1>4, <1>5, <1>6, AcceptSteps

\* The steps of the peer that has countered.
LEMMA CountererWaits ==
  ASSUME IInv, NEW q \in Devices, Countered(q), NEW d \in Devices, d = Peer(q),
         Step(d) \/ Hang(d) \/ CarrierFails(d), Alive(d)', ~ late'
  PROVE  Countered(q)'
<1>1. /\ q = Peer(d) /\ q # d /\ chan[q] \in Seq(Messages) /\ chan[d] \in Seq(Messages)
  BY TwoSides, QueuesQueue DEF IInv
<1>2. /\ pc[q] = "drive" /\ ret[q] = "ack" /\ pc[d] = "drive" /\ Calm(chan[d])
      /\ Holds(chan[q], "FULL_STATE_OFFER") /\ ~ Holds(chan[q], "FULL_STATE_ACCEPT")
      /\ ~ Holds(chan[q], "FULL_STATE_SNAPSHOT")
  BY DEF Countered, OpenGap
<1>3. chan[d] # <<>> => ~ OfExchange(Head(chan[d])) /\ Calm(Tail(chan[d]))
  BY <1>1, <1>2, HoldsLess
<1>4. ~ (StreamSnapshot(d) \/ RivalOffer(d))
  BY <1>2, <1>3 DEF StreamSnapshot, RivalOffer, Awaits, Inbox, FromStash, OfExchange
<1>5. ~ QuietExchange(d)
  <2>1. chan[q] # <<>> /\ ~ Ended(q)
    BY <1>2 DEF Holds, Ended
  <2> QED
    BY <1>1, <2>1, QuietInTime
<1>6. StashDuringExchange(d)
  BY <1>2, <1>4, <1>5, DriveSteps
<1>7. /\ pc' = pc /\ ret' = ret /\ chan'[d] = Tail(chan[d]) /\ chan'[q] = chan[q]
      /\ chan[d] # <<>>
  BY <1>1, <1>6, AsideKeeps
<1>8. PICK c : c = Tail(chan[d])
  OBVIOUS
<1>9. Calm(c) /\ chan'[Peer(q)] = c
  BY <1>3, <1>7, <1>8
<1> QED
  BY <1>2, <1>7, <1>9 DEF Countered, OpenGap, Holds, Calm, OfExchange

LEMMA CountererStreams ==
  ASSUME IInv, HeardKnown, NEW q \in Devices, Accepted(q), NEW d \in Devices, d = Peer(q),
         Step(d) \/ Hang(d) \/ CarrierFails(d), PullEffects(d), Alive(d)', ~ late'
  PROVE  Accepted(q)' \/ Served(q)'
<1>1. /\ q = Peer(d) /\ q # d /\ chan[q] \in Seq(Messages) /\ chan[d] \in Seq(Messages)
  BY TwoSides, QueuesQueue DEF IInv
<1>2. /\ pc[q] = "accept" /\ ret[q] = "ack" /\ pc[d] = "drive"
      /\ ~ Holds(chan[q], "FULL_STATE_SNAPSHOT")
      /\ Holds(chan[d], "FULL_STATE_ACCEPT") /\ ~ Holds(chan[d], "FULL_STATE_OFFER")
  BY DEF Accepted, OpenGap
<1>3. chan[d] # <<>>
  BY <1>2 DEF Holds
<1>4. /\ Head(chan[d]).type # "FULL_STATE_OFFER"
      /\ ~ Holds(Tail(chan[d]), "FULL_STATE_OFFER")
      /\ Head(chan[d]).type # "FULL_STATE_ACCEPT" => Holds(Tail(chan[d]), "FULL_STATE_ACCEPT")
  BY <1>1, <1>2, <1>3, HoldsLess
<1>5. ~ RivalOffer(d)
  BY <1>2, <1>4 DEF RivalOffer, Awaits, Inbox, FromStash
<1>6. ~ QuietExchange(d)
  BY <1>3, QuietInTime
<1>7. CASE StashDuringExchange(d)
  <2>1. /\ pc' = pc /\ ret' = ret /\ chan'[d] = Tail(chan[d]) /\ chan'[q] = chan[q]
        /\ Head(chan[d]).type # "FULL_STATE_ACCEPT"
    BY <1>1, <1>2, <1>7, AsideKeeps
  <2>2. PICK c : c = Tail(chan[d])
    OBVIOUS
  <2>3. /\ Holds(c, "FULL_STATE_ACCEPT") /\ ~ Holds(c, "FULL_STATE_OFFER")
        /\ chan'[Peer(q)] = c
    BY <1>4, <2>1, <2>2
  <2>4. Accepted(q)'
    BY <1>2, <2>1, <2>3 DEF Accepted, OpenGap, Holds
  <2> QED
    BY <2>4
<1>8. CASE StreamSnapshot(d)
  <2>1. PICK m : m = Snapshot(clock[d])
    OBVIOUS
  <2>2. m \in Messages /\ IsSnapshot(m) /\ m.clock = clock[d] /\ <<m>> \in Seq(Messages)
    BY <2>1, TypesJoin, MessagesTyped, HoldsOne DEF IInv, DataTyped, Snapshot, IsSnapshot
  <2>3. PICK a \in Seq(Messages) : a = AckIfPulled(d)
    BY AckTyped
  <2>4. PICK out : out = <<m>> \o a
    OBVIOUS
  <2>5. Inbox(d) # <<>> /\ Answer(d, out) /\ out \in Seq(Messages)
    BY <1>8, <2>1, <2>2, <2>3, <2>4 DEF StreamSnapshot, Awaits
  <2>6. chan'[q] = chan[q] \o out
    <3>1. Reaches(d, out)
      BY <1>2, <2>5, ExchangeTakes
    <3> QED
      BY <1>1, <1>2, <3>1 DEF Reaches, Ended
  <2>7. PICK c : c = chan[q] \o out
    OBVIOUS
  <2>8. Holds(c, "FULL_STATE_SNAPSHOT")
    <3>1. Holds(<<m>>, "FULL_STATE_SNAPSHOT")
      BY <2>2 DEF Holds, IsSnapshot
    <3>2. Holds(out, "FULL_STATE_SNAPSHOT")
      BY <2>2, <2>3, <2>4, <3>1, HoldsMore
    <3> QED
      BY <1>1, <2>5, <2>7, <3>2, HoldsMore
  <2>9. heard[q] \subseteq m.clock
    BY <2>2 DEF HeardKnown
  <2>10. ASSUME NEW i \in DOMAIN out, IsSnapshot(out[i]) PROVE out[i] = m
    <3>1. PICK b \in Seq(Messages) : b = <<m>>
      BY <2>2
    <3>2. (\E j \in DOMAIN b : out[i] = b[j]) \/ \E j \in DOMAIN a : out[i] = a[j]
      BY <2>4, <2>10, <3>1, ConcatMembers
    <3>3. \A j \in DOMAIN a : ~ IsSnapshot(a[j])
      BY <2>3 DEF AckIfPulled, Ack, IsSnapshot
    <3>4. \A j \in DOMAIN b : b[j] = m
      BY <3>1
    <3> QED
      BY <2>10, <3>2, <3>3, <3>4
  <2>11. \A i \in DOMAIN c : IsSnapshot(c[i]) => heard[q] \subseteq c[i].clock
    <3> TAKE i \in DOMAIN c
    <3>1. \/ i \in DOMAIN chan[q] /\ c[i] = chan[q][i]
          \/ \E j \in DOMAIN out : c[i] = out[j]
      BY <1>1, <2>5, <2>7, ConcatMembers
    <3>2. \A k \in DOMAIN chan[q] : ~ IsSnapshot(chan[q][k])
      BY <1>2 DEF Holds, IsSnapshot
    <3> QED
      BY <2>9, <2>10, <3>1, <3>2
  <2>12. pc'[q] = "accept" /\ ret'[q] = "ack" /\ heard'[q] = heard[q]
    BY <1>1, <1>2 DEF PullEffects, OthersKept
  <2>13. Served(q)'
    BY <2>6, <2>7, <2>8, <2>11, <2>12 DEF Served, OpenGap, Holds, IsSnapshot
  <2> QED
    BY <2>13
<1> QED
  BY <1>2, <1>5, <1>6, <1>7, <1>8, DriveSteps

-----------------------------------------------------------------------------
(* The invariant of the gap.                                               *)

LEMMA NothingServedStays ==
  ASSUME IInv, NothingServed, NEW d \in Devices, PullEffects(d), HealEffects(d)
  PROVE  NothingServed'
<1> DEFINE p == Peer(d)
<1>1. /\ p \in Devices /\ p # d /\ Peer(p) = d /\ \A b \in Devices : b = d \/ b = p
  BY TwoSides
<1>2. ASSUME Fresh(d)' PROVE \A i \in DOMAIN Queue(p)' : ~ IsBatch(Queue(p)'[i])
  <2> TAKE i \in DOMAIN Queue(p)'
  <2>1. Fresh(d)
    BY <1>2 DEF PullEffects
  <2>2. \/ \E j \in DOMAIN Queue(p) : Queue(p)'[i] = Queue(p)[j]
        \/ \E out \in Seq(Messages) : \E j \in DOMAIN out :
             Queue(p)'[i] = out[j] /\ Sayable(d, out)
    BY PeerHears DEF HealEffects
  <2> QED
    BY <2>1, <2>2 DEF Sayable, NothingServed
<1>3. ASSUME Fresh(p)' PROVE \A i \in DOMAIN Queue(d)' : ~ IsBatch(Queue(d)'[i])
  <2>1. Fresh(p)
    BY <1>1, <1>3 DEF PullEffects, OthersKept, Fresh
  <2> QED
    BY <1>1, <2>1 DEF PullEffects, Among, NothingServed
<1>4. \A b \in Devices : Fresh(b)' =>
        \A i \in DOMAIN Queue(Peer(b))' : ~ IsBatch(Queue(Peer(b))'[i])
  BY <1>1, <1>2, <1>3
<1> QED
  BY <1>4 DEF NothingServed, IsBatch

LEMMA HealingStays ==
  ASSUME IInv, IInv', PullServed, PullServed', GapsClose, NEW d \in Devices,
         Step(d) \/ Hang(d) \/ CarrierFails(d), PullEffects(d), HealEffects(d)
  PROVE  Healing'
<1>1. SUFFICES ASSUME ~ late', NEW q \in Devices, gapOffers' = {q}, Alive(q)', Alive(Peer(q))'
               PROVE  Asked(q)' \/ Countered(q)' \/ Accepted(q)' \/ Served(q)' \/ Healed(q)'
  BY DEF Healing
<1>2. /\ Peer(d) \in Devices /\ Peer(d) # d /\ Peer(Peer(d)) = d
      /\ \A b \in Devices : b = d \/ b = Peer(d)
  BY TwoSides
<1>3. ~ late /\ HeardKnown /\ NothingServed /\ BeforeOffers /\ Healing
  BY <1>1 DEF HealEffects, GapsClose
<1>4. CASE gapOffers = {}
  <2>1. q = d
    BY <1>1, <1>4 DEF HealEffects
  <2> QED
    BY <1>1, <1>3, <1>4, <2>1, OfferIsMade
<1>5. CASE gapOffers # {}
  <2>1. gapOffers = {q}
    BY <1>1, <1>5 DEF HealEffects
  <2>2. Alive(q) /\ Alive(Peer(q))
    <3>1. pc[d] \notin {"failed", "hung"}
      BY DEF PullEffects, HealEffects
    <3>2. pc'[Peer(d)] = pc[Peer(d)]
      BY <1>2 DEF PullEffects, OthersKept
    <3>3. Alive(d) /\ (Alive(Peer(d))' => Alive(Peer(d)))
      BY <3>1, <3>2 DEF Alive
    <3> QED
      BY <1>1, <1>2, <3>3
  <2>3. Asked(q) \/ Countered(q) \/ Accepted(q) \/ Served(q) \/ Healed(q)
    BY <1>3, <2>1, <2>2 DEF Healing
  <2>4. CASE q = d
    BY <1>1, <2>3, <2>4, AskerWaits, AskerAccepts, AcceptorWaits, AcceptorTakes, HealedStays
  <2>5. CASE q # d
    <3>1. d = Peer(q) /\ d \notin gapOffers'
      BY <1>1, <1>2, <2>5
    <3>2. CASE Asked(q) /\ Meets(d)
      BY <1>1, <3>1, <3>2, OfferIsCountered
    <3>3. CASE Asked(q) /\ ~ Meets(d)
      BY <1>1, <3>1, <3>3, AskedStays
    <3>4. CASE Countered(q)
      BY <1>1, <3>1, <3>4, CountererWaits
    <3>5. CASE Accepted(q)
      BY <1>1, <1>3, <3>1, <3>5, CountererStreams
    <3>6. CASE Served(q)
      BY <1>1, <1>3, <3>1, <3>6, ServedStays
    <3>7. CASE Healed(q)
      BY <3>7, HealedStays
    <3> QED
      BY <2>3, <3>2, <3>3, <3>4, <3>5, <3>6, <3>7
  <2> QED
    BY <2>4, <2>5
<1> QED
  BY <1>4, <1>5

LEMMA NoGapYet ==
  Init => GapsClose
<1>1. SUFFICES ASSUME Init PROVE GapsClose
  OBVIOUS
<1>2. \A d \in Devices :
        /\ pc[d] = "start" /\ heard[d] = {} /\ offered[d] = {} /\ DOMAIN Queue(d) = {}
        /\ stash[d] = <<>>
  BY <1>1 DEF Init, Queue
<1>3. HeardKnown /\ NothingServed
  BY <1>2, TwoSides DEF HeardKnown, NothingServed
<1>4. BeforeOffers
  BY <1>2 DEF BeforeOffers, Settled, Calm
<1>5. Healing
  BY <1>1 DEF Init, Healing
<1> QED
  BY <1>3, <1>4, <1>5 DEF GapsClose

LEMMA NextCloses ==
  IInv /\ PullServed /\ GapsClose /\ [Next]_vars => GapsClose'
<1>1. SUFFICES ASSUME IInv, PullServed, GapsClose, [Next]_vars PROVE GapsClose'
  OBVIOUS
<1>2. IInv' /\ PullServed'
  BY <1>1, NextPreserves, NextServes
<1>3. ASSUME NEW d \in Devices, Step(d) \/ Hang(d) \/ CarrierFails(d)
      PROVE  GapsClose'
  <2>1. PullEffects(d) /\ HealEffects(d)
    BY <1>1, <1>2, <1>3, EveryStepPulls, EveryStepHeals
  <2>2. HeardKnown' /\ NothingServed' /\ BeforeOffers'
    BY <1>1, <1>2, <2>1, HeardStaysKnown, NothingServedStays, SettledStays DEF GapsClose
  <2>3. Healing'
    BY <1>1, <1>2, <1>3, <2>1, HealingStays
  <2> QED
    BY <2>2, <2>3 DEF GapsClose
<1>4. CASE UNCHANGED vars
  <2>1. /\ pc' = pc /\ ret' = ret /\ chan' = chan /\ stash' = stash /\ clock' = clock
        /\ heard' = heard /\ know' = know /\ offered' = offered
        /\ gapOffers' = gapOffers /\ late' = late
    BY <1>4 DEF vars, pulling, data, history
  <2>2. \A d : Queue(d)' = Queue(d)
    BY <2>1 DEF Queue
  <2>3. HeardKnown'
    BY <1>1, <2>1, <2>2 DEF GapsClose, HeardKnown, IsHello
  <2>4. NothingServed'
    BY <1>1, <2>1, <2>2 DEF GapsClose, NothingServed, Fresh, IsBatch
  <2>5. BeforeOffers'
    BY <1>1, <2>1, <2>2 DEF GapsClose, BeforeOffers, Settled, Calm, OfExchange
  <2>6. Healing'
    <3>1. ASSUME NEW q
          PROVE  /\ Asked(q) => Asked(q)'
                 /\ Countered(q) => Countered(q)'
                 /\ Accepted(q) => Accepted(q)'
                 /\ Served(q) => Served(q)'
                 /\ Healed(q) => Healed(q)'
                 /\ Alive(q)' => Alive(q)
      <4>1. Asked(q) => AskedNext(q)
        BY <2>1, <2>2 DEF Asked, AskedNext, OpenGap, Calm, LoneOffer, Settled
      <4>2. Countered(q) => Countered(q)'
        BY <2>1 DEF Countered, OpenGap, Holds, Calm, OfExchange
      <4>3. Accepted(q) => Accepted(q)'
        BY <2>1 DEF Accepted, OpenGap, Holds
      <4>4. Served(q) => Served(q)'
        BY <2>1 DEF Served, OpenGap, Holds, IsSnapshot
      <4>5. (Healed(q) => Healed(q)') /\ (Alive(q)' => Alive(q))
        BY <2>1 DEF Healed, Fresh, Alive
      <4> QED
        BY <4>1, <4>2, <4>3, <4>4, <4>5, AskedPrimed
    <3>2. Healing
      BY <1>1 DEF GapsClose
    <3> QED
      BY <2>1, <3>1, <3>2 DEF Healing
  <2> QED
    BY <2>3, <2>4, <2>5, <2>6 DEF GapsClose
<1> QED
  BY <1>1, <1>3, <1>4 DEF Next

LEMMA ClosedIsHealed ==
  GapsClose => GapHeals
<1>1. SUFFICES ASSUME GapsClose, BothDone, ~ late, NEW d \in Devices, gapOffers = {d}
               PROVE  heard[d] \subseteq know[d]
  BY DEF GapHeals
<1>2. pc[d] = "done" /\ pc[Peer(d)] = "done"
  BY <1>1, TwoSides DEF BothDone
<1>3. Asked(d) \/ Countered(d) \/ Accepted(d) \/ Served(d) \/ Healed(d)
  BY <1>1, <1>2 DEF GapsClose, Healing, Alive
<1> QED
  BY <1>2, <1>3 DEF Asked, Countered, Accepted, Served, OpenGap, Healed

\* A gap that the pull of one side could not close, when the other side has none, is
\* closed by a snapshot before both have ended in order, unless a wait ran out early:
\* whichever side has the higher id, and with any traffic around the exchange.
THEOREM GapsAreHealed == Spec => []GapHeals
<1>1. Init => GapsClose
  BY NoGapYet
<1>2. IInv /\ PullServed /\ GapsClose /\ [Next]_vars => GapsClose'
  BY NextCloses
<1>3. GapsClose => GapHeals
  BY ClosedIsHealed
<1>4. Init => PullServed
  BY NobodyAsked
<1>5. IInv /\ PullServed /\ [Next]_vars => PullServed'
  BY NextServes
<1> QED
  BY <1>1, <1>2, <1>3, <1>4, <1>5, Invariance, PTL DEF Spec
=============================================================================
