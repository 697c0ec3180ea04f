--------------------------- MODULE Network_proofs ---------------------------
(***************************************************************************)
(* Trust between the devices of a pairing ceremony and the listeners that  *)
(* stay open, for every set of devices and any number of offers and scans. *)
(* The inductive invariant has three layers: the offers and who tracks     *)
(* them; the wire of a connection, on which at most one side has something *)
(* to say; and what the messages on the wire and the phases say about the  *)
(* two peers tables.                                                       *)
(*                                                                         *)
(* The connection, for every length of the two streams, every socket       *)
(* buffer and any number of injected faults: ImplementsLink says that a    *)
(* pair of ends with everything between them behaves as the reliable link  *)
(* of module Link until it dies. The invariant numbers the frames of each  *)
(* direction: what its reader has taken, what waits at its reader, what is *)
(* framed or on the wire and what waits at the writer are, one behind the  *)
(* other, the frames of the writer without a gap. What else it says is     *)
(* what may stand behind them (the FIN, the kill frame, a mark of a reset) *)
(* and that the end that left closed the way back.                         *)
(***************************************************************************)
EXTENDS Pairing, Channel, TLAPS

-----------------------------------------------------------------------------
(* The invariant.                                                           *)

\* A direction carries at most one message, and perhaps the end behind it.
Queues ==
  {<<>>} \cup {<<m>> : m \in Messages} \cup {<<m, "end">> : m \in Messages \ {"end"}}

Says(q, m) == q # <<>> /\ q[1] = m
Real(q) == q # <<>> /\ q[1] # "end"

\* A connection that was made has an offer and a scanner; its sides take turns.
Wired(x) ==
  /\ x \in Connection
  /\ x.toD \in Queues /\ x.toS \in Queues
  /\ ~(Real(x.toD) /\ Real(x.toS))
  /\ x.s = "none" => x.d = "none" /\ x.toD = <<>> /\ x.toS = <<>>
  /\ x.s # "none" => x.offer \in Offers /\ x.scanner \in Devices

OffersFine ==
  /\ tracked \in [Devices -> Offers \cup {None}]
  /\ offer \in [Offers -> ShownOffer]
  /\ \A o \in Offers : offer[o].state # "unused" => offer[o].owner \in Devices
  /\ \A d \in Devices : tracked[d] # None => offer[tracked[d]].state # "unused"
  /\ ListenersAreTracked

WiresFine ==
  /\ conn \in [Scans -> Connection]
  /\ \A c \in Scans : /\ Wired(conn[c])
                      /\ conn[c].s # "none" => offer[conn[c].offer].state # "unused"

ScannerTrusts(c) == Displayer(c) \in trusted[conn[c].scanner]
Mutual(c) == ScannerTrusts(c) /\ conn[c].scanner \in trusted[Displayer(c)]

\* The scanner's payload is sent when it trusts, the confirmation when both do.
Earned(c) ==
  /\ Says(conn[c].toD, "payload") \/ conn[c].s = "ok" => ScannerTrusts(c)
  /\ Says(conn[c].toS, "ok") \/ conn[c].s = "paired" => Mutual(c)

TrustFine ==
  /\ trusted \in [Devices -> SUBSET Devices]
  /\ \A c \in Scans : Earned(c)
  /\ OneSidedTrustIsTheScanners

IInv == OffersFine /\ WiresFine /\ TrustFine

-----------------------------------------------------------------------------
(* Queues.                                                                  *)

LEMMA QueueCases ==
  ASSUME NEW q \in Queues
  PROVE  \/ q = <<>>
         \/ \E m \in Messages : q = <<m>>
         \/ \E m \in Messages \ {"end"} : q = <<m, "end">>
BY DEF Queues

LEMMA QueueTypes ==
  ASSUME NEW q \in Queues
  PROVE  q \in Seq(Messages) /\ Len(q) \in 0..2
<1>1. "end" \in Messages
  BY DEF Messages
<1>2. ASSUME NEW m \in Messages
      PROVE  /\ <<m>> \in Seq(Messages) /\ Len(<<m>>) \in 0..2
             /\ <<m, "end">> \in Seq(Messages) /\ Len(<<m, "end">>) \in 0..2
  BY <1>1, <1>2
<1>3. <<>> \in Seq(Messages) /\ Len(<<>>) \in 0..2
  OBVIOUS
<1>4. ASSUME NEW m \in Messages, q = <<m>> PROVE q \in Seq(Messages) /\ Len(q) \in 0..2
  BY ONLY <1>2, <1>4, Zenon
<1>5. ASSUME NEW m \in Messages, q = <<m, "end">> PROVE q \in Seq(Messages) /\ Len(q) \in 0..2
  BY ONLY <1>2, <1>5, Zenon
<1> QED  BY <1>3, <1>4, <1>5, QueueCases, Zenon

LEMMA EndBehind ==
  ASSUME NEW n \in Messages
  PROVE  Append(<<n>>, "end") = <<n, "end">>
<1>1. "end" \in Messages
  BY DEF Messages
<1>2. <<n>> \in Seq(Messages)
  OBVIOUS
<1> DEFINE b == Append(<<n>>, "end")
<1>3. b \in Seq(Messages) /\ Len(b) = 2 /\ b[1] = n /\ b[2] = "end"
  BY <1>1, <1>2
<1>4. b = <<b[1], b[2]>>
  <2> HIDE DEF b
  <2> QED  BY <1>3
<1> QED  BY <1>3, <1>4

LEMMA TailOfQueue ==
  ASSUME NEW q \in Queues, q # <<>>
  PROVE  /\ Tail(q) = <<>> \/ Tail(q) = <<"end">>
         /\ q[1] = "end" => Tail(q) = <<>>
<1>1. CASE \E m \in Messages : q = <<m>>
  BY <1>1
<1>2. CASE \E m \in Messages \ {"end"} : q = <<m, "end">>
  <2>1. PICK m \in Messages \ {"end"} : q = <<m, "end">>
    BY <1>2
  <2>2. Tail(q) = <<"end">> /\ q[1] # "end"
    BY <2>1
  <2> QED  BY <2>2
<1> QED  BY <1>1, <1>2 DEF Queues

\* Behind nothing, or behind the end, a message starts a queue or is lost.
LEMMA PutOnEmpty ==
  ASSUME NEW q \in Queues, ~Real(q), NEW m \in Messages
  PROVE  Put(q, m) = <<m>> \/ Put(q, m) = <<"end">>
<1>1. q = <<>> \/ q = <<"end">>
  <2>1. CASE \E n \in Messages : q = <<n>>
    BY <2>1 DEF Real
  <2>2. CASE \E n \in Messages \ {"end"} : q = <<n, "end">>
    BY <2>2 DEF Real
  <2> QED  BY <2>1, <2>2 DEF Queues
<1>2. CASE q = <<>>
  BY <1>2 DEF Put
<1>3. CASE q = <<"end">>
  BY <1>3 DEF Put
<1> QED  BY <1>1, <1>2, <1>3

LEMMA PutEnd ==
  ASSUME NEW q \in Queues
  PROVE  /\ Put(q, "end") \in Queues
         /\ Put(q, "end") # <<>>
         /\ \A m \in Messages \ {"end"} : Says(Put(q, "end"), m) <=> Says(q, m)
         /\ Real(Put(q, "end")) <=> Real(q)
<1>1. CASE q = <<>>
  <2>1. Put(q, "end") = <<"end">>
    BY <1>1 DEF Put
  <2>2. "end" \in Messages
    BY DEF Messages
  <2> QED  BY <1>1, <2>1, <2>2 DEF Queues, Says, Real
<1>2. CASE \E n \in Messages : q = <<n>>
  <2>1. PICK n \in Messages : q = <<n>>
    BY <1>2
  <2>2. CASE n = "end"
    <3>1. Put(q, "end") = q
      BY <2>1, <2>2 DEF Put
    <3> QED  BY <3>1, <2>1
  <2>3. CASE n # "end"
    <3>0. Len(q) = 1 /\ q[1] = n
      BY <2>1
    <3>1. q[Len(q)] = n /\ Append(q, "end") = <<n, "end">>
      <4>1. Append(<<n>>, "end") = <<n, "end">>
        BY EndBehind
      <4> QED  BY <2>1, <3>0, <4>1
    <3>2. Put(q, "end") = <<n, "end">>
      BY <2>3, <3>1 DEF Put
    <3> QED  BY <2>1, <2>3, <3>2 DEF Queues, Says, Real
  <2> QED  BY <2>2, <2>3
<1>3. CASE \E n \in Messages \ {"end"} : q = <<n, "end">>
  <2>1. Put(q, "end") = q /\ q # <<>>
    BY <1>3 DEF Put
  <2> QED  BY <2>1
<1> QED  BY <1>1, <1>2, <1>3 DEF Queues

LEMMA ShortQueues ==
  /\ <<>> \in Queues /\ ~Real(<<>>) /\ \A m \in Messages : ~Says(<<>>, m)
  /\ \A m \in Messages : <<m>> \in Queues /\ (Real(<<m>>) <=> m # "end")
  /\ \A m, n \in Messages : Says(<<m>>, n) <=> m = n
  /\ <<"end">> \in Queues /\ ~Real(<<"end">>)
  /\ \A m \in Messages \ {"end"} : ~Says(<<"end">>, m)
<1>1. "end" \in Messages
  BY DEF Messages
<1>2. /\ <<>> \in Queues /\ ~Real(<<>>) /\ \A m \in Messages : ~Says(<<>>, m)
      /\ \A m \in Messages : <<m>> \in Queues /\ (Real(<<m>>) <=> m # "end")
      /\ \A m, n \in Messages : Says(<<m>>, n) <=> m = n
  BY DEF Queues, Real, Says
<1> QED  BY <1>1, <1>2

LEMMA QuietQueues ==
  ASSUME NEW q, q = <<>> \/ q = <<"end">>
  PROVE  q \in Queues /\ ~Real(q) /\ \A m \in Messages \ {"end"} : ~Says(q, m)
<1>1. CASE q = <<>>
  BY <1>1, ShortQueues
<1>2. CASE q = <<"end">>
  BY <1>2, ShortQueues
<1> QED  BY <1>1, <1>2

-----------------------------------------------------------------------------
(* One side of a connection takes a step.                                   *)

LEMMA ReceivedFields ==
  ASSUME NEW x \in Connection
  PROVE  /\ Received(x).offer = x.offer /\ Received(x).scanner = x.scanner
         /\ Received(x).d = x.d /\ Received(x).s = x.s
         /\ Received(x).toD \in {x.toD, <<>>} /\ Received(x).toS \in {x.toS, <<>>}
         /\ ~DisplayerWaits(x) => Received(x).toD = <<>>
         /\ ~ScannerWaits(x) => Received(x).toS = <<>>
         /\ Received(x) \in Connection
<1> DEFINE toD == IF Hears(x, "displayer") THEN x.toD ELSE <<>>
           toS == IF Hears(x, "scanner") THEN x.toS ELSE <<>>
           deaf == {side \in x.deaf : Waits(x, side)}
<1>1. toD \in Seq(Messages) /\ toS \in Seq(Messages) /\ deaf \in SUBSET Sides
  BY DEF Connection
<1>2. Received(x) = [x EXCEPT !.toD = toD, !.toS = toS, !.deaf = deaf]
  BY DEF Received
<1>3. /\ toD \in {x.toD, <<>>} /\ toS \in {x.toS, <<>>}
      /\ ~DisplayerWaits(x) => toD = <<>>
      /\ ~ScannerWaits(x) => toS = <<>>
  BY DEF Hears, Waits
<1> HIDE DEF toD, toS, deaf
<1>4. /\ Received(x).offer = x.offer /\ Received(x).scanner = x.scanner
      /\ Received(x).d = x.d /\ Received(x).s = x.s
      /\ Received(x).toD = toD /\ Received(x).toS = toS
  BY <1>2 DEF Connection
<1>5. Received(x) \in Connection
  BY <1>1, <1>2 DEF Connection
<1> QED  BY <1>3, <1>4, <1>5

\* A connection before what a side no longer reads is thrown away.
Unread(x) ==
  /\ x \in Connection
  /\ x.toD \in Queues /\ x.toS \in Queues
  /\ ~(Real(x.toD) /\ Real(x.toS))
  /\ x.s = "none" => x.d = "none"
  /\ x.s # "none" => x.offer \in Offers /\ x.scanner \in Devices

LEMMA ReceivedWired ==
  ASSUME NEW x, Unread(x)
  PROVE  /\ Wired(Received(x))
         /\ \A m \in Messages : /\ Says(Received(x).toD, m) => Says(x.toD, m)
                                /\ Says(Received(x).toS, m) => Says(x.toS, m)
<1> DEFINE y == Received(x)
<1>0. x \in Connection
  BY DEF Unread
<1>1. /\ y.toD = x.toD \/ y.toD = <<>>
      /\ y.toS = x.toS \/ y.toS = <<>>
      /\ y.s = x.s /\ y.d = x.d /\ y.offer = x.offer /\ y.scanner = x.scanner
      /\ y \in Connection
  BY <1>0, ReceivedFields
<1> HIDE DEF y
<1>2. y.toD \in Queues /\ y.toS \in Queues
  BY <1>1, ShortQueues DEF Unread
<1>4. /\ Real(y.toD) => Real(x.toD)
      /\ Real(y.toS) => Real(x.toS)
  BY <1>1, ShortQueues
<1>5. y.s = "none" => y.toD = <<>> /\ y.toS = <<>>
  <2>1. x.s = "none" => ~DisplayerWaits(x) /\ ~ScannerWaits(x)
    BY DEF Unread, DisplayerWaits, ScannerWaits
  <2> QED  BY <1>0, <1>1, <2>1, ReceivedFields DEF y
<1>6. Wired(y)
  BY <1>1, <1>2, <1>4, <1>5 DEF Wired, Unread
<1>7. \A m \in Messages : /\ Says(y.toD, m) => Says(x.toD, m)
                          /\ Says(y.toS, m) => Says(x.toS, m)
  BY <1>1, ShortQueues
<1> QED  BY <1>6, <1>7 DEF y

LEMMA ScannerWentWired ==
  ASSUME NEW x, Wired(x), x.toS # <<>>, x.s # "none",
         NEW phase \in ScannerPhases \ {"none"}, NEW answer \in Messages,
         Real(x.toS) \/ answer = "end"
  PROVE  LET y == ScannerWent(x, phase, answer)
         IN /\ Wired(y)
            /\ y.offer = x.offer /\ y.scanner = x.scanner /\ y.d = x.d /\ y.s = phase
            /\ \A m \in Messages \ {"end"} :
                 /\ ~Says(y.toS, m)
                 /\ Says(y.toD, m) => m = answer \/ Says(x.toD, m)
<1> DEFINE z == [x EXCEPT !.s = phase, !.toS = Tail(@), !.toD = Put(@, answer)]
<1>0. x \in Connection /\ x.toD \in Queues /\ x.toS \in Queues
  BY DEF Wired
<1>2. Tail(x.toS) = <<>> \/ Tail(x.toS) = <<"end">>
  BY <1>0, TailOfQueue
<1>3. /\ Put(x.toD, answer) \in Queues
      /\ \A m \in Messages \ {"end"} :
           Says(Put(x.toD, answer), m) => m = answer \/ Says(x.toD, m)
  <2>1. CASE answer = "end"
    BY <1>0, <2>1, PutEnd
  <2>2. CASE Real(x.toS)
    <3>1. Put(x.toD, answer) = <<answer>> \/ Put(x.toD, answer) = <<"end">>
      BY <1>0, <2>2, PutOnEmpty DEF Wired
    <3>2. "end" \in Messages
      BY DEF Messages
    <3> QED  BY <3>1, <3>2, ShortQueues
  <2> QED  BY <2>1, <2>2
<1>4. /\ Tail(x.toS) \in Queues /\ ~Real(Tail(x.toS))
      /\ \A m \in Messages \ {"end"} : ~Says(Tail(x.toS), m)
  BY <1>2, QuietQueues, Zenon
<1>5. z \in Connection
  <2>1. Put(x.toD, answer) \in Seq(Messages) /\ Tail(x.toS) \in Seq(Messages)
    BY <1>3, <1>4, QueueTypes
  <2> QED  BY <1>0, <2>1 DEF Connection
<1>6. /\ z.offer = x.offer /\ z.scanner = x.scanner /\ z.d = x.d /\ z.s = phase
      /\ z.toD = Put(x.toD, answer) /\ z.toS = Tail(x.toS)
  BY <1>0 DEF Connection
<1> HIDE DEF z
<1>7. Unread(z)
  BY <1>3, <1>4, <1>5, <1>6 DEF Unread, Wired
<1>8. ScannerWent(x, phase, answer) = Received(z)
  BY DEF ScannerWent, z
<1>9. /\ Received(z).offer = z.offer /\ Received(z).scanner = z.scanner
      /\ Received(z).d = z.d /\ Received(z).s = z.s
  BY <1>5, ReceivedFields
<1> QED  BY <1>3, <1>4, <1>6, <1>7, <1>8, <1>9, ReceivedWired

LEMMA DisplayerWentWired ==
  ASSUME NEW x, Wired(x), x.toD # <<>>, x.s # "none",
         NEW phase \in DisplayerPhases, NEW answer \in Messages,
         Real(x.toD) \/ answer = "end"
  PROVE  LET y == DisplayerWent(x, phase, answer)
         IN /\ Wired(y)
            /\ y.offer = x.offer /\ y.scanner = x.scanner /\ y.s = x.s /\ y.d = phase
            /\ \A m \in Messages \ {"end"} :
                 /\ ~Says(y.toD, m)
                 /\ Says(y.toS, m) => m = answer \/ Says(x.toS, m)
<1> DEFINE z == [x EXCEPT !.d = phase, !.toD = Tail(@), !.toS = Put(@, answer)]
<1>0. x \in Connection /\ x.toD \in Queues /\ x.toS \in Queues
  BY DEF Wired
<1>2. Tail(x.toD) = <<>> \/ Tail(x.toD) = <<"end">>
  BY <1>0, TailOfQueue
<1>3. /\ Put(x.toS, answer) \in Queues
      /\ \A m \in Messages \ {"end"} :
           Says(Put(x.toS, answer), m) => m = answer \/ Says(x.toS, m)
  <2>1. CASE answer = "end"
    BY <1>0, <2>1, PutEnd
  <2>2. CASE Real(x.toD)
    <3>1. Put(x.toS, answer) = <<answer>> \/ Put(x.toS, answer) = <<"end">>
      BY <1>0, <2>2, PutOnEmpty DEF Wired
    <3>2. "end" \in Messages
      BY DEF Messages
    <3> QED  BY <3>1, <3>2, ShortQueues
  <2> QED  BY <2>1, <2>2
<1>4. /\ Tail(x.toD) \in Queues /\ ~Real(Tail(x.toD))
      /\ \A m \in Messages \ {"end"} : ~Says(Tail(x.toD), m)
  BY <1>2, QuietQueues, Zenon
<1>5. z \in Connection
  <2>1. Put(x.toS, answer) \in Seq(Messages) /\ Tail(x.toD) \in Seq(Messages)
    BY <1>3, <1>4, QueueTypes
  <2> QED  BY <1>0, <2>1 DEF Connection
<1>6. /\ z.offer = x.offer /\ z.scanner = x.scanner /\ z.s = x.s /\ z.d = phase
      /\ z.toS = Put(x.toS, answer) /\ z.toD = Tail(x.toD)
  BY <1>0 DEF Connection
<1> HIDE DEF z
<1>7. Unread(z)
  BY <1>0, <1>3, <1>4, <1>5, <1>6 DEF Unread, Wired
<1>8. DisplayerWent(x, phase, answer) = Received(z)
  BY DEF DisplayerWent, z
<1>9. /\ Received(z).offer = z.offer /\ Received(z).scanner = z.scanner
      /\ Received(z).d = z.d /\ Received(z).s = z.s
  BY <1>5, ReceivedFields
<1> QED  BY <1>3, <1>4, <1>6, <1>7, <1>8, <1>9, ReceivedWired

-----------------------------------------------------------------------------
(* Steps that store no trust.                                               *)

\* An offer that was made keeps its owner.
OwnersStay ==
  \A o \in Offers : offer[o].state # "unused" =>
    offer'[o].state # "unused" /\ offer'[o].owner = offer[o].owner

TrustGrows == \A d \in Devices : trusted[d] \subseteq trusted'[d]

\* A connection stays between the two it was made between.
SameEnds(x, y) ==
  x.s # "none" => y.s # "none" /\ y.offer = x.offer /\ y.scanner = x.scanner

\* Nothing is claimed that was not claimed before.
NoNewClaim(x, y) ==
  /\ Says(y.toD, "payload") \/ y.s = "ok" => Says(x.toD, "payload") \/ x.s = "ok"
  /\ Says(y.toS, "ok") \/ y.s = "paired" => Says(x.toS, "ok") \/ x.s = "paired"

\* A scanner that trusts, or gave up, does not go back.
NoWayBack(x, y) == x.s \in {"ok", "failed"} => y.s \in {"ok", "failed"}

Harmless(c) ==
  /\ Wired(conn'[c])
  /\ conn[c].s = "none" /\ conn'[c].s # "none" => offer'[conn'[c].offer].state # "unused"
  /\ SameEnds(conn[c], conn'[c])
  /\ NoNewClaim(conn[c], conn'[c])
  /\ NoWayBack(conn[c], conn'[c])

LEMMA UsedConnection ==
  ASSUME IInv, NEW c \in Scans, conn[c].s # "none"
  PROVE  /\ conn[c].offer \in Offers /\ conn[c].scanner \in Devices
         /\ offer[conn[c].offer].state # "unused"
         /\ Displayer(c) \in Devices
         /\ conn[c].offer # None
<1>1. Wired(conn[c]) /\ offer[conn[c].offer].state # "unused"
  BY DEF IInv, WiresFine
<1>2. conn[c].offer \in Offers /\ conn[c].scanner \in Devices
  BY <1>1 DEF Wired
<1>3. Displayer(c) \in Devices
  BY <1>1, <1>2 DEF IInv, OffersFine, Displayer
<1>4. conn[c].offer # None
  BY <1>2, PairingAssumption DEF Offers
<1> QED  BY <1>1, <1>2, <1>3, <1>4

LEMMA ClaimsNeedUse ==
  ASSUME IInv, NEW c \in Scans,
         \/ Says(conn[c].toD, "payload") \/ Says(conn[c].toS, "ok")
         \/ conn[c].s \in {"ok", "paired", "failed"}
  PROVE  conn[c].s # "none"
<1>1. Wired(conn[c])
  BY DEF IInv, WiresFine
<1> QED  BY <1>1 DEF Wired, Says

\* The two ends of a connection that was made, before and after a step.
LEMMA EndsStay ==
  ASSUME IInv, OwnersStay, NEW c \in Scans, conn[c].s # "none",
         SameEnds(conn[c], conn'[c])
  PROVE  Displayer(c)' = Displayer(c) /\ conn'[c].scanner = conn[c].scanner
BY UsedConnection DEF OwnersStay, SameEnds, Displayer

LEMMA EarnedStays ==
  ASSUME IInv, OwnersStay, TrustGrows, NEW c \in Scans,
         SameEnds(conn[c], conn'[c]), NoNewClaim(conn[c], conn'[c])
  PROVE  Earned(c)'
<1>1. Earned(c)
  BY DEF IInv, TrustFine
<1>2. ASSUME Says(conn'[c].toD, "payload") \/ conn'[c].s = "ok"
      PROVE  ScannerTrusts(c)'
  <2>1. Says(conn[c].toD, "payload") \/ conn[c].s = "ok"
    BY <1>2 DEF NoNewClaim
  <2>2. conn[c].s # "none" /\ ScannerTrusts(c)
    BY <1>1, <2>1, ClaimsNeedUse DEF Earned
  <2>3. Displayer(c)' = Displayer(c) /\ conn'[c].scanner = conn[c].scanner
    BY <2>2, EndsStay
  <2>4. conn[c].scanner \in Devices
    BY <2>2, UsedConnection
  <2> QED  BY <2>2, <2>3, <2>4 DEF ScannerTrusts, TrustGrows
<1>3. ASSUME Says(conn'[c].toS, "ok") \/ conn'[c].s = "paired"
      PROVE  Mutual(c)'
  <2>1. Says(conn[c].toS, "ok") \/ conn[c].s = "paired"
    BY <1>3 DEF NoNewClaim
  <2>2. conn[c].s # "none" /\ Mutual(c)
    BY <1>1, <2>1, ClaimsNeedUse DEF Earned
  <2>3. Displayer(c)' = Displayer(c) /\ conn'[c].scanner = conn[c].scanner
    BY <2>2, EndsStay
  <2>4. conn[c].scanner \in Devices /\ Displayer(c) \in Devices
    BY <2>2, UsedConnection
  <2> QED  BY <2>2, <2>3, <2>4 DEF Mutual, ScannerTrusts, TrustGrows
<1> QED  BY <1>2, <1>3 DEF Earned

LEMMA WiresStay ==
  ASSUME IInv, OwnersStay, conn' \in [Scans -> Connection],
         \A c \in Scans : /\ Wired(conn'[c]) /\ SameEnds(conn[c], conn'[c])
                          /\ conn[c].s = "none" /\ conn'[c].s # "none"
                               => offer'[conn'[c].offer].state # "unused"
  PROVE  WiresFine'
<1>1. ASSUME NEW c \in Scans, conn'[c].s # "none"
      PROVE  offer'[conn'[c].offer].state # "unused"
  <2>1. CASE conn[c].s = "none"
    BY <1>1, <2>1
  <2>2. CASE conn[c].s # "none"
    BY <2>2, UsedConnection DEF SameEnds, OwnersStay
  <2> QED  BY <2>1, <2>2
<1> QED  BY <1>1 DEF WiresFine

LEMMA QuietStep ==
  ASSUME IInv, OffersFine', OwnersStay, UNCHANGED trusted,
         conn' \in [Scans -> Connection], \A c \in Scans : Harmless(c)
  PROVE  IInv'
<1>1. WiresFine'
  BY WiresStay DEF Harmless
<1>2. \A c \in Scans : Earned(c)'
  BY EarnedStays DEF Harmless, TrustGrows
<1>3. OneSidedTrustIsTheScanners'
  <2> SUFFICES ASSUME NEW d \in Devices, NEW e \in Devices,
                      e \in trusted[d], d \notin trusted[e]
               PROVE  \E c \in Scans :
                        /\ conn'[c].scanner = d /\ conn'[c].s \in {"ok", "failed"}
                        /\ conn'[c].offer # None /\ Displayer(c)' = e
    BY DEF OneSidedTrustIsTheScanners
  <2>1. PICK c \in Scans : /\ conn[c].scanner = d /\ conn[c].s \in {"ok", "failed"}
                           /\ conn[c].offer # None /\ Displayer(c) = e
    BY DEF IInv, TrustFine, OneSidedTrustIsTheScanners
  <2>2. Displayer(c)' = Displayer(c) /\ conn'[c].scanner = d /\ conn'[c].offer # None
    BY <2>1, EndsStay, UsedConnection DEF Harmless, SameEnds
  <2>3. conn'[c].s \in {"ok", "failed"}
    BY <2>1 DEF Harmless, NoWayBack
  <2> QED  BY <2>1, <2>2, <2>3
<1> QED  BY <1>1, <1>2, <1>3 DEF IInv, TrustFine

\* A connection that is left as it is, or of which only the wire is cut short.
LEMMA LeftAlone ==
  ASSUME IInv, NEW c \in Scans, UNCHANGED conn[c]
  PROVE  Harmless(c)
<1>1. conn'[c] = conn[c]
  OBVIOUS
<1>2. Wired(conn[c])
  BY DEF IInv, WiresFine
<1> QED  BY <1>1, <1>2 DEF Harmless, SameEnds, NoNewClaim, NoWayBack

\* The wire is cut or ended and a side that waited may have given up.
CutShort(x, z) ==
  /\ z \in Connection
  /\ z.offer = x.offer /\ z.scanner = x.scanner
  /\ z.s = x.s \/ (ScannerWaits(x) /\ z.s = "failed")
  /\ z.d = x.d \/ (DisplayerWaits(x) /\ z.d = "over")
  /\ z.toD \in {x.toD, Put(x.toD, "end"), <<"end">>, <<>>}
  /\ z.toS \in {x.toS, Put(x.toS, "end"), <<"end">>, <<>>}

LEMMA CutShortIsHarmless ==
  ASSUME IInv, NEW c \in Scans, NEW z, CutShort(conn[c], z), conn'[c] = Received(z)
  PROVE  Harmless(c)
<1> DEFINE x == conn[c]
           y == Received(z)
<1>1. Wired(x)
  BY DEF IInv, WiresFine
<1> HIDE DEF x
<1>c. CutShort(x, z)
  BY DEF x
<1>2. ASSUME NEW q \in Queues, NEW r, r \in {q, Put(q, "end"), <<"end">>, <<>>}
      PROVE  /\ r \in Queues /\ (Real(r) => Real(q))
             /\ \A m \in Messages \ {"end"} : Says(r, m) => Says(q, m)
  <2>1. CASE r = q
    BY <2>1
  <2>2. CASE r = Put(q, "end")
    BY <2>2, PutEnd
  <2>3. CASE r = <<"end">> \/ r = <<>>
    BY <2>3, QuietQueues
  <2> QED  BY <1>2, <2>1, <2>2, <2>3
<1>3. /\ z.toD \in Queues /\ (Real(z.toD) => Real(x.toD))
      /\ \A m \in Messages \ {"end"} : Says(z.toD, m) => Says(x.toD, m)
  BY <1>1, <1>c, <1>2 DEF Wired, CutShort
<1>4. /\ z.toS \in Queues /\ (Real(z.toS) => Real(x.toS))
      /\ \A m \in Messages \ {"end"} : Says(z.toS, m) => Says(x.toS, m)
  BY <1>1, <1>c, <1>2 DEF Wired, CutShort
<1>5. /\ z.s = "none" <=> x.s = "none"
      /\ x.s = "none" => z.d = "none"
  BY <1>1, <1>c DEF CutShort, Wired, ScannerWaits, DisplayerWaits
<1>6. Unread(z)
  BY <1>1, <1>c, <1>3, <1>4, <1>5 DEF Unread, Wired, CutShort
<1>7. /\ y.offer = x.offer /\ y.scanner = x.scanner /\ y.s = z.s
      /\ Wired(y)
      /\ \A m \in Messages : /\ Says(y.toD, m) => Says(z.toD, m)
                             /\ Says(y.toS, m) => Says(z.toS, m)
  BY <1>6, <1>c, ReceivedWired, ReceivedFields DEF CutShort, Unread
<1>8. "payload" \in Messages \ {"end"} /\ "ok" \in Messages \ {"end"}
  BY DEF Messages
<1>9. NoNewClaim(x, y)
  BY <1>c, <1>3, <1>4, <1>7, <1>8 DEF NoNewClaim, CutShort
<1>10. NoWayBack(x, y) /\ SameEnds(x, y)
  BY <1>c, <1>5, <1>7 DEF NoWayBack, SameEnds, CutShort, ScannerWaits
<1> QED  BY <1>5, <1>7, <1>9, <1>10 DEF Harmless, x

-----------------------------------------------------------------------------
(* The offers.                                                              *)

LEMMA CancelledOffers ==
  ASSUME OffersFine, NEW o \in Offers \cup {None},
         o # None => offer[o].state # "unused"
  PROVE  /\ Cancelled(offer, o) \in [Offers -> ShownOffer]
         /\ \A p \in Offers :
              /\ Cancelled(offer, o)[p].owner = offer[p].owner
              /\ Cancelled(offer, o)[p].state = IF p = o THEN "closed" ELSE offer[p].state
<1>1. None \notin Offers
  BY PairingAssumption DEF Offers
<1>2. CASE o = None
  BY <1>1, <1>2 DEF Cancelled, OffersFine
<1>3. CASE o # None
  <2>1. o \in Offers /\ offer \in [Offers -> ShownOffer]
    BY <1>3 DEF OffersFine
  <2> DEFINE w == [offer[o] EXCEPT !.state = "closed", !.session = None]
  <2>2. Cancelled(offer, o) = [offer EXCEPT ![o] = w]
    BY <1>3 DEF Cancelled
  <2>3. w \in ShownOffer /\ w.owner = offer[o].owner /\ w.state = "closed"
    BY <2>1 DEF ShownOffer
  <2> HIDE DEF w
  <2> QED  BY <2>1, <2>2, <2>3
<1> QED  BY <1>2, <1>3

LEMMA EndedIsHarmless ==
  ASSUME IInv, NEW o \in Offers \cup {None}, conn' = Ended(o)
  PROVE  conn' \in [Scans -> Connection] /\ \A c \in Scans : Harmless(c)
<1>1. CASE conn' = conn
  BY <1>1, LeftAlone DEF IInv, WiresFine
<1>2. CASE conn' # conn
  <2> DEFINE b == offer[o].session
             z == [conn[b] EXCEPT !.toS = Put(@, "end")]
  <2>1. o \in Offers /\ b # None /\ conn' = [conn EXCEPT ![b] = HungUp(conn[b])]
    BY <1>2 DEF Ended
  <2>h. HungUp(conn[b]) = Received(z)
    BY DEF HungUp
  <2>2. b \in Scans
    BY <2>1 DEF IInv, OffersFine, ShownOffer
  <2> HIDE DEF b
  <2>3. conn[b] \in Connection /\ conn[b].toS \in Queues
    BY <2>2 DEF IInv, WiresFine, Wired
  <2>4. Put(conn[b].toS, "end") \in Seq(Messages)
    BY <2>3, PutEnd, QueueTypes
  <2>5. z \in Connection
    BY <2>3, <2>4 DEF Connection
  <2>6. CutShort(conn[b], z)
    BY <2>3, <2>5 DEF CutShort, Connection
  <2> HIDE DEF z
  <2>7. Received(z) \in Connection
    BY <2>5, ReceivedFields
  <2>8. conn' \in [Scans -> Connection]
    BY <2>1, <2>h, <2>7 DEF IInv, WiresFine
  <2>9. ASSUME NEW c \in Scans PROVE Harmless(c)
    <3>1. CASE c = b
      <4>1. conn'[b] = Received(z)
        BY <2>1, <2>2, <2>h DEF IInv, WiresFine
      <4> QED  BY <2>2, <2>6, <3>1, <4>1, CutShortIsHarmless
    <3>2. CASE c # b
      <4>1. conn'[c] = conn[c]
        BY <2>1, <3>2 DEF IInv, WiresFine
      <4> QED  BY <4>1, LeftAlone
    <3> QED  BY <3>1, <3>2
  <2> QED  BY <2>8, <2>9
<1> QED  BY <1>1, <1>2

LEMMA OffersLeftAlone ==
  ASSUME OffersFine, UNCHANGED <<tracked, offer>>
  PROVE  OffersFine' /\ OwnersStay
BY DEF OffersFine, ListenersAreTracked, OwnersStay

LEMMA StartOfferPreserves ==
  ASSUME IInv, NEW d \in Devices, NEW o \in Offers, StartOffer(d, o)
  PROVE  IInv'
<1> DEFINE w == [NoOffer EXCEPT !.owner = d, !.state = "opening"]
<1>1. w \in ShownOffer /\ w.owner = d /\ w.state = "opening"
  BY DEF NoOffer, ShownOffer
<1>2. offer' = [offer EXCEPT ![o] = w] /\ offer[o].state = "unused"
  BY DEF StartOffer
<1> HIDE DEF w
<1>3. offer \in [Offers -> ShownOffer] /\ UNCHANGED <<trusted, tracked, conn>>
  BY DEF StartOffer, IInv, OffersFine
<1>4. OffersFine' /\ OwnersStay
  BY <1>1, <1>2, <1>3 DEF IInv, OffersFine, ListenersAreTracked, OwnersStay
<1>5. \A c \in Scans : Harmless(c)
  BY <1>3, LeftAlone
<1> QED  BY <1>3, <1>4, <1>5, QuietStep DEF IInv, WiresFine

LEMMA OfferReadyPreserves ==
  ASSUME IInv, NEW o \in Offers, OfferReady(o)
  PROVE  IInv'
<1> DEFINE d == offer[o].owner
           ofs == Cancelled(offer, tracked[d])
<1>1. d \in Devices /\ offer[o].state = "opening" /\ offer \in [Offers -> ShownOffer]
  BY DEF OfferReady, IInv, OffersFine
<1>2. /\ tracked[d] \in Offers \cup {None}
      /\ tracked[d] # None => offer[tracked[d]].state # "unused"
  BY <1>1 DEF IInv, OffersFine
<1>3. /\ ofs \in [Offers -> ShownOffer]
      /\ \A p \in Offers :
           /\ ofs[p].owner = offer[p].owner
           /\ ofs[p].state = IF p = tracked[d] THEN "closed" ELSE offer[p].state
  BY <1>2, CancelledOffers DEF IInv
<1>4. /\ tracked' = [tracked EXCEPT ![d] = o]
      /\ offer' = [ofs EXCEPT ![o].state = "open"]
      /\ conn' = Ended(tracked[d]) /\ UNCHANGED trusted
  BY DEF OfferReady
<1> HIDE DEF d, ofs
<1>5. /\ offer' \in [Offers -> ShownOffer]
      /\ \A p \in Offers :
           /\ offer'[p].owner = offer[p].owner
           /\ offer'[p].state = IF p = o THEN "open"
                                ELSE IF p = tracked[d] THEN "closed" ELSE offer[p].state
  BY <1>3, <1>4 DEF ShownOffer
<1>6. tracked' \in [Devices -> Offers \cup {None}]
  BY <1>1, <1>4 DEF IInv, OffersFine
<1>7. \A p \in Offers : offer'[p].state # "unused" => offer'[p].owner \in Devices
  BY <1>1, <1>2, <1>5, PairingAssumption DEF IInv, OffersFine, d, Offers
<1>8. OwnersStay
  BY <1>5 DEF OwnersStay
<1>9. \A e \in Devices : tracked'[e] # None => offer'[tracked'[e]].state # "unused"
  BY <1>1, <1>4, <1>5 DEF IInv, OffersFine
<1>10. ListenersAreTracked'
  <2> SUFFICES ASSUME NEW p \in Offers, offer'[p].state = "open"
               PROVE  tracked'[offer'[p].owner] = p
    BY DEF ListenersAreTracked
  <2>1. CASE p = o
    BY <1>1, <1>4, <1>5, <2>1 DEF IInv, OffersFine, d
  <2>2. CASE p # o
    <3>1. offer[p].state = "open" /\ p # tracked[d] /\ offer'[p].owner = offer[p].owner
      BY <1>5, <2>2
    <3>2. tracked[offer[p].owner] = p /\ offer[p].owner \in Devices
      BY <3>1 DEF IInv, OffersFine, ListenersAreTracked
    <3>3. offer[p].owner # d
      BY <3>1, <3>2
    <3> QED  BY <1>1, <1>4, <3>1, <3>2, <3>3 DEF IInv, OffersFine
  <2> QED  BY <2>1, <2>2
<1>11. OffersFine'
  BY <1>5, <1>6, <1>7, <1>9, <1>10 DEF OffersFine
<1>12. conn' \in [Scans -> Connection] /\ \A c \in Scans : Harmless(c)
  BY <1>2, <1>4, EndedIsHarmless
<1> QED  BY <1>4, <1>8, <1>11, <1>12, QuietStep

LEMMA CancelPreserves ==
  ASSUME IInv, NEW d \in Devices, Cancel(d)
  PROVE  IInv'
<1> DEFINE o == tracked[d]
<1>1. /\ o \in Offers /\ offer[o].state # "unused"
      /\ tracked' = [tracked EXCEPT ![d] = None]
      /\ offer' = Cancelled(offer, o) /\ conn' = Ended(o) /\ UNCHANGED trusted
  BY DEF Cancel, IInv, OffersFine
<1> HIDE DEF o
<1>2. /\ offer' \in [Offers -> ShownOffer]
      /\ \A p \in Offers :
           /\ offer'[p].owner = offer[p].owner
           /\ offer'[p].state = IF p = o THEN "closed" ELSE offer[p].state
  BY <1>1, CancelledOffers DEF IInv
<1>3. OwnersStay
  BY <1>2 DEF OwnersStay
<1>4. ListenersAreTracked'
  <2> SUFFICES ASSUME NEW p \in Offers, offer'[p].state = "open"
               PROVE  tracked'[offer'[p].owner] = p
    BY DEF ListenersAreTracked
  <2>1. offer[p].state = "open" /\ p # o /\ offer'[p].owner = offer[p].owner
    BY <1>2
  <2>2. tracked[offer[p].owner] = p /\ offer[p].owner \in Devices
    BY <2>1 DEF IInv, OffersFine, ListenersAreTracked
  <2> QED  BY <1>1, <2>1, <2>2 DEF IInv, OffersFine, o
<1>5. OffersFine'
  BY <1>1, <1>2, <1>4 DEF IInv, OffersFine
<1>6. conn' \in [Scans -> Connection] /\ \A c \in Scans : Harmless(c)
  BY <1>1, EndedIsHarmless
<1> QED  BY <1>1, <1>3, <1>5, <1>6, QuietStep

-----------------------------------------------------------------------------
(* The wire.                                                                *)

LEMMA OneConnection ==
  ASSUME IInv, NEW c \in Scans, NEW y, Wired(y), conn' = [conn EXCEPT ![c] = y]
  PROVE  /\ conn' \in [Scans -> Connection] /\ conn'[c] = y
         /\ \A b \in Scans \ {c} : conn'[b] = conn[b] /\ Harmless(b)
<1>1. y \in Connection
  BY DEF Wired
<1>2. conn' \in [Scans -> Connection] /\ conn'[c] = y
  BY <1>1 DEF IInv, WiresFine
<1>3. \A b \in Scans \ {c} : conn'[b] = conn[b]
  BY DEF IInv, WiresFine
<1>4. \A b \in Scans \ {c} : Harmless(b)
  BY <1>3, LeftAlone
<1> QED  BY <1>2, <1>3, <1>4

LEMMA ScanPreserves ==
  ASSUME IInv, NEW d \in Devices, NEW c \in Scans, NEW o \in Offers, Scan(d, c, o)
  PROVE  IInv'
<1> DEFINE open == [NoConn EXCEPT !.offer = o, !.scanner = d, !.d = "e", !.s = "e ee s es",
                                  !.toD = <<"e">>]
           refused == [NoConn EXCEPT !.offer = o, !.scanner = d, !.d = "over", !.s = "failed"]
<1>0. "e" \in Messages /\ <<"e">> \in Seq(Messages)
  BY DEF Messages
<1>n. /\ NoConn \in Connection /\ NoConn.toD = <<>> /\ NoConn.toS = <<>>
      /\ {"e", "over"} \subseteq DisplayerPhases /\ {"e ee s es", "failed"} \subseteq ScannerPhases
  BY DEF NoConn, Connection, ScannerPhases, DisplayerPhases, Sides
<1>1. /\ open \in Connection /\ open.toD = <<"e">> /\ open.toS = <<>>
      /\ open.s = "e ee s es" /\ open.offer = o /\ open.scanner = d
  BY <1>0, <1>n DEF Connection
<1>2. /\ refused \in Connection /\ refused.toD = <<>> /\ refused.toS = <<>>
      /\ refused.s = "failed" /\ refused.offer = o /\ refused.scanner = d
  BY <1>n DEF Connection
<1> DEFINE y == IF offer[o].state = "open" THEN open ELSE refused
<1>3. conn' = [conn EXCEPT ![c] = y] /\ UNCHANGED <<trusted, tracked, offer>>
  BY DEF Scan
<1>4. conn[c].s = "none" /\ offer[o].state # "unused"
  BY DEF Scan
<1> HIDE DEF open, refused
<1>5. Wired(open) /\ Wired(refused)
  <2>1. <<"e">> \in Queues /\ <<>> \in Queues /\ ~Real(<<>>)
    BY <1>0, ShortQueues
  <2> QED  BY <1>1, <1>2, <2>1 DEF Wired
<1>6. Wired(y) /\ y.s \in {"e ee s es", "failed"} /\ y.offer = o
      /\ ~Says(y.toD, "payload") /\ ~Says(y.toS, "ok")
  <2>1. ~Says(<<"e">>, "payload") /\ ~Says(<<>>, "payload") /\ ~Says(<<>>, "ok")
    BY DEF Says
  <2> QED  BY <1>1, <1>2, <1>5, <2>1
<1> HIDE DEF y
<1>7. conn' \in [Scans -> Connection] /\ conn'[c] = y
      /\ \A b \in Scans \ {c} : Harmless(b)
  BY <1>3, <1>6, OneConnection
<1>8. Harmless(c)
  BY <1>3, <1>4, <1>6, <1>7 DEF Harmless, SameEnds, NoNewClaim, NoWayBack
<1>9. OffersFine' /\ OwnersStay
  BY <1>3, OffersLeftAlone DEF IInv
<1> QED  BY <1>3, <1>7, <1>8, <1>9, QuietStep

LEMMA BreakPreserves ==
  ASSUME IInv, NEW c \in Scans, NEW told \in SUBSET Sides, Break(c, told)
  PROVE  IInv'
<1> DEFINE News(side) == IF side \in told THEN <<"end">> ELSE <<>>
           z == [conn[c] EXCEPT !.toD = News("displayer"), !.toS = News("scanner"),
                                !.deaf = Sides \ told]
<1>1. conn' = [conn EXCEPT ![c] = Received(z)] /\ UNCHANGED <<trusted, tracked, offer>>
  BY DEF Break
<1>2. CutShort(conn[c], z)
  <2>1. conn[c] \in Connection
    BY DEF IInv, WiresFine
  <2>2. /\ <<"end">> \in Seq(Messages) /\ <<>> \in Seq(Messages)
        /\ \A side \in Sides : News(side) \in {<<"end">>, <<>>}
        /\ "displayer" \in Sides /\ "scanner" \in Sides
    BY DEF Messages, Sides
  <2> HIDE DEF News
  <2> QED  BY <2>1, <2>2 DEF CutShort, Connection
<1> HIDE DEF z
<1>3. Received(z) \in Connection
  BY <1>2, ReceivedFields DEF CutShort
<1>4. conn' \in [Scans -> Connection] /\ conn'[c] = Received(z)
      /\ \A b \in Scans \ {c} : conn'[b] = conn[b]
  BY <1>1, <1>3 DEF IInv, WiresFine
<1>5. \A b \in Scans : Harmless(b)
  BY <1>2, <1>4, LeftAlone, CutShortIsHarmless
<1>6. OffersFine' /\ OwnersStay
  BY <1>1, OffersLeftAlone DEF IInv
<1> QED  BY <1>1, <1>4, <1>5, <1>6, QuietStep

LEMMA RestartPreserves ==
  ASSUME IInv, NEW d \in Devices, Restart(d)
  PROVE  IInv'
<1> DEFINE mine(p) == offer[p].owner = d /\ offer[p].state \in {"opening", "open"}
           shown(x) == conn[x].offer # None /\ Displayer(x) = d
           scanned(x) == conn[x].scanner = d
           z(c) == [conn[c] EXCEPT
                      !.d = IF shown(c) /\ DisplayerWaits(conn[c]) THEN "over" ELSE @,
                      !.s = IF scanned(c) /\ ScannerWaits(conn[c]) THEN "failed" ELSE @,
                      !.toS = IF shown(c) THEN Put(@, "end") ELSE @,
                      !.toD = IF scanned(c) THEN Put(@, "end") ELSE @]
<1>1. /\ tracked' = [tracked EXCEPT ![d] = None]
      /\ offer' = [o \in Offers |-> IF mine(o)
                     THEN [offer[o] EXCEPT !.state = "closed", !.session = None]
                     ELSE offer[o]]
      /\ conn' = [c \in Scans |-> Received(z(c))]
      /\ UNCHANGED trusted
  BY DEF Restart
<1>2. ASSUME NEW c \in Scans PROVE CutShort(conn[c], z(c))
  <2>1. conn[c] \in Connection /\ conn[c].toD \in Queues /\ conn[c].toS \in Queues
    BY DEF IInv, WiresFine, Wired
  <2>2. Put(conn[c].toD, "end") \in Seq(Messages) /\ Put(conn[c].toS, "end") \in Seq(Messages)
    BY <2>1, PutEnd, QueueTypes
  <2> DEFINE dd == IF shown(c) /\ DisplayerWaits(conn[c]) THEN "over" ELSE conn[c].d
             ss == IF scanned(c) /\ ScannerWaits(conn[c]) THEN "failed" ELSE conn[c].s
             qS == IF shown(c) THEN Put(conn[c].toS, "end") ELSE conn[c].toS
             qD == IF scanned(c) THEN Put(conn[c].toD, "end") ELSE conn[c].toD
  <2>3. z(c) = [conn[c] EXCEPT !.d = dd, !.s = ss, !.toS = qS, !.toD = qD]
    OBVIOUS
  <2>4. /\ dd \in DisplayerPhases /\ ss \in ScannerPhases
        /\ qS \in Seq(Messages) /\ qD \in Seq(Messages)
    BY <2>1, <2>2 DEF Connection, DisplayerPhases, ScannerPhases
  <2>5. /\ dd = conn[c].d \/ (DisplayerWaits(conn[c]) /\ dd = "over")
        /\ ss = conn[c].s \/ (ScannerWaits(conn[c]) /\ ss = "failed")
        /\ qS \in {conn[c].toS, Put(conn[c].toS, "end"), <<"end">>}
        /\ qD \in {conn[c].toD, Put(conn[c].toD, "end"), <<"end">>}
    OBVIOUS
  <2> HIDE DEF z, dd, ss, qS, qD
  <2>6. /\ z(c) \in Connection /\ z(c).offer = conn[c].offer /\ z(c).scanner = conn[c].scanner
        /\ z(c).d = dd /\ z(c).s = ss /\ z(c).toS = qS /\ z(c).toD = qD
    BY <2>1, <2>3, <2>4 DEF Connection
  <2> QED  BY <2>5, <2>6 DEF CutShort
<1> HIDE DEF z
<1>3. \A c \in Scans : Received(z(c)) \in Connection
  BY <1>2, ReceivedFields DEF CutShort
<1>4. conn' \in [Scans -> Connection] /\ \A c \in Scans : conn'[c] = Received(z(c))
  BY <1>1, <1>3
<1>5. \A c \in Scans : Harmless(c)
  BY <1>2, <1>4, CutShortIsHarmless
<1>6. /\ offer' \in [Offers -> ShownOffer]
      /\ \A p \in Offers :
           /\ offer'[p].owner = offer[p].owner
           /\ offer'[p].state = IF mine(p) THEN "closed" ELSE offer[p].state
  <2>1. ASSUME NEW p \in Offers, NEW w, w = [offer[p] EXCEPT !.state = "closed", !.session = None]
        PROVE  w \in ShownOffer /\ w.owner = offer[p].owner /\ w.state = "closed"
    BY <2>1 DEF IInv, OffersFine, ShownOffer
  <2> QED  BY <1>1, <2>1 DEF IInv, OffersFine
<1>7. OwnersStay
  BY <1>6 DEF OwnersStay
<1>8. tracked' \in [Devices -> Offers \cup {None}] /\ tracked'[d] = None
      /\ \A e \in Devices \ {d} : tracked'[e] = tracked[e]
  BY <1>1 DEF IInv, OffersFine
<1>9. OffersFine'
  <2>1. \A p \in Offers : offer'[p].state # "unused" => offer'[p].owner \in Devices
    BY <1>6 DEF IInv, OffersFine
  <2>2. \A e \in Devices : tracked'[e] # None => offer'[tracked'[e]].state # "unused"
    BY <1>6, <1>8 DEF IInv, OffersFine
  <2>3. ListenersAreTracked'
    BY <1>6, <1>8 DEF IInv, OffersFine, ListenersAreTracked
  <2> QED  BY <1>6, <1>8, <2>1, <2>2, <2>3 DEF OffersFine
<1> QED  BY <1>1, <1>4, <1>5, <1>7, <1>9, QuietStep

-----------------------------------------------------------------------------
(* The messages.                                                            *)

LEMMA ScannerGoesOn ==
  ASSUME IInv, NEW c \in Scans, ScannerWaits(conn[c]), conn[c].toS # <<>>,
         NEW phase \in ScannerPhases \ {"none"}, NEW answer \in Messages,
         Real(conn[c].toS) \/ answer = "end", ScannerGoes(c, phase, answer)
  PROVE  /\ conn' \in [Scans -> Connection]
         /\ \A b \in Scans \ {c} : conn'[b] = conn[b] /\ Harmless(b)
         /\ Wired(conn'[c]) /\ SameEnds(conn[c], conn'[c])
         /\ conn[c].s # "none" /\ conn'[c].s = phase
         /\ \A m \in Messages \ {"end"} :
              /\ ~Says(conn'[c].toS, m)
              /\ Says(conn'[c].toD, m) => m = answer \/ Says(conn[c].toD, m)
<1>1. Wired(conn[c]) /\ conn[c].s # "none"
  BY DEF IInv, WiresFine, ScannerWaits
<1> DEFINE y == ScannerWent(conn[c], phase, answer)
<1>2. conn' = [conn EXCEPT ![c] = y]
  BY DEF ScannerGoes
<1>3. /\ Wired(y)
      /\ y.offer = conn[c].offer /\ y.scanner = conn[c].scanner /\ y.s = phase
      /\ \A m \in Messages \ {"end"} :
           /\ ~Says(y.toS, m)
           /\ Says(y.toD, m) => m = answer \/ Says(conn[c].toD, m)
  BY <1>1, ScannerWentWired
<1> HIDE DEF y
<1>4. /\ conn' \in [Scans -> Connection] /\ conn'[c] = y
      /\ \A b \in Scans \ {c} : conn'[b] = conn[b] /\ Harmless(b)
  BY <1>2, <1>3, OneConnection
<1> QED  BY <1>1, <1>3, <1>4 DEF SameEnds

LEMMA DisplayerGoesOn ==
  ASSUME IInv, NEW c \in Scans, DisplayerWaits(conn[c]), conn[c].toD # <<>>,
         NEW phase \in DisplayerPhases, NEW answer \in Messages,
         Real(conn[c].toD) \/ answer = "end", DisplayerGoes(c, phase, answer)
  PROVE  /\ conn' \in [Scans -> Connection]
         /\ \A b \in Scans \ {c} : conn'[b] = conn[b] /\ Harmless(b)
         /\ Wired(conn'[c]) /\ SameEnds(conn[c], conn'[c])
         /\ conn[c].s # "none" /\ conn'[c].s = conn[c].s
         /\ \A m \in Messages \ {"end"} :
              /\ ~Says(conn'[c].toD, m)
              /\ Says(conn'[c].toS, m) => m = answer \/ Says(conn[c].toS, m)
<1>1. Wired(conn[c]) /\ conn[c].s # "none"
  BY DEF IInv, WiresFine, DisplayerWaits, Wired
<1> DEFINE y == DisplayerWent(conn[c], phase, answer)
<1>2. conn' = [conn EXCEPT ![c] = y]
  BY DEF DisplayerGoes
<1>3. /\ Wired(y)
      /\ y.offer = conn[c].offer /\ y.scanner = conn[c].scanner /\ y.s = conn[c].s
      /\ \A m \in Messages \ {"end"} :
           /\ ~Says(y.toD, m)
           /\ Says(y.toS, m) => m = answer \/ Says(conn[c].toS, m)
  BY <1>1, DisplayerWentWired
<1> HIDE DEF y
<1>4. /\ conn' \in [Scans -> Connection] /\ conn'[c] = y
      /\ \A b \in Scans \ {c} : conn'[b] = conn[b] /\ Harmless(b)
  BY <1>2, <1>3, OneConnection
<1> QED  BY <1>1, <1>3, <1>4 DEF SameEnds

\* The words that matter.
LEMMA Words ==
  /\ {"e", "e ee s es", "s se", "payload", "ok"} \subseteq Messages \ {"end"}
  /\ "end" \in Messages
  /\ {"payload", "ok", "paired", "failed"} \subseteq ScannerPhases \ {"none"}
  /\ {"s se", "payload", "paired", "over"} \subseteq DisplayerPhases
BY DEF Messages, ScannerPhases, DisplayerPhases

LEMMA ScannerHandshakePreserves ==
  ASSUME IInv, NEW c \in Scans, ScannerHandshake(c) \/ ScannerFails(c)
  PROVE  IInv'
<1>1. UNCHANGED <<trusted, tracked, offer>>
  BY DEF ScannerHandshake, ScannerFails
<1>2. OffersFine' /\ OwnersStay
  BY <1>1, OffersLeftAlone DEF IInv
<1>3. /\ conn' \in [Scans -> Connection]
      /\ \A b \in Scans \ {c} : Harmless(b)
      /\ Harmless(c)
  <2>1. CASE ScannerHandshake(c)
    <3>1. /\ ScannerWaits(conn[c]) /\ Real(conn[c].toS) /\ conn[c].toS # <<>>
          /\ conn[c].s = "e ee s es" /\ ScannerGoes(c, "payload", "s se")
      BY <2>1 DEF ScannerHandshake, ScannerHas, ScannerWaits, Real
    <3>2. /\ conn' \in [Scans -> Connection]
          /\ \A b \in Scans \ {c} : Harmless(b)
          /\ Wired(conn'[c]) /\ SameEnds(conn[c], conn'[c])
          /\ conn[c].s # "none" /\ conn'[c].s = "payload"
          /\ \A m \in Messages \ {"end"} :
               /\ ~Says(conn'[c].toS, m)
               /\ Says(conn'[c].toD, m) => m = "s se" \/ Says(conn[c].toD, m)
      BY <3>1, Words, ScannerGoesOn
    <3> QED  BY <3>1, <3>2, Words DEF Harmless, NoNewClaim, NoWayBack
  <2>2. CASE ScannerFails(c)
    <3>1. /\ ScannerWaits(conn[c]) /\ conn[c].toS # <<>> /\ ScannerGoes(c, "failed", "end")
      BY <2>2 DEF ScannerFails, ScannerHas
    <3>2. /\ conn' \in [Scans -> Connection]
          /\ \A b \in Scans \ {c} : Harmless(b)
          /\ Wired(conn'[c]) /\ SameEnds(conn[c], conn'[c])
          /\ conn[c].s # "none" /\ conn'[c].s = "failed"
          /\ \A m \in Messages \ {"end"} :
               /\ ~Says(conn'[c].toS, m)
               /\ Says(conn'[c].toD, m) => m = "end" \/ Says(conn[c].toD, m)
      BY <3>1, Words, ScannerGoesOn
    <3> QED  BY <3>2, Words DEF Harmless, NoNewClaim, NoWayBack
  <2> QED  BY <2>1, <2>2
<1> QED  BY <1>1, <1>2, <1>3, QuietStep

LEMMA ScannerAnswersPreserves ==
  ASSUME IInv, NEW c \in Scans, ScannerAnswers(c)
  PROVE  IInv'
<1> DEFINE s == conn[c].scanner
           d == Displayer(c)
<1>1. /\ ScannerWaits(conn[c]) /\ Real(conn[c].toS) /\ conn[c].toS # <<>>
      /\ conn[c].s = "payload" /\ ScannerGoes(c, "ok", "payload")
      /\ trusted' = [trusted EXCEPT ![s] = @ \cup {d}]
      /\ UNCHANGED <<tracked, offer>>
  BY DEF ScannerAnswers, ScannerHas, ScannerWaits, Real, StoreTrust, WithPeer
<1>2. /\ conn' \in [Scans -> Connection]
      /\ \A b \in Scans \ {c} : conn'[b] = conn[b] /\ Harmless(b)
      /\ Wired(conn'[c]) /\ SameEnds(conn[c], conn'[c])
      /\ conn[c].s # "none" /\ conn'[c].s = "ok"
      /\ \A m \in Messages \ {"end"} : ~Says(conn'[c].toS, m)
  BY <1>1, Words, ScannerGoesOn
<1>3. OffersFine' /\ OwnersStay
  BY <1>1, OffersLeftAlone DEF IInv
<1>4. s \in Devices /\ d \in Devices /\ conn[c].offer # None
  BY <1>2, UsedConnection
<1>5. d' = d /\ s' = s
  BY <1>2, <1>3, EndsStay
<1> HIDE DEF s, d
<1>6. /\ trusted' \in [Devices -> SUBSET Devices] /\ TrustGrows
      /\ trusted'[s] = trusted[s] \cup {d}
      /\ \A e \in Devices \ {s} : trusted'[e] = trusted[e]
  BY <1>1, <1>4 DEF IInv, TrustFine, TrustGrows
<1>7. WiresFine'
  BY <1>2, <1>3, WiresStay DEF Harmless
<1>8. ASSUME NEW b \in Scans PROVE Earned(b)'
  <2>1. CASE b = c
    <3>1. ScannerTrusts(c)'
      BY <1>5, <1>6 DEF ScannerTrusts, s, d
    <3>2. ~Says(conn'[c].toS, "ok") /\ conn'[c].s # "paired"
      BY <1>2, Words
    <3> QED  BY <2>1, <3>1, <3>2 DEF Earned
  <2>2. CASE b # c
    BY <1>2, <1>3, <1>6, <2>2, EarnedStays DEF Harmless
  <2> QED  BY <2>1, <2>2
<1>9. OneSidedTrustIsTheScanners'
  <2> SUFFICES ASSUME NEW x \in Devices, NEW e \in Devices,
                      e \in trusted'[x], x \notin trusted'[e]
               PROVE  \E b \in Scans :
                        /\ conn'[b].scanner = x /\ conn'[b].s \in {"ok", "failed"}
                        /\ conn'[b].offer # None /\ Displayer(b)' = e
    BY DEF OneSidedTrustIsTheScanners
  <2>1. CASE x = s /\ e = d
    BY <1>2, <1>4, <1>5, <2>1 DEF SameEnds, s, d
  <2>2. CASE ~(x = s /\ e = d)
    <3>1. e \in trusted[x] /\ x \notin trusted[e]
      BY <1>6, <2>2 DEF TrustGrows
    <3>2. PICK b \in Scans : /\ conn[b].scanner = x /\ conn[b].s \in {"ok", "failed"}
                             /\ conn[b].offer # None /\ Displayer(b) = e
      BY <3>1 DEF IInv, TrustFine, OneSidedTrustIsTheScanners
    <3>3. conn'[b] = conn[b]
      BY <1>1, <1>2, <3>2
    <3>4. Displayer(b)' = Displayer(b)
      BY <1>1, <3>3 DEF Displayer
    <3> QED  BY <3>2, <3>3, <3>4
  <2> QED  BY <2>1, <2>2
<1> QED  BY <1>3, <1>6, <1>7, <1>8, <1>9 DEF IInv, TrustFine

LEMMA ScannerDonePreserves ==
  ASSUME IInv, NEW c \in Scans, ScannerDone(c)
  PROVE  IInv'
<1>1. /\ ScannerWaits(conn[c]) /\ Real(conn[c].toS) /\ conn[c].toS # <<>>
      /\ conn[c].s = "ok" /\ Says(conn[c].toS, "ok") /\ ScannerGoes(c, "paired", "end")
      /\ UNCHANGED <<trusted, tracked, offer>>
  BY DEF ScannerDone, ScannerHas, ScannerWaits, Real, Says
<1>2. /\ conn' \in [Scans -> Connection]
      /\ \A b \in Scans \ {c} : conn'[b] = conn[b] /\ Harmless(b)
      /\ Wired(conn'[c]) /\ SameEnds(conn[c], conn'[c])
      /\ conn[c].s # "none" /\ conn'[c].s = "paired"
      /\ \A m \in Messages \ {"end"} : /\ ~Says(conn'[c].toS, m)
                                       /\ Says(conn'[c].toD, m) => Says(conn[c].toD, m)
  BY <1>1, Words, ScannerGoesOn
<1>3. OffersFine' /\ OwnersStay /\ TrustGrows
  BY <1>1, OffersLeftAlone DEF IInv, TrustGrows
<1>4. Mutual(c)
  BY <1>1 DEF IInv, TrustFine, Earned
<1>5. WiresFine'
  BY <1>2, <1>3, WiresStay DEF Harmless
<1>6. ASSUME NEW b \in Scans PROVE Earned(b)'
  <2>1. NoNewClaim(conn[c], conn'[c])
    BY <1>1, <1>2, Words DEF NoNewClaim
  <2> QED  BY <1>2, <1>3, <2>1, EarnedStays DEF Harmless
<1>7. OneSidedTrustIsTheScanners'
  <2> SUFFICES ASSUME NEW x \in Devices, NEW e \in Devices,
                      e \in trusted[x], x \notin trusted[e]
               PROVE  \E b \in Scans :
                        /\ conn'[b].scanner = x /\ conn'[b].s \in {"ok", "failed"}
                        /\ conn'[b].offer # None /\ Displayer(b)' = e
    BY <1>1 DEF OneSidedTrustIsTheScanners
  <2>1. PICK b \in Scans : /\ conn[b].scanner = x /\ conn[b].s \in {"ok", "failed"}
                           /\ conn[b].offer # None /\ Displayer(b) = e
    BY DEF IInv, TrustFine, OneSidedTrustIsTheScanners
  <2>2. b # c
    BY <1>4, <2>1 DEF Mutual
  <2>3. conn'[b] = conn[b] /\ Displayer(b)' = Displayer(b)
    BY <1>1, <1>2, <2>2 DEF Displayer
  <2> QED  BY <2>1, <2>3
<1> QED  BY <1>1, <1>3, <1>5, <1>6, <1>7 DEF IInv, TrustFine

LEMMA DisplayerGreetsPreserves ==
  ASSUME IInv, NEW c \in Scans, DisplayerHandshake(c) \/ DisplayerGreets(c)
  PROVE  IInv'
<1>1. ASSUME NEW phase \in DisplayerPhases, NEW answer \in Messages \ {"end", "ok"},
             DisplayerWaits(conn[c]), Real(conn[c].toD), DisplayerGoes(c, phase, answer)
      PROVE  /\ conn' \in [Scans -> Connection]
             /\ \A b \in Scans : Harmless(b)
             /\ conn[c].s # "none"
  <2>1. conn[c].toD # <<>>
    BY <1>1 DEF Real
  <2>2. /\ conn' \in [Scans -> Connection]
        /\ \A b \in Scans \ {c} : Harmless(b)
        /\ Wired(conn'[c]) /\ SameEnds(conn[c], conn'[c])
        /\ conn[c].s # "none" /\ conn'[c].s = conn[c].s
        /\ \A m \in Messages \ {"end"} : /\ ~Says(conn'[c].toD, m)
                                         /\ Says(conn'[c].toS, m) => m = answer \/ Says(conn[c].toS, m)
    BY <1>1, <2>1, DisplayerGoesOn
  <2>3. Harmless(c)
    BY <2>2, Words DEF Harmless, NoNewClaim, NoWayBack
  <2> QED  BY <2>2, <2>3
<1>2. CASE DisplayerHandshake(c)
  <2>1. /\ DisplayerWaits(conn[c]) /\ Real(conn[c].toD)
        /\ DisplayerGoes(c, "s se", "e ee s es") /\ UNCHANGED <<trusted, tracked, offer>>
    BY <1>2 DEF DisplayerHandshake, DisplayerHas, DisplayerWaits, Real
  <2>2. "e ee s es" \in Messages \ {"end", "ok"} /\ "s se" \in DisplayerPhases
    BY Words
  <2>3. conn' \in [Scans -> Connection] /\ \A b \in Scans : Harmless(b)
    BY <1>1, <2>1, <2>2
  <2> QED  BY <2>1, <2>3, OffersLeftAlone, QuietStep DEF IInv
<1>3. CASE DisplayerGreets(c)
  <2> DEFINE o == conn[c].offer
             n == IF offer[o].state = "open" THEN c ELSE None
  <2>1. /\ DisplayerWaits(conn[c]) /\ Real(conn[c].toD)
        /\ DisplayerGoes(c, "payload", "payload") /\ UNCHANGED <<trusted, tracked>>
        /\ offer' = [offer EXCEPT ![o].session = n]
    BY <1>3 DEF DisplayerGreets, DisplayerHas, DisplayerWaits, Real
  <2>2. "payload" \in Messages \ {"end", "ok"} /\ "payload" \in DisplayerPhases
    BY Words
  <2>3. conn' \in [Scans -> Connection] /\ (\A b \in Scans : Harmless(b)) /\ conn[c].s # "none"
    BY <1>1, <2>1, <2>2
  <2>4. o \in Offers /\ n \in Scans \cup {None}
    BY <2>3, UsedConnection
  <2> HIDE DEF o, n
  <2>5. /\ offer' \in [Offers -> ShownOffer]
        /\ \A p \in Offers : offer'[p].state = offer[p].state /\ offer'[p].owner = offer[p].owner
    BY <2>1, <2>4 DEF IInv, OffersFine, ShownOffer
  <2>6. OwnersStay
    BY <2>5 DEF OwnersStay
  <2>7. OffersFine'
    BY <2>1, <2>5 DEF IInv, OffersFine, ListenersAreTracked
  <2> QED  BY <2>1, <2>3, <2>6, <2>7, QuietStep
<1> QED  BY <1>2, <1>3

LEMMA CloseOfferPreserves ==
  ASSUME IInv, NEW o \in Offers, offer[o].state # "unused", CloseOffer(o)
  PROVE  OffersFine' /\ OwnersStay
<1> DEFINE w == [offer[o] EXCEPT !.state = "closed", !.session = None]
<1>1. offer \in [Offers -> ShownOffer] /\ o # None
  BY PairingAssumption DEF IInv, OffersFine, Offers
<1>2. w \in ShownOffer /\ w.owner = offer[o].owner /\ w.state = "closed"
  BY <1>1 DEF ShownOffer
<1>3. /\ offer' = [offer EXCEPT ![o] = w]
      /\ tracked' = [d \in Devices |-> IF tracked[d] = o THEN None ELSE tracked[d]]
  BY DEF CloseOffer
<1> HIDE DEF w
<1>4. /\ offer' \in [Offers -> ShownOffer]
      /\ \A p \in Offers :
           /\ offer'[p].owner = offer[p].owner
           /\ offer'[p].state = IF p = o THEN "closed" ELSE offer[p].state
  BY <1>1, <1>2, <1>3
<1>5. OwnersStay
  BY <1>4 DEF OwnersStay
<1>6. tracked' \in [Devices -> Offers \cup {None}]
  BY <1>3 DEF IInv, OffersFine
<1>7. \A p \in Offers : offer'[p].state # "unused" => offer'[p].owner \in Devices
  BY <1>4 DEF IInv, OffersFine
<1>8. \A e \in Devices : tracked'[e] # None => offer'[tracked'[e]].state # "unused"
  BY <1>3, <1>4 DEF IInv, OffersFine
<1>9. ListenersAreTracked'
  BY <1>3, <1>4 DEF IInv, OffersFine, ListenersAreTracked
<1> QED  BY <1>4, <1>5, <1>6, <1>7, <1>8, <1>9 DEF OffersFine

LEMMA DisplayerFailsPreserves ==
  ASSUME IInv, NEW c \in Scans, DisplayerFails(c)
  PROVE  IInv'
<1>1. /\ DisplayerWaits(conn[c]) /\ conn[c].toD # <<>> /\ DisplayerGoes(c, "over", "end")
      /\ UNCHANGED trusted
      /\ CloseOffer(conn[c].offer) \/ UNCHANGED <<tracked, offer>>
  BY DEF DisplayerFails, DisplayerHas
<1>2. /\ conn' \in [Scans -> Connection]
      /\ \A b \in Scans \ {c} : Harmless(b)
      /\ Wired(conn'[c]) /\ SameEnds(conn[c], conn'[c])
      /\ conn[c].s # "none" /\ conn'[c].s = conn[c].s
      /\ \A m \in Messages \ {"end"} : /\ ~Says(conn'[c].toD, m)
                                       /\ Says(conn'[c].toS, m) => Says(conn[c].toS, m)
  BY <1>1, Words, DisplayerGoesOn
<1>3. Harmless(c)
  BY <1>2, Words DEF Harmless, NoNewClaim, NoWayBack
<1>4. OffersFine' /\ OwnersStay
  BY <1>1, <1>2, UsedConnection, CloseOfferPreserves, OffersLeftAlone DEF IInv
<1> QED  BY <1>1, <1>2, <1>3, <1>4, QuietStep

LEMMA DisplayerPairsPreserves ==
  ASSUME IInv, NEW c \in Scans, DisplayerPairs(c)
  PROVE  IInv'
<1> DEFINE s == conn[c].scanner
           d == Displayer(c)
<1>1. /\ DisplayerWaits(conn[c]) /\ Real(conn[c].toD) /\ conn[c].toD # <<>>
      /\ Says(conn[c].toD, "payload") /\ DisplayerGoes(c, "paired", "ok")
      /\ trusted' = [trusted EXCEPT ![d] = @ \cup {s}]
      /\ CloseOffer(conn[c].offer)
  BY DEF DisplayerPairs, DisplayerHas, DisplayerWaits, Real, Says, StoreTrust, WithPeer
<1>2. /\ conn' \in [Scans -> Connection]
      /\ \A b \in Scans \ {c} : conn'[b] = conn[b] /\ Harmless(b)
      /\ Wired(conn'[c]) /\ SameEnds(conn[c], conn'[c])
      /\ conn[c].s # "none" /\ conn'[c].s = conn[c].s
      /\ \A m \in Messages \ {"end"} : ~Says(conn'[c].toD, m)
  BY <1>1, Words, DisplayerGoesOn
<1>3. /\ s \in Devices /\ d \in Devices
      /\ conn[c].offer \in Offers /\ offer[conn[c].offer].state # "unused"
  BY <1>2, UsedConnection
<1>4. OffersFine' /\ OwnersStay
  BY <1>1, <1>3, CloseOfferPreserves
<1>5. d' = d /\ s' = s
  BY <1>2, <1>4, EndsStay
<1>6. d \in trusted[s]
  BY <1>1 DEF IInv, TrustFine, Earned, ScannerTrusts
<1> HIDE DEF s, d
<1>7. /\ trusted' \in [Devices -> SUBSET Devices] /\ TrustGrows
      /\ trusted'[d] = trusted[d] \cup {s}
      /\ \A e \in Devices \ {d} : trusted'[e] = trusted[e]
  BY <1>1, <1>3 DEF IInv, TrustFine, TrustGrows
<1>8. WiresFine'
  BY <1>2, <1>4, WiresStay DEF Harmless
<1>9. ASSUME NEW b \in Scans PROVE Earned(b)'
  <2>1. CASE b = c
    <3>1. Mutual(c)'
      BY <1>3, <1>5, <1>6, <1>7 DEF Mutual, ScannerTrusts, TrustGrows, s, d
    <3> QED  BY <2>1, <3>1 DEF Earned, Mutual
  <2>2. CASE b # c
    BY <1>2, <1>4, <1>7, <2>2, EarnedStays DEF Harmless
  <2> QED  BY <2>1, <2>2
<1>10. OneSidedTrustIsTheScanners'
  <2> SUFFICES ASSUME NEW x \in Devices, NEW e \in Devices,
                      e \in trusted'[x], x \notin trusted'[e]
               PROVE  \E b \in Scans :
                        /\ conn'[b].scanner = x /\ conn'[b].s \in {"ok", "failed"}
                        /\ conn'[b].offer # None /\ Displayer(b)' = e
    BY DEF OneSidedTrustIsTheScanners
  <2>1. ~(x = d /\ e = s)
    BY <1>3, <1>6, <1>7 DEF TrustGrows
  <2>2. e \in trusted[x] /\ x \notin trusted[e]
    BY <1>7, <2>1 DEF TrustGrows
  <2>3. PICK b \in Scans : /\ conn[b].scanner = x /\ conn[b].s \in {"ok", "failed"}
                           /\ conn[b].offer # None /\ Displayer(b) = e
    BY <2>2 DEF IInv, TrustFine, OneSidedTrustIsTheScanners
  <2>4. SameEnds(conn[b], conn'[b]) /\ conn'[b].s = conn[b].s
    BY <1>2 DEF SameEnds
  <2>5. Displayer(b)' = Displayer(b) /\ conn'[b].scanner = x /\ conn'[b].offer # None
    BY <1>4, <2>3, <2>4, EndsStay DEF SameEnds
  <2> QED  BY <2>3, <2>4, <2>5
<1> QED  BY <1>4, <1>7, <1>8, <1>9, <1>10 DEF IInv, TrustFine

-----------------------------------------------------------------------------
(* The theorems.                                                            *)

LEMMA InitEstablishes == Init => IInv
<1> SUFFICES ASSUME Init PROVE IInv
  OBVIOUS
<1>0. None \notin Offers
  BY PairingAssumption DEF Offers
<1>1. OffersFine
  <2>1. NoOffer \in ShownOffer /\ NoOffer.state = "unused"
    BY DEF NoOffer, ShownOffer
  <2> QED  BY <2>1 DEF Init, OffersFine, ListenersAreTracked
<1>2. /\ NoConn \in Connection /\ NoConn.toD = <<>> /\ NoConn.toS = <<>>
      /\ NoConn.d = "none" /\ NoConn.s = "none"
  BY DEF NoConn, Connection, ScannerPhases, DisplayerPhases, Sides
<1>3. WiresFine
  BY <1>2, ShortQueues DEF Init, WiresFine, Wired
<1>4. TrustFine
  BY <1>2 DEF Init, TrustFine, Earned, Says, OneSidedTrustIsTheScanners
<1> QED  BY <1>1, <1>3, <1>4 DEF IInv

LEMMA NextPreserves == IInv /\ [Next]_vars => IInv'
<1> SUFFICES ASSUME IInv, [Next]_vars PROVE IInv'
  OBVIOUS
<1>1. CASE UNCHANGED vars
  <2>1. UNCHANGED <<trusted, tracked, offer, conn>>
    BY <1>1 DEF vars
  <2>2. \A c \in Scans : Harmless(c)
    BY <2>1, LeftAlone
  <2> QED  BY <2>1, <2>2, OffersLeftAlone, QuietStep DEF IInv, WiresFine
<1>2. CASE \E d \in Devices : Cancel(d) \/ Restart(d)
  BY <1>2, CancelPreserves, RestartPreserves
<1>3. CASE \E d \in Devices, o \in Offers : StartOffer(d, o)
  BY <1>3, StartOfferPreserves
<1>4. CASE \E d \in Devices, c \in Scans, o \in Offers : Scan(d, c, o)
  BY <1>4, ScanPreserves
<1>5. CASE \E o \in Offers : OfferReady(o)
  BY <1>5, OfferReadyPreserves
<1>6. CASE \E c \in Scans : ScannerStep(c)
  BY <1>6, ScannerHandshakePreserves, ScannerAnswersPreserves, ScannerDonePreserves
     DEF ScannerStep
<1>7. CASE \E c \in Scans : DisplayerStep(c)
  BY <1>7, DisplayerGreetsPreserves, DisplayerPairsPreserves, DisplayerFailsPreserves
     DEF DisplayerStep
<1>8. CASE \E c \in Scans, told \in SUBSET Sides : Break(c, told)
  BY <1>8, BreakPreserves
<1> QED  BY <1>1, <1>2, <1>3, <1>4, <1>5, <1>6, <1>7, <1>8 DEF Next

LEMMA Invariance == Spec => []IInv
BY InitEstablishes, NextPreserves, PTL DEF Spec

\* Offers, connections and peers tables keep their types, and no direction of a
\* connection ever carries more than one message and the end behind it.
THEOREM TypeCorrect == Spec => []TypeOK
<1>1. IInv => TypeOK
  <2> SUFFICES ASSUME IInv PROVE TypeOK
    OBVIOUS
  <2>1. ASSUME NEW c \in Scans PROVE Len(conn[c].toD) <= 2 /\ Len(conn[c].toS) <= 2
    <3>1. conn[c].toD \in Queues /\ conn[c].toS \in Queues
      BY DEF IInv, WiresFine, Wired
    <3> DEFINE m == Len(conn[c].toD)
               n == Len(conn[c].toS)
    <3>2. m \in 0..2 /\ n \in 0..2
      BY <3>1, QueueTypes
    <3>3. m <= 2 /\ n <= 2
      <4> HIDE DEF m, n
      <4> QED  BY <3>2
    <3> QED  BY <3>3
  <2> QED  BY <2>1 DEF TypeOK, IInv, OffersFine, WiresFine, TrustFine
<1> QED  BY <1>1, Invariance, PTL

\* Wherever a ceremony breaks off, the displayer never trusts a scanner that
\* does not trust it (pairing_manager.ts, the order of the two storeTrust calls).
THEOREM TrustIsNeverTheDisplayersAlone == Spec => []OneSidedTrustIsTheScanners
<1>1. IInv => OneSidedTrustIsTheScanners
  BY DEF IInv, TrustFine
<1> QED  BY <1>1, Invariance, PTL

\* A scan that was answered with success paired both devices
\* (acceptPairingPayload returns).
THEOREM SuccessIsMutual == Spec => []AcceptedIsMutual
<1>1. IInv => AcceptedIsMutual
  BY DEF IInv, TrustFine, Earned, Mutual, ScannerTrusts, AcceptedIsMutual
<1> QED  BY <1>1, Invariance, PTL

\* An open listener belongs to the pending offer of its device, so that it can
\* be closed (trackPairingOffer, cancelPendingOffer).
THEOREM NoListenerIsForgotten == Spec => []ListenersAreTracked
<1>1. IInv => ListenersAreTracked
  BY DEF IInv, OffersFine
<1> QED  BY <1>1, Invariance, PTL

-----------------------------------------------------------------------------
(* The connection.                                                         *)

-----------------------------------------------------------------------------
(* Numbered streams.                                                       *)

\* The frame that x hands over as its p-th: its part of the handshake first,
\* its messages in their order behind that.
Frame(x, p) ==
  IF x = Initiator
    THEN IF p = 1 THEN Handshake("e") ELSE IF p = 2 THEN Handshake("s") ELSE Message(p - 2)
    ELSE IF p = 1 THEN Handshake("ee") ELSE Message(p - 1)

Shaken(x) == IF x = Initiator THEN 2 ELSE 1

Marks == {Fin, Reset}

\* s holds the frames of x from number n + 1 on, without a gap.
Numbered(x, s, n) == \A i \in DOMAIN s : s[i] = Frame(x, n + i)

\* So does a wire, up to the marks behind them.
Carries(x, s, n) == \A i \in DOMAIN s : s[i] \in Marks \/ s[i] = Frame(x, n + i)

\* The FIN stands behind frame number w.
FinBehind(s, n, w) == \A i \in DOMAIN s : s[i] = Fin => n + i - 1 = w

HasKill(s) == \E i \in DOMAIN s : s[i] = Kill
HasMark(s) == \E i \in DOMAIN s : s[i] \in Marks

\* Every message of s is one of the first k.
UpTo(s, k) == \A i \in DOMAIN s : s[i].kind = "message" => s[i].n <= k

\* s holds the last message of the handshake.
HasLast(s) == \E i \in DOMAIN s : s[i].kind = "s"

Alphabet == Frames \cup {Kill, Fin, Reset}

LEMMA FrameKinds ==
  ASSUME NEW x \in Ends, NEW p \in Nat, p > 0
  PROVE  /\ Frame(x, p) \notin Marks /\ Frame(x, p) # Kill
         /\ p > Shaken(x) => /\ Frame(x, p) = Message(p - Shaken(x))
                             /\ Frame(x, p).kind = "message"
         /\ Frame(x, p).kind \in {"e", "s", "ee", "message"}
BY DEF Frame, Marks, Kill, Fin, Reset, Handshake, Message, Shaken

LEMMA HeadAndTail ==
  ASSUME NEW S, NEW s \in Seq(S), s # <<>>
  PROVE  /\ Head(s) = s[1] /\ 1 \in DOMAIN s /\ Len(Tail(s)) = Len(s) - 1 /\ Len(s) \in Nat \ {0}
         /\ \A i \in DOMAIN Tail(s) : i \in Nat /\ Tail(s)[i] = s[i + 1] /\ i + 1 \in DOMAIN s
         /\ \A i \in DOMAIN s : i # 1 => i - 1 \in DOMAIN Tail(s) /\ Tail(s)[i - 1] = s[i]
<1>1. Head(s) = s[1] /\ 1 \in DOMAIN s /\ Len(Tail(s)) = Len(s) - 1 /\ Len(s) \in Nat \ {0}
  OBVIOUS
<1>2. ASSUME NEW i \in DOMAIN Tail(s) PROVE i \in Nat /\ Tail(s)[i] = s[i + 1] /\ i + 1 \in DOMAIN s
  OBVIOUS
<1>3. ASSUME NEW i \in DOMAIN s, i # 1 PROVE i - 1 \in DOMAIN Tail(s) /\ Tail(s)[i - 1] = s[i]
  <2>1. i \in 1 .. Len(s) /\ DOMAIN Tail(s) = 1 .. Len(s) - 1
    OBVIOUS
  <2>2. i - 1 \in DOMAIN Tail(s)
    BY <2>1, <1>3
  <2>3. Tail(s)[i - 1] = s[(i - 1) + 1]
    BY <2>2, <1>2
  <2> QED BY <2>1, <2>2, <2>3
<1> QED BY <1>1, <1>2, <1>3

LEMMA AppendFacts ==
  ASSUME NEW S, NEW s \in Seq(S), NEW f
  PROVE  /\ Len(s) \in Nat /\ Len(Append(s, f)) = Len(s) + 1
         /\ DOMAIN s = 1 .. Len(s) /\ DOMAIN Append(s, f) = 1 .. Len(s) + 1
         /\ \A i \in DOMAIN s : Append(s, f)[i] = s[i]
         /\ Append(s, f)[Len(s) + 1] = f
OBVIOUS

LEMMA NumberedTail ==
  ASSUME NEW x, NEW s \in Seq(Alphabet), s # <<>>, NEW n \in Nat, Numbered(x, s, n)
  PROVE  Head(s) = Frame(x, n + 1) /\ Numbered(x, Tail(s), n + 1)
<1>1. Head(s) = s[1] /\ 1 \in DOMAIN s
  OBVIOUS
<1>2. ASSUME NEW i \in DOMAIN Tail(s) PROVE Tail(s)[i] = s[i + 1] /\ i + 1 \in DOMAIN s /\ i \in Nat
  OBVIOUS
<1>3. ASSUME NEW i \in DOMAIN Tail(s) PROVE Tail(s)[i] = Frame(x, (n + 1) + i)
  <2>1. Tail(s)[i] = Frame(x, n + (i + 1))
    BY <1>2 DEF Numbered
  <2>2. n + (i + 1) = (n + 1) + i
    BY <1>2
  <2> QED BY <2>1, <2>2
<1> QED BY <1>1, <1>3 DEF Numbered

LEMMA NumberedAppend ==
  ASSUME NEW x, NEW s \in Seq(Alphabet), NEW n \in Nat, Numbered(x, s, n), NEW f,
         f = Frame(x, n + Len(s) + 1)
  PROVE  Numbered(x, Append(s, f), n)
<1>1. ASSUME NEW i \in DOMAIN Append(s, f) PROVE Append(s, f)[i] = Frame(x, n + i)
  <2>1. i \in 1 .. Len(s) + 1
    OBVIOUS
  <2>2. CASE i = Len(s) + 1
    <3>1. Append(s, f)[i] = f
      BY <2>2
    <3>2. n + i = n + Len(s) + 1
      BY <2>2
    <3> QED BY <3>1, <3>2
  <2>3. CASE i \in 1 .. Len(s)
    BY <2>3 DEF Numbered
  <2> QED BY <2>1, <2>2, <2>3
<1> QED BY <1>1 DEF Numbered

LEMMA CarriesTail ==
  ASSUME NEW x, NEW s \in Seq(Alphabet), s # <<>>, NEW n \in Nat, Carries(x, s, n)
  PROVE  /\ Head(s) \in Marks \/ Head(s) = Frame(x, n + 1)
         /\ Carries(x, Tail(s), n + 1)
<1>1. Head(s) = s[1] /\ 1 \in DOMAIN s
  OBVIOUS
<1>2. ASSUME NEW i \in DOMAIN Tail(s) PROVE Tail(s)[i] = s[i + 1] /\ i + 1 \in DOMAIN s /\ i \in Nat
  OBVIOUS
<1>3. ASSUME NEW i \in DOMAIN Tail(s)
      PROVE  Tail(s)[i] \in Marks \/ Tail(s)[i] = Frame(x, (n + 1) + i)
  <2>1. Tail(s)[i] \in Marks \/ Tail(s)[i] = Frame(x, n + (i + 1))
    BY <1>2 DEF Carries
  <2>2. n + (i + 1) = (n + 1) + i
    BY <1>2
  <2> QED BY <2>1, <2>2
<1> QED BY <1>1, <1>3 DEF Carries

LEMMA CarriesAppend ==
  ASSUME NEW x, NEW s \in Seq(Alphabet), NEW n \in Nat, Carries(x, s, n), NEW f,
         f \in Marks \/ f = Frame(x, n + Len(s) + 1)
  PROVE  Carries(x, Append(s, f), n)
<1>1. ASSUME NEW i \in DOMAIN Append(s, f)
      PROVE  Append(s, f)[i] \in Marks \/ Append(s, f)[i] = Frame(x, n + i)
  <2>1. i \in 1 .. Len(s) + 1
    OBVIOUS
  <2>2. CASE i = Len(s) + 1
    <3>1. Append(s, f)[i] = f
      BY <2>2
    <3>2. n + i = n + Len(s) + 1
      BY <2>2
    <3> QED BY <3>1, <3>2
  <2>3. CASE i \in 1 .. Len(s)
    BY <2>3 DEF Carries
  <2> QED BY <2>1, <2>2, <2>3
<1> QED BY <1>1 DEF Carries

LEMMA FinTail ==
  ASSUME NEW s \in Seq(Alphabet), s # <<>>, NEW n \in Nat, NEW w \in Nat, FinBehind(s, n, w)
  PROVE  (Head(s) = Fin => n = w) /\ FinBehind(Tail(s), n + 1, w)
<1>1. Head(s) = s[1] /\ 1 \in DOMAIN s
  OBVIOUS
<1>2. ASSUME NEW i \in DOMAIN Tail(s) PROVE Tail(s)[i] = s[i + 1] /\ i + 1 \in DOMAIN s /\ i \in Nat
  OBVIOUS
<1> QED BY <1>1, <1>2 DEF FinBehind

LEMMA FinAppend ==
  ASSUME NEW s \in Seq(Alphabet), NEW n \in Nat, NEW w \in Nat, FinBehind(s, n, w), NEW f,
         f = Fin => n + Len(s) = w
  PROVE  FinBehind(Append(s, f), n, w)
BY DEF FinBehind

LEMMA KillFacts ==
  ASSUME NEW s \in Seq(Alphabet), NEW f
  PROVE  /\ HasKill(Append(s, f)) <=> HasKill(s) \/ f = Kill
         /\ s # <<>> => (HasKill(s) <=> HasKill(Tail(s)) \/ Head(s) = Kill)
         /\ ~ HasKill(<<>>)
<1>1. HasKill(Append(s, f)) <=> HasKill(s) \/ f = Kill
  <2>1. \A i \in DOMAIN Append(s, f) : i \in DOMAIN s \/ i = Len(s) + 1
    BY AppendFacts
  <2>2. \A i \in DOMAIN s : i \in DOMAIN Append(s, f)
    BY AppendFacts
  <2>3. Len(s) + 1 \in DOMAIN Append(s, f)
    BY AppendFacts
  <2> QED BY <2>1, <2>2, <2>3, AppendFacts DEF HasKill
<1>2. s # <<>> => (HasKill(s) <=> HasKill(Tail(s)) \/ Head(s) = Kill)
  <2> SUFFICES ASSUME s # <<>> PROVE HasKill(s) <=> HasKill(Tail(s)) \/ Head(s) = Kill
    OBVIOUS
  <2>1. ASSUME NEW i \in DOMAIN s, s[i] = Kill PROVE HasKill(Tail(s)) \/ Head(s) = Kill
    <3>1. CASE i = 1
      BY <2>1, <3>1, HeadAndTail
    <3>2. CASE i # 1
      <4>1. i - 1 \in DOMAIN Tail(s) /\ Tail(s)[i - 1] = Kill
        BY <2>1, <3>2, HeadAndTail
      <4> QED BY <4>1 DEF HasKill
    <3> QED BY <3>1, <3>2
  <2>2. ASSUME NEW i \in DOMAIN Tail(s), Tail(s)[i] = Kill PROVE HasKill(s)
    <3>1. i + 1 \in DOMAIN s /\ s[i + 1] = Kill
      BY <2>2, HeadAndTail
    <3> QED BY <3>1 DEF HasKill
  <2>3. Head(s) = Kill => HasKill(s)
    BY HeadAndTail DEF HasKill
  <2> QED BY <2>1, <2>2, <2>3 DEF HasKill
<1>3. ~ HasKill(<<>>)
  BY DEF HasKill
<1> QED BY <1>1, <1>2, <1>3

LEMMA MarkFacts ==
  ASSUME NEW s \in Seq(Alphabet), NEW f
  PROVE  /\ HasMark(Append(s, f)) <=> HasMark(s) \/ f \in Marks
         /\ s # <<>> => (HasMark(s) <=> HasMark(Tail(s)) \/ Head(s) \in Marks)
         /\ ~ HasMark(<<>>)
<1>1. HasMark(Append(s, f)) <=> HasMark(s) \/ f \in Marks
  <2>1. \A i \in DOMAIN Append(s, f) : i \in DOMAIN s \/ i = Len(s) + 1
    BY AppendFacts
  <2>2. \A i \in DOMAIN s : i \in DOMAIN Append(s, f)
    BY AppendFacts
  <2>3. Len(s) + 1 \in DOMAIN Append(s, f)
    BY AppendFacts
  <2> QED BY <2>1, <2>2, <2>3, AppendFacts DEF HasMark
<1>2. s # <<>> => (HasMark(s) <=> HasMark(Tail(s)) \/ Head(s) \in Marks)
  <2> SUFFICES ASSUME s # <<>> PROVE HasMark(s) <=> HasMark(Tail(s)) \/ Head(s) \in Marks
    OBVIOUS
  <2>1. ASSUME NEW i \in DOMAIN s, s[i] \in Marks PROVE HasMark(Tail(s)) \/ Head(s) \in Marks
    <3>1. CASE i = 1
      BY <2>1, <3>1, HeadAndTail
    <3>2. CASE i # 1
      <4>1. i - 1 \in DOMAIN Tail(s) /\ Tail(s)[i - 1] \in Marks
        BY <2>1, <3>2, HeadAndTail
      <4> QED BY <4>1 DEF HasMark
    <3> QED BY <3>1, <3>2
  <2>2. ASSUME NEW i \in DOMAIN Tail(s), Tail(s)[i] \in Marks PROVE HasMark(s)
    <3>1. i + 1 \in DOMAIN s /\ s[i + 1] \in Marks
      BY <2>2, HeadAndTail
    <3> QED BY <3>1 DEF HasMark
  <2>3. Head(s) \in Marks => HasMark(s)
    BY HeadAndTail DEF HasMark
  <2> QED BY <2>1, <2>2, <2>3 DEF HasMark
<1>3. ~ HasMark(<<>>)
  BY DEF HasMark
<1> QED BY <1>1, <1>2, <1>3
LEMMA UpToFacts ==
  ASSUME NEW s \in Seq(Alphabet), NEW k \in Nat, UpTo(s, k)
  PROVE  /\ UpTo(s, k + 1)
         /\ s # <<>> => UpTo(Tail(s), k) /\ UpTo(<<Head(s)>>, k)
         /\ \A f : UpTo(<<f>>, k) => UpTo(Append(s, f), k)
<1>1. UpTo(s, k + 1)
  <2>1. ASSUME NEW i \in DOMAIN s, s[i].kind = "message" PROVE s[i].n <= k + 1
    <3>1. s[i] \in Alphabet /\ s[i].n <= k
      BY <2>1 DEF UpTo
    <3>2. s[i].n \in Nat
      BY <3>1 DEF Alphabet, Frames, Message, Handshake, Kill, Fin, Reset
    <3> QED BY <3>1, <3>2
  <2> QED BY <2>1 DEF UpTo
<1>2. ASSUME s # <<>> PROVE UpTo(Tail(s), k) /\ UpTo(<<Head(s)>>, k)
  BY <1>2, HeadAndTail DEF UpTo
<1>3. ASSUME NEW f, UpTo(<<f>>, k) PROVE UpTo(Append(s, f), k)
  <2>1. f.kind = "message" => f.n <= k
    BY <1>3 DEF UpTo
  <2>2. \A i \in DOMAIN Append(s, f) : i \in DOMAIN s \/ i = Len(s) + 1
    BY AppendFacts
  <2> QED BY <2>1, <2>2, AppendFacts DEF UpTo
<1> QED BY <1>1, <1>2, <1>3

LEMMA LastFacts ==
  ASSUME NEW s \in Seq(Alphabet), NEW f
  PROVE  /\ HasLast(Append(s, f)) => HasLast(s) \/ f.kind = "s"
         /\ s # <<>> => (HasLast(Tail(s)) \/ Head(s).kind = "s" => HasLast(s))
         /\ ~ HasLast(<<>>)
<1>1. HasLast(Append(s, f)) => HasLast(s) \/ f.kind = "s"
  <2>1. \A i \in DOMAIN Append(s, f) : i \in DOMAIN s \/ i = Len(s) + 1
    BY AppendFacts
  <2> QED BY <2>1, AppendFacts DEF HasLast
<1>2. ASSUME s # <<>>, HasLast(Tail(s)) \/ Head(s).kind = "s" PROVE HasLast(s)
  <2>1. ASSUME NEW i \in DOMAIN Tail(s), Tail(s)[i].kind = "s" PROVE HasLast(s)
    <3>1. i + 1 \in DOMAIN s /\ s[i + 1].kind = "s"
      BY <1>2, <2>1, HeadAndTail
    <3> QED BY <3>1 DEF HasLast
  <2>2. Head(s).kind = "s" => HasLast(s)
    BY <1>2, HeadAndTail DEF HasLast
  <2> QED BY <1>2, <2>1, <2>2 DEF HasLast
<1>3. ~ HasLast(<<>>)
  BY DEF HasLast
<1> QED BY <1>1, <1>2, <1>3
-----------------------------------------------------------------------------
(* Types.                                                                  *)

LEMMA PeerFacts ==
  ASSUME NEW x \in Ends
  PROVE  /\ Peer(x) \in Ends /\ Peer(x) # x /\ Peer(Peer(x)) = x
         /\ \A y \in Ends : y = x \/ y = Peer(x)
BY EndsAssumption DEF Ends, Peer

LEMMA FrameFacts ==
  /\ Kill \notin Frames /\ Fin \notin Frames /\ Reset \notin Frames /\ Fin # Reset
  /\ \A n \in 1 .. MaxSent : Message(n) \in Frames
  /\ \A m \in {"e", "ee", "s"} : Handshake(m) \in Frames
  /\ \A f \in Frames : f.kind \notin {"fin", "reset"}
  /\ \A f \in Frames \cup {Kill}, n \in Nat : f = Message(n) => f.n = n /\ n \in 1 .. MaxSent
<1>1. Kill \notin Frames /\ Fin \notin Frames /\ Reset \notin Frames /\ Fin # Reset
  BY DEF Kill, Fin, Reset, Frames, Message, Handshake
<1>2. /\ \A n \in 1 .. MaxSent : Message(n) \in Frames
      /\ \A m \in {"e", "ee", "s"} : Handshake(m) \in Frames
      /\ \A f \in Frames : f.kind \notin {"fin", "reset"}
  BY DEF Frames, Message, Handshake
<1>3. ASSUME NEW f \in Frames \cup {Kill}, NEW n \in Nat, f = Message(n)
      PROVE  f.n = n /\ n \in 1 .. MaxSent
  <2>1. f.n = n /\ f.kind = "message"
    BY <1>3 DEF Message
  <2>2. PICK k \in 1 .. MaxSent : f = Message(k)
    BY <1>3, <2>1 DEF Kill, Frames, Handshake
  <2>3. f.n = k
    BY <2>2 DEF Message
  <2> QED BY <2>1, <2>2, <2>3
<1> QED BY <1>1, <1>2, <1>3

LEMMA Singles == \A S : <<>> \in Seq(S) /\ \A f \in S : <<f>> \in Seq(S)
OBVIOUS

LEMMA UnderWayType ==
  ASSUME ChannelTypeOK, NEW x \in Ends
  PROVE  UnderWay(x) \in Seq(Frames) /\ Len(UnderWay(x)) <= 1
BY DEF ChannelTypeOK, UnderWay

LEMMA ClosedWire ==
  ASSUME ChannelTypeOK, NEW x \in Ends
  PROVE  wire[x] \o UnderWay(x) \o <<Fin>> \in Seq(Frames \cup {Fin, Reset})
<1>1. UnderWay(x) \in Seq(Frames \cup {Fin, Reset})
  <2>1. CASE out[x] = <<>>
    BY <2>1, Singles DEF UnderWay
  <2>2. CASE out[x] # <<>>
    <3>1. Head(out[x]) \in Frames
      BY <2>2 DEF ChannelTypeOK
    <3> QED BY <2>2, <3>1, Singles DEF UnderWay
  <2> QED BY <2>1, <2>2
<1>2. wire[x] \in Seq(Frames \cup {Fin, Reset}) /\ <<Fin>> \in Seq(Frames \cup {Fin, Reset})
  BY DEF ChannelTypeOK
<1>3. wire[x] \o UnderWay(x) \in Seq(Frames \cup {Fin, Reset})
  BY <1>1, <1>2
<1> QED BY <1>2, <1>3

\* What the socket is closed with.
LEMMA ClosingTypes ==
  ASSUME ChannelTypeOK, NEW x \in Ends
  PROVE  /\ EndSocket(x) =>
              /\ socket' \in [Ends -> {"open", "ended", "destroyed"}]
              /\ wire' \in [Ends -> Seq(Frames \cup {Fin, Reset})]
              /\ out' \in [Ends -> Seq(Frames)] /\ cut' \subseteq Ends
         /\ \A last \in {Fin, Reset} : Destroy(x, last) =>
              /\ socket' \in [Ends -> {"open", "ended", "destroyed"}]
              /\ wire' \in [Ends -> Seq(Frames \cup {Fin, Reset})]
              /\ out' \in [Ends -> Seq(Frames)] /\ cut' \subseteq Ends
<1>1. EndSocket(x) =>
        /\ socket' \in [Ends -> {"open", "ended", "destroyed"}]
        /\ wire' \in [Ends -> Seq(Frames \cup {Fin, Reset})]
        /\ out' \in [Ends -> Seq(Frames)] /\ cut' \subseteq Ends
  <2> SUFFICES ASSUME EndSocket(x)
               PROVE  /\ socket' \in [Ends -> {"open", "ended", "destroyed"}]
                      /\ wire' \in [Ends -> Seq(Frames \cup {Fin, Reset})]
                      /\ out' \in [Ends -> Seq(Frames)] /\ cut' \subseteq Ends
    OBVIOUS
  <2>1. wire[x] \o UnderWay(x) \o <<Fin>> \in Seq(Frames \cup {Fin, Reset})
    BY ClosedWire
  <2>2. wire' \in [Ends -> Seq(Frames \cup {Fin, Reset})]
    BY <2>1 DEF EndSocket, ChannelTypeOK
  <2>3. out' \in [Ends -> Seq(Frames)]
    <3>1. [out EXCEPT ![x] = <<>>] \in [Ends -> Seq(Frames)]
      BY Singles DEF ChannelTypeOK
    <3> QED BY <3>1 DEF EndSocket, ChannelTypeOK
  <2>4. socket' \in [Ends -> {"open", "ended", "destroyed"}]
    <3>1. socket \in [Ends -> {"open", "ended", "destroyed"}]
      BY DEF ChannelTypeOK
    <3>2. socket' = [socket EXCEPT ![x] = "ended"] \/ socket' = socket
      BY DEF EndSocket
    <3> QED BY <3>1, <3>2
  <2>5. cut' \subseteq Ends
    BY DEF EndSocket, ChannelTypeOK
  <2> QED BY <2>2, <2>3, <2>4, <2>5
<1>2. ASSUME NEW last \in {Fin, Reset}, Destroy(x, last)
      PROVE  /\ socket' \in [Ends -> {"open", "ended", "destroyed"}]
             /\ wire' \in [Ends -> Seq(Frames \cup {Fin, Reset})]
             /\ out' \in [Ends -> Seq(Frames)] /\ cut' \subseteq Ends
  <2>1. Append(wire[x], last) \in Seq(Frames \cup {Fin, Reset})
    BY DEF ChannelTypeOK
  <2>2. wire' \in [Ends -> Seq(Frames \cup {Fin, Reset})]
    <3>1. [wire EXCEPT ![x] = IF socket[x] = "open" THEN Append(@, last) ELSE @]
            \in [Ends -> Seq(Frames \cup {Fin, Reset})]
      BY <2>1 DEF ChannelTypeOK
    <3>2. <<>> \in Seq(Frames \cup {Fin, Reset}) /\ Peer(x) \in Ends
      BY PeerFacts
    <3> QED BY <1>2, <3>1, <3>2 DEF Destroy
  <2>3. /\ socket' \in [Ends -> {"open", "ended", "destroyed"}]
        /\ out' \in [Ends -> Seq(Frames)] /\ cut' \subseteq Ends
    BY <1>2 DEF Destroy, ChannelTypeOK
  <2> QED BY <2>2, <2>3
<1> QED BY <1>1, <1>2

LEMMA InitType == ChannelInit => ChannelTypeOK
<1> SUFFICES ASSUME ChannelInit PROVE ChannelTypeOK
  OBVIOUS
<1>1. /\ step \in [Ends -> Steps]
      /\ end \in [Ends -> {"open", "clean", "error"}]
      /\ socket \in [Ends -> {"open", "ended", "destroyed"}]
  BY DEF ChannelInit, Steps
<1>2. /\ out \in [Ends -> Seq(Frames)] /\ wire \in [Ends -> Seq(Frames \cup {Fin, Reset})]
      /\ parsed \in [Ends -> Seq(Frames)] /\ inbound \in [Ends -> Seq(Frames \cup {Kill})]
  BY Singles DEF ChannelInit
<1>3. /\ closed \in [Ends -> BOOLEAN] /\ failed \in [Ends -> BOOLEAN]
      /\ feeding \in [Ends -> BOOLEAN]
  BY DEF ChannelInit
<1>4. sent \in [Ends -> 0 .. MaxSent] /\ cut \subseteq Ends /\ faults \in 0 .. MaxFaults
  <2>1. 0 \in 0 .. MaxSent /\ 0 \in 0 .. MaxFaults
    BY BoundsAssumption
  <2> QED BY <2>1 DEF ChannelInit
<1>5. got \in [Ends -> Seq(1 .. MaxSent)]
  BY Singles DEF ChannelInit
<1> QED BY <1>1, <1>2, <1>3, <1>4, <1>5 DEF ChannelTypeOK

LEMMA TypeStep == ChannelTypeOK /\ [ChannelNext]_channelVars => ChannelTypeOK'
<1> SUFFICES ASSUME ChannelTypeOK, [ChannelNext]_channelVars PROVE ChannelTypeOK'
  OBVIOUS
<1> USE BoundsAssumption
<1>1. CASE Dial
  <2>1. Handshake("e") \in Frames
    BY FrameFacts
  <2>2. Append(out[Initiator], Handshake("e")) \in Seq(Frames)
    BY <2>1 DEF ChannelTypeOK, Ends
  <2> QED BY <1>1, <2>2 DEF Dial, ChannelTypeOK, Push, Steps, framing, Ends
<1>2. ASSUME NEW x \in Ends, Step(x) \/ Send(x) \/ Done(x) \/ CarrierBreaks(x) PROVE ChannelTypeOK'
  <2>0. Peer(x) \in Ends
    BY PeerFacts
  <2>1. CASE Send(x)
    <3>1. sent'[x] \in 1 .. MaxSent /\ sent' \in [Ends -> 0 .. MaxSent]
      BY <2>1 DEF Send, ChannelTypeOK
    <3>2. Append(out[x], Message(sent'[x])) \in Seq(Frames)
      BY <3>1, FrameFacts DEF ChannelTypeOK
    <3> QED BY <2>1, <3>1, <3>2 DEF Send, ChannelTypeOK, Push, framing
  <2>2. CASE Done(x)
    <3>1. CASE EndSocket(x)
      BY <2>2, <3>1, ClosingTypes DEF Done, ChannelTypeOK, framing, Steps
    <3>2. CASE UNCHANGED <<socket, wire, out, cut>>
      BY <2>2, <3>2 DEF Done, ChannelTypeOK, framing, Steps
    <3> QED BY <2>2, <3>1, <3>2 DEF Done
  <2>3. CASE CarrierBreaks(x)
    <3>1. PICK n \in 0 .. Len(wire[x]), rest \in {<<>>, <<Reset>>} :
            wire' = [wire EXCEPT ![x] = SubSeq(@, 1, n) \o rest, ![Peer(x)] = <<>>]
      BY <2>3 DEF CarrierBreaks
    <3>2. SubSeq(wire[x], 1, n) \in Seq(Frames \cup {Fin, Reset})
      BY DEF ChannelTypeOK
    <3>3. SubSeq(wire[x], 1, n) \o rest \in Seq(Frames \cup {Fin, Reset})
      <4>1. rest \in Seq(Frames \cup {Fin, Reset})
        BY Singles
      <4> QED BY <3>2, <4>1
    <3>4. wire' \in [Ends -> Seq(Frames \cup {Fin, Reset})]
      <4>1. [wire EXCEPT ![x] = SubSeq(@, 1, n) \o rest] \in [Ends -> Seq(Frames \cup {Fin, Reset})]
        BY <3>3 DEF ChannelTypeOK
      <4>2. <<>> \in Seq(Frames \cup {Fin, Reset})
        OBVIOUS
      <4> QED BY <3>1, <4>1, <4>2, <2>0
    <3>5. out' \in [Ends -> Seq(Frames)]
      BY <2>3 DEF CarrierBreaks, ChannelTypeOK
    <3>6. /\ closed' \in [Ends -> BOOLEAN] /\ failed' \in [Ends -> BOOLEAN]
          /\ socket' \in [Ends -> {"open", "ended", "destroyed"}] /\ cut' \subseteq Ends
          /\ faults' \in 0 .. MaxFaults
      BY <2>3 DEF CarrierBreaks, Fail, ChannelTypeOK
    <3> QED BY <2>3, <3>4, <3>5, <3>6 DEF CarrierBreaks, ChannelTypeOK, session
  <2>4. CASE Flush(x)
    <3>1. Head(out[x]) \in Frames /\ Tail(out[x]) \in Seq(Frames)
      BY <2>4 DEF Flush, ChannelTypeOK
    <3>2. Append(wire[x], Head(out[x])) \in Seq(Frames \cup {Fin, Reset})
      BY <3>1 DEF ChannelTypeOK
    <3> QED BY <2>4, <3>1, <3>2 DEF Flush, ChannelTypeOK, session, framing
  <2>5. CASE Arrive(x)
    <3>0. Head(wire[Peer(x)]) \in Frames /\ Tail(wire[Peer(x)]) \in Seq(Frames \cup {Fin, Reset})
      <4>1. Head(wire[Peer(x)]) \in Frames \cup {Fin, Reset}
        BY <2>5, <2>0 DEF Arrive, ChannelTypeOK
      <4>2. Head(wire[Peer(x)]) \notin {Fin, Reset}
        BY <2>5 DEF Arrive, Fin, Reset
      <4> QED BY <4>1, <4>2, <2>0, <2>5 DEF Arrive, ChannelTypeOK
    <3>1. CASE TooLong(Peer(x), Head(wire[Peer(x)]))
      BY <2>5, <3>1, ClosingTypes DEF Arrive, ChannelTypeOK, session
    <3>2. CASE ~ TooLong(Peer(x), Head(wire[Peer(x)]))
      <4>1. Append(parsed[x], Head(wire[Peer(x)])) \in Seq(Frames)
        BY <3>0 DEF ChannelTypeOK
      <4> QED BY <2>5, <3>2, <3>0, <4>1, <2>0 DEF Arrive, ChannelTypeOK, session
    <3> QED BY <3>1, <3>2
  <2>6. CASE ArriveFin(x)
    <3>1. wire[x] \o UnderWay(x) \o <<Fin>> \in Seq(Frames \cup {Fin, Reset})
      BY ClosedWire
    <3>2. wire' \in [Ends -> Seq(Frames \cup {Fin, Reset})]
      <4>1. <<>> \in Seq(Frames \cup {Fin, Reset})
        OBVIOUS
      <4>2. [wire EXCEPT ![Peer(x)] = <<>>] \in [Ends -> Seq(Frames \cup {Fin, Reset})]
        BY <4>1 DEF ChannelTypeOK
      <4>3. [wire EXCEPT ![Peer(x)] = <<>>, ![x] = @ \o UnderWay(x) \o <<Fin>>]
              \in [Ends -> Seq(Frames \cup {Fin, Reset})]
        BY <3>1, <4>1, <4>2, PeerFacts DEF ChannelTypeOK
      <4> QED BY <2>6, <4>2, <4>3 DEF ArriveFin
    <3>3. out' \in [Ends -> Seq(Frames)]
      <4>1. [out EXCEPT ![x] = <<>>] \in [Ends -> Seq(Frames)]
        BY Singles DEF ChannelTypeOK
      <4> QED BY <2>6, <4>1 DEF ArriveFin, ChannelTypeOK
    <3>4. closed' \in [Ends -> BOOLEAN] /\ socket' \in [Ends -> {"open", "ended", "destroyed"}]
      BY <2>6 DEF ArriveFin, ChannelTypeOK
    <3> QED BY <2>6, <3>2, <3>3, <3>4 DEF ArriveFin, ChannelTypeOK, session
  <2>7. CASE ArriveReset(x)
    BY <2>7, ClosingTypes DEF ArriveReset, Fail, ChannelTypeOK, session
  <2>8. CASE Close(x)
    BY <2>8 DEF Close, ChannelTypeOK, session
  <2>9. CASE Feed(x)
    <3>1. CASE parsed[x] # <<>>
      <4>1. Head(parsed[x]) \in Frames /\ Tail(parsed[x]) \in Seq(Frames)
        BY <3>1 DEF ChannelTypeOK
      <4>2. Append(inbound[x], Head(parsed[x])) \in Seq(Frames \cup {Kill})
        BY <4>1 DEF ChannelTypeOK
      <4>3. /\ parsed' = [parsed EXCEPT ![x] = Tail(@)]
            /\ inbound' = [inbound EXCEPT ![x] = Append(@, Head(parsed[x]))]
            /\ UNCHANGED feeding
        BY <2>9, <3>1 DEF Feed
      <4>4. parsed' \in [Ends -> Seq(Frames)]
        BY <4>1, <4>3 DEF ChannelTypeOK
      <4>5. inbound' \in [Ends -> Seq(Frames \cup {Kill})]
        BY <4>2, <4>3 DEF ChannelTypeOK
      <4> QED BY <2>9, <4>3, <4>4, <4>5 DEF Feed, ChannelTypeOK, session
    <3>2. CASE parsed[x] = <<>>
      <4>1. Append(inbound[x], Kill) \in Seq(Frames \cup {Kill})
        BY DEF ChannelTypeOK
      <4>2. /\ feeding' = [feeding EXCEPT ![x] = FALSE]
            /\ inbound' = IF failed[x] THEN [inbound EXCEPT ![x] = Append(@, Kill)]
                          ELSE inbound
            /\ UNCHANGED parsed
        BY <2>9, <3>2 DEF Feed
      <4>3. inbound' \in [Ends -> Seq(Frames \cup {Kill})]
        BY <4>1, <4>2 DEF ChannelTypeOK
      <4>4. feeding' \in [Ends -> BOOLEAN]
        BY <4>2 DEF ChannelTypeOK
      <4>5. UNCHANGED <<session, out, socket, wire, closed, failed, parsed, cut, faults>>
        BY <2>9, <4>2 DEF Feed
      <4> QED BY <4>3, <4>4, <4>5 DEF ChannelTypeOK, session
    <3> QED BY <3>1, <3>2
  <2>10. CASE Shake(x)
    <3>1. Tail(inbound[x]) \in Seq(Frames \cup {Kill})
      <4>1. inbound[x] \in Seq(Frames \cup {Kill}) /\ inbound[x] # <<>>
        BY <2>10 DEF Shake, ChannelTypeOK
      <4> QED BY <4>1
    <3>2. \A m \in {"ee", "s"} : Append(out[x], Handshake(m)) \in Seq(Frames)
      BY FrameFacts DEF ChannelTypeOK
    <3>3. out' \in [Ends -> Seq(Frames)]
      BY <2>10, <3>2 DEF Shake, Push, ChannelTypeOK
    <3> QED BY <2>10, <3>1, <3>3 DEF Shake, ChannelTypeOK, framing, Steps
  <2>11. CASE ShakeFails(x)
    <3>1. step' \in [Ends -> Steps]
      BY <2>11 DEF ShakeFails, ChannelTypeOK, Steps
    <3> QED BY <2>11, <3>1, ClosingTypes DEF ShakeFails, ChannelTypeOK, framing
  <2>12. CASE Receive(x)
    <3>1. Tail(inbound[x]) \in Seq(Frames \cup {Kill}) /\ Head(inbound[x]) \in Frames \cup {Kill}
      BY <2>12 DEF Receive, ChannelTypeOK
    <3>2. Len(got[x]) + 1 \in Nat
      BY DEF ChannelTypeOK
    <3>3. Head(inbound[x]).n \in 1 .. MaxSent
      BY <2>12, <3>1, <3>2, FrameFacts DEF Receive
    <3>4. Append(got[x], Head(inbound[x]).n) \in Seq(1 .. MaxSent)
      BY <3>3 DEF ChannelTypeOK
    <3> QED BY <2>12, <3>1, <3>4 DEF Receive, ChannelTypeOK, framing
  <2>13. CASE ReceiveDies(x) \/ ReceiveEnd(x)
    BY <2>13 DEF ReceiveDies, ReceiveEnd, ChannelTypeOK, framing
  <2>14. CASE FlushTimer(x)
    BY <2>14, ClosingTypes DEF FlushTimer, ChannelTypeOK, framing, session
  <2> QED BY <1>2, <2>1, <2>2, <2>3, <2>4, <2>5, <2>6, <2>7, <2>8, <2>9, <2>10, <2>11, <2>12,
             <2>13, <2>14 DEF Step
<1>3. CASE UNCHANGED channelVars
  BY <1>3 DEF channelVars, session, framing, ChannelTypeOK
<1> QED BY <1>1, <1>2, <1>3 DEF ChannelNext

-----------------------------------------------------------------------------
(* The invariant.                                                          *)

\* The frames that x has handed over, and those of its peer that y has taken.
Written(x) ==
  CASE step[x] \in {"dial", "wait e"} -> 0
    [] step[x] \in {"up", "over"} -> Shaken(x) + sent[x]
    [] OTHER -> 1

Taken(y) ==
  CASE step[y] \in {"dial", "wait ee", "wait e"} -> 0
    [] step[y] = "wait s" -> 1
    [] OTHER -> Shaken(Peer(y)) + Len(got[y])

\* y takes no more frames, or the error is on its way to it.
Deaf(y) ==
  step[y] \in {"over", "down"} \/ (failed[y] /\ feeding[y]) \/ HasKill(inbound[y])

Read(y) == Taken(y) + Len(inbound[y]) + Len(parsed[y])

\* The handshake has two ends, and nothing is exchanged before it is done.
RolesFine(x) ==
  /\ x = Initiator => step[x] \in {"dial", "wait ee", "up", "over", "down"}
  /\ x = Responder => step[x] \in {"wait e", "wait s", "up", "over", "down"}
  /\ step[x] \notin {"up", "over"} => sent[x] = 0 /\ got[x] = <<>>

\* How far a socket is closed, and why.
SocketFine(x) ==
  /\ socket[x] # "open" => out[x] = <<>> /\ (Deaf(x) \/ Deaf(Peer(x)))
  /\ failed[x] => socket[x] = "destroyed"
  /\ socket[x] = "destroyed" => failed[x] \/ step[x] = "down"
  /\ closed[x] => socket[x] # "open"
  /\ ~ feeding[x] => closed[x] /\ parsed[x] = <<>>
  /\ HasKill(inbound[x]) => failed[x]
  /\ HasMark(wire[x]) => socket[x] # "open"

\* An end that is not deaf closes after its peer, which left by itself.
AliveFine(y) ==
  ~ Deaf(y) =>
    /\ socket[y] # "open" => closed[y]
    /\ closed[y] => socket[Peer(y)] # "open"
    /\ socket[Peer(y)] = "ended" => step[Peer(y)] = "over"

\* What y has still to take comes in order, without a gap.
OrderFine(y) ==
  ~ Deaf(y) =>
    /\ Numbered(Peer(y), inbound[y], Taken(y))
    /\ Numbered(Peer(y), parsed[y], Taken(y) + Len(inbound[y]))
    /\ ~ closed[y] => /\ Carries(Peer(y), wire[Peer(y)], Read(y))
                      /\ Numbered(Peer(y), out[Peer(y)], Read(y) + Len(wire[Peer(y)]))

\* Nothing of it is missing, and the FIN stands behind all of it, unless the
\* peer threw some away.
Complete(y) ==
  ~ Deaf(y) =>
    /\ socket[Peer(y)] = "open" =>
         Read(y) + Len(wire[Peer(y)]) + Len(out[Peer(y)]) = Written(Peer(y))
    /\ ~ closed[y] /\ Peer(y) \notin cut /\ sent[Peer(y)] > 0 =>
         FinBehind(wire[Peer(y)], Read(y), Written(Peer(y)))
    /\ closed[y] /\ Peer(y) \notin cut /\ sent[Peer(y)] > 0 => Read(y) = Written(Peer(y))

\* No message comes from nowhere, and the last word of the handshake comes from
\* an initiator that is through with it.
OriginsFine(x) ==
  /\ UpTo(out[x], sent[x]) /\ UpTo(wire[x], sent[x])
  /\ UpTo(parsed[Peer(x)], sent[x]) /\ UpTo(inbound[Peer(x)], sent[x])
  /\ Len(got[Peer(x)]) <= sent[x]
  /\ HasLast(out[x]) \/ HasLast(wire[x]) \/ HasLast(parsed[x]) \/ HasLast(inbound[x]) =>
       step[Initiator] \in {"up", "over"}

StreamFine(y) == AliveFine(y) /\ OrderFine(y) /\ Complete(y)
EndFine(x) == RolesFine(x) /\ SocketFine(x) /\ OriginsFine(x)
ChannelInv == ChannelTypeOK /\ \A x \in Ends : EndFine(x) /\ StreamFine(x)

\* The values an invariant of x and its peer is about.
LEMMA Values ==
  ASSUME ChannelTypeOK, NEW x \in Ends
  PROVE  /\ out[x] \in Seq(Alphabet) /\ wire[x] \in Seq(Alphabet)
         /\ parsed[x] \in Seq(Alphabet) /\ inbound[x] \in Seq(Alphabet)
         /\ sent[x] \in Nat /\ Len(got[x]) \in Nat /\ step[x] \in Steps
         /\ Taken(x) \in Nat /\ Read(x) \in Nat /\ Written(x) \in Nat
         /\ Len(inbound[x]) \in Nat /\ Len(parsed[x]) \in Nat
         /\ Len(wire[x]) \in Nat /\ Len(out[x]) \in Nat
         /\ Shaken(x) \in {1, 2}
<1>1. /\ out[x] \in Seq(Frames) /\ wire[x] \in Seq(Frames \cup {Fin, Reset})
      /\ parsed[x] \in Seq(Frames) /\ inbound[x] \in Seq(Frames \cup {Kill})
      /\ got[x] \in Seq(1 .. MaxSent) /\ sent[x] \in 0 .. MaxSent /\ step[x] \in Steps
  BY DEF ChannelTypeOK
<1>2. /\ out[x] \in Seq(Alphabet) /\ wire[x] \in Seq(Alphabet)
      /\ parsed[x] \in Seq(Alphabet) /\ inbound[x] \in Seq(Alphabet)
  BY <1>1 DEF Alphabet
<1>3. sent[x] \in Nat /\ Len(got[x]) \in Nat
  BY <1>1, BoundsAssumption
<1>4. Shaken(x) \in {1, 2} /\ Shaken(Peer(x)) \in {1, 2}
  BY DEF Shaken
<1>5. Taken(x) \in Nat /\ Written(x) \in Nat
  <2>1. Shaken(Peer(x)) + Len(got[x]) \in Nat /\ Shaken(x) + sent[x] \in Nat
    BY <1>3, <1>4
  <2>2. CASE step[x] \in {"dial", "wait e"}
    BY <2>2 DEF Taken, Written
  <2>3. CASE step[x] = "wait ee" \/ step[x] = "wait s"
    BY <2>3 DEF Taken, Written
  <2>4. CASE step[x] \in {"up", "over", "down"}
    BY <2>1, <2>4 DEF Taken, Written
  <2> QED BY <1>1, <2>2, <2>3, <2>4 DEF Steps
<1>6. /\ Len(inbound[x]) \in Nat /\ Len(parsed[x]) \in Nat
      /\ Len(wire[x]) \in Nat /\ Len(out[x]) \in Nat
  BY <1>2
<1> QED BY <1>1, <1>2, <1>3, <1>4, <1>5, <1>6 DEF Read

LEMMA KillAppend ==
  ASSUME NEW s \in Seq(Alphabet), NEW f
  PROVE  HasKill(Append(s, f)) <=> HasKill(s) \/ f = Kill
BY KillFacts

LEMMA KillTail ==
  ASSUME NEW s \in Seq(Alphabet), s # <<>>, Head(s) # Kill
  PROVE  HasKill(Tail(s)) <=> HasKill(s)
<1>1. HasKill(s) <=> HasKill(Tail(s)) \/ Head(s) = Kill
  BY KillFacts
<1> QED BY <1>1

LEMMA UpToAppend ==
  ASSUME NEW s \in Seq(Alphabet), NEW k \in Nat, UpTo(s, k), NEW f, UpTo(<<f>>, k)
  PROVE  UpTo(Append(s, f), k)
BY UpToFacts

LEMMA UpToTail ==
  ASSUME NEW s \in Seq(Alphabet), s # <<>>, NEW k \in Nat, UpTo(s, k)
  PROVE  UpTo(Tail(s), k) /\ UpTo(<<Head(s)>>, k)
BY UpToFacts

LEMMA LastTail ==
  ASSUME NEW s \in Seq(Alphabet), s # <<>>, HasLast(Tail(s)) \/ Head(s).kind = "s"
  PROVE  HasLast(s)
BY LastFacts

\* The counts of an end whose handshake has succeeded.
LEMMA CountsUp ==
  ASSUME NEW x, step[x] \in {"up", "over"}
  PROVE  Written(x) = Shaken(x) + sent[x] /\ Taken(x) = Shaken(Peer(x)) + Len(got[x])
BY DEF Written, Taken

LEMMA EmptyFacts ==
  ASSUME NEW x, NEW n, NEW k
  PROVE  /\ Numbered(x, <<>>, n) /\ Carries(x, <<>>, n) /\ FinBehind(<<>>, n, k)
         /\ UpTo(<<>>, k) /\ ~ HasKill(<<>>) /\ ~ HasMark(<<>>) /\ ~ HasLast(<<>>)
BY DEF Numbered, Carries, FinBehind, UpTo, HasKill, HasMark, HasLast

LEMMA Unmarked ==
  ASSUME NEW s, NEW n, NEW w, ~ HasMark(s)
  PROVE  FinBehind(s, n, w)
BY DEF HasMark, FinBehind, Marks

LEMMA UpToOne ==
  ASSUME NEW f, NEW k
  PROVE  /\ f.kind # "message" => UpTo(<<f>>, k)
         /\ UpTo(<<f>>, k) <=> (f.kind = "message" => f.n <= k)
BY DEF UpTo

LEMMA DeafSame ==
  ASSUME NEW x, UNCHANGED <<step, failed, feeding, inbound>>
  PROVE  Deaf(x)' <=> Deaf(x)
BY DEF Deaf

LEMMA Parts ==
  ASSUME ChannelInv, NEW z \in Ends
  PROVE  /\ ChannelTypeOK
         /\ RolesFine(z) /\ SocketFine(z) /\ OriginsFine(z)
         /\ AliveFine(z) /\ OrderFine(z) /\ Complete(z)
BY DEF ChannelInv, EndFine, StreamFine

LEMMA FlushKeeps ==
  ASSUME ChannelInv, ChannelTypeOK', NEW z \in Ends, Flush(z)
  PROVE  ChannelInv'
<1> DEFINE p == Peer(z)
<1>0. /\ p \in Ends /\ p # z /\ Peer(p) = z /\ \A y \in Ends : y = z \/ y = p
  BY PeerFacts
<1>1. /\ socket[z] = "open" /\ out[z] # <<>>
      /\ wire'[z] = Append(wire[z], Head(out[z])) /\ wire'[p] = wire[p]
      /\ out'[z] = Tail(out[z]) /\ out'[p] = out[p]
      /\ UNCHANGED <<step, end, sent, got, socket, closed, failed, parsed, inbound, feeding, cut>>
  BY <1>0, Parts DEF Flush, ChannelTypeOK, session, framing
<1>2. EndFine(z) /\ EndFine(p) /\ StreamFine(z) /\ StreamFine(p) /\ ChannelTypeOK
  BY <1>0 DEF ChannelInv
<1>3. StreamFine(z)'
  BY <1>0, <1>1, <1>2 DEF StreamFine, AliveFine, OrderFine, Complete, Deaf, Taken, Read, Written
<1>4. EndFine(p)'
  BY <1>0, <1>1, <1>2 DEF EndFine, RolesFine, SocketFine, OriginsFine, Deaf
<1>5. /\ out[z] \in Seq(Alphabet) /\ wire[z] \in Seq(Alphabet) /\ sent[z] \in Nat
      /\ Read(p) \in Nat /\ Len(wire[z]) \in Nat /\ Written(z) \in Nat /\ Len(out[z]) \in Nat
  BY <1>0, <1>2, Values
<1>6. Head(out[z]) \in Frames /\ Head(out[z]) \notin Marks
  <2>1. Head(out[z]) \in Frames
    BY <1>1, <1>2 DEF ChannelTypeOK
  <2> QED BY <2>1, FrameFacts DEF Marks
<1>7. EndFine(z)'
  <2>1. RolesFine(z)'
    BY <1>1, <1>2 DEF EndFine, RolesFine
  <2>2. ~ HasMark(wire'[z])
    BY <1>1, <1>2, <1>5, <1>6, MarkFacts DEF EndFine, SocketFine
  <2>3. SocketFine(z)'
    BY <1>0, <1>1, <1>2, <2>2 DEF EndFine, SocketFine, Deaf
  <2>4. UpTo(out'[z], sent[z]) /\ UpTo(wire'[z], sent[z])
    <3>1. UpTo(out[z], sent[z]) /\ UpTo(wire[z], sent[z])
      BY <1>2 DEF EndFine, OriginsFine
    <3>2. UpTo(Tail(out[z]), sent[z]) /\ UpTo(<<Head(out[z])>>, sent[z])
      BY <1>1, <1>5, <3>1, UpToFacts
    <3>3. UpTo(Append(wire[z], Head(out[z])), sent[z])
      BY <1>5, <3>1, <3>2, UpToFacts
    <3> QED BY <1>1, <3>2, <3>3
  <2>5. HasLast(out'[z]) \/ HasLast(wire'[z]) => HasLast(out[z]) \/ HasLast(wire[z])
    BY <1>1, <1>5, LastFacts
  <2>6. OriginsFine(z)'
    BY <1>0, <1>1, <1>2, <2>4, <2>5 DEF EndFine, OriginsFine
  <2> QED BY <2>1, <2>3, <2>6 DEF EndFine
<1>8. StreamFine(p)'
  <2> SUFFICES ASSUME ~ Deaf(p)
               PROVE  AliveFine(p)' /\ OrderFine(p)' /\ Complete(p)'
    BY <1>1, DeafSame DEF StreamFine, AliveFine, OrderFine, Complete
  <2>1. AliveFine(p)' /\ ~ closed[p]
    BY <1>0, <1>1, <1>2 DEF StreamFine, AliveFine, Deaf
  <2> DEFINE n == Read(p) + Len(wire[z])
  <2>2. Numbered(z, out[z], n) /\ Carries(z, wire[z], Read(p)) /\ n \in Nat
    BY <1>0, <1>2, <1>5, <2>1 DEF StreamFine, OrderFine
  <2>3. Head(out[z]) = Frame(z, n + 1) /\ Numbered(z, out'[z], n + 1)
    BY <1>1, <1>5, <2>2, NumberedTail
  <2>4. Carries(z, wire'[z], Read(p))
    BY <1>1, <1>5, <2>2, <2>3, CarriesAppend
  <2>5. Read(p)' = Read(p) /\ Written(z)' = Written(z) /\ Taken(p)' = Taken(p)
    BY <1>1 DEF Read, Taken, Written
  <2>6. Len(wire'[z]) = Len(wire[z]) + 1 /\ Len(out'[z]) = Len(out[z]) - 1
    BY <1>1, <1>5, AppendFacts, HeadAndTail
  <2>7. Read(p) + Len(wire'[z]) = n + 1
    BY <1>5, <2>6
  <2>8. OrderFine(p)'
    BY <1>0, <1>1, <1>2, <2>3, <2>4, <2>5, <2>7 DEF StreamFine, OrderFine, Deaf
  <2>9. FinBehind(wire'[z], Read(p), Written(z))
    <3>1. ~ HasMark(wire'[z])
      BY <1>1, <1>2, <1>5, <1>6, MarkFacts DEF EndFine, SocketFine
    <3> QED BY <3>1, Unmarked
  <2>10. Read(p) + Len(wire'[z]) + Len(out'[z]) = Written(z)
    BY <1>0, <1>1, <1>2, <1>5, <2>6 DEF StreamFine, Complete
  <2>11. Complete(p)'
    BY <1>0, <1>1, <2>1, <2>5, <2>9, <2>10 DEF Complete
  <2> QED BY <2>1, <2>8, <2>11
<1> QED BY <1>0, <1>3, <1>4, <1>7, <1>8 DEF ChannelInv

LEMMA SendKeeps ==
  ASSUME ChannelInv, ChannelTypeOK', NEW z \in Ends, Send(z)
  PROVE  ChannelInv'
<1> DEFINE p == Peer(z)
<1>0. /\ p \in Ends /\ p # z /\ Peer(p) = z /\ \A y \in Ends : y = z \/ y = p
  BY PeerFacts
<1>1. /\ step[z] = "up" /\ sent'[z] = sent[z] + 1 /\ sent'[p] = sent[p]
      /\ socket[z] = "open" => out'[z] = Append(out[z], Message(sent[z] + 1))
      /\ socket[z] # "open" => out'[z] = out[z]
      /\ out'[p] = out[p]
      /\ cut' = IF socket[z] = "destroyed" THEN cut \cup {z} ELSE cut
      /\ UNCHANGED <<step, end, got, socket, wire, closed, failed, parsed, inbound, feeding>>
  <2>1. /\ step[z] = "up" /\ sent' = [sent EXCEPT ![z] = @ + 1]
        /\ IF socket[z] = "open" THEN out' = [out EXCEPT ![z] = Append(@, Message(sent'[z]))]
           ELSE out' = out
        /\ cut' = IF socket[z] = "destroyed" THEN cut \cup {z} ELSE cut
        /\ UNCHANGED <<step, end, got, socket, wire, closed, failed, parsed, inbound, feeding>>
    BY DEF Send, Push, framing
  <2>2. sent \in [Ends -> 0 .. MaxSent] /\ out \in [Ends -> Seq(Frames)]
    BY Parts DEF ChannelTypeOK
  <2>3. sent'[z] = sent[z] + 1 /\ sent'[p] = sent[p]
    BY <1>0, <2>1, <2>2
  <2>4. out'[p] = out[p] /\ (socket[z] # "open" => out'[z] = out[z])
    BY <1>0, <2>1, <2>2
  <2>5. socket[z] = "open" => out'[z] = Append(out[z], Message(sent[z] + 1))
    BY <2>1, <2>2, <2>3
  <2> QED BY <2>1, <2>3, <2>4, <2>5
<1>2. EndFine(z) /\ EndFine(p) /\ StreamFine(z) /\ StreamFine(p) /\ ChannelTypeOK
  BY <1>0 DEF ChannelInv
<1>3. StreamFine(z)'
  BY <1>0, <1>1, <1>2 DEF StreamFine, AliveFine, OrderFine, Complete, Deaf, Taken, Read, Written
<1>4. EndFine(p)'
  BY <1>0, <1>1, <1>2 DEF EndFine, RolesFine, SocketFine, OriginsFine, Deaf
<1>5. /\ out[z] \in Seq(Alphabet) /\ wire[z] \in Seq(Alphabet) /\ sent[z] \in Nat
      /\ parsed[p] \in Seq(Alphabet) /\ inbound[p] \in Seq(Alphabet)
      /\ Read(p) \in Nat /\ Len(wire[z]) \in Nat /\ Written(z) \in Nat /\ Len(out[z]) \in Nat
      /\ Shaken(z) \in {1, 2}
  BY <1>0, <1>2, Values
<1> DEFINE f == Message(sent[z] + 1)
<1>6. f.kind = "message" /\ f.n = sent[z] + 1
  BY DEF Message
<1>7. EndFine(z)'
  <2>1. RolesFine(z)' /\ SocketFine(z)'
    BY <1>0, <1>1, <1>2 DEF EndFine, RolesFine, SocketFine, Deaf
  <2>2. /\ UpTo(out[z], sent[z] + 1) /\ UpTo(wire[z], sent[z] + 1)
        /\ UpTo(parsed[p], sent[z] + 1) /\ UpTo(inbound[p], sent[z] + 1)
    BY <1>2, <1>5, UpToFacts DEF EndFine, OriginsFine
  <2>3. UpTo(<<f>>, sent[z] + 1)
    BY <1>5, <1>6, UpToOne
  <2>4. UpTo(Append(out[z], f), sent[z] + 1)
    <3>1. sent[z] + 1 \in Nat
      BY <1>5
    <3> QED BY <1>5, <2>2, <2>3, <3>1, UpToFacts
  <2>5. HasLast(out'[z]) => HasLast(out[z])
    BY <1>1, <1>5, <1>6, LastFacts
  <2>6. Len(got[p]) <= sent[z] + 1
    <3>1. Len(got[p]) \in Nat /\ Len(got[p]) <= sent[z]
      BY <1>0, <1>2, Values DEF EndFine, OriginsFine
    <3> QED BY <1>5, <3>1
  <2>7. OriginsFine(z)'
    BY <1>0, <1>1, <1>2, <2>2, <2>4, <2>5, <2>6 DEF EndFine, OriginsFine
  <2> QED BY <2>1, <2>7 DEF EndFine
<1>8. StreamFine(p)'
  <2> SUFFICES ASSUME ~ Deaf(p)
               PROVE  AliveFine(p)' /\ OrderFine(p)' /\ Complete(p)'
    BY <1>1, DeafSame DEF StreamFine, AliveFine, OrderFine, Complete
  <2>1. AliveFine(p)' /\ socket[z] # "ended"
    BY <1>0, <1>1, <1>2 DEF StreamFine, AliveFine, Deaf
  <2>2. Read(p)' = Read(p) /\ Taken(p)' = Taken(p) /\ Written(z)' = Written(z) + 1
    <3>1. Read(p)' = Read(p) /\ Taken(p)' = Taken(p)
      BY <1>1 DEF Read, Taken
    <3>2. Written(z) = Shaken(z) + sent[z] /\ Written(z)' = Shaken(z) + sent'[z]
      BY <1>1 DEF Written
    <3>3. Shaken(z) + (sent[z] + 1) = (Shaken(z) + sent[z]) + 1
      BY <1>5
    <3> QED BY <1>1, <3>1, <3>2, <3>3
  <2>3. CASE socket[z] = "open"
    <3>1. ~ closed[p] /\ ~ HasMark(wire[z])
      BY <1>0, <1>2, <2>3 DEF StreamFine, AliveFine, EndFine, SocketFine
    <3> DEFINE n == Read(p) + Len(wire[z])
    <3>2. Numbered(z, out[z], n) /\ Carries(z, wire[z], Read(p)) /\ n \in Nat
      BY <1>0, <1>2, <1>5, <3>1 DEF StreamFine, OrderFine
    <3>3. n + Len(out[z]) = Written(z) /\ Written(z) = Shaken(z) + sent[z]
      BY <1>0, <1>1, <1>2, <2>3 DEF StreamFine, Complete, Written
    <3>4. f = Frame(z, n + Len(out[z]) + 1)
      <4>1. n + Len(out[z]) + 1 = Shaken(z) + (sent[z] + 1)
        <5>1. n + Len(out[z]) = Shaken(z) + sent[z]
          BY <3>3
        <5>2. \A i, j \in Nat : (i + j) + 1 = i + (j + 1)
          OBVIOUS
        <5>3. Shaken(z) \in Nat /\ sent[z] \in Nat
          BY <1>5
        <5> QED BY <5>1, <5>2, <5>3
      <4>2. Shaken(z) + (sent[z] + 1) \in Nat /\ Shaken(z) + (sent[z] + 1) > Shaken(z)
        BY <1>5
      <4>3. (Shaken(z) + (sent[z] + 1)) - Shaken(z) = sent[z] + 1
        BY <1>5
      <4>4. Frame(z, Shaken(z) + (sent[z] + 1)) = Message((Shaken(z) + (sent[z] + 1)) - Shaken(z))
        BY <1>5, <4>2, FrameKinds
      <4> QED BY <4>1, <4>3, <4>4
    <3>5. Numbered(z, out'[z], n)
      BY <1>1, <1>5, <2>3, <3>2, <3>4, NumberedAppend
    <3>6. OrderFine(p)'
      BY <1>0, <1>1, <1>2, <2>2, <3>2, <3>5 DEF StreamFine, OrderFine, Deaf
    <3>7. Len(out'[z]) = Len(out[z]) + 1
      BY <1>1, <1>5, <2>3, AppendFacts
    <3>8. n + Len(out'[z]) = Written(z) + 1
      <4>1. n \in Nat /\ Len(out[z]) \in Nat
        BY <1>5, <3>2
      <4>2. n + (Len(out[z]) + 1) = (n + Len(out[z])) + 1
        BY <4>1
      <4> QED BY <3>3, <3>7, <4>2
    <3>9. FinBehind(wire[z], Read(p), Written(z) + 1)
      BY <3>1, Unmarked
    <3>10. Complete(p)'
      BY <1>0, <1>1, <2>2, <3>1, <3>8, <3>9 DEF Complete
    <3> QED BY <2>1, <3>6, <3>10
  <2>4. CASE socket[z] = "destroyed"
    <3>1. OrderFine(p)'
      BY <1>0, <1>1, <1>2, <2>2, <2>4 DEF StreamFine, OrderFine, Deaf
    <3>2. Complete(p)'
      BY <1>0, <1>1, <2>4 DEF Complete
    <3> QED BY <2>1, <3>1, <3>2
  <2> QED BY <1>0, <1>2, <2>1, <2>3, <2>4 DEF ChannelTypeOK
<1> QED BY <1>0, <1>3, <1>4, <1>7, <1>8 DEF ChannelInv

\* A frame that moves on is counted where it comes to be.
LEMMA MoveOne ==
  \A i, j, k \in Nat : /\ i + (j + 1) = (i + j) + 1
                       /\ (i + (j + 1)) + (k - 1) = (i + j) + k
OBVIOUS

LEMMA FeedKeeps ==
  ASSUME ChannelInv, ChannelTypeOK', NEW z \in Ends, Feed(z)
  PROVE  ChannelInv'
<1> DEFINE p == Peer(z)
<1>0. /\ p \in Ends /\ p # z /\ Peer(p) = z /\ \A y \in Ends : y = z \/ y = p
  BY PeerFacts
<1>1. /\ feeding[z] /\ inbound'[p] = inbound[p] /\ parsed'[p] = parsed[p] /\ feeding'[p] = feeding[p]
      /\ UNCHANGED <<step, end, sent, got, out, socket, wire, closed, failed, cut>>
  <2>1. /\ feeding[z]
        /\ UNCHANGED <<step, end, sent, got, out, socket, wire, closed, failed, cut>>
    BY DEF Feed, session
  <2>2. inbound'[p] = inbound[p] /\ parsed'[p] = parsed[p] /\ feeding'[p] = feeding[p]
    <3>1. /\ inbound \in [Ends -> Seq(Frames \cup {Kill})] /\ parsed \in [Ends -> Seq(Frames)]
          /\ feeding \in [Ends -> BOOLEAN]
      BY Parts DEF ChannelTypeOK
    <3>2. \/ inbound' = inbound
          \/ inbound' = [inbound EXCEPT ![z] = Append(@, Head(parsed[z]))]
          \/ inbound' = [inbound EXCEPT ![z] = Append(@, Kill)]
      BY DEF Feed
    <3>3. inbound'[p] = inbound[p]
      BY <1>0, <3>1, <3>2
    <3>4. parsed' = parsed \/ parsed' = [parsed EXCEPT ![z] = Tail(@)]
      BY DEF Feed
    <3>5. feeding' = feeding \/ feeding' = [feeding EXCEPT ![z] = FALSE]
      BY DEF Feed
    <3>6. parsed'[p] = parsed[p] /\ feeding'[p] = feeding[p]
      BY <1>0, <3>1, <3>4, <3>5
    <3> QED BY <3>3, <3>6
  <2> QED BY <2>1, <2>2
<1>2. EndFine(z) /\ EndFine(p) /\ StreamFine(z) /\ StreamFine(p) /\ ChannelTypeOK
  BY <1>0 DEF ChannelInv
<1>3. StreamFine(p)'
  BY <1>0, <1>1, <1>2 DEF StreamFine, AliveFine, OrderFine, Complete, Deaf, Taken, Read, Written
<1>4. /\ parsed[z] \in Seq(Alphabet) /\ inbound[z] \in Seq(Alphabet) /\ sent[p] \in Nat
      /\ Taken(z) \in Nat /\ Len(inbound[z]) \in Nat /\ Len(parsed[z]) \in Nat
  BY <1>0, <1>2, Values
<1>5. CASE parsed[z] # <<>>
  <2>1. /\ inbound'[z] = Append(inbound[z], Head(parsed[z])) /\ parsed'[z] = Tail(parsed[z])
        /\ feeding'[z] = feeding[z]
    BY <1>2, <1>5 DEF Feed, ChannelTypeOK
  <2>2. Head(parsed[z]) # Kill
    <3>1. Head(parsed[z]) \in Frames
      BY <1>2, <1>5 DEF ChannelTypeOK
    <3> QED BY <3>1, FrameFacts
  <2>3. HasKill(inbound'[z]) <=> HasKill(inbound[z])
    BY <1>4, <2>1, <2>2, KillFacts
  <2>4. Deaf(z)' <=> Deaf(z)
    BY <1>1, <2>1, <2>3 DEF Deaf
  <2>5. Deaf(p)' <=> Deaf(p)
    BY <1>1 DEF Deaf
  <2>6. SocketFine(z)' /\ SocketFine(p)'
    BY <1>0, <1>1, <1>2, <2>1, <2>3, <2>4, <2>5 DEF EndFine, SocketFine
  <2>7. UpTo(inbound'[z], sent[p]) /\ UpTo(parsed'[z], sent[p])
    <3>1. UpTo(inbound[z], sent[p]) /\ UpTo(parsed[z], sent[p])
      BY <1>0, <1>2 DEF EndFine, OriginsFine
    <3>2. UpTo(Tail(parsed[z]), sent[p]) /\ UpTo(<<Head(parsed[z])>>, sent[p])
      BY <1>4, <1>5, <3>1, UpToFacts
    <3>3. UpTo(Append(inbound[z], Head(parsed[z])), sent[p])
      BY <1>4, <3>1, <3>2, UpToFacts
    <3> QED BY <2>1, <3>2, <3>3
  <2>8. HasLast(inbound'[z]) \/ HasLast(parsed'[z]) => HasLast(inbound[z]) \/ HasLast(parsed[z])
    BY <1>4, <1>5, <2>1, LastFacts
  <2>9. OriginsFine(z)' /\ OriginsFine(p)'
    BY <1>0, <1>1, <1>2, <2>7, <2>8 DEF EndFine, OriginsFine
  <2>10. RolesFine(z)' /\ RolesFine(p)'
    BY <1>1, <1>2 DEF EndFine, RolesFine
  <2>11. StreamFine(z)'
    <3> SUFFICES ASSUME ~ Deaf(z)
                 PROVE  AliveFine(z)' /\ OrderFine(z)' /\ Complete(z)'
      BY <2>4 DEF StreamFine, AliveFine, OrderFine, Complete
    <3>1. AliveFine(z)'
      BY <1>0, <1>1, <1>2, <2>4 DEF StreamFine, AliveFine
    <3> DEFINE n == Taken(z) + Len(inbound[z])
    <3>2. Numbered(p, inbound[z], Taken(z)) /\ Numbered(p, parsed[z], n) /\ n \in Nat
      BY <1>2, <1>4 DEF StreamFine, OrderFine
    <3>3. Head(parsed[z]) = Frame(p, n + 1) /\ Numbered(p, parsed'[z], n + 1)
      BY <1>4, <1>5, <2>1, <3>2, NumberedTail
    <3>4. Numbered(p, inbound'[z], Taken(z))
      BY <1>4, <2>1, <3>2, <3>3, NumberedAppend
    <3>5. Len(inbound'[z]) = Len(inbound[z]) + 1 /\ Len(parsed'[z]) = Len(parsed[z]) - 1
      BY <1>4, <1>5, <2>1, AppendFacts, HeadAndTail
    <3>6. Taken(z)' = Taken(z)
      BY <1>1 DEF Taken
    <3>7. Read(z)' = Read(z) /\ Taken(z) + Len(inbound'[z]) = n + 1
      <4>1. Taken(z) \in Nat /\ Len(inbound[z]) \in Nat /\ Len(parsed[z]) \in Nat
        BY <1>4
      <4>2. /\ Taken(z) + (Len(inbound[z]) + 1) = (Taken(z) + Len(inbound[z])) + 1
            /\ (Taken(z) + (Len(inbound[z]) + 1)) + (Len(parsed[z]) - 1)
                 = (Taken(z) + Len(inbound[z])) + Len(parsed[z])
        BY <4>1, MoveOne
      <4> QED BY <3>5, <3>6, <4>2 DEF Read
    <3>8. OrderFine(z)'
      BY <1>0, <1>1, <1>2, <3>3, <3>4, <3>6, <3>7 DEF StreamFine, OrderFine
    <3>9. Complete(z)'
      BY <1>0, <1>1, <1>2, <3>7 DEF StreamFine, Complete, Written
    <3> QED BY <3>1, <3>8, <3>9
  <2> QED BY <1>0, <1>3, <2>6, <2>9, <2>10, <2>11 DEF ChannelInv, EndFine
<1>6. CASE parsed[z] = <<>> /\ failed[z]
  <2>1. inbound'[z] = Append(inbound[z], Kill) /\ parsed'[z] = parsed[z]
    BY <1>2, <1>6 DEF Feed, ChannelTypeOK
  <2>2. closed[z]
    BY <1>6 DEF Feed
  <2>3. HasKill(inbound'[z]) /\ Deaf(z)'
    BY <1>4, <2>1, KillFacts DEF Deaf
  <2>4. Deaf(p)' <=> Deaf(p)
    BY <1>1 DEF Deaf
  <2>5. SocketFine(z)' /\ SocketFine(p)'
    BY <1>0, <1>1, <1>2, <1>6, <2>1, <2>2, <2>3, <2>4 DEF EndFine, SocketFine
  <2>6. UpTo(inbound'[z], sent[p])
    <3>1. UpTo(inbound[z], sent[p]) /\ UpTo(<<Kill>>, sent[p])
      BY <1>0, <1>2, UpToOne DEF EndFine, OriginsFine, Kill
    <3> QED BY <1>4, <2>1, <3>1, UpToAppend
  <2>7. HasLast(inbound'[z]) => HasLast(inbound[z])
    <3>1. Kill.kind # "s"
      BY DEF Kill
    <3> QED BY <1>4, <2>1, <3>1, LastFacts
  <2>8. OriginsFine(z)' /\ OriginsFine(p)'
    BY <1>0, <1>1, <1>2, <2>1, <2>6, <2>7 DEF EndFine, OriginsFine
  <2>9. RolesFine(z)' /\ RolesFine(p)'
    BY <1>1, <1>2 DEF EndFine, RolesFine
  <2>10. StreamFine(z)'
    BY <2>3 DEF StreamFine, AliveFine, OrderFine, Complete
  <2> QED BY <1>0, <1>3, <2>5, <2>8, <2>9, <2>10 DEF ChannelInv, EndFine
<1>7. CASE parsed[z] = <<>> /\ ~ failed[z]
  <2>1. inbound'[z] = inbound[z] /\ parsed'[z] = parsed[z] /\ closed[z]
    BY <1>2, <1>7 DEF Feed, ChannelTypeOK
  <2>2. (Deaf(z)' <=> Deaf(z)) /\ (Deaf(p)' <=> Deaf(p))
    BY <1>1, <1>7, <2>1 DEF Deaf
  <2>3. EndFine(z)' /\ EndFine(p)'
    <3>1. SocketFine(z)' /\ SocketFine(p)'
      BY <1>0, <1>1, <1>2, <1>7, <2>1, <2>2 DEF EndFine, SocketFine
    <3>2. RolesFine(z)' /\ RolesFine(p)'
      BY <1>1, <1>2 DEF EndFine, RolesFine
    <3>3. OriginsFine(z)' /\ OriginsFine(p)'
      BY <1>0, <1>1, <1>2, <2>1 DEF EndFine, OriginsFine
    <3> QED BY <3>1, <3>2, <3>3 DEF EndFine
  <2>4. StreamFine(z)'
    BY <1>0, <1>1, <1>2, <2>1, <2>2 DEF StreamFine, AliveFine, OrderFine, Complete, Taken, Read, Written
  <2> QED BY <1>0, <1>3, <2>3, <2>4 DEF ChannelInv
<1> QED BY <1>5, <1>6, <1>7

\* A receive that reports an end changes nothing but the report; the close of a
\* socket that was destroyed is news to nobody who still reads.
LEMMA ReportsKeep ==
  ASSUME ChannelInv, ChannelTypeOK', NEW z \in Ends, ReceiveDies(z) \/ ReceiveEnd(z) \/ Close(z)
  PROVE  ChannelInv'
<1> DEFINE p == Peer(z)
<1>0. /\ p \in Ends /\ p # z /\ Peer(p) = z /\ \A y \in Ends : y = z \/ y = p
  BY PeerFacts
<1>1. /\ UNCHANGED <<step, sent, got, out, socket, wire, failed, parsed, inbound, feeding, cut>>
      /\ closed'[p] = closed[p]
      /\ closed'[z] = closed[z] \/ (socket[z] = "destroyed" /\ ~ closed[z])
  BY <1>0, Parts DEF ReceiveDies, ReceiveEnd, Close, ChannelTypeOK, framing, session
<1>2. EndFine(z) /\ EndFine(p) /\ StreamFine(z) /\ StreamFine(p) /\ ChannelTypeOK
  BY <1>0 DEF ChannelInv
<1>3. EndFine(z)' /\ EndFine(p)'
  <2>1. (Deaf(z)' <=> Deaf(z)) /\ (Deaf(p)' <=> Deaf(p))
    BY <1>1 DEF Deaf
  <2>2. SocketFine(z)' /\ SocketFine(p)'
    BY <1>0, <1>1, <1>2, <2>1 DEF EndFine, SocketFine
  <2>3. RolesFine(z)' /\ RolesFine(p)' /\ OriginsFine(z)' /\ OriginsFine(p)'
    BY <1>0, <1>1, <1>2 DEF EndFine, RolesFine, OriginsFine
  <2> QED BY <2>2, <2>3 DEF EndFine
<1>4. StreamFine(p)'
  BY <1>0, <1>1, <1>2 DEF StreamFine, AliveFine, OrderFine, Complete, Deaf, Taken, Read, Written
<1>5. StreamFine(z)'
  BY <1>0, <1>1, <1>2 DEF StreamFine, AliveFine, OrderFine, Complete, Deaf, Taken, Read, Written
<1> QED BY <1>0, <1>3, <1>4, <1>5 DEF ChannelInv

LEMMA ReceiveKeeps ==
  ASSUME ChannelInv, ChannelTypeOK', NEW z \in Ends, Receive(z)
  PROVE  ChannelInv'
<1> DEFINE p == Peer(z)
<1>0. /\ p \in Ends /\ p # z /\ Peer(p) = z /\ \A y \in Ends : y = z \/ y = p
  BY PeerFacts
<1>1. /\ step[z] = "up" /\ inbound[z] # <<>> /\ Head(inbound[z]) = Message(Len(got[z]) + 1)
      /\ got'[z] = Append(got[z], Head(inbound[z]).n) /\ got'[p] = got[p]
      /\ inbound'[z] = Tail(inbound[z]) /\ inbound'[p] = inbound[p]
      /\ UNCHANGED <<step, sent, out, socket, wire, closed, failed, parsed, feeding, cut>>
  BY <1>0, Parts DEF Receive, Receiving, ChannelTypeOK, framing
<1>2. EndFine(z) /\ EndFine(p) /\ StreamFine(z) /\ StreamFine(p) /\ ChannelTypeOK
  BY <1>0 DEF ChannelInv
<1>3. StreamFine(p)'
  BY <1>0, <1>1, <1>2 DEF StreamFine, AliveFine, OrderFine, Complete, Deaf, Taken, Read, Written
<1>4. /\ inbound[z] \in Seq(Alphabet) /\ sent[p] \in Nat /\ Len(got[z]) \in Nat
      /\ Taken(z) \in Nat /\ Len(inbound[z]) \in Nat /\ Len(parsed[z]) \in Nat /\ Shaken(p) \in {1, 2}
  BY <1>0, <1>2, Values
<1>5. Head(inbound[z]) # Kill
  BY <1>1 DEF Message, Kill
<1>6. HasKill(inbound'[z]) <=> HasKill(inbound[z])
  BY <1>1, <1>4, <1>5, KillTail
<1>7. (Deaf(z)' <=> Deaf(z)) /\ (Deaf(p)' <=> Deaf(p))
  BY <1>1, <1>6 DEF Deaf
<1>8. SocketFine(z)' /\ SocketFine(p)'
  BY <1>0, <1>1, <1>2, <1>6, <1>7 DEF EndFine, SocketFine
<1>9. UpTo(inbound'[z], sent[p]) /\ (HasLast(inbound'[z]) => HasLast(inbound[z]))
  <2>1. UpTo(inbound[z], sent[p])
    BY <1>0, <1>2 DEF EndFine, OriginsFine
  <2>2. UpTo(inbound'[z], sent[p])
    BY <1>1, <1>4, <2>1, UpToTail
  <2>3. HasLast(inbound'[z]) => HasLast(inbound[z])
    BY <1>1, <1>4, LastTail
  <2> QED BY <2>2, <2>3
<1>10. OriginsFine(z)' /\ OriginsFine(p)'
  <2>1. UpTo(inbound[z], sent[p])
    BY <1>0, <1>2 DEF EndFine, OriginsFine
  <2>2. UpTo(<<Head(inbound[z])>>, sent[p])
    BY <1>1, <1>4, <2>1, UpToTail
  <2>3. Head(inbound[z]).kind = "message" /\ Head(inbound[z]).n = Len(got[z]) + 1
    BY <1>1 DEF Message
  <2>4. Len(got[z]) + 1 <= sent[p]
    BY <2>2, <2>3, UpToOne
  <2>5. Len(got'[z]) = Len(got[z]) + 1
    BY <1>1, <1>2 DEF ChannelTypeOK
  <2>6. Len(got'[z]) <= sent[p]
    BY <2>4, <2>5
  <2> QED BY <1>0, <1>1, <1>2, <1>9, <2>6 DEF EndFine, OriginsFine
<1>11. RolesFine(z)' /\ RolesFine(p)'
  BY <1>0, <1>1, <1>2 DEF EndFine, RolesFine
<1>12. StreamFine(z)'
  <2> SUFFICES ASSUME ~ Deaf(z)
               PROVE  AliveFine(z)' /\ OrderFine(z)' /\ Complete(z)'
    BY <1>7 DEF StreamFine, AliveFine, OrderFine, Complete
  <2>1. AliveFine(z)'
    BY <1>0, <1>1, <1>2, <1>7 DEF StreamFine, AliveFine
  <2>2. Numbered(p, inbound[z], Taken(z))
    BY <1>2 DEF StreamFine, OrderFine
  <2>3. Numbered(p, inbound'[z], Taken(z) + 1)
    BY <1>1, <1>4, <2>2, NumberedTail
  <2>4. Len(inbound'[z]) = Len(inbound[z]) - 1
    BY <1>1, <1>4, HeadAndTail
  <2>5. Len(got'[z]) = Len(got[z]) + 1
    BY <1>1, <1>2 DEF ChannelTypeOK
  <2>6. Taken(z)' = Taken(z) + 1
    <3>1. Taken(z) = Shaken(p) + Len(got[z]) /\ Taken(z)' = Shaken(p) + Len(got'[z])
      BY <1>1 DEF Taken
    <3>2. Shaken(p) + (Len(got[z]) + 1) = (Shaken(p) + Len(got[z])) + 1
      BY <1>4
    <3> QED BY <2>5, <3>1, <3>2
  <2>7. Read(z)' = Read(z) /\ Taken(z)' + Len(inbound'[z]) = Taken(z) + Len(inbound[z])
    <3>1. (Taken(z) + 1) + (Len(inbound[z]) - 1) = Taken(z) + Len(inbound[z])
      BY <1>4
    <3> QED BY <1>1, <2>4, <2>6, <3>1 DEF Read
  <2>8. OrderFine(z)'
    BY <1>0, <1>1, <1>2, <2>3, <2>6, <2>7 DEF StreamFine, OrderFine
  <2>9. Complete(z)'
    BY <1>0, <1>1, <1>2, <2>7 DEF StreamFine, Complete, Written
  <2> QED BY <2>1, <2>8, <2>9
<1> QED BY <1>0, <1>3, <1>8, <1>10, <1>11, <1>12 DEF ChannelInv, EndFine

\* What is left of a wire: t is a first part of s.
Begins(t, s) ==
  /\ t \in Seq(Alphabet) /\ Len(t) <= Len(s)
  /\ \A i \in DOMAIN t : i \in DOMAIN s /\ t[i] = s[i]

LEMMA BeginsFacts ==
  ASSUME NEW s \in Seq(Alphabet)
  PROVE  /\ Begins(s, s)
         /\ \A n \in 0 .. Len(s) : Begins(SubSeq(s, 1, n), s)
<1>1. Begins(s, s)
  BY DEF Begins
<1>2. ASSUME NEW n \in 0 .. Len(s) PROVE Begins(SubSeq(s, 1, n), s)
  BY DEF Begins
<1> QED BY <1>1, <1>2

LEMMA PrefixKeeps ==
  ASSUME NEW s \in Seq(Alphabet), NEW t, Begins(t, s), NEW x, NEW n, NEW k, NEW w
  PROVE  /\ Carries(x, s, n) => Carries(x, t, n)
         /\ FinBehind(s, n, w) => FinBehind(t, n, w)
         /\ UpTo(s, k) => UpTo(t, k)
         /\ HasLast(t) => HasLast(s)
         /\ HasMark(t) => HasMark(s)
BY DEF Begins, Carries, FinBehind, UpTo, HasLast, HasMark

\* The socket of z is destroyed, by z or under it.
Collapses(z) ==
  /\ UNCHANGED <<sent, got, parsed, inbound, feeding>>
  /\ /\ step'[Peer(z)] = step[Peer(z)] /\ closed'[Peer(z)] = closed[Peer(z)]
     /\ failed'[Peer(z)] = failed[Peer(z)] /\ socket'[Peer(z)] = socket[Peer(z)]
     /\ out'[Peer(z)] = out[Peer(z)] /\ wire'[Peer(z)] = <<>>
  /\ socket'[z] = "destroyed" /\ out'[z] = <<>>
  /\ step'[z] = step[z] \/ (step'[z] = "down" /\ step[z] \in {"wait e", "wait ee", "wait s"})
  /\ failed'[z] \/ step'[z] = "down"
  /\ (failed[z] => failed'[z]) /\ (closed[z] => closed'[z])
  /\ Deaf(z)' \/ closed[z]
  /\ cut' = IF Unwritten(z) THEN cut \cup {z} ELSE cut
  /\ \E t : /\ Begins(t, wire[z])
            /\ \/ wire'[z] = t
               \/ wire'[z] = Append(t, Reset)
               \/ socket[z] = "open" /\ t = wire[z] /\ wire'[z] = Append(t, Fin)

\* When there is a message to be lost, losing it is told.
LEMMA LastIsMessage ==
  ASSUME ChannelInv, NEW z \in Ends, socket[z] = "open", ~ Deaf(Peer(z)), sent[z] > 0, out[z] # <<>>
  PROVE  Unwritten(z)
<1> DEFINE p == Peer(z)
<1>0. /\ p \in Ends /\ p # z /\ Peer(p) = z /\ \A y \in Ends : y = z \/ y = p
  BY PeerFacts
<1>2. EndFine(z) /\ EndFine(p) /\ StreamFine(z) /\ StreamFine(p) /\ ChannelTypeOK
  BY <1>0 DEF ChannelInv
<1>3. /\ out[z] \in Seq(Alphabet) /\ sent[z] \in Nat /\ Shaken(z) \in {1, 2}
      /\ Read(p) \in Nat /\ Len(wire[z]) \in Nat /\ Len(out[z]) \in Nat
  BY <1>0, <1>2, Values
<1>4. ~ closed[p]
  BY <1>0, <1>2 DEF StreamFine, AliveFine
<1>5. Numbered(z, out[z], Read(p) + Len(wire[z])) /\ Read(p) + Len(wire[z]) + Len(out[z]) = Written(z)
  BY <1>0, <1>2, <1>4 DEF StreamFine, OrderFine, Complete
<1>6. Written(z) = Shaken(z) + sent[z]
  <2>1. sent[z] # 0
    BY <1>3
  <2>2. step[z] \in {"up", "over"}
    BY <1>2, <2>1 DEF EndFine, RolesFine
  <2> QED BY <2>2, CountsUp
<1>7. Len(out[z]) \in DOMAIN out[z]
  BY <1>3
<1>8. out[z][Len(out[z])] = Frame(z, Shaken(z) + sent[z])
  BY <1>5, <1>6, <1>7 DEF Numbered
<1>9. Shaken(z) + sent[z] \in Nat /\ Shaken(z) + sent[z] > Shaken(z)
  BY <1>3
<1>10. Frame(z, Shaken(z) + sent[z]).kind = "message"
  BY <1>3, <1>9, FrameKinds
<1> QED BY <1>7, <1>8, <1>10 DEF Unwritten

LEMMA CollapseKeeps ==
  ASSUME ChannelInv, ChannelTypeOK', NEW z \in Ends, Collapses(z)
  PROVE  ChannelInv'
<1> DEFINE p == Peer(z)
<1>0. /\ p \in Ends /\ p # z /\ Peer(p) = z /\ \A y \in Ends : y = z \/ y = p
  BY PeerFacts
<1>1. /\ UNCHANGED <<sent, got, parsed, inbound, feeding>>
      /\ step'[p] = step[p] /\ closed'[p] = closed[p] /\ failed'[p] = failed[p]
      /\ socket'[p] = socket[p] /\ out'[p] = out[p] /\ wire'[p] = <<>>
      /\ socket'[z] = "destroyed" /\ out'[z] = <<>>
      /\ step'[z] = step[z] \/ (step'[z] = "down" /\ step[z] \in {"wait e", "wait ee", "wait s"})
      /\ failed'[z] \/ step'[z] = "down"
      /\ (failed[z] => failed'[z]) /\ (closed[z] => closed'[z])
      /\ Deaf(z)' \/ closed[z]
      /\ cut' = IF Unwritten(z) THEN cut \cup {z} ELSE cut
  BY DEF Collapses
<1>2. EndFine(z) /\ EndFine(p) /\ StreamFine(z) /\ StreamFine(p) /\ ChannelTypeOK
  BY <1>0 DEF ChannelInv
<1>3. PICK t : /\ Begins(t, wire[z])
               /\ \/ wire'[z] = t
                  \/ wire'[z] = Append(t, Reset)
                  \/ socket[z] = "open" /\ t = wire[z] /\ wire'[z] = Append(t, Fin)
  BY DEF Collapses
<1>4. /\ wire[z] \in Seq(Alphabet) /\ sent[z] \in Nat /\ sent[p] \in Nat /\ t \in Seq(Alphabet)
      /\ Read(p) \in Nat /\ Len(wire[z]) \in Nat /\ Written(z) \in Nat /\ Len(out[z]) \in Nat
  BY <1>0, <1>2, <1>3, Values DEF Begins
<1>5. (Deaf(p)' <=> Deaf(p)) /\ (Deaf(z) => Deaf(z)')
  BY <1>1 DEF Deaf
<1>6. Deaf(z)' \/ Deaf(p)'
  BY <1>0, <1>1, <1>2, <1>5 DEF EndFine, SocketFine
<1>7. SocketFine(z)' /\ SocketFine(p)'
  BY <1>0, <1>1, <1>2, <1>5, <1>6, EmptyFacts DEF EndFine, SocketFine
<1>8. RolesFine(z)' /\ RolesFine(p)'
  BY <1>0, <1>1, <1>2 DEF EndFine, RolesFine
<1>9. OriginsFine(z)' /\ OriginsFine(p)'
  <2>1. UpTo(wire[z], sent[z])
    BY <1>2 DEF EndFine, OriginsFine
  <2>2. UpTo(t, sent[z]) /\ (HasLast(t) => HasLast(wire[z]))
    BY <1>3, <1>4, <2>1, PrefixKeeps
  <2>3. \A f \in Marks : UpTo(<<f>>, sent[z]) /\ f.kind # "s"
    BY UpToOne DEF Marks, Fin, Reset
  <2>4. \A f \in Marks : UpTo(Append(t, f), sent[z]) /\ (HasLast(Append(t, f)) => HasLast(t))
    BY <1>4, <2>2, <2>3, UpToAppend, LastFacts
  <2>5. Fin \in Marks /\ Reset \in Marks
    BY DEF Marks
  <2>6. UpTo(wire'[z], sent[z]) /\ (HasLast(wire'[z]) => HasLast(wire[z]))
    BY <1>3, <2>2, <2>4, <2>5
  <2>7. step[Initiator] \in {"up", "over"} => step'[Initiator] \in {"up", "over"}
    BY <1>0, <1>1 DEF Ends
  <2>8. OriginsFine(z)'
    BY <1>0, <1>1, <1>2, <2>6, <2>7, EmptyFacts DEF EndFine, OriginsFine
  <2>9. OriginsFine(p)'
    BY <1>0, <1>1, <1>2, <2>7, EmptyFacts DEF EndFine, OriginsFine
  <2> QED BY <2>8, <2>9
<1>10. StreamFine(z)'
  <2> SUFFICES ASSUME ~ Deaf(z)', closed[z], ~ Deaf(z)
               PROVE  AliveFine(z)' /\ OrderFine(z)' /\ Complete(z)'
    BY <1>1, <1>5 DEF StreamFine, AliveFine, OrderFine, Complete
  <2>1. step'[z] = step[z] /\ closed'[z]
    BY <1>1 DEF Deaf
  <2>2. AliveFine(z)'
    BY <1>0, <1>1, <1>2, <2>1 DEF StreamFine, AliveFine
  <2>3. Taken(z)' = Taken(z) /\ Read(z)' = Read(z) /\ Written(p)' = Written(p)
    BY <1>1, <2>1 DEF Taken, Read, Written
  <2>4. OrderFine(z)'
    BY <1>0, <1>1, <1>2, <2>1, <2>3 DEF StreamFine, OrderFine
  <2>5. p \in cut' <=> p \in cut
    BY <1>0, <1>1
  <2>6. socket[p] # "open"
    BY <1>0, <1>2 DEF StreamFine, AliveFine
  <2>7. Complete(z)'
    BY <1>0, <1>1, <1>2, <2>1, <2>3, <2>5, <2>6 DEF StreamFine, Complete
  <2> QED BY <2>2, <2>4, <2>7
<1>11. StreamFine(p)'
  <2> SUFFICES ASSUME ~ Deaf(p)
               PROVE  AliveFine(p)' /\ OrderFine(p)' /\ Complete(p)'
    BY <1>5 DEF StreamFine, AliveFine, OrderFine, Complete
  <2>1. AliveFine(p)'
    BY <1>0, <1>1, <1>2 DEF StreamFine, AliveFine
  <2>2. Taken(p)' = Taken(p) /\ Read(p)' = Read(p)
    BY <1>1 DEF Taken, Read
  <2>3. ~ closed[p] => Carries(z, wire'[z], Read(p))
    <3> SUFFICES ASSUME ~ closed[p] PROVE Carries(z, wire'[z], Read(p))
      OBVIOUS
    <3>1. Carries(z, wire[z], Read(p))
      BY <1>0, <1>2 DEF StreamFine, OrderFine
    <3>2. Carries(z, t, Read(p))
      BY <1>3, <1>4, <3>1, PrefixKeeps
    <3>3. Fin \in Marks /\ Reset \in Marks
      BY DEF Marks
    <3>4. \A f \in Marks : Carries(z, Append(t, f), Read(p))
      BY <1>4, <3>2, CarriesAppend
    <3> QED BY <1>3, <3>2, <3>3, <3>4
  <2>4. Numbered(z, out'[z], Read(p) + Len(wire'[z]))
    BY <1>1, EmptyFacts
  <2>5. OrderFine(p)'
    BY <1>0, <1>1, <1>2, <2>2, <2>3, <2>4, <1>5 DEF StreamFine, OrderFine
  <2>6. Complete(p)'
    <3> SUFFICES ASSUME z \notin cut', sent[z] > 0
                 PROVE  /\ ~ closed[p] => FinBehind(wire'[z], Read(p), Written(z)')
                        /\ closed[p] => Read(p) = Written(z)'
      BY <1>0, <1>1, <2>2 DEF Complete
    <3>1. step[z] \in {"up", "over"}
      <4>1. sent[z] # 0
        BY <1>4
      <4> QED BY <1>2, <4>1 DEF EndFine, RolesFine
    <3>2. step'[z] = step[z] /\ Written(z)' = Written(z) /\ z \notin cut /\ ~ Unwritten(z)
      BY <1>1, <3>1 DEF Written
    <3>3. closed[p] => Read(p) = Written(z)
      BY <1>0, <1>2, <3>2 DEF StreamFine, Complete
    <3>4. ASSUME ~ closed[p] PROVE FinBehind(wire'[z], Read(p), Written(z))
      <4>1. FinBehind(wire[z], Read(p), Written(z))
        BY <1>0, <1>2, <3>2, <3>4 DEF StreamFine, Complete
      <4>2. FinBehind(t, Read(p), Written(z))
        BY <1>3, <1>4, <4>1, PrefixKeeps
      <4>3. FinBehind(Append(t, Reset), Read(p), Written(z))
        BY <1>4, <4>2, FinAppend, FrameFacts
      <4>4. ASSUME socket[z] = "open", t = wire[z]
            PROVE  FinBehind(Append(t, Fin), Read(p), Written(z))
        <5>1. Read(p) + Len(wire[z]) + Len(out[z]) = Written(z)
          BY <1>0, <1>2, <4>4 DEF StreamFine, Complete
        <5>2. out[z] = <<>>
          BY <1>0, <3>2, <4>4, LastIsMessage
        <5>3. Read(p) + Len(t) = Written(z)
          BY <1>4, <4>4, <5>1, <5>2
        <5> QED BY <1>4, <4>2, <5>3, FinAppend
      <4> QED BY <1>3, <4>2, <4>3, <4>4
    <3> QED BY <3>2, <3>3, <3>4
  <2> QED BY <2>1, <2>5, <2>6
<1> QED BY <1>0, <1>7, <1>8, <1>9, <1>10, <1>11 DEF ChannelInv, EndFine

LEMMA CarrierBreaksKeeps ==
  ASSUME ChannelInv, ChannelTypeOK', NEW z \in Ends, CarrierBreaks(z)
  PROVE  ChannelInv'
<1> DEFINE p == Peer(z)
<1>0. /\ p \in Ends /\ p # z /\ Peer(p) = z /\ \A y \in Ends : y = z \/ y = p
  BY PeerFacts
<1>2. EndFine(z) /\ EndFine(p) /\ StreamFine(z) /\ StreamFine(p) /\ ChannelTypeOK
  BY <1>0 DEF ChannelInv
<1>1. /\ ~ closed[z] /\ failed'[z] /\ closed'[z] /\ failed'[p] = failed[p] /\ closed'[p] = closed[p]
      /\ socket'[z] = "destroyed" /\ socket'[p] = socket[p]
      /\ out'[z] = <<>> /\ out'[p] = out[p]
      /\ cut' = IF Unwritten(z) THEN cut \cup {z} ELSE cut
      /\ UNCHANGED <<step, end, sent, got, parsed, inbound, feeding>>
  BY <1>0, <1>2 DEF CarrierBreaks, Fail, ChannelTypeOK, session
<1>3. PICK n \in 0 .. Len(wire[z]), rest \in {<<>>, <<Reset>>} :
        wire' = [wire EXCEPT ![z] = SubSeq(@, 1, n) \o rest, ![p] = <<>>]
  BY DEF CarrierBreaks
<1> DEFINE t == SubSeq(wire[z], 1, n)
<1>4. wire[z] \in Seq(Alphabet) /\ Begins(t, wire[z]) /\ t \in Seq(Alphabet)
  <2>1. wire[z] \in Seq(Alphabet)
    BY <1>2, Values
  <2> QED BY <2>1, BeginsFacts DEF Begins
<1>5. wire'[z] = t \o rest /\ wire'[p] = <<>>
  BY <1>0, <1>2, <1>3 DEF ChannelTypeOK
<1>6. wire'[z] = t \/ wire'[z] = Append(t, Reset)
  <2>1. t \o <<>> = t /\ t \o <<Reset>> = Append(t, Reset)
    BY <1>4
  <2> QED BY <1>3, <1>5, <2>1
<1>7. feeding[z]
  BY <1>1, <1>2 DEF EndFine, SocketFine
<1>8. Deaf(z)'
  BY <1>1, <1>7 DEF Deaf
<1>9. Collapses(z)
  BY <1>0, <1>1, <1>4, <1>5, <1>6, <1>8 DEF Collapses
<1> QED BY <1>9, CollapseKeeps

\* A destroyed socket, as Destroy leaves it.
LEMMA DestroyEffects ==
  ASSUME ChannelTypeOK, NEW z \in Ends, NEW last \in {Fin, Reset}, Destroy(z, last)
  PROVE  /\ socket'[z] = "destroyed" /\ socket'[Peer(z)] = socket[Peer(z)]
         /\ out'[z] = <<>> /\ out'[Peer(z)] = out[Peer(z)] /\ wire'[Peer(z)] = <<>>
         /\ cut' = IF Unwritten(z) THEN cut \cup {z} ELSE cut
         /\ \E t : /\ Begins(t, wire[z])
                   /\ \/ wire'[z] = t
                      \/ wire'[z] = Append(t, Reset)
                      \/ socket[z] = "open" /\ t = wire[z] /\ wire'[z] = Append(t, Fin)
<1>0. Peer(z) \in Ends /\ Peer(z) # z
  BY PeerFacts
<1>1. /\ socket'[z] = "destroyed" /\ socket'[Peer(z)] = socket[Peer(z)]
      /\ out'[z] = <<>> /\ out'[Peer(z)] = out[Peer(z)] /\ wire'[Peer(z)] = <<>>
      /\ cut' = IF Unwritten(z) THEN cut \cup {z} ELSE cut
      /\ wire'[z] = IF socket[z] = "open" THEN Append(wire[z], last) ELSE wire[z]
  BY <1>0 DEF Destroy, ChannelTypeOK
<1>2. Begins(wire[z], wire[z])
  <2>1. wire[z] \in Seq(Alphabet)
    BY Values
  <2> QED BY <2>1, BeginsFacts
<1> QED BY <1>1, <1>2

LEMMA ArriveResetKeeps ==
  ASSUME ChannelInv, ChannelTypeOK', NEW z \in Ends, ArriveReset(z)
  PROVE  ChannelInv'
<1> DEFINE p == Peer(z)
<1>0. /\ p \in Ends /\ p # z /\ Peer(p) = z /\ \A y \in Ends : y = z \/ y = p
  BY PeerFacts
<1>2. EndFine(z) /\ EndFine(p) /\ StreamFine(z) /\ StreamFine(p) /\ ChannelTypeOK
  BY <1>0 DEF ChannelInv
<1>1. /\ failed'[z] /\ closed'[z] /\ failed'[p] = failed[p] /\ closed'[p] = closed[p]
      /\ Destroy(z, Fin)
      /\ UNCHANGED <<step, end, sent, got, parsed, inbound, feeding>>
  BY <1>0, <1>2 DEF ArriveReset, Fail, ChannelTypeOK, session
<1>3. Deaf(z)' \/ closed[z]
  <2>1. feeding[z] \/ closed[z]
    BY <1>2 DEF EndFine, SocketFine
  <2> QED BY <1>1, <2>1 DEF Deaf
<1>4. Collapses(z)
  BY <1>0, <1>1, <1>2, <1>3, DestroyEffects DEF Collapses
<1> QED BY <1>4, CollapseKeeps

LEMMA ArriveKeeps ==
  ASSUME ChannelInv, ChannelTypeOK', NEW z \in Ends, Arrive(z)
  PROVE  ChannelInv'
<1> DEFINE p == Peer(z)
<1>0. /\ p \in Ends /\ p # z /\ Peer(p) = z /\ \A y \in Ends : y = z \/ y = p
  BY PeerFacts
<1>2. EndFine(z) /\ EndFine(p) /\ StreamFine(z) /\ StreamFine(p) /\ ChannelTypeOK
  BY <1>0 DEF ChannelInv
<1>1. /\ ~ closed[z] /\ socket[z] # "destroyed" /\ wire[p] # <<>>
      /\ Head(wire[p]).kind \notin {"fin", "reset"}
      /\ UNCHANGED <<step, end, sent, got, closed, inbound, feeding>>
  BY DEF Arrive, session
<1>3. feeding[z]
  BY <1>1, <1>2 DEF EndFine, SocketFine
<1>4. CASE TooLong(p, Head(wire[p]))
  <2>1. /\ failed' = [failed EXCEPT ![z] = TRUE] /\ UNCHANGED parsed
        /\ \E last \in {Fin, Reset} : Destroy(z, last)
    BY <1>4 DEF Arrive
  <2>2. PICK last \in {Fin, Reset} : Destroy(z, last)
    BY <2>1
  <2>3. failed'[z] /\ failed'[p] = failed[p]
    BY <1>0, <1>2, <2>1 DEF ChannelTypeOK
  <2>4. Deaf(z)'
    BY <1>1, <1>3, <2>3 DEF Deaf
  <2>5. Collapses(z)
    BY <1>0, <1>1, <1>2, <2>1, <2>2, <2>3, <2>4, DestroyEffects DEF Collapses
  <2> QED BY <2>5, CollapseKeeps
<1>5. CASE ~ TooLong(p, Head(wire[p]))
  <2>1. /\ parsed'[z] = Append(parsed[z], Head(wire[p])) /\ parsed'[p] = parsed[p]
        /\ wire'[p] = Tail(wire[p]) /\ wire'[z] = wire[z]
        /\ UNCHANGED <<failed, socket, out, cut>>
    <3>1. /\ parsed' = [parsed EXCEPT ![z] = Append(@, Head(wire[p]))]
          /\ wire' = [wire EXCEPT ![p] = Tail(@)]
          /\ UNCHANGED <<failed, socket, out, cut>>
      BY <1>5 DEF Arrive
    <3> QED BY <1>0, <1>2, <3>1 DEF ChannelTypeOK
  <2>2. /\ parsed[z] \in Seq(Alphabet) /\ wire[p] \in Seq(Alphabet) /\ sent[p] \in Nat
        /\ Taken(z) \in Nat /\ Len(inbound[z]) \in Nat /\ Len(parsed[z]) \in Nat
        /\ Read(z) \in Nat /\ Len(wire[p]) \in Nat /\ Len(out[p]) \in Nat /\ Written(p) \in Nat
    BY <1>0, <1>2, Values
  <2>3. Head(wire[p]) \notin Marks
    BY <1>1 DEF Marks, Fin, Reset
  <2>4. (Deaf(z)' <=> Deaf(z)) /\ (Deaf(p)' <=> Deaf(p))
    BY <1>1, <2>1 DEF Deaf
  <2>5. HasMark(wire'[p]) => HasMark(wire[p])
    <3>1. HasMark(wire[p]) <=> HasMark(Tail(wire[p])) \/ Head(wire[p]) \in Marks
      BY <1>1, <2>2, MarkFacts
    <3> QED BY <2>1, <3>1
  <2>6. SocketFine(z)' /\ SocketFine(p)'
    BY <1>0, <1>1, <1>2, <1>3, <2>1, <2>4, <2>5 DEF EndFine, SocketFine
  <2>7. RolesFine(z)' /\ RolesFine(p)'
    BY <1>1, <1>2 DEF EndFine, RolesFine
  <2>8. UpTo(parsed'[z], sent[p]) /\ UpTo(wire'[p], sent[p])
    <3>1. UpTo(parsed[z], sent[p]) /\ UpTo(wire[p], sent[p])
      BY <1>0, <1>2 DEF EndFine, OriginsFine
    <3>2. UpTo(Tail(wire[p]), sent[p]) /\ UpTo(<<Head(wire[p])>>, sent[p])
      BY <1>1, <2>2, <3>1, UpToTail
    <3>3. UpTo(Append(parsed[z], Head(wire[p])), sent[p])
      BY <2>2, <3>1, <3>2, UpToAppend
    <3> QED BY <2>1, <3>2, <3>3
  <2>9. HasLast(parsed'[z]) \/ HasLast(wire'[p]) => HasLast(parsed[z]) \/ HasLast(wire[p])
    BY <1>1, <2>1, <2>2, LastFacts
  <2>10. OriginsFine(z)' /\ OriginsFine(p)'
    BY <1>0, <1>1, <1>2, <2>1, <2>8, <2>9 DEF EndFine, OriginsFine
  <2>11. StreamFine(p)'
    BY <1>0, <1>1, <1>2, <2>1 DEF StreamFine, AliveFine, OrderFine, Complete, Deaf, Taken, Read, Written
  <2>12. StreamFine(z)'
    <3> SUFFICES ASSUME ~ Deaf(z)
                 PROVE  AliveFine(z)' /\ OrderFine(z)' /\ Complete(z)'
      BY <2>4 DEF StreamFine, AliveFine, OrderFine, Complete
    <3>1. AliveFine(z)'
      BY <1>0, <1>1, <1>2, <2>1, <2>4 DEF StreamFine, AliveFine
    <3>2. /\ Carries(p, wire[p], Read(z)) /\ Numbered(p, out[p], Read(z) + Len(wire[p]))
          /\ Numbered(p, parsed[z], Taken(z) + Len(inbound[z]))
          /\ Numbered(p, inbound[z], Taken(z))
      BY <1>1, <1>2 DEF StreamFine, OrderFine
    <3>3. Head(wire[p]) = Frame(p, Read(z) + 1) /\ Carries(p, wire'[p], Read(z) + 1)
      BY <1>1, <2>1, <2>2, <2>3, <3>2, CarriesTail
    <3>4. Numbered(p, parsed'[z], Taken(z) + Len(inbound[z]))
      <4>1. Taken(z) + Len(inbound[z]) \in Nat
        BY <2>2
      <4>2. Head(wire[p]) = Frame(p, (Taken(z) + Len(inbound[z])) + Len(parsed[z]) + 1)
        BY <3>3 DEF Read
      <4> QED BY <2>1, <2>2, <3>2, <4>1, <4>2, NumberedAppend
    <3>5. Len(parsed'[z]) = Len(parsed[z]) + 1 /\ Len(wire'[p]) = Len(wire[p]) - 1
      BY <1>1, <2>1, <2>2, AppendFacts, HeadAndTail
    <3>6. Taken(z)' = Taken(z) /\ Written(p)' = Written(p)
      BY <1>1 DEF Taken, Written
    <3>7. Read(z)' = Read(z) + 1
      <4>1. /\ Taken(z) \in Nat /\ Len(inbound[z]) \in Nat /\ Len(parsed[z]) \in Nat
        BY <2>2
      <4>2. Taken(z) + Len(inbound[z]) + (Len(parsed[z]) + 1) = Taken(z) + Len(inbound[z]) + Len(parsed[z]) + 1
        BY <4>1
      <4> QED BY <1>1, <3>5, <3>6, <4>2 DEF Read
    <3>8. Read(z)' + Len(wire'[p]) = Read(z) + Len(wire[p])
      <4>1. (Read(z) + 1) + (Len(wire[p]) - 1) = Read(z) + Len(wire[p])
        BY <2>2
      <4> QED BY <3>5, <3>7, <4>1
    <3>9. OrderFine(z)'
      BY <1>0, <1>1, <2>1, <3>2, <3>3, <3>4, <3>6, <3>7, <3>8 DEF OrderFine
    <3>10. Complete(z)'
      <4>1. ASSUME p \notin cut, sent[p] > 0 PROVE FinBehind(wire'[p], Read(z) + 1, Written(p))
        <5>1. FinBehind(wire[p], Read(z), Written(p))
          BY <1>1, <1>2, <4>1 DEF StreamFine, Complete
        <5> QED BY <1>1, <2>1, <2>2, <5>1, FinTail
      <4> QED BY <1>0, <1>1, <1>2, <2>1, <3>6, <3>7, <3>8, <4>1 DEF StreamFine, Complete
    <3> QED BY <3>1, <3>9, <3>10
  <2> QED BY <1>0, <2>6, <2>7, <2>10, <2>11, <2>12 DEF ChannelInv, EndFine
<1> QED BY <1>4, <1>5

-----------------------------------------------------------------------------
(* The end of a socket.                                                    *)

\* The wire in front of the FIN, when the socket is ended.
Flushed(x) == IF out[x] = <<>> THEN wire[x] ELSE Append(wire[x], Head(out[x]))

LEMMA EndedWire ==
  ASSUME ChannelTypeOK, NEW x \in Ends
  PROVE  /\ wire[x] \o UnderWay(x) \o <<Fin>> = Append(Flushed(x), Fin)
         /\ Flushed(x) \in Seq(Alphabet)
         /\ Len(out[x]) <= 1 => Len(Flushed(x)) = Len(wire[x]) + Len(out[x])
<1>1. wire[x] \in Seq(Alphabet) /\ out[x] \in Seq(Alphabet)
  BY Values
<1>2. CASE out[x] = <<>>
  <2>1. wire[x] \o <<>> = wire[x] /\ wire[x] \o <<Fin>> = Append(wire[x], Fin)
    BY <1>1
  <2> QED BY <1>1, <1>2, <2>1 DEF UnderWay, Flushed
<1>3. CASE out[x] # <<>>
  <2> DEFINE h == Head(out[x])
             s == Append(wire[x], h)
  <2>1. h \in Alphabet /\ s \in Seq(Alphabet)
    BY <1>1, <1>3
  <2>2. wire[x] \o <<h>> = s
    BY <1>1, <2>1
  <2>3. s \o <<Fin>> = Append(s, Fin)
    BY <2>1
  <2>4. UnderWay(x) = <<h>> /\ Flushed(x) = s
    BY <1>3 DEF UnderWay, Flushed
  <2>5. Len(s) = Len(wire[x]) + 1 /\ Len(out[x]) \in Nat /\ Len(out[x]) # 0
    BY <1>1, <1>3
  <2>6. Len(out[x]) <= 1 => Len(out[x]) = 1
    <3>1. \A k \in Nat : k # 0 /\ k <= 1 => k = 1
      OBVIOUS
    <3> QED BY <2>5, <3>1
  <2> QED BY <2>1, <2>2, <2>3, <2>4, <2>5, <2>6
<1> QED BY <1>2, <1>3

LEMMA FlushedFacts ==
  ASSUME ChannelInv, NEW z \in Ends, socket[z] = "open"
  PROVE  /\ ~ HasMark(Flushed(z))
         /\ UpTo(Append(Flushed(z), Fin), sent[z])
         /\ HasLast(Append(Flushed(z), Fin)) => HasLast(wire[z]) \/ HasLast(out[z])
         /\ ~ Deaf(Peer(z)) => Carries(z, Append(Flushed(z), Fin), Read(Peer(z)))
<1> DEFINE p == Peer(z)
<1>0. /\ p \in Ends /\ p # z /\ Peer(p) = z /\ \A y \in Ends : y = z \/ y = p
  BY PeerFacts
<1>2. EndFine(z) /\ EndFine(p) /\ StreamFine(z) /\ StreamFine(p) /\ ChannelTypeOK
  BY <1>0 DEF ChannelInv
<1>1. /\ out[z] \in Seq(Alphabet) /\ wire[z] \in Seq(Alphabet) /\ sent[z] \in Nat
      /\ Read(p) \in Nat /\ Len(wire[z]) \in Nat
  BY <1>0, <1>2, Values
<1>3. /\ ~ HasMark(wire[z]) /\ UpTo(wire[z], sent[z]) /\ UpTo(out[z], sent[z])
  BY <1>2 DEF EndFine, SocketFine, OriginsFine
<1>4. Flushed(z) \in Seq(Alphabet)
  BY <1>2, EndedWire
<1>5. out[z] # <<>> => Head(out[z]) \in Frames /\ Head(out[z]) \notin Marks
  <2> SUFFICES ASSUME out[z] # <<>> PROVE Head(out[z]) \in Frames /\ Head(out[z]) \notin Marks
    OBVIOUS
  <2>1. Head(out[z]) \in Frames
    BY <1>2 DEF ChannelTypeOK
  <2> QED BY <2>1, FrameFacts DEF Marks
<1>6. ~ HasMark(Flushed(z))
  BY <1>1, <1>3, <1>5, MarkFacts DEF Flushed
<1>7. UpTo(Flushed(z), sent[z])
  <2>1. CASE out[z] = <<>>
    BY <1>3, <2>1 DEF Flushed
  <2>2. CASE out[z] # <<>>
    <3>1. UpTo(<<Head(out[z])>>, sent[z])
      BY <1>1, <1>3, <2>2, UpToTail
    <3>2. UpTo(Append(wire[z], Head(out[z])), sent[z])
      BY <1>1, <1>3, <3>1, UpToAppend
    <3> QED BY <2>2, <3>2 DEF Flushed
  <2> QED BY <2>1, <2>2
<1>8. UpTo(Append(Flushed(z), Fin), sent[z])
  <2>1. UpTo(<<Fin>>, sent[z])
    BY UpToOne DEF Fin
  <2> QED BY <1>1, <1>4, <1>7, <2>1, UpToAppend
<1>9. HasLast(Append(Flushed(z), Fin)) => HasLast(wire[z]) \/ HasLast(out[z])
  <2>1. HasLast(Append(Flushed(z), Fin)) => HasLast(Flushed(z))
    <3>1. Fin.kind # "s"
      BY DEF Fin
    <3> QED BY <1>4, <3>1, LastFacts
  <2>2. HasLast(Flushed(z)) => HasLast(wire[z]) \/ HasLast(out[z])
    <3>1. CASE out[z] = <<>>
      BY <3>1 DEF Flushed
    <3>2. CASE out[z] # <<>>
      <4>1. HasLast(Append(wire[z], Head(out[z]))) => HasLast(wire[z]) \/ Head(out[z]).kind = "s"
        BY <1>1, LastFacts
      <4>2. Head(out[z]).kind = "s" => HasLast(out[z])
        BY <1>1, <3>2, LastTail
      <4> QED BY <3>2, <4>1, <4>2 DEF Flushed
    <3> QED BY <3>1, <3>2
  <2> QED BY <2>1, <2>2
<1>10. ASSUME ~ Deaf(p) PROVE Carries(z, Append(Flushed(z), Fin), Read(p))
  <2>1. ~ closed[p]
    BY <1>0, <1>2, <1>10 DEF StreamFine, AliveFine
  <2>2. Carries(z, wire[z], Read(p)) /\ Numbered(z, out[z], Read(p) + Len(wire[z]))
    BY <1>0, <1>2, <1>10, <2>1 DEF StreamFine, OrderFine
  <2>3. Carries(z, Flushed(z), Read(p))
    <3>1. CASE out[z] = <<>>
      BY <2>2, <3>1 DEF Flushed
    <3>2. CASE out[z] # <<>>
      <4>1. Read(p) + Len(wire[z]) \in Nat
        BY <1>1
      <4>2. Head(out[z]) = Frame(z, Read(p) + Len(wire[z]) + 1)
        BY <1>1, <2>2, <3>2, <4>1, NumberedTail
      <4>3. Carries(z, Append(wire[z], Head(out[z])), Read(p))
        BY <1>1, <2>2, <4>2, CarriesAppend
      <4> QED BY <3>2, <4>3 DEF Flushed
    <3> QED BY <3>1, <3>2
  <2>4. Fin \in Marks
    BY DEF Marks
  <2> QED BY <1>1, <1>4, <2>3, <2>4, CarriesAppend
<1> QED BY <1>6, <1>8, <1>9, <1>10

LEMMA ArriveFinKeeps ==
  ASSUME ChannelInv, ChannelTypeOK', NEW z \in Ends, ArriveFin(z)
  PROVE  ChannelInv'
<1> DEFINE p == Peer(z)
<1>0. /\ p \in Ends /\ p # z /\ Peer(p) = z /\ \A y \in Ends : y = z \/ y = p
  BY PeerFacts
<1>2. EndFine(z) /\ EndFine(p) /\ StreamFine(z) /\ StreamFine(p) /\ ChannelTypeOK
  BY <1>0 DEF ChannelInv
<1>1. /\ socket[z] # "destroyed" /\ wire[p] # <<>> /\ Head(wire[p]) = Fin
      /\ closed'[z] /\ closed'[p] = closed[p]
      /\ UNCHANGED <<step, end, sent, got, failed, parsed, inbound, feeding, cut>>
  BY <1>0, <1>2 DEF ArriveFin, ChannelTypeOK, session
<1>3. /\ socket'[p] = socket[p] /\ wire'[p] = <<>> /\ out'[p] = out[p]
      /\ socket[z] = "open" => /\ socket'[z] = "ended" /\ wire'[z] = Append(Flushed(z), Fin)
                               /\ out'[z] = <<>>
      /\ socket[z] # "open" => /\ socket'[z] = socket[z] /\ wire'[z] = wire[z] /\ out'[z] = out[z]
  <2>1. CASE socket[z] = "open"
    <3>1. /\ socket' = [socket EXCEPT ![z] = "ended"]
          /\ wire' = [wire EXCEPT ![p] = <<>>, ![z] = @ \o UnderWay(z) \o <<Fin>>]
          /\ out' = [out EXCEPT ![z] = <<>>]
      BY <2>1 DEF ArriveFin
    <3>2. wire'[z] = wire[z] \o UnderWay(z) \o <<Fin>> /\ wire'[p] = <<>>
      BY <1>0, <1>2, <3>1 DEF ChannelTypeOK
    <3>3. wire'[z] = Append(Flushed(z), Fin)
      BY <1>2, <3>2, EndedWire
    <3> QED BY <1>0, <1>2, <2>1, <3>1, <3>2, <3>3 DEF ChannelTypeOK
  <2>2. CASE socket[z] # "open"
    BY <1>0, <1>2, <2>2 DEF ArriveFin, ChannelTypeOK
  <2> QED BY <2>1, <2>2
<1>4. (Deaf(z)' <=> Deaf(z)) /\ (Deaf(p)' <=> Deaf(p))
  BY <1>1 DEF Deaf
<1>5. /\ wire[p] \in Seq(Alphabet) /\ Read(z) \in Nat /\ Written(p) \in Nat
  BY <1>0, <1>2, Values
<1>6. socket[p] # "open"
  <2>1. HasMark(wire[p])
    BY <1>1, <1>5, MarkFacts DEF Marks
  <2> QED BY <1>2, <2>1 DEF EndFine, SocketFine
<1>7. SocketFine(z)' /\ SocketFine(p)'
  <2>1. Deaf(z) \/ Deaf(p)
    BY <1>0, <1>2, <1>6 DEF EndFine, SocketFine
  <2>2. SocketFine(p)'
    BY <1>0, <1>1, <1>2, <1>3, <1>4, EmptyFacts DEF EndFine, SocketFine
  <2>3. SocketFine(z)'
    BY <1>0, <1>1, <1>2, <1>3, <1>4, <2>1 DEF EndFine, SocketFine
  <2> QED BY <2>2, <2>3
<1>8. RolesFine(z)' /\ RolesFine(p)'
  BY <1>1, <1>2 DEF EndFine, RolesFine
<1>9. OriginsFine(z)' /\ OriginsFine(p)'
  <2>1. UpTo(wire'[z], sent[z]) /\ (HasLast(wire'[z]) => HasLast(wire[z]) \/ HasLast(out[z]))
    BY <1>2, <1>3, FlushedFacts DEF EndFine, OriginsFine
  <2>2. OriginsFine(z)'
    BY <1>0, <1>1, <1>2, <1>3, <2>1, EmptyFacts DEF EndFine, OriginsFine
  <2>3. OriginsFine(p)'
    BY <1>0, <1>1, <1>2, <1>3, EmptyFacts DEF EndFine, OriginsFine
  <2> QED BY <2>2, <2>3
<1>10. StreamFine(z)'
  <2> SUFFICES ASSUME ~ Deaf(z)
               PROVE  AliveFine(z)' /\ OrderFine(z)' /\ Complete(z)'
    BY <1>4 DEF StreamFine, AliveFine, OrderFine, Complete
  <2>1. AliveFine(z)'
    BY <1>0, <1>1, <1>2, <1>3, <1>4, <1>6 DEF StreamFine, AliveFine
  <2>2. Taken(z)' = Taken(z) /\ Read(z)' = Read(z) /\ Written(p)' = Written(p)
    BY <1>1 DEF Taken, Read, Written
  <2>3. OrderFine(z)'
    BY <1>0, <1>1, <1>2, <2>2 DEF StreamFine, OrderFine
  <2>4. ASSUME p \notin cut, sent[p] > 0 PROVE Read(z) = Written(p)
    <3>1. CASE closed[z]
      BY <1>2, <2>4, <3>1 DEF StreamFine, Complete
    <3>2. CASE ~ closed[z]
      <4>1. FinBehind(wire[p], Read(z), Written(p))
        BY <1>2, <2>4, <3>2 DEF StreamFine, Complete
      <4> QED BY <1>1, <1>5, <4>1, FinTail
    <3> QED BY <3>1, <3>2
  <2>5. Complete(z)'
    BY <1>0, <1>1, <1>3, <1>6, <2>2, <2>4 DEF Complete
  <2> QED BY <2>1, <2>3, <2>5
<1>11. StreamFine(p)'
  <2> SUFFICES ASSUME ~ Deaf(p)
               PROVE  AliveFine(p)' /\ OrderFine(p)' /\ Complete(p)'
    BY <1>4 DEF StreamFine, AliveFine, OrderFine, Complete
  <2>1. socket[z] # "open"
    BY <1>0, <1>2, <1>6 DEF StreamFine, AliveFine
  <2>2. AliveFine(p)'
    BY <1>0, <1>1, <1>2, <1>3, <1>4, <2>1 DEF StreamFine, AliveFine
  <2>3. Taken(p)' = Taken(p) /\ Read(p)' = Read(p) /\ Written(z)' = Written(z)
    BY <1>1 DEF Taken, Read, Written
  <2>4. OrderFine(p)' /\ Complete(p)'
    BY <1>0, <1>1, <1>2, <1>3, <2>1, <2>3 DEF StreamFine, OrderFine, Complete
  <2> QED BY <2>2, <2>4
<1> QED BY <1>0, <1>7, <1>8, <1>9, <1>10, <1>11 DEF ChannelInv, EndFine

LEMMA LeaveKeeps ==
  ASSUME ChannelInv, ChannelTypeOK', NEW z \in Ends, Done(z) \/ FlushTimer(z)
  PROVE  ChannelInv'
<1> DEFINE p == Peer(z)
<1>0. /\ p \in Ends /\ p # z /\ Peer(p) = z /\ \A y \in Ends : y = z \/ y = p
  BY PeerFacts
<1>2. EndFine(z) /\ EndFine(p) /\ StreamFine(z) /\ StreamFine(p) /\ ChannelTypeOK
  BY <1>0 DEF ChannelInv
<1>1. /\ step[z] \in {"up", "over"} /\ step'[z] = "over" /\ step'[p] = step[p]
      /\ UNCHANGED <<end, sent, got, closed, failed, parsed, inbound, feeding>>
  <2>1. CASE Done(z)
    BY <1>0, <1>2, <2>1 DEF Done, ChannelTypeOK, framing
  <2>2. CASE FlushTimer(z)
    BY <1>0, <1>2, <2>2 DEF FlushTimer, ChannelTypeOK, framing, session
  <2> QED BY <2>1, <2>2
<1>3. EndSocket(z) \/ UNCHANGED <<socket, wire, out, cut>>
  BY DEF Done, FlushTimer
<1>4. \/ /\ UNCHANGED <<socket, wire, out, cut>>
      \/ /\ socket[z] = "open" /\ socket'[z] = "ended" /\ socket'[p] = socket[p]
         /\ wire'[z] = Append(Flushed(z), Fin) /\ wire'[p] = wire[p]
         /\ out'[z] = <<>> /\ out'[p] = out[p]
         /\ cut' = IF Len(out[z]) > 1 /\ Unwritten(z) THEN cut \cup {z} ELSE cut
  <2>1. CASE EndSocket(z) /\ socket[z] = "open"
    <3>1. /\ socket' = [socket EXCEPT ![z] = "ended"]
          /\ wire' = [wire EXCEPT ![z] = @ \o UnderWay(z) \o <<Fin>>]
          /\ out' = [out EXCEPT ![z] = <<>>]
          /\ cut' = IF Len(out[z]) > 1 /\ Unwritten(z) THEN cut \cup {z} ELSE cut
      BY <2>1 DEF EndSocket
    <3>2. wire'[z] = wire[z] \o UnderWay(z) \o <<Fin>> /\ wire'[p] = wire[p]
      BY <1>0, <1>2, <3>1 DEF ChannelTypeOK
    <3>3. wire'[z] = Append(Flushed(z), Fin)
      BY <1>2, <3>2, EndedWire
    <3> QED BY <1>0, <1>2, <2>1, <3>1, <3>2, <3>3 DEF ChannelTypeOK
  <2>2. CASE ~ (EndSocket(z) /\ socket[z] = "open")
    BY <1>3, <2>2 DEF EndSocket
  <2> QED BY <2>1, <2>2
<1>5. Deaf(z)' /\ (Deaf(p)' <=> Deaf(p))
  BY <1>1 DEF Deaf
<1>6. SocketFine(z)' /\ SocketFine(p)'
  BY <1>0, <1>1, <1>2, <1>4, <1>5 DEF EndFine, SocketFine
<1>7. RolesFine(z)' /\ RolesFine(p)'
  BY <1>0, <1>1, <1>2 DEF EndFine, RolesFine
<1>8. OriginsFine(z)' /\ OriginsFine(p)'
  <2>1. UpTo(wire'[z], sent[z]) /\ UpTo(out'[z], sent[z])
    BY <1>2, <1>4, FlushedFacts, EmptyFacts DEF EndFine, OriginsFine
  <2>2. HasLast(wire'[z]) \/ HasLast(out'[z]) => HasLast(wire[z]) \/ HasLast(out[z])
    BY <1>4, FlushedFacts, EmptyFacts
  <2>3. step[Initiator] \in {"up", "over"} => step'[Initiator] \in {"up", "over"}
    BY <1>0, <1>1 DEF Ends
  <2>4. OriginsFine(z)'
    BY <1>0, <1>1, <1>2, <1>4, <2>1, <2>2, <2>3 DEF EndFine, OriginsFine
  <2>5. OriginsFine(p)'
    BY <1>0, <1>1, <1>2, <1>4, <2>3 DEF EndFine, OriginsFine
  <2> QED BY <2>4, <2>5
<1>9. StreamFine(z)'
  BY <1>5 DEF StreamFine, AliveFine, OrderFine, Complete
<1>10. StreamFine(p)'
  <2> SUFFICES ASSUME ~ Deaf(p)
               PROVE  AliveFine(p)' /\ OrderFine(p)' /\ Complete(p)'
    BY <1>5 DEF StreamFine, AliveFine, OrderFine, Complete
  <2>1. Taken(p)' = Taken(p) /\ Read(p)' = Read(p) /\ Written(z)' = Written(z)
    BY <1>1 DEF Taken, Read, Written
  <2>2. AliveFine(p)'
    BY <1>0, <1>1, <1>2, <1>4, <1>5 DEF StreamFine, AliveFine
  <2>3. CASE UNCHANGED <<socket, wire, out, cut>>
    BY <1>0, <1>1, <1>2, <2>1, <2>2, <2>3 DEF StreamFine, OrderFine, Complete
  <2>4. CASE ~ UNCHANGED <<socket, wire, out, cut>>
    <3>1. /\ socket[z] = "open" /\ socket'[z] = "ended"
          /\ wire'[z] = Append(Flushed(z), Fin) /\ out'[z] = <<>>
          /\ cut' = IF Len(out[z]) > 1 /\ Unwritten(z) THEN cut \cup {z} ELSE cut
      BY <1>4, <2>4
    <3>2. ~ closed[p]
      BY <1>0, <1>2, <3>1 DEF StreamFine, AliveFine
    <3>3. OrderFine(p)'
      BY <1>0, <1>1, <1>2, <2>1, <3>1, <3>2, FlushedFacts, EmptyFacts DEF StreamFine, OrderFine
    <3>4. ASSUME z \notin cut', sent[z] > 0 PROVE FinBehind(wire'[z], Read(p), Written(z))
      <4>1. /\ out[z] \in Seq(Alphabet) /\ Len(out[z]) \in Nat /\ Len(wire[z]) \in Nat
            /\ Read(p) \in Nat /\ Written(z) \in Nat
        BY <1>0, <1>2, Values
      <4>2. Len(out[z]) <= 1
        <5>1. out[z] # <<>> => Unwritten(z)
          BY <1>0, <3>1, <3>4, LastIsMessage
        <5>2. Len(out[z]) > 1 => out[z] # <<>>
          BY <4>1
        <5>3. ~ (Len(out[z]) > 1)
          BY <3>1, <3>4, <5>1, <5>2
        <5> QED BY <4>1, <5>3
      <4>3. Flushed(z) \in Seq(Alphabet) /\ Len(Flushed(z)) = Len(wire[z]) + Len(out[z])
        BY <1>2, <4>2, EndedWire
      <4>4. Read(p) + Len(wire[z]) + Len(out[z]) = Written(z)
        BY <1>0, <1>2, <3>1 DEF StreamFine, Complete
      <4>5. Read(p) + Len(Flushed(z)) = Written(z)
        <5>1. \A i, j, k \in Nat : i + (j + k) = i + j + k
          OBVIOUS
        <5>2. Read(p) + (Len(wire[z]) + Len(out[z])) = Written(z)
          BY <4>1, <4>4, <5>1
        <5> QED BY <4>3, <5>2
      <4>6. FinBehind(Flushed(z), Read(p), Written(z))
        BY <3>1, FlushedFacts, Unmarked
      <4> QED BY <3>1, <4>1, <4>3, <4>5, <4>6, FinAppend
    <3>5. Complete(p)'
      BY <1>0, <1>1, <2>1, <3>1, <3>2, <3>4 DEF Complete
    <3> QED BY <2>2, <3>3, <3>5
  <2> QED BY <2>3, <2>4
<1> QED BY <1>0, <1>6, <1>7, <1>8, <1>9, <1>10 DEF ChannelInv, EndFine

-----------------------------------------------------------------------------
(* The handshake.                                                          *)

\* A side says its next word of the handshake, or has none to say.
Speaks(z) ==
  /\ step[z] \notin {"up", "over", "down"}
  /\ \/ socket[z] # "open" /\ out'[z] = out[z]
     \/ Written(z)' = Written(z) /\ out'[z] = out[z]
     \/ /\ socket[z] = "open" /\ Written(z)' = Written(z) + 1
        /\ out'[z] = Append(out[z], Frame(z, Written(z) + 1))
        /\ Frame(z, Written(z) + 1).kind # "message"
  /\ sent'[z] = sent[z] /\ wire'[z] = wire[z] /\ socket'[z] = socket[z] /\ cut' = cut

\* What the peer has still to take is then as fine as it was.
LEMMA SpeaksKeeps ==
  ASSUME ChannelInv, ChannelTypeOK', NEW z \in Ends, Speaks(z),
         UNCHANGED <<Taken(Peer(z)), inbound[Peer(z)], parsed[Peer(z)], closed[Peer(z)],
                     socket[Peer(z)], Deaf(Peer(z))>>
  PROVE  StreamFine(Peer(z))' /\ UpTo(out'[z], sent[z])
<1> DEFINE p == Peer(z)
<1>0. /\ p \in Ends /\ p # z /\ Peer(p) = z /\ \A y \in Ends : y = z \/ y = p
  BY PeerFacts
<1>2. EndFine(z) /\ EndFine(p) /\ StreamFine(z) /\ StreamFine(p) /\ ChannelTypeOK
  BY <1>0 DEF ChannelInv
<1>1. /\ out[z] \in Seq(Alphabet) /\ sent[z] \in Nat /\ Read(p) \in Nat /\ Len(wire[z]) \in Nat
      /\ Written(z) \in Nat /\ Len(out[z]) \in Nat
  BY <1>0, <1>2, Values
<1>3. sent[z] = 0 /\ UpTo(out[z], sent[z])
  BY <1>2 DEF Speaks, EndFine, RolesFine, OriginsFine
<1>4. UpTo(out'[z], sent[z])
  <2>1. CASE out'[z] = out[z]
    BY <1>3, <2>1
  <2>2. CASE out'[z] # out[z]
    <3>1. /\ out'[z] = Append(out[z], Frame(z, Written(z) + 1))
          /\ Frame(z, Written(z) + 1).kind # "message"
      BY <2>2 DEF Speaks
    <3>2. UpTo(<<Frame(z, Written(z) + 1)>>, sent[z])
      BY <3>1, UpToOne
    <3> QED BY <1>1, <1>3, <3>1, <3>2, UpToAppend
  <2> QED BY <2>1, <2>2
<1>5. StreamFine(p)'
  <2> SUFFICES ASSUME ~ Deaf(p)
               PROVE  AliveFine(p)' /\ OrderFine(p)' /\ Complete(p)'
    BY DEF StreamFine, AliveFine, OrderFine, Complete
  <2>1. socket[z] # "ended"
    BY <1>0, <1>2 DEF Speaks, StreamFine, AliveFine
  <2>2. AliveFine(p)'
    BY <1>0, <1>2, <2>1 DEF Speaks, StreamFine, AliveFine
  <2>3. Read(p)' = Read(p) /\ Taken(p)' = Taken(p)
    BY DEF Read
  <2>4. CASE socket[z] # "open"
    <3>1. out'[z] = out[z]
      BY <2>4 DEF Speaks
    <3>2. OrderFine(p)'
      BY <1>0, <1>2, <2>3, <3>1 DEF Speaks, StreamFine, OrderFine
    <3>3. Complete(p)'
      BY <1>0, <1>1, <1>3, <2>4 DEF Speaks, Complete
    <3> QED BY <2>2, <3>2, <3>3
  <2>5. CASE socket[z] = "open"
    <3>1. ~ closed[p]
      BY <1>0, <1>2, <2>5 DEF StreamFine, AliveFine
    <3> DEFINE n == Read(p) + Len(wire[z])
    <3>2. /\ Carries(z, wire[z], Read(p)) /\ Numbered(z, out[z], n) /\ n \in Nat
          /\ n + Len(out[z]) = Written(z)
      BY <1>0, <1>1, <1>2, <2>5, <3>1 DEF StreamFine, OrderFine, Complete
    <3>3. Numbered(z, out'[z], n) /\ n + Len(out'[z]) = Written(z)'
      <4>1. CASE Written(z)' = Written(z) /\ out'[z] = out[z]
        BY <3>2, <4>1
      <4>2. CASE Written(z)' = Written(z) + 1 /\ out'[z] = Append(out[z], Frame(z, Written(z) + 1))
        <5>1. Numbered(z, out'[z], n)
          BY <1>1, <3>2, <4>2, NumberedAppend
        <5>2. Len(out'[z]) = Len(out[z]) + 1
          BY <1>1, <4>2, AppendFacts
        <5>3. n \in Nat /\ Len(out[z]) \in Nat
          BY <1>1, <3>2
        <5>4. n + (Len(out[z]) + 1) = (n + Len(out[z])) + 1
          BY <5>3
        <5>5. n + Len(out'[z]) = Written(z)'
          BY <3>2, <4>2, <5>2, <5>4
        <5> QED BY <5>1, <5>5
      <4> QED BY <2>5, <4>1, <4>2 DEF Speaks
    <3>4. OrderFine(p)'
      BY <1>0, <2>3, <3>1, <1>2, <3>2, <3>3 DEF Speaks, StreamFine, OrderFine
    <3>5. Complete(p)'
      BY <1>0, <1>1, <1>3, <2>3, <3>1, <3>3 DEF Speaks, Complete
    <3> QED BY <2>2, <3>4, <3>5
  <2> QED BY <2>4, <2>5
<1> QED BY <1>4, <1>5

LEMMA DialKeeps ==
  ASSUME ChannelInv, ChannelTypeOK', Dial
  PROVE  ChannelInv'
<1> DEFINE z == Initiator
<1>z. z \in Ends
  BY DEF Ends
<1> DEFINE p == Peer(z)
<1>0. /\ p \in Ends /\ p # z /\ Peer(p) = z /\ \A y \in Ends : y = z \/ y = p
  BY <1>z, PeerFacts
<1>2. EndFine(z) /\ EndFine(p) /\ StreamFine(z) /\ StreamFine(p) /\ ChannelTypeOK
  BY <1>0, <1>z DEF ChannelInv
<1>1. /\ step[z] = "dial" /\ step'[z] = "wait ee" /\ step'[p] = step[p]
      /\ IF socket[z] = "open" THEN out'[z] = Append(out[z], Handshake("e")) ELSE out'[z] = out[z]
      /\ out'[p] = out[p]
      /\ UNCHANGED <<end, sent, got, socket, wire, closed, failed, parsed, inbound, feeding, cut>>
  <2>1. /\ step[z] = "dial" /\ step' = [step EXCEPT ![z] = "wait ee"]
        /\ IF socket[z] = "open" THEN out' = [out EXCEPT ![z] = Append(@, Handshake("e"))]
           ELSE out' = out
        /\ UNCHANGED <<end, sent, got, socket, wire, closed, failed, parsed, inbound, feeding, cut>>
    BY DEF Dial, Push, framing
  <2>2. step \in [Ends -> Steps] /\ out \in [Ends -> Seq(Frames)]
    BY <1>2 DEF ChannelTypeOK
  <2> QED BY <1>z, <1>0, <2>1, <2>2
<1>3. (Deaf(z)' <=> Deaf(z)) /\ (Deaf(p)' <=> Deaf(p))
  BY <1>1 DEF Deaf
<1>4. Handshake("e") = Frame(z, 1) /\ Handshake("e").kind = "e" /\ Written(z) = 0 /\ Written(z)' = 1
  BY <1>1 DEF Frame, Handshake, Written
<1>5. Speaks(z)
  <2>1. Written(z) + 1 = 1
    BY <1>4
  <2>2. /\ Written(z)' = Written(z) + 1
        /\ Frame(z, Written(z) + 1) = Handshake("e") /\ Handshake("e").kind # "message"
    BY <1>4, <2>1
  <2> QED BY <1>1, <2>2 DEF Speaks
<1>6. Taken(p)' = Taken(p) /\ Taken(z)' = Taken(z) /\ Read(z)' = Read(z)
  BY <1>1 DEF Taken, Read
<1>7. Deaf(p)' = Deaf(p)
  BY <1>1 DEF Deaf
<1>8. StreamFine(p)' /\ UpTo(out'[z], sent[z])
  BY <1>z, <1>1, <1>5, <1>6, <1>7, SpeaksKeeps
<1>9. StreamFine(z)'
  BY <1>0, <1>1, <1>2, <1>3, <1>6 DEF StreamFine, AliveFine, OrderFine, Complete, Written
<1>10. HasLast(out'[z]) => HasLast(out[z])
  <2>1. out[z] \in Seq(Alphabet)
    BY <1>z, <1>2, Values
  <2> QED BY <1>1, <1>4, <2>1, LastFacts
<1>11. SocketFine(z)' /\ SocketFine(p)'
  BY <1>0, <1>1, <1>2, <1>3 DEF EndFine, SocketFine
<1>12. RolesFine(z)' /\ RolesFine(p)'
  BY EndsAssumption, <1>0, <1>1, <1>2 DEF EndFine, RolesFine
<1>13. OriginsFine(z)' /\ OriginsFine(p)'
  BY <1>0, <1>1, <1>2, <1>8, <1>10 DEF EndFine, OriginsFine
<1> QED BY <1>0, <1>8, <1>9, <1>11, <1>12, <1>13 DEF ChannelInv, EndFine

LEMMA Numbers == 2 # 1 /\ 2 + 0 = 2 /\ 1 + 0 = 1
OBVIOUS

LEMMA ShakeKeeps ==
  ASSUME ChannelInv, ChannelTypeOK', NEW z \in Ends, Shake(z)
  PROVE  ChannelInv'
<1> DEFINE p == Peer(z)
<1>0. /\ p \in Ends /\ p # z /\ Peer(p) = z /\ \A y \in Ends : y = z \/ y = p
  BY PeerFacts
<1>2. EndFine(z) /\ EndFine(p) /\ StreamFine(z) /\ StreamFine(p) /\ ChannelTypeOK
  BY <1>0 DEF ChannelInv
<1>1. /\ inbound[z] # <<>> /\ Head(inbound[z]).kind = Awaited(z)
      /\ inbound'[z] = Tail(inbound[z]) /\ inbound'[p] = inbound[p]
      /\ step'[z] = (IF step[z] = "wait e" THEN "wait s" ELSE "up") /\ step'[p] = step[p]
      /\ IF step[z] = "wait s" \/ socket[z] # "open" THEN out'[z] = out[z]
         ELSE out'[z] = Append(out[z], Handshake(IF step[z] = "wait e" THEN "ee" ELSE "s"))
      /\ out'[p] = out[p]
      /\ UNCHANGED <<end, sent, got, socket, wire, closed, failed, parsed, feeding, cut>>
  <2>1. /\ inbound[z] # <<>> /\ Head(inbound[z]).kind = Awaited(z)
        /\ UNCHANGED <<end, sent, got, socket, wire, closed, failed, parsed, feeding, cut>>
    BY DEF Shake, framing
  <2>2. inbound'[z] = Tail(inbound[z]) /\ inbound'[p] = inbound[p]
    BY <1>0, <1>2 DEF Shake, ChannelTypeOK
  <2>3. step'[z] = (IF step[z] = "wait e" THEN "wait s" ELSE "up") /\ step'[p] = step[p]
    BY <1>0, <1>2 DEF Shake, ChannelTypeOK
  <2>4. CASE step[z] = "wait s" \/ socket[z] # "open"
    BY <2>1, <2>2, <2>3, <2>4 DEF Shake
  <2>5. CASE ~ (step[z] = "wait s" \/ socket[z] # "open")
    <3>1. out' = [out EXCEPT ![z] = Append(@, Handshake(IF step[z] = "wait e" THEN "ee" ELSE "s"))]
      BY <2>5 DEF Shake, Push
    <3>2. /\ out'[z] = Append(out[z], Handshake(IF step[z] = "wait e" THEN "ee" ELSE "s"))
          /\ out'[p] = out[p]
      BY <1>0, <1>2, <3>1 DEF ChannelTypeOK
    <3> QED BY <2>1, <2>2, <2>3, <2>5, <3>2
  <2> QED BY <2>4, <2>5
<1>3. /\ inbound[z] \in Seq(Alphabet) /\ out[z] \in Seq(Alphabet) /\ sent[p] \in Nat
      /\ Taken(z) \in Nat /\ Len(inbound[z]) \in Nat /\ Len(parsed[z]) \in Nat
  BY <1>0, <1>2, Values
<1>4. step[z] \in {"wait e", "wait ee", "wait s"} /\ Head(inbound[z]) # Kill
  <2>1. step[z] \in Steps /\ inbound[z] \in Seq(Frames \cup {Kill})
    BY <1>2 DEF ChannelTypeOK
  <2>2. inbound[z] # <<>> /\ Head(inbound[z]).kind = Awaited(z)
    BY <1>1
  <2>3. Awaited(z) # "none"
    <3>1. Head(inbound[z]) \in Frames \cup {Kill}
      BY <2>1, <2>2
    <3>2. \A f \in Frames \cup {Kill} : f.kind # "none"
      BY DEF Frames, Message, Handshake, Kill
    <3> QED BY <2>2, <3>1, <3>2
  <2>4. step[z] \in {"wait e", "wait ee", "wait s"}
    BY <2>3 DEF Awaited
  <2>5. Awaited(z) # "kill"
    BY <2>4 DEF Awaited
  <2>6. Head(inbound[z]) # Kill
    BY <2>2, <2>5 DEF Kill
  <2> QED BY <2>4, <2>6
<1>5. sent[z] = 0 /\ got[z] = <<>> /\ Len(got[z]) = 0
  BY <1>2, <1>4 DEF EndFine, RolesFine
<1>6. HasKill(inbound'[z]) <=> HasKill(inbound[z])
  <2>1. inbound[z] # <<>> /\ inbound'[z] = Tail(inbound[z])
    BY <1>1
  <2> QED BY <2>1, <1>3, <1>4, KillTail
<1>7. (Deaf(z)' <=> Deaf(z)) /\ (Deaf(p)' <=> Deaf(p))
  BY <1>1, <1>4, <1>6 DEF Deaf
<1>8. /\ step[z] = "wait ee" => z = Initiator
      /\ step[z] \in {"wait e", "wait s"} => z = Responder
  BY <1>2, <1>4 DEF EndFine, RolesFine, Ends
<1>9. Taken(z)' = Taken(z) + 1
  <2>1. Len(got[z])' = 0
    BY <1>1, <1>5
  <2>2. CASE step[z] = "wait e"
    <3>1. step'[z] = "wait s"
      BY <1>1, <2>2
    <3>2. Taken(z)' = 1 /\ Taken(z) = 0
      BY <2>2, <3>1 DEF Taken
    <3>3. 1 = 0 + 1
      OBVIOUS
    <3> QED BY <3>2, <3>3
  <2>3. CASE step[z] = "wait ee"
    <3>1. step'[z] = "up" /\ Shaken(p) = 1
      BY EndsAssumption, <1>1, <1>8, <2>3 DEF Shaken, Peer
    <3>2. Taken(z)' = Shaken(p) + Len(got[z])' /\ Taken(z) = 0
      BY <2>3, <3>1 DEF Taken
    <3> QED BY <2>1, <3>1, <3>2
  <2>4. CASE step[z] = "wait s"
    <3>1. step'[z] = "up" /\ Shaken(p) = 2
      BY EndsAssumption, <1>1, <1>8, <2>4 DEF Shaken, Peer
    <3>2. Taken(z)' = Shaken(p) + Len(got[z])' /\ Taken(z) = 1
      BY <2>4, <3>1 DEF Taken
    <3> QED BY <2>1, <3>1, <3>2
  <2> QED BY <1>4, <2>2, <2>3, <2>4
<1>10. /\ step[z] = "wait e" => /\ Written(z) = 0 /\ Written(z)' = 1
                                /\ Handshake("ee") = Frame(z, 1) /\ Handshake("ee").kind = "ee"
       /\ step[z] = "wait ee" => /\ Written(z) = 1 /\ Written(z)' = 2
                                 /\ Handshake("s") = Frame(z, 2) /\ Handshake("s").kind = "s"
       /\ step[z] = "wait s" => Written(z) = 1 /\ Written(z)' = 1
  <2>1. sent'[z] = 0 /\ step'[z] = (IF step[z] = "wait e" THEN "wait s" ELSE "up")
    BY <1>1, <1>5
  <2>2. step[z] = "wait e" => /\ Written(z) = 0 /\ Written(z)' = 1
                              /\ Handshake("ee") = Frame(z, 1) /\ Handshake("ee").kind = "ee"
    BY EndsAssumption, <1>8, <2>1 DEF Written, Frame, Handshake
  <2>3. step[z] = "wait ee" => /\ Written(z) = 1 /\ Written(z)' = 2
                               /\ Handshake("s") = Frame(z, 2) /\ Handshake("s").kind = "s"
    <3> SUFFICES ASSUME step[z] = "wait ee"
                 PROVE  /\ Written(z) = 1 /\ Written(z)' = 2
                        /\ Handshake("s") = Frame(z, 2) /\ Handshake("s").kind = "s"
      OBVIOUS
    <3>0. z = Initiator
      BY <1>8
    <3>1. Handshake("s") = Frame(z, 2) /\ Handshake("s").kind = "s" /\ Shaken(z) = 2
      <4>1. 2 # 1
        BY Numbers, Zenon
      <4>2. Frame(z, 2) = Handshake("s")
        BY <3>0, <4>1, Zenon DEF Frame
      <4>3. Shaken(z) = 2
        BY <3>0, Zenon DEF Shaken
      <4>4. Handshake("s").kind = "s"
        BY DEF Handshake
      <4> QED BY <4>2, <4>3, <4>4
    <3>2. Written(z) = 1
      BY DEF Written
    <3>3. Written(z)' = Shaken(z) + sent'[z]
      BY <2>1 DEF Written
    <3>4. 2 + 0 = 2
      BY Numbers, Zenon
    <3>5. sent'[z] = 0
      BY <2>1
    <3> QED BY <3>1, <3>2, <3>3, <3>4, <3>5
  <2>4. step[z] = "wait s" => Written(z) = 1 /\ Written(z)' = 1
    <3> SUFFICES ASSUME step[z] = "wait s" PROVE Written(z) = 1 /\ Written(z)' = 1
      OBVIOUS
    <3>1. Shaken(z) = 1
      BY EndsAssumption, <1>8 DEF Shaken
    <3>2. Written(z) = 1
      BY DEF Written
    <3>3. Written(z)' = Shaken(z) + sent'[z]
      BY <2>1 DEF Written
    <3>4. 1 + 0 = 1
      BY Numbers, Zenon
    <3>5. sent'[z] = 0
      BY <2>1
    <3> QED BY <3>1, <3>2, <3>3, <3>4, <3>5
  <2> QED BY <2>2, <2>3, <2>4
<1>11. Speaks(z)
  <2>1. /\ step[z] \notin {"up", "over", "down"}
        /\ sent'[z] = sent[z] /\ wire'[z] = wire[z] /\ socket'[z] = socket[z] /\ cut' = cut
    BY <1>1, <1>4
  <2>2. CASE socket[z] # "open"
    <3>1. out'[z] = out[z]
      BY <1>1, <2>2
    <3> QED BY <2>1, <2>2, <3>1 DEF Speaks
  <2>3. CASE step[z] = "wait s"
    <3>1. out'[z] = out[z] /\ Written(z)' = Written(z)
      BY <1>1, <1>10, <2>3
    <3> QED BY <2>1, <3>1 DEF Speaks
  <2>4. CASE socket[z] = "open" /\ step[z] = "wait e"
    <3>1. out'[z] = Append(out[z], Handshake("ee"))
      BY <1>1, <2>4
    <3>2. Written(z) + 1 = 1 /\ Written(z)' = Written(z) + 1 /\ Handshake("ee") = Frame(z, 1)
      <4>1. Written(z) = 0 /\ Written(z)' = 1 /\ Handshake("ee") = Frame(z, 1)
        BY <1>10, <2>4
      <4>2. 0 + 1 = 1
        OBVIOUS
      <4> QED BY <4>1, <4>2
    <3>3. Handshake("ee") = Frame(z, Written(z) + 1) /\ Frame(z, Written(z) + 1).kind # "message"
      BY <1>10, <2>4, <3>2
    <3> QED BY <2>1, <2>4, <3>1, <3>2, <3>3 DEF Speaks
  <2>5. CASE socket[z] = "open" /\ step[z] = "wait ee"
    <3>1. out'[z] = Append(out[z], Handshake("s"))
      BY <1>1, <2>5
    <3>2. Written(z) + 1 = 2 /\ Written(z)' = Written(z) + 1 /\ Handshake("s") = Frame(z, 2)
      <4>1. Written(z) = 1 /\ Written(z)' = 2 /\ Handshake("s") = Frame(z, 2)
        BY <1>10, <2>5
      <4>2. 1 + 1 = 2
        OBVIOUS
      <4> QED BY <4>1, <4>2
    <3>3. Handshake("s") = Frame(z, Written(z) + 1) /\ Frame(z, Written(z) + 1).kind # "message"
      BY <1>10, <2>5, <3>2
    <3> QED BY <2>1, <2>5, <3>1, <3>2, <3>3 DEF Speaks
  <2> QED BY <1>4, <2>2, <2>3, <2>4, <2>5
<1>12. Deaf(p)' = Deaf(p) /\ Taken(p)' = Taken(p)
  BY <1>0, <1>1 DEF Deaf, Taken
<1>13. StreamFine(p)' /\ UpTo(out'[z], sent[z])
  BY <1>0, <1>1, <1>11, <1>12, SpeaksKeeps
<1>14. StreamFine(z)'
  <2> SUFFICES ASSUME ~ Deaf(z)
               PROVE  AliveFine(z)' /\ OrderFine(z)' /\ Complete(z)'
    BY <1>7 DEF StreamFine, AliveFine, OrderFine, Complete
  <2>1. AliveFine(z)'
    BY <1>0, <1>1, <1>2, <1>7 DEF StreamFine, AliveFine
  <2>2. Numbered(p, inbound'[z], Taken(z) + 1)
    <3>1. Numbered(p, inbound[z], Taken(z))
      BY <1>2 DEF StreamFine, OrderFine
    <3> QED BY <1>1, <1>3, <3>1, NumberedTail
  <2>3. Len(inbound'[z]) = Len(inbound[z]) - 1
    BY <1>1, <1>3, HeadAndTail
  <2>4. Read(z)' = Read(z) /\ Taken(z)' + Len(inbound'[z]) = Taken(z) + Len(inbound[z])
    <3>1. (Taken(z) + 1) + (Len(inbound[z]) - 1) = Taken(z) + Len(inbound[z])
      BY <1>3
    <3> QED BY <1>1, <1>9, <2>3, <3>1 DEF Read
  <2>5. OrderFine(z)'
    BY <1>0, <1>1, <1>2, <1>9, <2>2, <2>4 DEF StreamFine, OrderFine
  <2>6. Complete(z)'
    BY <1>0, <1>1, <1>2, <2>4 DEF StreamFine, Complete, Written
  <2> QED BY <2>1, <2>5, <2>6
<1>15. SocketFine(z)' /\ SocketFine(p)'
  <2>1. socket[z] # "open" => out'[z] = out[z]
    BY <1>1
  <2>2. step'[z] = step[z] \/ (step[z] # "down" /\ step'[z] # "down")
    BY <1>1, <1>4
  <2>3. UNCHANGED <<socket, wire, closed, failed, parsed, feeding>> /\ inbound'[p] = inbound[p]
        /\ step'[p] = step[p] /\ out'[p] = out[p]
    BY <1>1
  <2> QED BY <1>0, <1>2, <1>6, <1>7, <2>1, <2>2, <2>3 DEF EndFine, SocketFine
<1>16. RolesFine(z)' /\ RolesFine(p)'
  BY EndsAssumption, <1>0, <1>1, <1>2, <1>4, <1>8 DEF EndFine, RolesFine
<1>17. OriginsFine(z)' /\ OriginsFine(p)'
  <2>1. UpTo(inbound'[z], sent[p])
    <3>1. UpTo(inbound[z], sent[p])
      BY <1>0, <1>2 DEF EndFine, OriginsFine
    <3> QED BY <1>1, <1>3, <3>1, UpToTail
  <2>2. HasLast(inbound'[z]) => HasLast(inbound[z])
    BY <1>1, <1>3, LastTail
  <2>3. HasLast(out'[z]) => HasLast(out[z]) \/ step'[Initiator] \in {"up", "over"}
    <3>1. CASE step[z] = "wait ee"
      BY <1>1, <1>8, <3>1
    <3>2. CASE step[z] # "wait ee"
      BY <1>1, <1>3, <1>4, <1>10, <3>2, LastFacts
    <3> QED BY <3>1, <3>2
  <2>4. step[Initiator] \in {"up", "over"} => step'[Initiator] \in {"up", "over"}
    BY <1>0, <1>1, <1>4 DEF Ends
  <2>5. UpTo(parsed[p], sent[z]) /\ UpTo(inbound[p], sent[z])
    BY <1>2 DEF EndFine, OriginsFine
  <2>6. OriginsFine(z)'
    BY <1>0, <1>1, <1>2, <1>13, <2>2, <2>3, <2>4 DEF EndFine, OriginsFine
  <2>7. OriginsFine(p)'
    BY <1>0, <1>1, <1>2, <2>1, <2>4 DEF EndFine, OriginsFine
  <2> QED BY <2>6, <2>7
<1> QED BY <1>0, <1>13, <1>14, <1>15, <1>16, <1>17 DEF ChannelInv, EndFine

LEMMA ShakeFailsKeeps ==
  ASSUME ChannelInv, ChannelTypeOK', NEW z \in Ends, ShakeFails(z)
  PROVE  ChannelInv'
<1> DEFINE p == Peer(z)
<1>0. /\ p \in Ends /\ p # z /\ Peer(p) = z /\ \A y \in Ends : y = z \/ y = p
  BY PeerFacts
<1>2. EndFine(z) /\ EndFine(p) /\ StreamFine(z) /\ StreamFine(p) /\ ChannelTypeOK
  BY <1>0 DEF ChannelInv
<1>1. /\ step'[z] = "down" /\ step'[p] = step[p] /\ step[z] \in {"wait e", "wait ee", "wait s"}
      /\ UNCHANGED <<end, sent, got, closed, failed, parsed, inbound, feeding>>
  BY <1>0, <1>2 DEF ShakeFails, Awaited, ChannelTypeOK, framing
<1>3. Deaf(z)' /\ (Deaf(p)' <=> Deaf(p))
  BY <1>1 DEF Deaf
<1>4. CASE z = Responder /\ socket[z] # "destroyed"
  <2>1. PICK last \in {Fin, Reset} : Destroy(z, last)
    BY <1>4 DEF ShakeFails
  <2>2. Collapses(z)
    BY <1>0, <1>1, <1>2, <1>3, <2>1, DestroyEffects DEF Collapses
  <2> QED BY <2>2, CollapseKeeps
<1>5. CASE ~ (z = Responder /\ socket[z] # "destroyed")
  <2>1. UNCHANGED <<out, socket, wire, cut>>
    BY <1>5 DEF ShakeFails
  <2>2. sent[z] = 0
    BY <1>1, <1>2 DEF EndFine, RolesFine
  <2>3. SocketFine(z)' /\ SocketFine(p)'
    BY <1>0, <1>1, <1>2, <1>3, <2>1 DEF EndFine, SocketFine
  <2>4. RolesFine(z)' /\ RolesFine(p)'
    BY <1>0, <1>1, <1>2 DEF EndFine, RolesFine
  <2>5. OriginsFine(z)' /\ OriginsFine(p)'
    <3>1. step[Initiator] \in {"up", "over"} => step'[Initiator] \in {"up", "over"}
      BY <1>0, <1>1 DEF Ends
    <3> QED BY <1>0, <1>1, <1>2, <2>1, <3>1 DEF EndFine, OriginsFine
  <2>6. StreamFine(z)'
    BY <1>3 DEF StreamFine, AliveFine, OrderFine, Complete
  <2>7. StreamFine(p)'
    <3> SUFFICES ASSUME ~ Deaf(p)
                 PROVE  AliveFine(p)' /\ OrderFine(p)' /\ Complete(p)'
      BY <1>3 DEF StreamFine, AliveFine, OrderFine, Complete
    <3>1. Taken(p)' = Taken(p) /\ Read(p)' = Read(p)
      BY <1>1 DEF Taken, Read
    <3>2. AliveFine(p)'
      BY <1>0, <1>1, <1>2, <1>3, <2>1 DEF StreamFine, AliveFine
    <3>3. OrderFine(p)'
      BY <1>0, <1>1, <1>2, <1>3, <2>1, <3>1 DEF StreamFine, OrderFine
    <3>4. socket[z] = "open" => Written(z)' = Written(z)
      <4>1. socket[z] = "open" => step[z] = "wait ee"
        BY EndsAssumption, <1>1, <1>2, <1>5 DEF EndFine, RolesFine, Ends
      <4> QED BY <1>1, <4>1 DEF Written
    <3>5. Complete(p)'
      <4>1. ~ (sent'[z] > 0)
        <5>1. sent'[z] = 0
          BY <1>1, <2>2
        <5>2. ~ (0 > 0)
          OBVIOUS
        <5> QED BY <5>1, <5>2
      <4> QED BY <1>0, <1>1, <1>2, <2>1, <3>1, <3>4, <4>1 DEF StreamFine, Complete
    <3> QED BY <3>2, <3>3, <3>5
  <2> QED BY <1>0, <2>3, <2>4, <2>5, <2>6, <2>7 DEF ChannelInv, EndFine
<1> QED BY <1>4, <1>5

-----------------------------------------------------------------------------
(* The invariant holds.                                                    *)

LEMMA InitInv == ChannelInit => ChannelInv
<1> SUFFICES ASSUME ChannelInit, NEW z \in Ends PROVE EndFine(z) /\ StreamFine(z)
  BY InitType DEF ChannelInv
<1> DEFINE p == Peer(z)
<1>0. p \in Ends /\ p # z
  BY PeerFacts
<1>1. /\ \A x \in Ends : /\ out[x] = <<>> /\ wire[x] = <<>> /\ parsed[x] = <<>> /\ inbound[x] = <<>>
                         /\ got[x] = <<>> /\ sent[x] = 0 /\ socket[x] = "open"
                         /\ ~ closed[x] /\ ~ failed[x] /\ feeding[x]
                         /\ step[x] = (IF x = Initiator THEN "dial" ELSE "wait e")
      /\ cut = {}
  BY DEF ChannelInit
<1>2. RolesFine(z)
  BY EndsAssumption, <1>1 DEF RolesFine
<1>3. SocketFine(z)
  BY <1>1, EmptyFacts DEF SocketFine
<1>4. OriginsFine(z)
  <2>1. Len(<<>>) <= 0
    OBVIOUS
  <2> QED BY <1>0, <1>1, <2>1, EmptyFacts DEF OriginsFine
<1>5. AliveFine(z) /\ OrderFine(z)
  BY <1>0, <1>1, EmptyFacts DEF AliveFine, OrderFine
<1>6. Complete(z)
  <2>1. Taken(z) = 0 /\ Written(p) = 0
    BY <1>0, <1>1 DEF Taken, Written
  <2>2. Len(<<>>) = 0 /\ 0 + 0 = 0 /\ ~ (0 > 0)
    OBVIOUS
  <2>3. Read(z) + Len(wire[p]) + Len(out[p]) = Written(p)
    BY <1>0, <1>1, <2>1, <2>2 DEF Read
  <2> QED BY <1>0, <1>1, <2>2, <2>3 DEF Complete
<1> QED BY <1>2, <1>3, <1>4, <1>5, <1>6 DEF EndFine, StreamFine

LEMMA StutterInv == ASSUME ChannelInv, UNCHANGED channelVars PROVE ChannelInv'
<1>1. ChannelTypeOK'
  BY TypeStep DEF ChannelInv
<1>2. ASSUME NEW x \in Ends PROVE EndFine(x)' /\ StreamFine(x)'
  <2>1. EndFine(x) /\ StreamFine(x)
    BY DEF ChannelInv
  <2>2. UNCHANGED <<step, end, sent, got, out, socket, wire, closed, failed, parsed, inbound, feeding, cut>>
    BY DEF channelVars, session, framing
  <2>3. RolesFine(x)' /\ SocketFine(x)' /\ OriginsFine(x)'
    BY <2>1, <2>2 DEF EndFine, RolesFine, SocketFine, OriginsFine, Deaf
  <2>4. AliveFine(x)' /\ OrderFine(x)' /\ Complete(x)'
    BY <2>1, <2>2 DEF StreamFine, AliveFine, OrderFine, Complete, Deaf, Taken, Read, Written
  <2> QED BY <2>3, <2>4 DEF EndFine, StreamFine
<1> QED BY <1>1, <1>2 DEF ChannelInv

LEMMA StepInv == ChannelInv /\ [ChannelNext]_channelVars => ChannelInv'
<1> SUFFICES ASSUME ChannelInv, [ChannelNext]_channelVars PROVE ChannelInv'
  OBVIOUS
<1>1. ChannelTypeOK'
  BY TypeStep DEF ChannelInv
<1>2. CASE Dial
  BY <1>1, <1>2, DialKeeps
<1>3. ASSUME NEW x \in Ends, Step(x) \/ Send(x) \/ Done(x) \/ CarrierBreaks(x) PROVE ChannelInv'
  <2>1. CASE Send(x)
    BY <1>1, <2>1, SendKeeps
  <2>2. CASE Done(x) \/ FlushTimer(x)
    BY <1>1, <2>2, LeaveKeeps
  <2>3. CASE CarrierBreaks(x)
    BY <1>1, <2>3, CarrierBreaksKeeps
  <2>4. CASE Flush(x)
    BY <1>1, <2>4, FlushKeeps
  <2>5. CASE Arrive(x)
    BY <1>1, <2>5, ArriveKeeps
  <2>6. CASE ArriveFin(x)
    BY <1>1, <2>6, ArriveFinKeeps
  <2>7. CASE ArriveReset(x)
    BY <1>1, <2>7, ArriveResetKeeps
  <2>8. CASE Feed(x)
    BY <1>1, <2>8, FeedKeeps
  <2>9. CASE Shake(x)
    BY <1>1, <2>9, ShakeKeeps
  <2>10. CASE ShakeFails(x)
    BY <1>1, <2>10, ShakeFailsKeeps
  <2>11. CASE Receive(x)
    BY <1>1, <2>11, ReceiveKeeps
  <2>12. CASE ReceiveDies(x) \/ ReceiveEnd(x) \/ Close(x)
    BY <1>1, <2>12, ReportsKeep
  <2> QED BY <1>3, <2>1, <2>2, <2>3, <2>4, <2>5, <2>6, <2>7, <2>8, <2>9, <2>10, <2>11, <2>12 DEF Step
<1>4. CASE UNCHANGED channelVars
  BY <1>4, StutterInv
<1> QED BY <1>2, <1>3, <1>4 DEF ChannelNext

\* The values of the state of a connection are those of its type.
THEOREM ChannelTypeCorrect == ChannelSpec => []ChannelTypeOK
<1>1. ChannelInit => ChannelTypeOK
  BY InitType
<1>2. ChannelTypeOK /\ [ChannelNext]_channelVars => ChannelTypeOK'
  BY TypeStep
<1> QED BY <1>1, <1>2, PTL DEF ChannelSpec

LEMMA ChannelInvariance == ChannelSpec => []ChannelInv
<1>1. ChannelInit => ChannelInv
  BY InitInv
<1>2. ChannelInv /\ [ChannelNext]_channelVars => ChannelInv'
  BY StepInv
<1> QED BY <1>1, <1>2, PTL DEF ChannelSpec

-----------------------------------------------------------------------------
(* The link.                                                               *)

Through == {x \in Ends : step[x] \in {"up", "over"}}
Gone == {x \in Ends : step[x] \in {"over", "down"}}
Broken == {x \in Ends : failed[x]}

LEMMA LinkNames ==
  /\ L!Ends = Ends /\ \A x \in Ends : L!Peer(x) = Peer(x)
BY DEF L!Ends, L!Peer, Ends, Peer

LEMMA LinkInit == ChannelInit => L!Init
<1> SUFFICES ASSUME ChannelInit PROVE L!Init
  OBVIOUS
<1>1. \A x \in Ends : step[x] \in {"dial", "wait e"} /\ ~ failed[x]
  BY DEF ChannelInit
<1>2. Through = {} /\ Gone = {} /\ Broken = {}
  BY <1>1 DEF Through, Gone, Broken
<1> QED BY <1>2, LinkNames DEF ChannelInit, L!Init, Through, Gone, Broken

LEMMA LinkStutters ==
  ASSUME UNCHANGED <<Through, Gone, Broken, sent, got, end, cut>>
  PROVE  UNCHANGED L!vars
BY DEF L!vars, Through, Gone, Broken

\* A side that is not deaf reads what comes next, and learns of the end only
\* when everything was read.
LEMMA ReaderFacts ==
  ASSUME ChannelInv, NEW z \in Ends, Receiving(z)
  PROVE  /\ inbound[z] # <<>> /\ Head(inbound[z]) # Message(Len(got[z]) + 1) => failed[z]
         /\ inbound[z] # <<>> /\ Head(inbound[z]) = Message(Len(got[z]) + 1) =>
              Len(got[z]) < sent[Peer(z)]
         /\ inbound[z] = <<>> /\ ~ feeding[z] =>
              /\ Peer(z) \in Gone \cup Broken
              /\ Len(got[z]) = sent[Peer(z)] \/ Peer(z) \in cut
<1> DEFINE p == Peer(z)
<1>0. /\ p \in Ends /\ p # z /\ Peer(p) = z /\ \A y \in Ends : y = z \/ y = p
  BY PeerFacts
<1>2. EndFine(z) /\ EndFine(p) /\ StreamFine(z) /\ StreamFine(p) /\ ChannelTypeOK
  BY <1>0 DEF ChannelInv
<1>1. /\ inbound[z] \in Seq(Alphabet) /\ sent[p] \in Nat /\ Len(got[z]) \in Nat
      /\ Shaken(p) \in {1, 2} /\ Taken(z) \in Nat /\ Written(p) \in Nat
  BY <1>0, <1>2, Values
<1>3. step[z] = "up" /\ end[z] = "open" /\ Taken(z) = Shaken(p) + Len(got[z])
  BY CountsUp DEF Receiving
<1>4. Deaf(z) => failed[z]
  BY <1>2, <1>3 DEF Deaf, EndFine, SocketFine
<1>5. ASSUME inbound[z] # <<>>, Head(inbound[z]) # Message(Len(got[z]) + 1) PROVE failed[z]
  <2> SUFFICES ASSUME ~ Deaf(z) PROVE FALSE
    BY <1>4
  <2>1. Numbered(p, inbound[z], Taken(z))
    BY <1>2 DEF StreamFine, OrderFine
  <2>2. Head(inbound[z]) = Frame(p, Taken(z) + 1)
    BY <1>1, <1>5, <2>1, NumberedTail
  <2>3. /\ Taken(z) + 1 \in Nat /\ Taken(z) + 1 > Shaken(p)
        /\ (Taken(z) + 1) - Shaken(p) = Len(got[z]) + 1
    BY <1>1, <1>3
  <2>4. Frame(p, Taken(z) + 1) = Message((Taken(z) + 1) - Shaken(p))
    <3>1. Taken(z) + 1 > 0
      BY <1>1
    <3> QED BY <1>0, <2>3, <3>1, FrameKinds
  <2> QED BY <1>5, <2>2, <2>3, <2>4
<1>6. ASSUME inbound[z] # <<>>, Head(inbound[z]) = Message(Len(got[z]) + 1)
      PROVE  Len(got[z]) < sent[p]
  <2>1. UpTo(inbound[z], sent[p])
    BY <1>0, <1>2 DEF EndFine, OriginsFine
  <2>2. UpTo(<<Head(inbound[z])>>, sent[p])
    BY <1>1, <1>6, <2>1, UpToTail
  <2>3. Head(inbound[z]).kind = "message" /\ Head(inbound[z]).n = Len(got[z]) + 1
    BY <1>6 DEF Message
  <2>4. Len(got[z]) + 1 <= sent[p]
    BY <2>2, <2>3, UpToOne
  <2> QED BY <1>1, <2>4
<1>7. ASSUME inbound[z] = <<>>, ~ feeding[z]
      PROVE  p \in Gone \cup Broken /\ (Len(got[z]) = sent[p] \/ p \in cut)
  <2>1. ~ HasKill(inbound[z])
    BY <1>7, EmptyFacts
  <2>2. ~ Deaf(z)
    BY <1>3, <1>7, <2>1 DEF Deaf
  <2>3. closed[z] /\ parsed[z] = <<>> /\ socket[z] # "open" /\ Deaf(p)
    BY <1>2, <1>7, <2>2 DEF EndFine, SocketFine
  <2>4. p \in Gone \cup Broken
    BY <1>0, <1>2, <2>3 DEF Deaf, EndFine, SocketFine, Gone, Broken
  <2>5. ASSUME p \notin cut PROVE Len(got[z]) = sent[p]
    <3>1. Read(z) = Shaken(p) + Len(got[z])
      <4>1. Len(inbound[z]) = 0 /\ Len(parsed[z]) = 0
        BY <1>7, <2>3
      <4> QED BY <1>1, <1>3, <4>1 DEF Read
    <3>2. CASE sent[p] > 0
      <4>1. Read(z) = Written(p)
        BY <1>2, <2>2, <2>3, <2>5, <3>2 DEF StreamFine, Complete
      <4>2. step[p] \in {"up", "over"}
        <5>1. sent[p] # 0
          BY <1>1, <3>2
        <5> QED BY <1>2, <5>1 DEF EndFine, RolesFine
      <4>3. Written(p) = Shaken(p) + sent[p]
        BY <4>2, CountsUp
      <4>4. Shaken(p) + Len(got[z]) = Shaken(p) + sent[p]
        BY <3>1, <4>1, <4>3
      <4> QED BY <1>1, <4>4
    <3>3. CASE ~ (sent[p] > 0)
      <4>1. Len(got[z]) <= sent[p]
        BY <1>0, <1>2 DEF EndFine, OriginsFine
      <4> QED BY <1>1, <3>3, <4>1
    <3> QED BY <3>2, <3>3
  <2> QED BY <2>4, <2>5
<1> QED BY <1>5, <1>6, <1>7

LEMMA StepLink == ChannelInv /\ [ChannelNext]_channelVars => [L!Next]_(L!vars)
<1> SUFFICES ASSUME ChannelInv, [ChannelNext]_channelVars PROVE [L!Next]_(L!vars)
  OBVIOUS
<1>0. ChannelTypeOK
  BY DEF ChannelInv
<1>1. CASE Dial
  <2>1. step' = [step EXCEPT ![Initiator] = "wait ee"] /\ step[Initiator] = "dial" /\ Initiator \in Ends
    BY <1>1 DEF Dial, Ends
  <2>2. Through' = Through /\ Gone' = Gone
    BY <1>0, <2>1 DEF Through, Gone, ChannelTypeOK
  <2>3. Broken' = Broken /\ UNCHANGED <<sent, got, end, cut>>
    BY <1>1 DEF Dial, Broken, framing
  <2> QED BY <2>2, <2>3, LinkStutters
<1>2. ASSUME NEW z \in Ends, Step(z) \/ Send(z) \/ Done(z) \/ CarrierBreaks(z)
      PROVE  [L!Next]_(L!vars)
  <2>0. /\ EndFine(z) /\ StreamFine(z) /\ Peer(z) \in Ends
        /\ z \in L!Ends /\ L!Peer(z) = Peer(z)
    BY PeerFacts, LinkNames DEF ChannelInv
  <2>1. CASE Send(z)
    <3>1. step[z] = "up" /\ UNCHANGED <<Through, Gone, Broken>>
      BY <2>1 DEF Send, Through, Gone, Broken, framing
    <3>2. socket[z] = "destroyed" <=> z \in Broken
      BY <2>0, <3>1 DEF EndFine, SocketFine, Broken
    <3>3. /\ z \in Through \ Gone /\ sent' = [sent EXCEPT ![z] = @ + 1]
          /\ cut' = IF z \in Broken THEN cut \cup {z} ELSE cut
          /\ UNCHANGED <<Through, got, end, Gone, Broken>>
      BY <2>1, <3>1, <3>2 DEF Send, Through, Gone
    <3>4. L!Send(z)
      BY <3>3 DEF L!Send, Through, Gone, Broken
    <3> QED BY <2>0, <3>4 DEF L!Next
  <2>2. CASE Done(z) \/ FlushTimer(z)
    <3>1. /\ step[z] \in {"up", "over"} /\ step' = [step EXCEPT ![z] = "over"]
          /\ UNCHANGED <<failed, sent, got, end>>
      <4>1. CASE Done(z)
        BY <4>1 DEF Done, framing
      <4>2. CASE FlushTimer(z)
        BY <1>0, <4>2 DEF FlushTimer, framing, session, ChannelTypeOK
      <4> QED BY <2>2, <4>1, <4>2
    <3>2. Through' = Through /\ Gone' = Gone \cup {z} /\ Broken' = Broken
      BY <1>0, <3>1 DEF Through, Gone, Broken, ChannelTypeOK
    <3>3. cut' \in {cut, cut \cup {z}}
      BY <2>2 DEF Done, FlushTimer, EndSocket
    <3>4. L!Leave(z)
      BY <3>1, <3>2, <3>3 DEF L!Leave, Through, Gone, Broken
    <3> QED BY <2>0, <3>4 DEF L!Next
  <2>3. CASE CarrierBreaks(z)
    <3>1. failed' = [failed EXCEPT ![z] = TRUE] /\ UNCHANGED <<step, sent, got, end>>
      BY <2>3 DEF CarrierBreaks, Fail, session
    <3>2. Through' = Through /\ Gone' = Gone /\ Broken' = Broken \cup {z}
      BY <1>0, <3>1 DEF Through, Gone, Broken, ChannelTypeOK
    <3>3. cut' \in {cut, cut \cup {z}}
      BY <2>3 DEF CarrierBreaks
    <3>4. L!Break(z)
      BY <3>1, <3>2, <3>3 DEF L!Break, Through, Gone, Broken
    <3> QED BY <2>0, <3>4 DEF L!Next
  <2>4. CASE ArriveReset(z) \/ (Arrive(z) /\ TooLong(Peer(z), Head(wire[Peer(z)])))
    <3>1. failed' = [failed EXCEPT ![z] = TRUE] /\ UNCHANGED <<step, sent, got, end>>
      BY <2>4 DEF ArriveReset, Arrive, Fail, session
    <3>2. Through' = Through /\ Gone' = Gone /\ Broken' = Broken \cup {z}
      BY <1>0, <3>1 DEF Through, Gone, Broken, ChannelTypeOK
    <3>3. cut' \in {cut, cut \cup {z}}
      BY <2>4 DEF ArriveReset, Arrive, Destroy
    <3>4. L!Break(z)
      BY <3>1, <3>2, <3>3 DEF L!Break, Through, Gone, Broken
    <3> QED BY <2>0, <3>4 DEF L!Next
  <2>5. CASE Flush(z) \/ (Arrive(z) /\ ~ TooLong(Peer(z), Head(wire[Peer(z)]))) \/ ArriveFin(z)
             \/ Close(z) \/ Feed(z)
    <3>1. UNCHANGED <<step, sent, got, end, failed, cut>>
      BY <2>5 DEF Flush, Arrive, ArriveFin, Close, Feed, session, framing
    <3> QED BY <3>1, LinkStutters DEF Through, Gone, Broken
  <2>6. CASE Shake(z)
    <3>1. /\ UNCHANGED <<failed, sent, got, end, cut>>
          /\ step' = [step EXCEPT ![z] = IF @ = "wait e" THEN "wait s" ELSE "up"]
          /\ inbound[z] # <<>> /\ Head(inbound[z]).kind = Awaited(z)
      BY <2>6 DEF Shake, framing
    <3>2. step[z] \in {"wait e", "wait ee", "wait s"}
      <4>0. inbound[z] \in Seq(Frames \cup {Kill})
        BY <1>0 DEF ChannelTypeOK
      <4> inbound[z] # <<>>
        BY <3>1
      <4>1. Head(inbound[z]) \in Frames \cup {Kill}
        BY <4>0
      <4>2. \A f \in Frames \cup {Kill} : f.kind # "none"
        BY DEF Frames, Message, Handshake, Kill
      <4>3. Awaited(z) # "none"
        BY <3>1, <4>1, <4>2
      <4> QED BY <4>3 DEF Awaited
    <3>3. CASE step[z] = "wait e"
      <4>1. Through' = Through /\ Gone' = Gone /\ Broken' = Broken
        BY <1>0, <3>1, <3>3 DEF Through, Gone, Broken, ChannelTypeOK
      <4> QED BY <3>1, <4>1, LinkStutters
    <3>4. CASE step[z] # "wait e"
      <4>1. Through' = Through \cup {z} /\ Gone' = Gone /\ Broken' = Broken /\ z \notin Through
        BY <1>0, <3>1, <3>2, <3>4 DEF Through, Gone, Broken, ChannelTypeOK
      <4>2. z = Responder => Initiator \in Through
        <5> SUFFICES ASSUME z = Responder PROVE Initiator \in Through
          OBVIOUS
        <5>1. step[z] = "wait s"
          BY <2>0, <3>2, <3>4 DEF EndFine, RolesFine
        <5>2. Head(inbound[z]).kind = "s" /\ inbound[z] \in Seq(Alphabet)
          BY <1>0, <3>1, <5>1, Values DEF Awaited
        <5>3. HasLast(inbound[z])
          BY <3>1, <5>2, LastTail
        <5> QED BY <2>0, <5>3 DEF EndFine, OriginsFine, Through, Ends
      <4>3. L!Establish(z)
        BY <3>1, <4>1, <4>2 DEF L!Establish, Through, Gone, Broken
      <4> QED BY <2>0, <4>3 DEF L!Next
    <3> QED BY <3>3, <3>4
  <2>7. CASE ShakeFails(z)
    <3>1. /\ step' = [step EXCEPT ![z] = "down"] /\ step[z] \in {"wait e", "wait ee", "wait s"}
          /\ UNCHANGED <<failed, sent, got, end>>
      BY <2>7 DEF ShakeFails, Awaited, framing
    <3>2. Through' = Through /\ Gone' = Gone \cup {z} /\ Broken' = Broken
      BY <1>0, <3>1 DEF Through, Gone, Broken, ChannelTypeOK
    <3>3. cut' \in {cut, cut \cup {z}}
      BY <2>7 DEF ShakeFails, Destroy
    <3>4. L!Leave(z)
      BY <3>1, <3>2, <3>3 DEF L!Leave, Through, Gone, Broken
    <3> QED BY <2>0, <3>4 DEF L!Next
  <2>8. CASE Receive(z)
    <3>1. /\ Receiving(z) /\ inbound[z] # <<>> /\ Head(inbound[z]) = Message(Len(got[z]) + 1)
          /\ got' = [got EXCEPT ![z] = Append(@, Head(inbound[z]).n)]
          /\ UNCHANGED <<step, failed, sent, end, cut>>
      BY <2>8 DEF Receive, framing
    <3>2. Len(got[z]) < sent[Peer(z)]
      BY <3>1, ReaderFacts
    <3>3. z \in Through \ Gone /\ end[z] = "open" /\ UNCHANGED <<Through, Gone, Broken>>
      BY <3>1 DEF Receiving, Through, Gone, Broken
    <3>4. Head(inbound[z]).n = Len(got[z]) + 1
      BY <3>1 DEF Message
    <3>5. got' = [got EXCEPT ![z] = Append(@, Len(@) + 1)]
      BY <3>1, <3>4
    <3>6. L!Deliver(z)
      BY <2>0, <3>1, <3>2, <3>3, <3>5 DEF L!Deliver, Through, Gone, Broken
    <3> QED BY <2>0, <3>6 DEF L!Next
  <2>9. CASE ReceiveDies(z)
    <3>1. /\ Receiving(z) /\ inbound[z] # <<>> /\ Head(inbound[z]) # Message(Len(got[z]) + 1)
          /\ end' = [end EXCEPT ![z] = "error"]
          /\ UNCHANGED <<step, failed, sent, got, cut>>
      BY <2>9 DEF ReceiveDies, framing
    <3>2. z \in Broken
      BY <3>1, ReaderFacts DEF Broken
    <3>3. z \in Through \ Gone /\ end[z] = "open" /\ UNCHANGED <<Through, Gone, Broken>>
      BY <3>1 DEF Receiving, Through, Gone, Broken
    <3>4. L!EndInError(z)
      BY <3>1, <3>2, <3>3 DEF L!EndInError, Through, Gone, Broken
    <3> QED BY <2>0, <3>4 DEF L!Next
  <2>10. CASE ReceiveEnd(z)
    <3>1. /\ Receiving(z) /\ inbound[z] = <<>> /\ ~ feeding[z]
          /\ end' = [end EXCEPT ![z] = "clean"]
          /\ UNCHANGED <<step, failed, sent, got, cut>>
      BY <2>10 DEF ReceiveEnd, framing
    <3>2. /\ Peer(z) \in Gone \cup Broken
          /\ Len(got[z]) = sent[Peer(z)] \/ Peer(z) \in cut
      BY <3>1, ReaderFacts
    <3>3. z \in Through \ Gone /\ end[z] = "open" /\ UNCHANGED <<Through, Gone, Broken>>
      BY <3>1 DEF Receiving, Through, Gone, Broken
    <3>4. L!EndCleanly(z)
      BY <2>0, <3>1, <3>2, <3>3 DEF L!EndCleanly, Through, Gone, Broken
    <3> QED BY <2>0, <3>4 DEF L!Next
  <2> QED BY <1>2, <2>1, <2>2, <2>3, <2>4, <2>5, <2>6, <2>7, <2>8, <2>9, <2>10 DEF Step
<1>3. CASE UNCHANGED channelVars
  <2>1. UNCHANGED <<step, sent, got, end, failed, cut>>
    BY <1>3 DEF channelVars, session, framing
  <2> QED BY <2>1, LinkStutters DEF Through, Gone, Broken
<1> QED BY <1>1, <1>2, <1>3 DEF ChannelNext

\* The encrypted connection is the link that the session takes it for, for any
\* number of messages, any of them above MAX_FRAME, and any number of broken
\* carriers: order, no repetition, no clean end after a loss, and no error
\* without a broken carrier (noise_transport.ts, sync_runtime.ts).
THEOREM ConnectionIsTheLink == ChannelSpec => ImplementsLink
<1>1. ChannelInit => L!Init
  BY LinkInit
<1>2. ChannelInv /\ [ChannelNext]_channelVars => [L!Next]_(L!vars)
  BY StepLink
<1> QED BY <1>1, <1>2, ChannelInvariance, PTL DEF ChannelSpec, ImplementsLink, L!Spec
=============================================================================
