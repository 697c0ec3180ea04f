------------------------------- MODULE Pairing ------------------------------
(***************************************************************************)
(* The pairing ceremony of two devices.  One shows an offer (a code with   *)
(* the port of a listener made for it), the other scans it, connects, runs *)
(* the Noise XX handshake, and both exchange their payloads over the       *)
(* encrypted channel, verify and store each other; the displayer confirms  *)
(* with PAIRING_OK.  An offer can be cancelled, superseded by a newer one, *)
(* scanned more than once, and everybody's process can end at any time.    *)
(* No receive has a timeout: a connection that breaks without a word, or a *)
(* machine that vanishes or hangs, leaves the other side waiting.          *)
(*                                                                         *)
(* What one event makes a process do until it waits again is one action.   *)
(* The cryptography is abstract: the three messages of XX, after which     *)
(* each side knows the static key of the other end, and payloads whose key *)
(* is the sender's, so that the comparison of the two keys, the safety     *)
(* number and the memory of nonces refuse nothing.  Ports are not reused.  *)
(***************************************************************************)
EXTENDS Naturals, Sequences, FiniteSets

CONSTANTS
  Devices,
  MaxOffers,  \* bound: the offers ever made, numbered as they are made
  MaxScans,   \* bound: the codes ever scanned, one connection each
  MaxSilent,  \* bound: the sides, at a time, that wait and are not told of a break
  None

Offers == 1 .. MaxOffers
Scans  == 1 .. MaxScans

ASSUME PairingAssumption ==
  /\ MaxOffers \in Nat /\ MaxScans \in Nat /\ MaxSilent \in Nat
  /\ None \notin Devices \cup Nat

VARIABLES
  trusted,  \* trusted[d]: the peers table of d
  tracked,  \* SyncManager.pendingOffer
  offer,    \* offer[o]: the closure of createPairingOffer
  conn      \* conn[c]: a connection, its two sides and what is on the wire

vars == <<trusted, tracked, offer, conn>>

Sides    == {"displayer", "scanner"}
Messages == {"e", "e ee s es", "s se", "payload", "ok", "end"}

\* A side that waits is named for what it waits for.
DisplayerPhases == {"none", "e", "s se", "payload", "paired", "over"}
ScannerPhases   == {"none", "e ee s es", "payload", "ok", "paired", "failed"}

ShownOffer == [owner : Devices \cup {None}, state : {"unused", "opening", "open", "closed"},
               session : Scans \cup {None}]
Connection == [offer : Offers \cup {None}, scanner : Devices \cup {None},
               d : DisplayerPhases, s : ScannerPhases,
               toD : Seq(Messages), toS : Seq(Messages), deaf : SUBSET Sides]

NoOffer == [owner |-> None, state |-> "unused", session |-> None]
NoConn == [offer |-> None, scanner |-> None, d |-> "none", s |-> "none",
           toD |-> <<>>, toS |-> <<>>, deaf |-> {}]

Init ==
  /\ trusted = [d \in Devices |-> {}]
  /\ tracked = [d \in Devices |-> None]
  /\ offer = [o \in Offers |-> NoOffer]
  /\ conn = [c \in Scans |-> NoConn]

Displayer(c) == offer[conn[c].offer].owner

ScannerWaits(x)   == x.s \in {"e ee s es", "payload", "ok"}
DisplayerWaits(x) == x.d \in {"e", "s se", "payload"}
Waits(x, side)    == IF side = "scanner" THEN ScannerWaits(x) ELSE DisplayerWaits(x)

\* FrameQueue: nothing is written behind the end of a direction.
Put(q, m) == IF q # <<>> /\ q[Len(q)] = "end" THEN q ELSE Append(q, m)

\* What arrives for a side that reads no more is not kept, and nothing arrives for
\* one that waits behind a connection that broke without a word.
Hears(x, side) == Waits(x, side) /\ side \notin x.deaf

Received(x) ==
  [x EXCEPT !.toD = IF Hears(x, "displayer") THEN @ ELSE <<>>,
            !.toS = IF Hears(x, "scanner") THEN @ ELSE <<>>,
            !.deaf = {side \in @ : Waits(x, side)}]

\* A side takes a message, sends some, and waits for the next or is done.
ScannerWent(x, phase, out) ==
  Received([x EXCEPT !.s = phase, !.toS = Tail(@), !.toD = Put(@, out)])

DisplayerWent(x, phase, out) ==
  Received([x EXCEPT !.d = phase, !.toD = Tail(@), !.toS = Put(@, out)])

ScannerGoes(c, phase, out)   == conn' = [conn EXCEPT ![c] = ScannerWent(@, phase, out)]
DisplayerGoes(c, phase, out) == conn' = [conn EXCEPT ![c] = DisplayerWent(@, phase, out)]

\* sqlPeerStore: an upsert of the peer's row.
WithPeer(d, e) == [trusted EXCEPT ![d] = @ \cup {e}]

\* PairingSession: the payloads, the transcript, the other end's static key and
\* the safety number, in this order, then storeTrust.
StoreTrust(d, e) == trusted' = WithPeer(d, e)

-----------------------------------------------------------------------------
(* The offer: pairing_offer, cancel_pairing_offer.  One that is closed has  *)
(* no listener, its result is settled, and cancelling it does nothing.      *)

\* The listener is opened; the code is not known yet.
StartOffer(d, o) ==
  /\ offer[o].state = "unused"
  /\ \A p \in Offers : p < o => offer[p].state # "unused"
  /\ offer' = [offer EXCEPT ![o] = [NoOffer EXCEPT !.owner = d, !.state = "opening"]]
  /\ UNCHANGED <<trusted, tracked, conn>>

\* cancel(): the listener and the latest session that came through it.
Cancelled(ofs, o) ==
  IF o = None THEN ofs
  ELSE [ofs EXCEPT ![o] = [@ EXCEPT !.state = "closed", !.session = None]]

HungUp(x) == Received([x EXCEPT !.toS = Put(@, "end")])

Ended(o) ==
  IF o = None \/ offer[o].session = None THEN conn
  ELSE [conn EXCEPT ![offer[o].session] = HungUp(@)]

\* Seeded fault: the newer offer takes the place of the pending one, no more.
OfferReadyUncancelled(o) ==
  LET d == offer[o].owner
  IN /\ offer[o].state = "opening"
     /\ tracked' = [tracked EXCEPT ![d] = o]
     /\ offer' = [offer EXCEPT ![o].state = "open"]
     /\ UNCHANGED <<trusted, conn>>

\* trackPairingOffer: a newer offer supersedes the pending one.
OfferReady(o) ==
  LET d == offer[o].owner
  IN /\ offer[o].state = "opening"
     /\ tracked' = [tracked EXCEPT ![d] = o]
     /\ offer' = [Cancelled(offer, tracked[d]) EXCEPT ![o].state = "open"]
     /\ conn' = Ended(tracked[d])
     /\ UNCHANGED trusted

\* cancelPendingOffer; without a pending offer it does nothing.
Cancel(d) ==
  /\ tracked[d] # None
  /\ tracked' = [tracked EXCEPT ![d] = None]
  /\ offer' = Cancelled(offer, tracked[d])
  /\ conn' = Ended(tracked[d])
  /\ UNCHANGED trusted

-----------------------------------------------------------------------------
(* The scanner: acceptPairingPayload.                                       *)

\* It connects as the initiator; a listener that is closed refuses.
Scan(d, c, o) ==
  /\ conn[c].s = "none"
  /\ \A b \in Scans : b < c => conn[b].s # "none"
  /\ offer[o].state \in {"open", "closed"}
  /\ conn' = [conn EXCEPT ![c] =
       IF offer[o].state = "open"
       THEN [NoConn EXCEPT !.offer = o, !.scanner = d, !.d = "e", !.s = "e ee s es",
                           !.toD = <<"e">>]
       ELSE [NoConn EXCEPT !.offer = o, !.scanner = d, !.d = "over", !.s = "failed"]]
  /\ UNCHANGED <<trusted, tracked, offer>>

ScannerHas(c, m) == conn[c].toS # <<>> /\ conn[c].toS[1] = m

ScannerHandshake(c) ==
  /\ conn[c].s = "e ee s es" /\ ScannerHas(c, "e ee s es")
  /\ ScannerGoes(c, "payload", "s se")
  /\ UNCHANGED <<trusted, tracked, offer>>

\* Seeded fault: the scanner does not wait for the confirmation.
ScannerAnswersLast(c) ==
  /\ conn[c].s = "payload" /\ ScannerHas(c, "payload")
  /\ ScannerGoes(c, "paired", "payload")
  /\ StoreTrust(conn[c].scanner, Displayer(c))
  /\ UNCHANGED <<tracked, offer>>

\* The displayer's payload: answered, verified, and the displayer is stored.
ScannerAnswers(c) ==
  /\ conn[c].s = "payload" /\ ScannerHas(c, "payload")
  /\ ScannerGoes(c, "ok", "payload")
  /\ StoreTrust(conn[c].scanner, Displayer(c))
  /\ UNCHANGED <<tracked, offer>>

\* finally: the connection is closed in any case.
ScannerDone(c) ==
  /\ conn[c].s = "ok" /\ ScannerHas(c, "ok")
  /\ ScannerGoes(c, "paired", "end")
  /\ UNCHANGED <<trusted, tracked, offer>>

\* The end of the stream where something was expected: the scan is rejected.
ScannerFails(c) ==
  /\ ScannerWaits(conn[c]) /\ ScannerHas(c, "end")
  /\ ScannerGoes(c, "failed", "end")
  /\ UNCHANGED <<trusted, tracked, offer>>

-----------------------------------------------------------------------------
(* The displayer: serveSync's handshake and runDisplayerSide.               *)

DisplayerHas(c, m) == conn[c].toD # <<>> /\ conn[c].toD[1] = m

DisplayerHandshake(c) ==
  /\ conn[c].d = "e" /\ DisplayerHas(c, "e")
  /\ DisplayerGoes(c, "s se", "e ee s es")
  /\ UNCHANGED <<trusted, tracked, offer>>

\* Seeded fault: the displayer trusts the scanner once the channel is encrypted.
DisplayerGreetsTrusting(c) ==
  /\ conn[c].d = "s se" /\ DisplayerHas(c, "s se")
  /\ DisplayerGoes(c, "payload", "payload")
  /\ StoreTrust(Displayer(c), conn[c].scanner)
  /\ offer' = [offer EXCEPT ![conn[c].offer].session =
                  IF offer[conn[c].offer].state = "open" THEN c ELSE None]
  /\ UNCHANGED tracked

\* Seeded fault: the displayer, too, waits for the other's payload first.
DisplayerGreetsLast(c) ==
  /\ conn[c].d = "s se" /\ DisplayerHas(c, "s se")
  /\ conn' = [conn EXCEPT ![c].d = "payload", ![c].toD = Tail(@)]
  /\ offer' = [offer EXCEPT ![conn[c].offer].session =
                  IF offer[conn[c].offer].state = "open" THEN c ELSE None]
  /\ UNCHANGED <<trusted, tracked>>

\* onSession: it becomes the offer's active session and the displayer speaks
\* first, also when the listener was closed in the meantime.
DisplayerGreets(c) ==
  /\ conn[c].d = "s se" /\ DisplayerHas(c, "s se")
  /\ DisplayerGoes(c, "payload", "payload")
  /\ offer' = [offer EXCEPT ![conn[c].offer].session =
                  IF offer[conn[c].offer].state = "open" THEN c ELSE None]
  /\ UNCHANGED <<trusted, tracked>>

\* The ceremony is over, this way or that: the listener is closed, the result
\* is settled, and the manager forgets the offer.
CloseOffer(o) ==
  /\ offer' = [offer EXCEPT ![o] = [@ EXCEPT !.state = "closed", !.session = None]]
  /\ tracked' = [d \in Devices |-> IF tracked[d] = o THEN None ELSE tracked[d]]

\* The scanner's payload: verified, stored and confirmed; the socket is ended
\* behind PAIRING_OK, which a scanner that reads on no more does not see.
DisplayerPairs(c) ==
  /\ conn[c].d = "payload" /\ DisplayerHas(c, "payload")
  /\ DisplayerGoes(c, "paired", "ok")
  /\ StoreTrust(Displayer(c), conn[c].scanner)
  /\ CloseOffer(conn[c].offer)

\* During the handshake the socket is destroyed and the offer lives on;
\* later the whole offer fails.
DisplayerFails(c) ==
  /\ DisplayerWaits(conn[c]) /\ DisplayerHas(c, "end")
  /\ DisplayerGoes(c, "over", "end")
  /\ IF conn[c].d = "payload" THEN CloseOffer(conn[c].offer)
                              ELSE UNCHANGED <<tracked, offer>>
  /\ UNCHANGED trusted

-----------------------------------------------------------------------------
(* The network and the processes.                                           *)

Live(c) == ScannerWaits(conn[c]) \/ DisplayerWaits(conn[c])

DeafBut(c) == {end \in (Scans \ {c}) \X Sides : end[2] \in conn[end[1]].deaf}

\* A connection breaks, or the machine at one end of it vanishes or hangs: what is
\* on the wire is lost, and of the sides that wait only those that are told learn of
\* it, now or when their kernel finds out. News that has arrived stays.
Break(c, told) ==
  LET News(side) == IF side \in told THEN <<"end">> ELSE <<>>
  IN /\ Live(c)
     /\ \A side \in Sides \ told : Waits(conn[c], side)
     /\ conn[c].toD = <<"end">> => "displayer" \in told
     /\ conn[c].toS = <<"end">> => "scanner" \in told
     /\ Cardinality(Sides \ told) + Cardinality(DeafBut(c)) <= MaxSilent
     /\ conn' = [conn EXCEPT ![c] = Received(
          [@ EXCEPT !.toD = News("displayer"), !.toS = News("scanner"), !.deaf = Sides \ told])]
     /\ UNCHANGED <<trusted, tracked, offer>>

\* The process of d ends, by the end of its input or the hard way, and is
\* started again: its offers and its ceremonies are gone, its peers are not.
Restart(d) ==
  LET mine(p) == offer[p].owner = d /\ offer[p].state \in {"opening", "open"}
      shown(x) == conn[x].offer # None /\ Displayer(x) = d
      scanned(x) == conn[x].scanner = d
  IN /\ \/ \E o \in Offers : mine(o)
        \/ \E c \in Scans : Live(c) /\ (shown(c) \/ scanned(c))
     /\ tracked' = [tracked EXCEPT ![d] = None]
     /\ offer' = [o \in Offers |-> IF mine(o)
                    THEN [offer[o] EXCEPT !.state = "closed", !.session = None]
                    ELSE offer[o]]
     /\ conn' = [c \in Scans |->
          Received([conn[c] EXCEPT
             !.d = IF shown(c) /\ DisplayerWaits(conn[c]) THEN "over" ELSE @,
             !.s = IF scanned(c) /\ ScannerWaits(conn[c]) THEN "failed" ELSE @,
             !.toS = IF shown(c) THEN Put(@, "end") ELSE @,
             !.toD = IF scanned(c) THEN Put(@, "end") ELSE @])]
     /\ UNCHANGED trusted

ScannerStep(c) ==
  ScannerHandshake(c) \/ ScannerAnswers(c) \/ ScannerDone(c) \/ ScannerFails(c)

DisplayerStep(c) ==
  DisplayerHandshake(c) \/ DisplayerGreets(c) \/ DisplayerPairs(c) \/ DisplayerFails(c)

Next ==
  \/ \E d \in Devices : Cancel(d) \/ Restart(d)
  \/ \E d \in Devices, o \in Offers : StartOffer(d, o)
  \/ \E d \in Devices, c \in Scans, o \in Offers : Scan(d, c, o)
  \/ \E o \in Offers : OfferReady(o)
  \/ \E c \in Scans : ScannerStep(c) \/ DisplayerStep(c)
  \/ \E c \in Scans, told \in SUBSET Sides : Break(c, told)

Spec == Init /\ [][Next]_vars

\* Messages, or the news that there will be none, arrive and are handled; the
\* user may never cancel and the network never break.
FairSpec ==
  Spec /\ \A c \in Scans : WF_vars(ScannerStep(c)) /\ WF_vars(DisplayerStep(c))

-----------------------------------------------------------------------------
TypeOK ==
  /\ trusted \in [Devices -> SUBSET Devices]
  /\ tracked \in [Devices -> Offers \cup {None}]
  /\ offer \in [Offers -> ShownOffer]
  /\ conn \in [Scans -> Connection]
  /\ \A c \in Scans : Len(conn[c].toD) <= 2 /\ Len(conn[c].toS) <= 2

\* Wherever a ceremony breaks off, trust is one-sided at most in the scanner:
\* the displayer stores the scanner only when the scanner has stored it (the
\* order of the payloads and of the two storeTrust calls, pairing_manager.ts).
OneSidedTrustIsTheScanners ==
  \A d, e \in Devices : e \in trusted[d] /\ d \notin trusted[e] =>
    \E c \in Scans : /\ conn[c].scanner = d /\ conn[c].s \in {"ok", "failed"}
                     /\ conn[c].offer # None /\ Displayer(c) = e

\* A scan that was answered with success paired both devices, whatever was
\* cancelled, superseded or lost (acceptPairingPayload returns).
AcceptedIsMutual ==
  \A c \in Scans : conn[c].s = "paired" =>
    /\ Displayer(c) \in trusted[conn[c].scanner]
    /\ conn[c].scanner \in trusted[Displayer(c)]

\* Every listener whose code was shown can still be closed: it belongs to the
\* pending offer (trackPairingOffer, pairing_manager.ts cancel).
ListenersAreTracked ==
  \A o \in Offers : offer[o].state = "open" => tracked[offer[o].owner] = o

\* Every scan is answered, and every displayer stops waiting, whoever cancels or
\* dies: neither waits for a message that the other does not send. The exception is
\* a side that no news of the end ever reaches: its receive has no timeout.
CeremoniesEnd ==
  \A c \in Scans : Live(c) ~> \A side \in Sides : ~Hears(conn[c], side)

\* pairing_manager.ts, PairingOffer: the result "resolves after the ceremony
\* completes (or rejects with reason)".
EveryWaitEnds == \A c \in Scans : Live(c) ~> ~Live(c)

\* pairing_manager.ts, cancel: "without the session teardown, a scanner that
\* already completed the Noise handshake could finish the ceremony and persist
\* trust AFTER the offer was cancelled". An offer that is closed while none of
\* its ceremonies has ended was cancelled, or superseded, which cancels it.
CancelledIsFinal ==
  [][\A c \in Scans : conn[c].d # "paired" /\ conn'[c].d = "paired" =>
        \/ offer[conn[c].offer].state = "open"
        \/ \E b \in Scans : /\ conn[b].offer = conn[c].offer
                            /\ conn[b].d \in {"paired", "over"}]_vars
=============================================================================
