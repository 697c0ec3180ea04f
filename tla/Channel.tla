------------------------------- MODULE Channel ------------------------------
(***************************************************************************)
(* One encrypted connection between two devices, from the dialled socket   *)
(* to the end of the session: the Noise XX handshake, the outbound pump,   *)
(* the length-prefixed frames of the socket, the feed loop that carries    *)
(* them to the inbound queue, and the receive of the session above, which  *)
(* decrypts by a counting nonce and dies on the first frame that fails.    *)
(*                                                                         *)
(* The initiator is the side that ran connectSync, the responder the one   *)
(* whose serveSync accepted the socket.  Each stage of the code that runs  *)
(* by itself (pump, kernel, data event, feed loop, waiter) is an action.   *)
(* Bounds: MaxSent messages per side, MaxFaults broken carriers.           *)
(***************************************************************************)
EXTENDS Naturals, Sequences, SequencesExt

CONSTANTS
  Initiator, Responder,
  MaxSent,      \* bound: messages per side
  Oversized,    \* the <<side, number>> of messages above MAX_FRAME
  MaxFaults     \* bound: carriers that break

ASSUME EndsAssumption == Initiator # Responder
ASSUME BoundsAssumption == MaxSent \in Nat /\ MaxFaults \in Nat

Ends == {Initiator, Responder}
Peer(x) == IF x = Initiator THEN Responder ELSE Initiator

VARIABLES
  step,      \* where each side is: handshake, session ("up"), "over", "down"
  out,       \* outQ: frames that the pump has not handed to the kernel
  socket,    \* the local socket: open, ended (FIN sent) or destroyed
  wire,      \* wire[x]: what x's kernel has on its way to the peer
  closed,    \* socketFraming's closed
  failed,    \* socketFraming's failed
  parsed,    \* socketFraming's queue: frames read off the socket
  inbound,   \* the FrameQueue of the session
  feeding,   \* the feed loop runs; when it ends, inbound is closed
  end,       \* what receive reported at last: open, clean or error
  faults,
  \* history
  sent,      \* messages handed to send
  got,       \* messages received
  cut        \* the sides that dropped messages they had still to write

framing == <<closed, failed, parsed>>
session == <<step, end, sent, got>>
channelVars == <<session, out, socket, wire, framing, inbound, feeding, faults, cut>>

Message(n) == [kind |-> "message", n |-> n]
Handshake(name) == [kind |-> name, n |-> 0]
Kill == [kind |-> "kill", n |-> 0]   \* SESSION_KILL_FRAME
Fin == [kind |-> "fin", n |-> 0]
Reset == [kind |-> "reset", n |-> 0]

Frames ==
  {Message(n) : n \in 1 .. MaxSent} \cup {Handshake(m) : m \in {"e", "ee", "s"}}
Steps == {"dial", "wait e", "wait ee", "wait s", "up", "over", "down"}

ChannelTypeOK ==
  /\ step \in [Ends -> Steps]
  /\ out \in [Ends -> Seq(Frames)]
  /\ socket \in [Ends -> {"open", "ended", "destroyed"}]
  /\ wire \in [Ends -> Seq(Frames \cup {Fin, Reset})]
  /\ closed \in [Ends -> BOOLEAN]
  /\ failed \in [Ends -> BOOLEAN]
  /\ parsed \in [Ends -> Seq(Frames)]
  /\ inbound \in [Ends -> Seq(Frames \cup {Kill})]
  /\ feeding \in [Ends -> BOOLEAN]
  /\ end \in [Ends -> {"open", "clean", "error"}]
  /\ sent \in [Ends -> 0 .. MaxSent]
  /\ got \in [Ends -> Seq(1 .. MaxSent)]
  /\ cut \subseteq Ends
  /\ faults \in 0 .. MaxFaults

ChannelInit ==
  /\ step = [x \in Ends |-> IF x = Initiator THEN "dial" ELSE "wait e"]
  /\ out = [x \in Ends |-> <<>>]
  /\ socket = [x \in Ends |-> "open"]
  /\ wire = [x \in Ends |-> <<>>]
  /\ closed = [x \in Ends |-> FALSE]
  /\ failed = [x \in Ends |-> FALSE]
  /\ parsed = [x \in Ends |-> <<>>]
  /\ inbound = [x \in Ends |-> <<>>]
  /\ feeding = [x \in Ends |-> TRUE]
  /\ end = [x \in Ends |-> "open"]
  /\ faults = 0
  /\ sent = [x \in Ends |-> 0]
  /\ got = [x \in Ends |-> <<>>]
  /\ cut = {}

-----------------------------------------------------------------------------
(* Closing the socket.                                                     *)

\* The frame that the pump has handed to the socket and that is not flushed.
UnderWay(x) == IF out[x] = <<>> THEN <<>> ELSE <<Head(out[x])>>

Unwritten(x) == \E i \in DOMAIN out[x] : out[x][i].kind = "message"

\* sock.end(): the frame under way is written out, FIN follows; what the pump
\* had still to hand over fails on the ended socket.
EndSocket(x) ==
  IF socket[x] = "open"
    THEN /\ socket' = [socket EXCEPT ![x] = "ended"]
         /\ wire' = [wire EXCEPT ![x] =
              @ \o UnderWay(x) \o <<Fin>>]
         /\ out' = [out EXCEPT ![x] = <<>>]
         /\ cut' = IF Len(out[x]) > 1 /\ Unwritten(x) THEN cut \cup {x} ELSE cut
    ELSE UNCHANGED <<socket, wire, out, cut>>

\* sock.destroy(): nothing more is read or written; the peer sees the end of
\* the stream, or a reset when there was data left to read.
Destroy(x, last) ==
  /\ socket' = [socket EXCEPT ![x] = "destroyed"]
  /\ wire' = [wire EXCEPT
       ![x] = IF socket[x] = "open" THEN Append(@, last) ELSE @,
       ![Peer(x)] = <<>>]
  /\ out' = [out EXCEPT ![x] = <<>>]
  /\ cut' = IF Unwritten(x) THEN cut \cup {x} ELSE cut

-----------------------------------------------------------------------------
(* Writing: send, pump, kernel.                                            *)

Push(x, frame) == out' = [out EXCEPT ![x] = Append(@, frame)]

\* A frame pushed behind an ended socket goes nowhere; send does not notice.
Send(x) ==
  /\ step[x] = "up" /\ end[x] # "error"
  /\ sent[x] < MaxSent
  /\ sent' = [sent EXCEPT ![x] = @ + 1]
  /\ IF socket[x] = "open" THEN Push(x, Message(sent'[x])) ELSE UNCHANGED out
  /\ cut' = IF socket[x] = "destroyed" THEN cut \cup {x} ELSE cut
  /\ UNCHANGED <<step, end, got, socket, wire, framing, inbound, feeding,
                 faults>>

\* The pump's frame is flushed; the next one follows at once.
Flush(x) ==
  /\ socket[x] = "open"
  /\ out[x] # <<>>
  /\ wire' = [wire EXCEPT ![x] = Append(@, Head(out[x]))]
  /\ out' = [out EXCEPT ![x] = Tail(@)]
  /\ UNCHANGED <<session, socket, framing, inbound, feeding, faults, cut>>

-----------------------------------------------------------------------------
(* Reading: the data event, the close of the socket, the feed loop.        *)

TooLong(y, frame) == frame.kind = "message" /\ <<y, frame.n>> \in Oversized

\* A frame is complete. Above MAX_FRAME it is a violation of the framing: the
\* socket is destroyed, and its close event follows.
Arrive(x) ==
  /\ socket[x] # "destroyed" /\ ~ closed[x]
  /\ wire[Peer(x)] # <<>>
  /\ Head(wire[Peer(x)]).kind \notin {"fin", "reset"}
  /\ IF TooLong(Peer(x), Head(wire[Peer(x)]))
       THEN /\ failed' = [failed EXCEPT ![x] = TRUE]
            /\ \E last \in {Fin, Reset} : Destroy(x, last)
            /\ UNCHANGED parsed
       ELSE /\ parsed' = [parsed EXCEPT ![x] = Append(@, Head(wire[Peer(x)]))]
            /\ wire' = [wire EXCEPT ![Peer(x)] = Tail(@)]
            /\ UNCHANGED <<failed, socket, out, cut>>
  /\ UNCHANGED <<session, closed, inbound, feeding, faults>>

\* The peer's FIN: a clean close. The socket ends its own half as well.
ArriveFin(x) ==
  /\ socket[x] # "destroyed"
  /\ wire[Peer(x)] # <<>> /\ Head(wire[Peer(x)]) = Fin
  /\ closed' = [closed EXCEPT ![x] = TRUE]
  /\ IF socket[x] = "open"
       THEN /\ socket' = [socket EXCEPT ![x] = "ended"]
            /\ wire' = [wire EXCEPT ![Peer(x)] = <<>>,
                                    ![x] = @ \o UnderWay(x) \o <<Fin>>]
            /\ out' = [out EXCEPT ![x] = <<>>]
       ELSE /\ wire' = [wire EXCEPT ![Peer(x)] = <<>>]
            /\ UNCHANGED <<socket, out>>
  /\ UNCHANGED <<session, failed, parsed, inbound, feeding, faults, cut>>

\* The 'error' event, and the close that comes with it.
Fail(x) ==
  /\ closed' = [closed EXCEPT ![x] = TRUE]
  /\ failed' = [failed EXCEPT ![x] = TRUE]

ArriveReset(x) ==
  /\ socket[x] # "destroyed"
  /\ wire[Peer(x)] # <<>> /\ Head(wire[Peer(x)]) = Reset
  /\ Fail(x)
  /\ Destroy(x, Fin)
  /\ UNCHANGED <<session, parsed, inbound, feeding, faults>>

\* The close event of a socket that this side destroyed.
Close(x) ==
  /\ socket[x] = "destroyed" /\ ~ closed[x]
  /\ closed' = [closed EXCEPT ![x] = TRUE]
  /\ UNCHANGED <<session, out, socket, wire, failed, parsed, inbound, feeding,
                 faults, cut>>

\* Seeded fault: the feed loop takes a failed carrier for a closed one.
FeedQuietly(x) ==
  /\ feeding[x]
  /\ \/ /\ parsed[x] # <<>>
        /\ inbound' = [inbound EXCEPT ![x] = Append(@, Head(parsed[x]))]
        /\ parsed' = [parsed EXCEPT ![x] = Tail(@)]
        /\ UNCHANGED feeding
     \/ /\ parsed[x] = <<>> /\ closed[x]
        /\ feeding' = [feeding EXCEPT ![x] = FALSE]
        /\ UNCHANGED <<parsed, inbound>>
  /\ UNCHANGED <<session, out, socket, wire, closed, failed, faults, cut>>

\* Seeded fault: the feed loop stops and leaves the inbound queue open.
FeedWithoutClosing(x) ==
  /\ feeding[x]
  /\ parsed[x] # <<>>
  /\ inbound' = [inbound EXCEPT ![x] = Append(@, Head(parsed[x]))]
  /\ parsed' = [parsed EXCEPT ![x] = Tail(@)]
  /\ UNCHANGED <<session, out, socket, wire, closed, failed, feeding, faults,
                 cut>>

\* The feed loop moves a frame to the inbound queue, and stops when the
\* socket is closed and its frames are used up: a failed carrier leaves the
\* kill frame behind, and the inbound queue is closed.
Feed(x) ==
  /\ feeding[x]
  /\ \/ /\ parsed[x] # <<>>
        /\ inbound' = [inbound EXCEPT ![x] = Append(@, Head(parsed[x]))]
        /\ parsed' = [parsed EXCEPT ![x] = Tail(@)]
        /\ UNCHANGED feeding
     \/ /\ parsed[x] = <<>> /\ closed[x]
        /\ feeding' = [feeding EXCEPT ![x] = FALSE]
        /\ inbound' = IF failed[x] THEN [inbound EXCEPT ![x] = Append(@, Kill)]
                      ELSE inbound
        /\ UNCHANGED parsed
  /\ UNCHANGED <<session, out, socket, wire, closed, failed, faults, cut>>

-----------------------------------------------------------------------------
(* The handshake: -> e, <- e ee s es, -> s se.                             *)

Dial ==
  /\ step[Initiator] = "dial"
  /\ step' = [step EXCEPT ![Initiator] = "wait ee"]
  /\ IF socket[Initiator] = "open" THEN Push(Initiator, Handshake("e"))
     ELSE UNCHANGED out
  /\ UNCHANGED <<end, sent, got, socket, wire, framing, inbound, feeding,
                 faults, cut>>

Awaited(x) ==
  CASE step[x] = "wait e"  -> "e"
    [] step[x] = "wait ee" -> "ee"
    [] step[x] = "wait s"  -> "s"
    [] OTHER -> "none"

\* The awaited handshake message, and the answer to it.
Shake(x) ==
  /\ inbound[x] # <<>> /\ Head(inbound[x]).kind = Awaited(x)
  /\ inbound' = [inbound EXCEPT ![x] = Tail(@)]
  /\ step' = [step EXCEPT ![x] = IF @ = "wait e" THEN "wait s" ELSE "up"]
  /\ IF step[x] = "wait s" \/ socket[x] # "open" THEN UNCHANGED out
     ELSE Push(x, Handshake(IF step[x] = "wait e" THEN "ee" ELSE "s"))
  /\ UNCHANGED <<end, sent, got, socket, wire, framing, feeding, faults, cut>>

\* Any other frame, or the end of the stream, fails it. The responder destroys
\* its socket; the initiator throws and leaves its own to the process.
ShakeFails(x) ==
  /\ Awaited(x) # "none"
  /\ \/ inbound[x] # <<>> /\ Head(inbound[x]).kind # Awaited(x)
     \/ inbound[x] = <<>> /\ ~ feeding[x]
  /\ step' = [step EXCEPT ![x] = "down"]
  /\ IF x = Responder /\ socket[x] # "destroyed"
       THEN \E last \in {Fin, Reset} : Destroy(x, last)
       ELSE UNCHANGED <<out, socket, wire, cut>>
  /\ UNCHANGED <<end, sent, got, framing, inbound, feeding, faults>>

-----------------------------------------------------------------------------
(* The session above.                                                      *)

Receiving(x) == step[x] = "up" /\ end[x] = "open"

\* The next message decrypts under the next nonce.
Receive(x) ==
  /\ Receiving(x)
  /\ inbound[x] # <<>> /\ Head(inbound[x]) = Message(Len(got[x]) + 1)
  /\ got' = [got EXCEPT ![x] = Append(@, Head(inbound[x]).n)]
  /\ inbound' = [inbound EXCEPT ![x] = Tail(@)]
  /\ UNCHANGED <<step, end, sent, out, socket, wire, framing, feeding, faults,
                 cut>>

\* Any other frame does not: the transport is dead (markDead).
ReceiveDies(x) ==
  /\ Receiving(x)
  /\ inbound[x] # <<>> /\ Head(inbound[x]) # Message(Len(got[x]) + 1)
  /\ end' = [end EXCEPT ![x] = "error"]
  /\ UNCHANGED <<step, sent, got, out, socket, wire, framing, inbound, feeding,
                 faults, cut>>

\* The inbound queue is closed and empty: null, the peer closed cleanly.
ReceiveEnd(x) ==
  /\ Receiving(x)
  /\ inbound[x] = <<>> /\ ~ feeding[x]
  /\ end' = [end EXCEPT ![x] = "clean"]
  /\ UNCHANGED <<step, sent, got, out, socket, wire, framing, inbound, feeding,
                 faults, cut>>

\* done(): the session is over, by its protocol, an error or a timeout. With
\* nothing to flush the socket ends at once, otherwise in 50 ms.
Done(x) ==
  /\ step[x] = "up"
  /\ step' = [step EXCEPT ![x] = "over"]
  /\ IF out[x] = <<>> THEN EndSocket(x) ELSE UNCHANGED <<socket, wire, out, cut>>
  /\ UNCHANGED <<end, sent, got, framing, inbound, feeding, faults>>

\* Seeded fault: with frames to flush the socket is never ended.
NoFlushTimer(x) == FALSE /\ UNCHANGED channelVars

FlushTimer(x) ==
  /\ step[x] = "over" /\ socket[x] = "open"
  /\ EndSocket(x)
  /\ UNCHANGED <<session, framing, inbound, feeding, faults>>

-----------------------------------------------------------------------------

\* The carrier breaks under x: what is on its way to x is lost, and of what x
\* wrote a part arrives, with a reset behind it or nothing.
CarrierBreaks(x) ==
  /\ faults < MaxFaults
  /\ socket[x] # "destroyed" /\ ~ closed[x]
  /\ faults' = faults + 1
  /\ Fail(x)
  /\ socket' = [socket EXCEPT ![x] = "destroyed"]
  /\ \E n \in 0 .. Len(wire[x]), rest \in {<<>>, <<Reset>>} :
       wire' = [wire EXCEPT ![x] = SubSeq(@, 1, n) \o rest, ![Peer(x)] = <<>>]
  /\ out' = [out EXCEPT ![x] = <<>>]
  /\ cut' = IF Unwritten(x) THEN cut \cup {x} ELSE cut
  /\ UNCHANGED <<session, parsed, inbound, feeding>>

Step(x) ==
  \/ Flush(x) \/ Arrive(x) \/ ArriveFin(x) \/ ArriveReset(x) \/ Close(x)
  \/ Feed(x) \/ Shake(x) \/ ShakeFails(x)
  \/ Receive(x) \/ ReceiveDies(x) \/ ReceiveEnd(x) \/ FlushTimer(x)

ChannelNext ==
  \/ Dial
  \/ \E x \in Ends : Step(x) \/ Send(x) \/ Done(x) \/ CarrierBreaks(x)

ChannelSpec == ChannelInit /\ [][ChannelNext]_channelVars

\* The event loop goes on, the kernel delivers, a session reads and its
\* timers fire.
Fairness == \A x \in Ends : WF_channelVars(Step(x))

ChannelFairSpec == ChannelSpec /\ Fairness

-----------------------------------------------------------------------------
(* Properties.                                                             *)

\* The connection is the link that the session protocol takes it for: order,
\* no repetition, no clean end after a loss (TD-018, DC-05 6.3).
L == INSTANCE Link WITH
       up <- {x \in Ends : step[x] \in {"up", "over"}},
       left <- {x \in Ends : step[x] \in {"over", "down"}},
       broken <- {x \in Ends : failed[x]}
ImplementsLink == L!Spec

\* A pending receive, of the handshake or of the session.
Pending(x) == Awaited(x) # "none" \/ Receiving(x)

\* No receive is left pending on a socket that is gone: the feed loop closes
\* the inbound queue however it ends.
NoReceiveIsStranded == \A x \in Ends : closed[x] ~> ~ Pending(x)

\* When one side is done and no carrier broke, the other side's receive comes
\* to an end too: nobody has to wait for the idle bound.
EndIsHeard ==
  \A x \in Ends :
    step[Peer(x)] = "over" ~> (~ Pending(x) \/ faults > 0)

\* sync_runtime.ts:205: "Give queued frames a moment to flush before ending
\* the socket": nothing that was handed to send is dropped by who leaves.
LeavesNothingBehind == \A x \in cut : failed[x]
=============================================================================
