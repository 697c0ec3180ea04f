-------------------------------- MODULE Link --------------------------------
(***************************************************************************)
(* What a session may rely on from the encrypted connection beneath it:    *)
(* the messages of each side reach the other in order and once; a receive  *)
(* that reports a clean end has been given everything, unless the peer     *)
(* itself threw away what it had still to write when it left or when its   *)
(* own carrier broke; and an end in error is reported only where the       *)
(* carrier broke.  Messages are numbered by their sender.                  *)
(***************************************************************************)
EXTENDS Naturals, Sequences

CONSTANTS Initiator, Responder

Ends == {Initiator, Responder}
Peer(x) == IF x = Initiator THEN Responder ELSE Initiator

VARIABLES
  up,      \* the ends whose handshake has succeeded
  sent,    \* messages handed over at each end
  got,     \* messages received at each end
  end,     \* what receive reports at last: open, clean or error
  left,    \* the ends that are done with the session
  broken,  \* the ends under which the carrier broke
  cut      \* the ends that threw away unwritten messages

vars == <<up, sent, got, end, left, broken, cut>>

Init ==
  /\ up = {}
  /\ sent = [x \in Ends |-> 0]
  /\ got = [x \in Ends |-> <<>>]
  /\ end = [x \in Ends |-> "open"]
  /\ left = {}
  /\ broken = {}
  /\ cut = {}

\* The responder is the last to finish the handshake.
Establish(x) ==
  /\ x \notin up
  /\ x = Responder => Initiator \in up
  /\ up' = up \cup {x}
  /\ UNCHANGED <<sent, got, end, left, broken, cut>>

\* Behind a broken carrier it is lost at once, until receive tells.
Send(x) ==
  /\ x \in up \ left
  /\ sent' = [sent EXCEPT ![x] = @ + 1]
  /\ cut' = IF x \in broken THEN cut \cup {x} ELSE cut
  /\ UNCHANGED <<up, got, end, left, broken>>

Deliver(x) ==
  /\ x \in up \ left
  /\ end[x] = "open"
  /\ Len(got[x]) < sent[Peer(x)]
  /\ got' = [got EXCEPT ![x] = Append(@, Len(@) + 1)]
  /\ UNCHANGED <<up, sent, end, left, broken, cut>>

EndCleanly(x) ==
  /\ x \in up \ left
  /\ end[x] = "open"
  /\ Peer(x) \in left \cup broken
  /\ Len(got[x]) = sent[Peer(x)] \/ Peer(x) \in cut
  /\ end' = [end EXCEPT ![x] = "clean"]
  /\ UNCHANGED <<up, sent, got, left, broken, cut>>

EndInError(x) ==
  /\ x \in up \ left
  /\ end[x] = "open"
  /\ x \in broken
  /\ end' = [end EXCEPT ![x] = "error"]
  /\ UNCHANGED <<up, sent, got, left, broken, cut>>

\* Who leaves may give up, then or later, what it had still to write.
Leave(x) ==
  /\ left' = left \cup {x}
  /\ cut' \in {cut, cut \cup {x}}
  /\ UNCHANGED <<up, sent, got, end, broken>>

\* The carrier breaks under x, and x may lose what it had still to write.
Break(x) ==
  /\ broken' = broken \cup {x}
  /\ cut' \in {cut, cut \cup {x}}
  /\ UNCHANGED <<up, sent, got, end, left>>

Next ==
  \E x \in Ends :
    \/ Establish(x) \/ Send(x) \/ Deliver(x) \/ EndCleanly(x)
    \/ EndInError(x) \/ Leave(x) \/ Break(x)

Spec == Init /\ [][Next]_vars
=============================================================================
