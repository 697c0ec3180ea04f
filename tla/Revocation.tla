----------------------------- MODULE Revocation -----------------------------
(***************************************************************************)
(* Revocation gossip between trusted devices (security/revocation.ts and   *)
(* the piggyback of sync_engine.ts).  Whoever revokes a device signs a     *)
(* record; in every session a device pushes the records that its peer has  *)
(* not acknowledged, the peer verifies and stores each of them once, and   *)
(* answers with all that it holds.                                         *)
(*                                                                         *)
(* A record is what its revoker signed; keys and bytes are left out, and   *)
(* so is the time in it, which nothing compares.  The order in which a Map *)
(* of records is walked is left open.  What the composition root adds      *)
(* (DC-05 7.1, 7.3) is as the tests compose it: an accepted record turns   *)
(* the trust entry of the device it names, and a session needs the leave   *)
(* of canSynchronize on both sides.                                        *)
(***************************************************************************)
EXTENDS FiniteSets, Naturals

CONSTANTS
  Devices,
  Revocations,  \* the records the users may issue: [of, by], both devices
  Paired,       \* the pairs {d, p} that trust each other in the beginning
  Links,        \* the pairs {d, p} that ever meet in a session
  None,         \* no record is being verified
  MaxBreaks     \* bound: sessions that break with messages on the way

ASSUME RevocationsAssumption ==
  /\ Revocations \subseteq [of : Devices, by : Devices]
  /\ \A r \in Revocations : r.of # r.by
ASSUME LinksAssumption ==
  \A l \in Links : \E d, p \in Devices : l = {d, p} /\ d # p
ASSUME NoneAssumption == None \notin Revocations
ASSUME BreaksAssumption == MaxBreaks \in Nat

Status == {"trusted", "revoked", "absent"}

VARIABLES
  trust,      \* the trust store: the status of each device, per device
  records,    \* RevocationState: the records accepted, per device
  acks,       \* RevocationQueue: acks[<<d, p>>], what p told d it has accepted
  open,       \* the pairs in a session
  pushed,     \* <<d, p>>: d has pushed its queue to p in this session
  offered,    \* offered[<<d, p>>]: REVOCATION_RECORDS on its way from d to p
  received,   \* received[<<p, d>>]: records of that message p has yet to look at
  checking,   \* checking[<<p, d>>]: the one whose signature p is verifying
  owing,      \* <<p, d>>: p owes d the REVOCATIONS_ACK of that message
  claimed,    \* claimed[<<p, d>>]: REVOCATIONS_ACK on its way from p to d
  breaks      \* sessions broken so far

stores   == <<trust, records, acks>>
sessions == <<open, pushed, offered, received, checking, owing, claimed>>
vars     == <<stores, sessions, breaks>>

\* The ends of the sessions, and a value for each of them.
Ends       == {e \in Devices \X Devices : {e[1], e[2]} \in Links}
PerEnd(S)  == [Ends -> S]

TypeOK ==
  /\ trust \in [Devices -> [Devices -> Status]]
  /\ records \in [Devices -> SUBSET Revocations]
  /\ acks \in PerEnd(SUBSET Revocations)
  /\ open \subseteq Links
  /\ pushed \subseteq Ends
  /\ offered \in PerEnd(SUBSET Revocations)
  /\ received \in PerEnd(SUBSET Revocations)
  /\ checking \in PerEnd(Revocations \cup {None})
  /\ owing \subseteq Ends
  /\ claimed \in PerEnd(SUBSET Revocations)
  /\ breaks \in 0 .. MaxBreaks

\* Every end starts with the same value.
Everywhere(x) == [e \in Ends |-> x]

Init ==
  /\ trust = [d \in Devices |-> [p \in Devices |->
                IF d = p \/ {d, p} \in Paired THEN "trusted" ELSE "absent"]]
  /\ records = [d \in Devices |-> {}]
  /\ acks = Everywhere({})
  /\ open = {}
  /\ pushed = {}
  /\ offered = Everywhere({})
  /\ received = Everywhere({})
  /\ checking = Everywhere(None)
  /\ owing = {}
  /\ claimed = Everywhere({})
  /\ breaks = 0

-----------------------------------------------------------------------------
(* The record store of one device.                                         *)

\* verifyRevocation: only a trusted device other than the one named revokes.
Verifies(d, r) == r.by # r.of /\ trust[d][r.by] = "trusted"

\* Acceptance, and the turn of the trust entry that follows from it.
Accept(d, r) ==
  /\ records' = [records EXCEPT ![d] = @ \cup {r}]
  /\ trust' = [trust EXCEPT ![d][r.of] = "revoked"]

\* Seeded fault: only what a device issued itself is passed on.
OwnQueue(d, p) ==
  {r \in records[d] : r.by = d /\ r.of # p /\ r \notin acks[<<d, p>>]}

\* What d has to tell p: all but what names p and what p acknowledged.
Queue(d, p) == {r \in records[d] : r.of # p /\ r \notin acks[<<d, p>>]}

\* canSynchronize: d's leave to hold a session with p.
Allows(d, p) == trust[d][p] = "trusted"

\* The user of r.by revokes r.of.
Revoke(r) ==
  /\ r \notin records[r.by]
  /\ trust[r.by][r.of] = "trusted"
  /\ Accept(r.by, r)
  /\ UNCHANGED <<acks, sessions, breaks>>

-----------------------------------------------------------------------------
(* Sessions.                                                               *)

Pair(d, p) == {d, p}

Connect(d, p) ==
  /\ Pair(d, p) \notin open
  /\ Allows(d, p) /\ Allows(p, d)
  /\ open' = open \cup {Pair(d, p)}
  /\ UNCHANGED <<stores, pushed, offered, received, checking, owing, claimed,
                 breaks>>

\* Seeded fault: what was sent counts as acknowledged.
PushOnce(d, p) ==
  /\ Pair(d, p) \in open
  /\ <<d, p>> \notin pushed
  /\ pushed' = pushed \cup {<<d, p>>}
  /\ offered' = [offered EXCEPT ![<<d, p>>] = Queue(d, p)]
  /\ acks' = [acks EXCEPT ![<<d, p>>] = @ \cup Queue(d, p)]
  /\ UNCHANGED <<trust, records, open, received, checking, owing, claimed,
                 breaks>>

\* After the peer's HELLO: the whole queue in one message, or none at all.
Push(d, p) ==
  /\ Pair(d, p) \in open
  /\ <<d, p>> \notin pushed
  /\ pushed' = pushed \cup {<<d, p>>}
  /\ offered' = [offered EXCEPT ![<<d, p>>] = Queue(d, p)]
  /\ UNCHANGED <<stores, open, received, checking, owing, claimed, breaks>>

ReceiveRecords(p, d) ==
  /\ offered[<<d, p>>] # {}
  /\ received' = [received EXCEPT ![<<p, d>>] = offered[<<d, p>>]]
  /\ offered' = [offered EXCEPT ![<<d, p>>] = {}]
  /\ owing' = owing \cup {<<p, d>>}
  /\ UNCHANGED <<stores, open, pushed, checking, claimed, breaks>>

\* A record that p holds already, or that does not verify, is dropped.
Drop(p, d, r) ==
  /\ r \in received[<<p, d>>]
  /\ checking[<<p, d>>] = None
  /\ r \in records[p] \/ ~ Verifies(p, r)
  /\ received' = [received EXCEPT ![<<p, d>>] = @ \ {r}]
  /\ UNCHANGED <<stores, open, pushed, offered, checking, owing, claimed,
                 breaks>>

\* The trust entry is read, then the signature is awaited; what other
\* sessions accept meanwhile changes nothing for this record.
Verify(p, d, r) ==
  /\ r \in received[<<p, d>>] \ records[p]
  /\ checking[<<p, d>>] = None
  /\ Verifies(p, r)
  /\ received' = [received EXCEPT ![<<p, d>>] = @ \ {r}]
  /\ checking' = [checking EXCEPT ![<<p, d>>] = r]
  /\ UNCHANGED <<stores, open, pushed, offered, owing, claimed, breaks>>

Store(p, d) ==
  /\ checking[<<p, d>>] # None
  /\ Accept(p, checking[<<p, d>>])
  /\ checking' = [checking EXCEPT ![<<p, d>>] = None]
  /\ UNCHANGED <<acks, open, pushed, offered, received, owing, claimed,
                 breaks>>

Busy(p, d) == received[<<p, d>>] # {} \/ checking[<<p, d>>] # None

\* The answer names all that p has accepted, from whomever it came.
SendAck(p, d) ==
  /\ <<p, d>> \in owing
  /\ ~ Busy(p, d)
  /\ claimed' = [claimed EXCEPT ![<<p, d>>] = records[p]]
  /\ owing' = owing \ {<<p, d>>}
  /\ UNCHANGED <<stores, open, pushed, offered, received, checking, breaks>>

\* ackPeer: what p claims is added to what d knows of it.
AckPeer(d, p, claims) ==
  acks' = [acks EXCEPT ![<<d, p>>] = @ \cup claims]

ReceiveAck(d, p) ==
  /\ claimed[<<p, d>>] # {}
  /\ AckPeer(d, p, claimed[<<p, d>>])
  /\ claimed' = [claimed EXCEPT ![<<p, d>>] = {}]
  /\ UNCHANGED <<trust, records, open, pushed, offered, received, checking,
                 owing, breaks>>

\* The session of d and p is over, and with it whatever is on the way.
Finish(d, p) ==
  /\ open' = open \ {Pair(d, p)}
  /\ pushed' = pushed \ {<<d, p>>, <<p, d>>}
  /\ offered' = [offered EXCEPT ![<<d, p>>] = {}, ![<<p, d>>] = {}]
  /\ claimed' = [claimed EXCEPT ![<<d, p>>] = {}, ![<<p, d>>] = {}]
  /\ owing' = owing \ {<<d, p>>, <<p, d>>}
  /\ UNCHANGED <<stores, received, checking>>

\* Both sides have served each other's records; an acknowledgement that
\* comes behind the peer's session-end barrier is lost.
End(d, p) ==
  /\ Pair(d, p) \in open
  /\ {<<d, p>>, <<p, d>>} \subseteq pushed
  /\ offered[<<d, p>>] = {} /\ offered[<<p, d>>] = {}
  /\ {<<d, p>>, <<p, d>>} \cap owing = {}
  /\ Finish(d, p)
  /\ UNCHANGED breaks

\* The carrier breaks. A message that has arrived is worked through all the
\* same, and the break is seen at its answer.
Break(d, p) ==
  /\ Pair(d, p) \in open
  /\ ~ Busy(d, p) /\ ~ Busy(p, d)
  /\ breaks < MaxBreaks
  /\ breaks' = breaks + 1
  /\ Finish(d, p)

Next ==
  \/ \E r \in Revocations : Revoke(r)
  \/ \E l \in Links : \E d \in l : \E p \in l \ {d} :
       \/ Connect(d, p)
       \/ Push(d, p)
       \/ ReceiveRecords(p, d)
       \/ \E r \in Revocations : Drop(p, d, r) \/ Verify(p, d, r)
       \/ Store(p, d)
       \/ SendAck(p, d)
       \/ ReceiveAck(d, p)
       \/ End(d, p)
       \/ Break(d, p)

Spec == Init /\ [][Next]_vars

Progress(d, p) ==
  \/ Push(d, p)
  \/ ReceiveRecords(p, d)
  \/ \E r \in Revocations : Drop(p, d, r) \/ Verify(p, d, r)
  \/ Store(p, d)
  \/ SendAck(p, d)
  \/ End(d, p)

\* The scheduler opens a session over every link again and again (the trusted
\* mesh is connected in the long run, DC-10 2.6); an open session goes on, and
\* has finitely many steps.
Fairness ==
  \A l \in Links :
    /\ WF_vars(\E d \in l : \E p \in l \ {d} : Connect(d, p))
    /\ WF_vars(\E d \in l : \E p \in l \ {d} : Progress(d, p))

FairSpec == Spec /\ Fairness

-----------------------------------------------------------------------------
(* Properties.                                                             *)

\* Delivery is at least once: a device stops sending a record to a peer only
\* when that peer holds it, whichever messages were lost and whoever told the
\* peer first (RevocationQueue.queue, ackPeer).
AckedIsHeld ==
  \A e \in Ends : acks[e] \subseteq records[e[2]]

\* A revocation reaches every device of the mesh that goes on trusting the
\* revoker, over whatever relays, past broken sessions (DC-10 2.6); the device
\* it names is not told.
RevocationsSpread ==
  <>[] \A r \in Revocations, d \in UNION Links :
         (r \in records[r.by] /\ d # r.of)
           => (r \in records[d] \/ trust[d][r.by] # "trusted")

\* DC-10 TRP-5, concurrent mutual revocation: "ends with both devices storing
\* both records [...] Arrival order does not affect final state".
ArrivalOrderIsIrrelevant ==
  <>[] \A r, s \in Revocations, d \in UNION Links :
         (/\ s = [of |-> r.by, by |-> r.of]
          /\ d \notin {r.of, s.of}
          /\ r \in records[d] /\ s \in records[s.by])
            => s \in records[d]
=============================================================================
