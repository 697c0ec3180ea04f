---------------------------- MODULE Trust_proofs ----------------------------
(***************************************************************************)
(* At-least-once delivery of revocations, for every mesh and every set of  *)
(* revocations: an acknowledged record is held.  The invariant that is     *)
(* inductive adds the acknowledgements on their way: nothing is ever taken *)
(* out of a record store, so that what an acknowledgement claimed when it  *)
(* was sent is still true when it arrives.                                 *)
(*                                                                         *)
(* The misbehaviour ladder, for every window, threshold and number of      *)
(* records: FloodIsBounded. A sum over the window is a recursive function: *)
(* what the proof knows of it (that it is a number, what one more record   *)
(* adds, that a window that has moved on sums to no more) is proved by     *)
(* induction over sets of numbers.                                         *)
(***************************************************************************)
EXTENDS Revocation, Misbehavior, NaturalsInduction, WellFoundedInduction, TLAPS

\* An acknowledgement on its way names only what its sender holds.
ClaimsHold == \A e \in Ends : claimed[e] \subseteq records[e[1]]

IInv == TypeOK /\ ClaimsHold /\ AckedIsHeld

\* The two ends of a link.
LEMMA LinkEnds ==
  ASSUME NEW l \in Links, NEW d \in l, NEW p \in l \ {d}
  PROVE  /\ d \in Devices /\ p \in Devices
         /\ <<d, p>> \in Ends /\ <<p, d>> \in Ends
         /\ Pair(d, p) \in Links
<1>1. PICK x, y \in Devices : l = {x, y} /\ x # y
  BY LinksAssumption
<1>2. d \in Devices /\ p \in Devices /\ {d, p} = l /\ {p, d} = l
  BY <1>1
<1> QED  BY <1>2 DEF Ends, Pair

LEMMA InitEstablishes == Init => IInv
<1> SUFFICES ASSUME Init PROVE IInv
  OBVIOUS
<1>1. trust \in [Devices -> [Devices -> Status]]
  BY DEF Init, Status
<1>2. TypeOK
  BY <1>1, BreaksAssumption DEF Init, TypeOK, PerEnd, Everywhere
<1>3. ClaimsHold /\ AckedIsHeld
  BY DEF Init, ClaimsHold, AckedIsHeld, Everywhere
<1> QED  BY <1>2, <1>3 DEF IInv

\* Taking a record over keeps the types, and every store grows.
LEMMA AcceptGrows ==
  ASSUME TypeOK, NEW d \in Devices, NEW r \in Revocations, Accept(d, r)
  PROVE  /\ trust' \in [Devices -> [Devices -> Status]]
         /\ records' \in [Devices -> SUBSET Revocations]
         /\ \A c \in Devices : records[c] \subseteq records'[c]
<1>1. r.of \in Devices
  BY RevocationsAssumption
<1>2. trust[d] \in [Devices -> Status]
  BY DEF TypeOK
<1>3. [trust[d] EXCEPT ![r.of] = "revoked"] \in [Devices -> Status]
  BY <1>1, <1>2 DEF Status
<1>4. trust' \in [Devices -> [Devices -> Status]]
  BY <1>3 DEF Accept, TypeOK
<1> QED  BY <1>4 DEF Accept, TypeOK

\* Whatever leaves the stores of the acknowledgements alone keeps them true
\* while the records grow.
LEMMA GrowthIsHarmless ==
  ASSUME IInv, \A c \in Devices : records[c] \subseteq records'[c],
         UNCHANGED <<acks, claimed>>
  PROVE  ClaimsHold' /\ AckedIsHeld'
<1>1. \A e \in Ends : e[1] \in Devices /\ e[2] \in Devices
  BY DEF Ends
<1>2. ClaimsHold'
  BY <1>1 DEF ClaimsHold, IInv
<1>3. AckedIsHeld'
  BY <1>1 DEF AckedIsHeld, IInv
<1> QED  BY <1>2, <1>3

LEMMA RevokePreserves ==
  ASSUME IInv, NEW r \in Revocations, Revoke(r)
  PROVE  IInv'
<1>1. r.by \in Devices
  BY RevocationsAssumption
<1>2. /\ trust' \in [Devices -> [Devices -> Status]]
      /\ records' \in [Devices -> SUBSET Revocations]
      /\ \A c \in Devices : records[c] \subseteq records'[c]
  BY <1>1, AcceptGrows DEF Revoke, IInv
<1>3. UNCHANGED <<acks, sessions, breaks>>
  BY DEF Revoke
<1>4. TypeOK'
  BY <1>2, <1>3 DEF IInv, TypeOK, sessions
<1>5. ClaimsHold' /\ AckedIsHeld'
  BY <1>2, <1>3, GrowthIsHarmless DEF sessions
<1> QED  BY <1>4, <1>5 DEF IInv

LEMMA SessionPreserves ==
  ASSUME IInv, NEW l \in Links, NEW d \in l, NEW p \in l \ {d},
         \/ Connect(d, p) \/ Push(d, p) \/ ReceiveRecords(p, d)
         \/ \E r \in Revocations : Drop(p, d, r) \/ Verify(p, d, r)
         \/ Store(p, d) \/ SendAck(p, d) \/ ReceiveAck(d, p)
         \/ End(d, p) \/ Break(d, p)
  PROVE  IInv'
<1> USE LinkEnds
<1>0. /\ d \in Devices /\ p \in Devices
      /\ <<d, p>> \in Ends /\ <<p, d>> \in Ends /\ Pair(d, p) \in Links
  OBVIOUS
<1>T. TypeOK /\ ClaimsHold /\ AckedIsHeld
  BY DEF IInv
<1>S. ASSUME UNCHANGED <<stores, claimed>>
      PROVE  ClaimsHold' /\ AckedIsHeld'
  BY <1>S, <1>T DEF stores, ClaimsHold, AckedIsHeld
<1>1. CASE Connect(d, p)
  <2>1. TypeOK'
    BY <1>0, <1>1, <1>T DEF Connect, TypeOK, stores
  <2> QED  BY <1>1, <2>1, <1>S DEF Connect, IInv
<1>2. CASE Push(d, p)
  <2>1. Queue(d, p) \subseteq Revocations
    BY <1>0, <1>T DEF Queue, TypeOK
  <2>2. TypeOK'
    BY <1>0, <1>2, <1>T, <2>1 DEF Push, TypeOK, stores, PerEnd
  <2> QED  BY <1>2, <2>2, <1>S DEF Push, IInv
<1>3. CASE ReceiveRecords(p, d)
  <2>1. TypeOK'
    BY <1>0, <1>3, <1>T DEF ReceiveRecords, TypeOK, stores, PerEnd
  <2> QED  BY <1>3, <2>1, <1>S DEF ReceiveRecords, IInv
<1>4. CASE \E r \in Revocations : Drop(p, d, r) \/ Verify(p, d, r)
  <2>1. PICK r \in Revocations : Drop(p, d, r) \/ Verify(p, d, r)
    BY <1>4
  <2>2. CASE Drop(p, d, r)
    <3>1. TypeOK'
      BY <1>0, <2>2, <1>T DEF Drop, TypeOK, stores, PerEnd
    <3> QED  BY <2>2, <3>1, <1>S DEF Drop, IInv
  <2>3. CASE Verify(p, d, r)
    <3>1. TypeOK'
      BY <1>0, <2>3, <1>T DEF Verify, TypeOK, stores, PerEnd
    <3> QED  BY <2>3, <3>1, <1>S DEF Verify, IInv
  <2> QED  BY <2>1, <2>2, <2>3
<1>5. CASE Store(p, d)
  <2> DEFINE r == checking[<<p, d>>]
  <2>1. r \in Revocations
    BY <1>0, <1>5, <1>T DEF Store, TypeOK, PerEnd
  <2>2. /\ trust' \in [Devices -> [Devices -> Status]]
        /\ records' \in [Devices -> SUBSET Revocations]
        /\ \A c \in Devices : records[c] \subseteq records'[c]
    BY <1>0, <1>5, <1>T, <2>1, AcceptGrows DEF Store
  <2>3. TypeOK'
    BY <1>0, <1>5, <1>T, <2>2 DEF Store, TypeOK, PerEnd
  <2>4. ClaimsHold' /\ AckedIsHeld'
    BY <1>5, <2>2, GrowthIsHarmless DEF Store
  <2> QED  BY <2>3, <2>4 DEF IInv
<1>6. CASE SendAck(p, d)
  <2>1. records[p] \subseteq Revocations
    BY <1>0, <1>T DEF TypeOK
  <2>2. TypeOK'
    BY <1>0, <1>6, <1>T, <2>1 DEF SendAck, TypeOK, stores, PerEnd
  <2>3. ClaimsHold'
    BY <1>0, <1>6, <1>T DEF SendAck, ClaimsHold, stores, TypeOK, PerEnd
  <2>4. AckedIsHeld'
    BY <1>6, <1>T DEF SendAck, AckedIsHeld, stores
  <2> QED  BY <2>2, <2>3, <2>4 DEF IInv
<1>7. CASE ReceiveAck(d, p)
  <2>1. TypeOK'
    BY <1>0, <1>7, <1>T DEF ReceiveAck, AckPeer, TypeOK, PerEnd
  <2>2. ClaimsHold'
    BY <1>0, <1>7, <1>T DEF ReceiveAck, AckPeer, ClaimsHold, TypeOK, PerEnd
  <2>3. claimed[<<p, d>>] \subseteq records[p]
    BY <1>0, <1>T DEF ClaimsHold
  <2>4. AckedIsHeld'
    <3> SUFFICES ASSUME NEW e \in Ends PROVE acks'[e] \subseteq records'[e[2]]
      BY DEF AckedIsHeld
    <3>1. records' = records
      BY <1>7 DEF ReceiveAck, AckPeer
    <3>2. acks'[e] = IF e = <<d, p>> THEN acks[e] \cup claimed[<<p, d>>]
                     ELSE acks[e]
      BY <1>0, <1>7, <1>T DEF ReceiveAck, AckPeer, TypeOK, PerEnd
    <3>3. acks[e] \subseteq records[e[2]]
      BY <1>T DEF AckedIsHeld
    <3>4. CASE e = <<d, p>>
      <4>1. e[2] = p
        BY <3>4
      <4> QED  BY <2>3, <3>1, <3>2, <3>3, <3>4, <4>1
    <3>5. CASE e # <<d, p>>
      BY <3>1, <3>2, <3>3, <3>5
    <3> QED  BY <3>4, <3>5
  <2> QED  BY <2>1, <2>2, <2>4 DEF IInv
<1>8. ASSUME Finish(d, p), breaks' \in 0 .. MaxBreaks
      PROVE  IInv'
  <2>1. TypeOK'
    BY <1>0, <1>8, <1>T DEF Finish, TypeOK, stores, PerEnd
  <2>2. ClaimsHold'
    BY <1>0, <1>8, <1>T DEF Finish, ClaimsHold, TypeOK, PerEnd, stores
  <2>3. AckedIsHeld'
    BY <1>8, <1>T DEF Finish, AckedIsHeld, stores
  <2> QED  BY <2>1, <2>2, <2>3 DEF IInv
<1>9. CASE End(d, p)
  BY <1>8, <1>9, <1>T DEF End, TypeOK
<1>10. CASE Break(d, p)
  <2>1. breaks' \in 0 .. MaxBreaks
    BY <1>10, <1>T, BreaksAssumption DEF Break, TypeOK
  <2> QED  BY <1>8, <1>10, <2>1 DEF Break
<1> QED  BY <1>1, <1>2, <1>3, <1>4, <1>5, <1>6, <1>7, <1>9, <1>10

\* The types, the honesty of acknowledgements on their way and the held
\* acknowledged records are invariant.
THEOREM Invariance == Spec => []IInv
<1>1. Init => IInv
  BY InitEstablishes
<1>2. IInv /\ [Next]_vars => IInv'
  <2> SUFFICES ASSUME IInv, [Next]_vars PROVE IInv'
    OBVIOUS
  <2>1. CASE UNCHANGED vars
    BY <2>1 DEF vars, stores, sessions, IInv, TypeOK, ClaimsHold, AckedIsHeld
  <2>2. CASE Next
    BY <2>2, RevokePreserves, SessionPreserves DEF Next
  <2> QED  BY <2>1, <2>2
<1> QED  BY <1>1, <1>2, PTL DEF Spec

\* The stores, the messages and the open sessions keep their types.
THEOREM TypesHold == Spec => []TypeOK
<1>1. IInv => TypeOK
  BY DEF IInv
<1> QED  BY <1>1, Invariance, PTL

\* Delivery is at least once: a record leaves the queue of a peer only when
\* the peer holds it (ackPeer), in every mesh and however sessions break.
THEOREM AtLeastOnce == Spec => []AckedIsHeld
<1>1. IInv => AckedIsHeld
  BY DEF IInv
<1> QED  BY <1>1, Invariance, PTL

-----------------------------------------------------------------------------
(* The misbehaviour ladder.                                                *)

Below == {nm \in Nat \X Nat : nm[1] < nm[2]}

\* Induction, over a set of numbers in place of a predicate.
LEMMA Upwards ==
  ASSUME NEW N \in Nat, NEW S, 0 \in S, \A n \in 0 .. N - 1 : n \in S => n + 1 \in S
  PROVE  0 .. N \subseteq S
<1> SUFFICES ASSUME (0 .. N) \ S # {} PROVE FALSE
  OBVIOUS
<1> DEFINE T == (0 .. N) \ S
<1>1. IsWellFoundedOn(Below, Nat)
  BY NatLessThanWellFounded DEF OpToRel, Below
<1>2. T \subseteq Nat /\ T # {}
  OBVIOUS
<1>3. PICK x \in T : \A y \in T : <<y, x>> \notin Below
  <2> HIDE DEF T
  <2> QED
    BY <1>1, <1>2, WFMin
<1>4. x \in 0 .. N /\ x # 0 /\ x - 1 \in 0 .. N - 1
  OBVIOUS
<1>5. x - 1 \notin T
  <2>1. x \in Nat /\ x - 1 \in Nat /\ x - 1 < x
    BY <1>4
  <2>2. <<x - 1, x>> \in Below
    BY <2>1 DEF Below
  <2> QED
    BY <1>3, <2>2
<1>6. x - 1 \in S /\ (x - 1) + 1 = x
  BY <1>4, <1>5
<1> QED
  BY <1>4, <1>6

-----------------------------------------------------------------------------
(* The sum of a row.                                                       *)

Rows == [Ages -> Nat]

\* f sums row up to age n - 1.
Sums(row, f, n) == f = [a \in -1 .. n - 1 |-> IF a = -1 THEN 0 ELSE f[a - 1] + row[a]]

LEMMA WindowFacts == Window \in Nat /\ Window # 0 /\ 0 \in Ages /\ Ages \subseteq Nat
BY LadderAssumption DEF Ages

LEMMA SumExists ==
  ASSUME NEW row
  PROVE  \E f : Sums(row, f, Window)
<1> DEFINE S == {n \in Nat : \E f : Sums(row, f, n)}
<1>1. 0 \in S
  <2>1. Sums(row, [a \in -1 .. -1 |-> 0], 0)
    BY DEF Sums
  <2> QED
    BY <2>1
<1>2. ASSUME NEW n \in 0 .. Window - 1, n \in S PROVE n + 1 \in S
  <2>1. PICK f : Sums(row, f, n)
    BY <1>2
  <2> DEFINE g == [a \in -1 .. n |-> IF a = n THEN f[n - 1] + row[n] ELSE f[a]]
  <2>2. ASSUME NEW a \in -1 .. n
        PROVE  g[a] = IF a = -1 THEN 0 ELSE g[a - 1] + row[a]
    <3>1. n \in Nat
      BY WindowFacts
    <3>2. CASE a = n
      <4>1. a - 1 \in -1 .. n /\ a - 1 # n /\ a # -1
        BY <3>1, <3>2
      <4> QED
        BY <3>2, <4>1
    <3>3. CASE a # n /\ a = -1
      BY <2>1, <3>1, <3>3 DEF Sums
    <3>4. CASE a # n /\ a # -1
      <4>1. a \in -1 .. n - 1 /\ a - 1 \in -1 .. n /\ a - 1 # n
        BY <3>1, <3>4
      <4>2. f[a] = f[a - 1] + row[a]
        BY <2>1, <3>4, <4>1 DEF Sums
      <4> QED
        BY <3>4, <4>1, <4>2
    <3> QED
      BY <3>2, <3>3, <3>4
  <2>3. (n + 1) - 1 = n /\ n + 1 \in Nat
    BY WindowFacts
  <2>4. g = [a \in -1 .. n |-> IF a = -1 THEN 0 ELSE g[a - 1] + row[a]]
    BY <2>2
  <2>5. Sums(row, g, n + 1)
    BY <2>3, <2>4 DEF Sums
  <2> QED
    BY <2>3, <2>5
<1>3. 0 .. Window \subseteq S
  <2> HIDE DEF S
  <2> QED
    BY <1>1, <1>2, WindowFacts, Upwards
<1> QED
  BY <1>3, WindowFacts

LEMMA TotalIsASum ==
  ASSUME NEW row
  PROVE  \E f : Sums(row, f, Window) /\ Total(row) = f[Window - 1]
<1>1. PICK f : Sums(row, f, Window)
  BY SumExists
<1> QED
  BY <1>1 DEF Total, Sums

\* A sum at each age.
LEMMA SumSteps ==
  ASSUME NEW row, NEW f, Sums(row, f, Window)
  PROVE  f[-1] = 0 /\ \A a \in Ages : f[a] = f[a - 1] + row[a]
<1>1. -1 \in -1 .. Window - 1 /\ \A a \in Ages : a \in -1 .. Window - 1 /\ a # -1
  BY WindowFacts DEF Ages
<1> QED
  BY <1>1 DEF Sums

LEMMA SumType ==
  ASSUME NEW row \in Rows, NEW f, Sums(row, f, Window), NEW n \in 0 .. Window
  PROVE  f[n - 1] \in Nat
<1> DEFINE S == {i \in Nat : f[i - 1] \in Nat}
<1>1. 0 \in S
  BY SumSteps
<1>2. ASSUME NEW i \in 0 .. Window - 1, i \in S PROVE i + 1 \in S
  <2>1. i \in Ages /\ i \in Nat /\ (i + 1) - 1 = i /\ i + 1 \in Nat
    BY WindowFacts DEF Ages
  <2>2. f[i] = f[i - 1] + row[i] /\ row[i] \in Nat
    BY <2>1, SumSteps DEF Rows
  <2> QED
    BY <1>2, <2>1, <2>2
<1>3. 0 .. Window \subseteq S
  <2> HIDE DEF S
  <2> QED
    BY <1>1, <1>2, WindowFacts, Upwards
<1> QED
  BY <1>3

LEMMA FirstIsCounted ==
  ASSUME NEW row \in Rows, NEW f, Sums(row, f, Window)
  PROVE  row[0] <= f[Window - 1]
<1> DEFINE S == {i \in Nat : row[0] <= f[i]}
<1>0. row[0] \in Nat /\ f[0] = row[0]
  <2>1. f[-1] = 0 /\ f[0] = f[0 - 1] + row[0] /\ row[0] \in Nat
    BY SumSteps, WindowFacts DEF Rows
  <2> QED
    BY <2>1
<1>1. 0 \in S
  BY <1>0
<1>2. ASSUME NEW i \in 0 .. (Window - 1) - 1, i \in S PROVE i + 1 \in S
  <2>1. i + 1 \in Ages /\ i + 1 \in Nat /\ (i + 1) - 1 = i /\ i + 1 \in 0 .. Window
    BY WindowFacts DEF Ages
  <2>2. f[i + 1] = f[i] + row[i + 1] /\ row[i + 1] \in Nat
    BY <2>1, SumSteps DEF Rows
  <2>3. f[i] \in Nat
    BY <2>1, SumType
  <2> QED
    BY <1>0, <1>2, <2>1, <2>2, <2>3
<1>3. 0 .. Window - 1 \subseteq S
  <2>1. Window - 1 \in Nat
    BY WindowFacts
  <2> HIDE DEF S
  <2> QED
    BY <1>1, <1>2, <2>1, Upwards
<1> QED
  BY <1>3, WindowFacts

LEMMA TotalFacts ==
  ASSUME NEW row \in Rows
  PROVE  Total(row) \in Nat /\ row[0] <= Total(row)
<1>1. PICK f : Sums(row, f, Window) /\ Total(row) = f[Window - 1]
  BY TotalIsASum
<1>2. f[Window - 1] \in Nat
  BY <1>1, SumType, WindowFacts
<1> QED
  BY <1>1, <1>2, FirstIsCounted

\* What grows older leaves the window, or stays in it.
LEMMA OlderIsLess ==
  ASSUME NEW row \in Rows
  PROVE  Older(row) \in Rows /\ Total(Older(row)) <= Total(row)
<1>1. Older(row) \in Rows
  <2>1. ASSUME NEW a \in Ages, a # 0 PROVE a - 1 \in Ages
    BY <2>1, WindowFacts DEF Ages
  <2> QED
    BY <2>1 DEF Older, Rows
<1>2. PICK f : Sums(row, f, Window) /\ Total(row) = f[Window - 1]
  BY TotalIsASum
<1>3. PICK g : Sums(Older(row), g, Window) /\ Total(Older(row)) = g[Window - 1]
  BY TotalIsASum
<1> DEFINE S == {i \in Nat : g[i] = f[i - 1]}
<1>4. 0 \in S
  <2>1. g[-1] = 0 /\ g[0] = g[0 - 1] + Older(row)[0] /\ f[-1] = 0
    BY <1>2, <1>3, SumSteps, WindowFacts
  <2>2. Older(row)[0] = 0
    BY WindowFacts DEF Older
  <2> QED
    BY <2>1, <2>2
<1>5. ASSUME NEW i \in 0 .. (Window - 1) - 1, i \in S PROVE i + 1 \in S
  <2>1. i + 1 \in Ages /\ i \in Ages /\ i + 1 \in Nat /\ (i + 1) - 1 = i /\ i + 1 # 0
    BY WindowFacts DEF Ages
  <2>2. g[i + 1] = g[i] + Older(row)[i + 1] /\ f[i] = f[i - 1] + row[i]
    BY <1>2, <1>3, <2>1, SumSteps
  <2>3. Older(row)[i + 1] = row[i]
    BY <2>1 DEF Older
  <2> QED
    BY <1>5, <2>1, <2>2, <2>3
<1>6. 0 .. Window - 1 \subseteq S
  <2>1. Window - 1 \in Nat
    BY WindowFacts
  <2> HIDE DEF S
  <2> QED
    BY <1>4, <1>5, <2>1, Upwards
<1>7. Window - 1 \in Ages /\ Window - 1 \in 0 .. Window - 1 /\ Window - 1 \in 0 .. Window
  BY WindowFacts DEF Ages
<1>8. g[Window - 1] = f[(Window - 1) - 1]
  BY <1>6, <1>7
<1>9. f[Window - 1] = f[(Window - 1) - 1] + row[Window - 1] /\ row[Window - 1] \in Nat
  BY <1>2, <1>7, SumSteps DEF Rows
<1>10. f[(Window - 1) - 1] \in Nat
  BY <1>2, <1>7, SumType
<1> QED
  BY <1>1, <1>2, <1>3, <1>8, <1>9, <1>10

LEMMA EmptyFacts == \A k \in Kinds : Empty[k] \in Rows /\ Total(Empty[k]) = 0
<1> SUFFICES ASSUME NEW k \in Kinds PROVE Empty[k] \in Rows /\ Total(Empty[k]) = 0
  OBVIOUS
<1> DEFINE row == Empty[k]
<1>1. row \in Rows /\ \A a \in Ages : row[a] = 0
  BY DEF Empty, Rows
<1> HIDE DEF row
<1>2. PICK f : Sums(row, f, Window) /\ Total(row) = f[Window - 1]
  BY TotalIsASum
<1> DEFINE S == {i \in Nat : f[i - 1] = 0}
<1>3. 0 \in S
  BY <1>2, SumSteps
<1>4. ASSUME NEW i \in 0 .. Window - 1, i \in S PROVE i + 1 \in S
  <2>1. i \in Ages /\ i \in Nat /\ (i + 1) - 1 = i /\ i + 1 \in Nat
    BY WindowFacts DEF Ages
  <2>2. f[i] = f[i - 1] + row[i] /\ row[i] = 0
    BY <1>1, <1>2, <2>1, SumSteps
  <2> QED
    BY <1>4, <2>1, <2>2
<1>5. 0 .. Window \subseteq S
  <2> HIDE DEF S
  <2> QED
    BY <1>3, <1>4, WindowFacts, Upwards
<1>6. f[Window - 1] = 0
  BY <1>5, WindowFacts
<1> QED
  BY <1>1, <1>2, <1>6 DEF row

-----------------------------------------------------------------------------
(* The window.                                                             *)

Windows == [Kinds -> Rows]

LEMMA WindowSums ==
  ASSUME NEW w \in Windows
  PROVE  /\ \A k \in Kinds : Count(w, k) \in Nat /\ w[k][0] \in Nat /\ w[k][0] <= Count(w, k)
         /\ Flood(w) \in Nat /\ All(w) \in Nat
         /\ \A k \in Kinds : w[k][0] <= All(w)
<1>1. ASSUME NEW k \in Kinds
      PROVE  Count(w, k) \in Nat /\ w[k][0] \in Nat /\ w[k][0] <= Count(w, k)
  <2>1. w[k] \in Rows
    BY DEF Windows
  <2>2. w[k][0] \in Nat
    BY <2>1, WindowFacts DEF Rows
  <2> QED
    BY <2>1, <2>2, TotalFacts DEF Count
<1>2. {"ok", "invalid", "dropped"} = Kinds
  BY DEF Kinds
<1>3. Count(w, "ok") \in Nat /\ Count(w, "invalid") \in Nat /\ Count(w, "dropped") \in Nat
  BY <1>1, <1>2
<1>4. Flood(w) \in Nat /\ All(w) \in Nat
  BY <1>3 DEF Flood, All
<1>5. ASSUME NEW k \in Kinds PROVE Count(w, k) <= All(w)
  BY <1>2, <1>3 DEF All
<1>6. ASSUME NEW k \in Kinds PROVE w[k][0] <= All(w)
  BY <1>1, <1>4, <1>5
<1> QED
  BY <1>1, <1>4, <1>6

LEMMA EmptyWindow == Empty \in Windows /\ Flood(Empty) = 0
<1>1. Empty \in Windows
  BY EmptyFacts DEF Empty, Windows
<1>2. Count(Empty, "invalid") = 0 /\ Count(Empty, "dropped") = 0
  BY EmptyFacts DEF Count, Kinds
<1> QED
  BY <1>1, <1>2 DEF Flood

LEMMA OlderWindow ==
  ASSUME NEW w \in Windows
  PROVE  LET v == [k \in Kinds |-> Older(w[k])]
         IN  v \in Windows /\ Flood(v) <= Flood(w)
<1> DEFINE v == [k \in Kinds |-> Older(w[k])]
<1>1. ASSUME NEW k \in Kinds
      PROVE  v[k] \in Rows /\ Count(v, k) <= Count(w, k) /\ Count(v, k) \in Nat
  <2>1. w[k] \in Rows /\ v[k] = Older(w[k])
    BY DEF Windows
  <2> HIDE DEF v
  <2> QED
    BY <2>1, OlderIsLess, TotalFacts DEF Count
<1>2. v \in Windows
  BY <1>1 DEF Windows
<1> HIDE DEF v
<1>3. /\ Count(v, "invalid") <= Count(w, "invalid") /\ Count(v, "dropped") <= Count(w, "dropped")
      /\ Count(v, "invalid") \in Nat /\ Count(v, "dropped") \in Nat
  BY <1>1 DEF Kinds
<1>4. Count(w, "invalid") \in Nat /\ Count(w, "dropped") \in Nat
  BY WindowSums DEF Kinds
<1>5. Flood(v) <= Flood(w)
  BY <1>3, <1>4 DEF Flood
<1> QED
  BY <1>2, <1>5 DEF v

\* An arrival has age 0.
LEMMA ArrivalCounts ==
  ASSUME NEW w \in Windows, NEW kind \in Kinds
  PROVE  LET v == [w EXCEPT ![kind][0] = @ + 1]
         IN  /\ v \in Windows
             /\ \A k \in Kinds : \A a \in Ages :
                  v[k][a] = IF k = kind /\ a = 0 THEN w[k][a] + 1 ELSE w[k][a]
<1> DEFINE row == [w[kind] EXCEPT ![0] = @ + 1]
           v   == [w EXCEPT ![kind] = row]
<1>1. [w EXCEPT ![kind][0] = @ + 1] = v
  OBVIOUS
<1>2. w[kind] \in Rows /\ 0 \in Ages
  BY WindowFacts DEF Windows
<1>3. row \in Rows /\ \A a \in Ages : row[a] = IF a = 0 THEN w[kind][a] + 1 ELSE w[kind][a]
  BY <1>2 DEF Rows
<1> HIDE DEF row
<1>4. v \in Windows /\ \A k \in Kinds : v[k] = IF k = kind THEN row ELSE w[k]
  BY <1>3 DEF Windows
<1> HIDE DEF v
<1>5. \A k \in Kinds : \A a \in Ages :
        v[k][a] = IF k = kind /\ a = 0 THEN w[k][a] + 1 ELSE w[k][a]
  BY <1>3, <1>4
<1> QED
  BY <1>1, <1>4, <1>5

-----------------------------------------------------------------------------
(* The ladder.                                                             *)

LadderInv == LadderTypeOK /\ FloodIsBounded

LEMMA Bounds ==
  /\ Window \in Nat /\ Throttle \in Nat /\ Tier2Count \in Nat /\ MaxArrivals \in Nat
  /\ MaxUser \in Nat /\ MaxRestarts \in Nat
  /\ 0 \in 0 .. Window /\ 0 \in 0 .. Throttle /\ 0 \in 0 .. 3
BY LadderAssumption

LEMMA TypedWindow == LadderTypeOK => window \in Windows
BY LadderAssumption DEF LadderTypeOK, Windows, Rows

LEMMA InitInv == LadderInit => LadderInv
<1> SUFFICES ASSUME LadderInit PROVE LadderInv
  OBVIOUS
<1>1. Empty \in [Kinds -> [Ages -> 0 .. MaxArrivals]]
  BY LadderAssumption DEF Empty
<1>2. 0 \in 0 .. MaxUser /\ 0 \in 0 .. MaxRestarts
  BY Bounds
<1>3. LadderTypeOK
  BY <1>1, <1>2, Bounds DEF LadderInit, LadderTypeOK
<1> QED
  BY <1>3, EmptyWindow, Bounds DEF LadderInv, LadderInit, FloodIsBounded

\* An arrival: the row is written as soon as the window overflows.
LEMMA EvaluateKeeps ==
  ASSUME LadderTypeOK, NEW kind \in Kinds, All(window) < MaxArrivals, Note(kind)
  PROVE  /\ window' \in [Kinds -> [Ages -> 0 .. MaxArrivals]]
         /\ level' \in 0 .. 3 /\ since' \in 0 .. Window /\ backoff' \in 0 .. Throttle
         /\ recommend' \in BOOLEAN /\ blocked' \in BOOLEAN
         /\ FloodIsBounded'
<1> DEFINE v == [window EXCEPT ![kind][0] = @ + 1]
<1>1. Evaluate(kind, v)
  BY DEF Note
<1>2. /\ v \in Windows
      /\ \A k \in Kinds : \A a \in Ages :
           v[k][a] = IF k = kind /\ a = 0 THEN window[k][a] + 1 ELSE window[k][a]
  BY TypedWindow, ArrivalCounts
<1> HIDE DEF v
<1>3. window' = v /\ blocked' = (blocked \/ Flooded(v))
  BY <1>1 DEF Evaluate, HardBlockProducer
<1>4. window' \in [Kinds -> [Ages -> 0 .. MaxArrivals]]
  <2> SUFFICES ASSUME NEW k \in Kinds, NEW a \in Ages PROVE v[k][a] \in 0 .. MaxArrivals
    BY <1>2, <1>3 DEF Windows, Rows
  <2>1. window[k][a] \in 0 .. MaxArrivals /\ MaxArrivals \in Nat
    BY LadderAssumption DEF LadderTypeOK
  <2>2. CASE k = kind /\ a = 0
    <3>1. window[k][0] <= All(window) /\ All(window) \in Nat
      BY TypedWindow, WindowSums
    <3>2. window[k][0] + 1 <= MaxArrivals
      BY <2>1, <2>2, <3>1
    <3> QED
      BY <1>2, <2>1, <2>2, <3>2
  <2>3. CASE ~ (k = kind /\ a = 0)
    BY <1>2, <2>1, <2>3
  <2> QED
    BY <2>2, <2>3
<1>5. level' \in 0 .. 3 /\ since' \in 0 .. Window /\ backoff' \in 0 .. Throttle
      /\ recommend' \in BOOLEAN
  <2>1. /\ level \in 0 .. 3 /\ since \in 0 .. Window /\ backoff \in 0 .. Throttle
        /\ recommend \in BOOLEAN /\ Throttle \in Nat /\ Window \in Nat
    BY LadderAssumption DEF LadderTypeOK
  <2>2. CASE UNCHANGED <<level, since, backoff, recommend>>
    BY <2>1, <2>2
  <2>3. CASE Recover
    BY <2>3, Bounds DEF Recover
  <2>4. CASE level < 3 /\ Climb(v)
    BY <2>1, <2>4 DEF Climb
  <2>5. CASE Stay
    BY <2>1, <2>5 DEF Stay
  <2> QED
    BY <1>1, <2>2, <2>3, <2>4, <2>5 DEF Evaluate
<1>6. FloodIsBounded'
  <2>1. Flood(v) \in Nat /\ Tier2Count \in Nat
    BY <1>2, WindowSums, Bounds
  <2>2. ~ Flooded(v) => Flood(v) <= Tier2Count
    BY <2>1 DEF Flooded
  <2>3. ~ blocked' => ~ Flooded(v)
    BY <1>3
  <2> QED
    BY <1>3, <2>2, <2>3 DEF FloodIsBounded
<1> QED
  BY <1>3, <1>4, <1>5, <1>6 DEF LadderTypeOK

LEMMA ArriveKeeps ==
  ASSUME LadderInv, NEW r \in Records, Arrive(r)
  PROVE  LadderInv'
<1>1. LadderTypeOK /\ FloodIsBounded
  BY DEF LadderInv
<1>2. UNCHANGED <<view, armed, interventions, restarts>> /\ All(window) < MaxArrivals
  BY DEF Arrive, screen
<1>3. CASE GateBlocked
  BY <1>1, <1>2, <1>3 DEF GateBlocked, book, LadderInv, LadderTypeOK, FloodIsBounded
<1>4. CASE ~ GateBlocked
  <2>1. PICK kind \in Kinds : Note(kind)
    BY <1>4 DEF Arrive, GateDropped, Redelivered, Quarantined, Processed, Kinds
  <2>2. intake' \in [Records -> {"none", "handed", "skipped"}]
    <3>1. \/ UNCHANGED intake \/ intake' = [intake EXCEPT ![r] = "skipped"]
          \/ intake' = [intake EXCEPT ![r] = "handed"]
      BY <1>4 DEF Arrive, GateDropped, Redelivered, Quarantined, Processed
    <3> QED
      BY <1>1, <3>1 DEF LadderTypeOK
  <2>3. /\ window' \in [Kinds -> [Ages -> 0 .. MaxArrivals]]
        /\ level' \in 0 .. 3 /\ since' \in 0 .. Window /\ backoff' \in 0 .. Throttle
        /\ recommend' \in BOOLEAN /\ blocked' \in BOOLEAN
        /\ FloodIsBounded'
    BY <1>1, <1>2, <2>1, EvaluateKeeps
  <2> QED
    BY <1>1, <1>2, <2>2, <2>3 DEF LadderInv, LadderTypeOK
<1> QED
  BY <1>3, <1>4

LEMMA TickKeeps ==
  ASSUME LadderInv, Tick
  PROVE  LadderInv'
<1>1. LadderTypeOK /\ FloodIsBounded /\ window \in Windows
  BY TypedWindow DEF LadderInv
<1> DEFINE v == [k \in Kinds |-> Older(window[k])]
<1>2. v \in Windows /\ Flood(v) <= Flood(window)
  BY <1>1, OlderWindow
<1>3. v \in [Kinds -> [Ages -> 0 .. MaxArrivals]]
  <2> SUFFICES ASSUME NEW k \in Kinds PROVE Older(window[k]) \in [Ages -> 0 .. MaxArrivals]
    OBVIOUS
  <2>1. window[k] \in [Ages -> 0 .. MaxArrivals] /\ MaxArrivals \in Nat
    BY <1>1, LadderAssumption DEF LadderTypeOK
  <2>2. ASSUME NEW a \in Ages, a # 0 PROVE a - 1 \in Ages
    BY <2>2, WindowFacts DEF Ages
  <2> QED
    BY <2>1, <2>2 DEF Older
<1> HIDE DEF v
<1>4. window' = v
  BY DEF Tick, v
<1>5. /\ since' \in 0 .. Window /\ backoff' \in 0 .. Throttle
      /\ UNCHANGED <<level, recommend, blocked, intake, view, armed, interventions, restarts>>
  <2>1. since \in 0 .. Window /\ backoff \in 0 .. Throttle /\ Throttle \in Nat /\ Window \in Nat
    BY <1>1, LadderAssumption DEF LadderTypeOK
  <2> QED
    BY <2>1 DEF Tick, screen
<1>6. LadderTypeOK'
  BY <1>1, <1>3, <1>4, <1>5 DEF LadderTypeOK
<1>7. FloodIsBounded'
  <2>1. Flood(v) \in Nat /\ Flood(window) \in Nat /\ Tier2Count \in Nat
    BY <1>1, <1>2, WindowSums, LadderAssumption
  <2> QED
    BY <1>1, <1>2, <1>4, <1>5, <2>1 DEF FloodIsBounded
<1> QED
  BY <1>6, <1>7 DEF LadderInv

LEMMA FreshKeeps ==
  ASSUME LadderInv, FreshBook, view' = "none", armed' = FALSE, UNCHANGED intake,
         blocked' \in BOOLEAN, interventions' \in 0 .. MaxUser, restarts' \in 0 .. MaxRestarts
  PROVE  LadderInv'
<1>1. window' = Empty /\ Empty \in [Kinds -> [Ages -> 0 .. MaxArrivals]]
  BY LadderAssumption DEF FreshBook, Empty
<1>2. LadderTypeOK'
  <2>1. /\ level' \in 0 .. 3 /\ since' \in 0 .. Window /\ backoff' \in 0 .. Throttle
        /\ recommend' \in BOOLEAN
    BY Bounds DEF FreshBook
  <2>2. intake' \in [Records -> {"none", "handed", "skipped"}]
    BY DEF LadderInv, LadderTypeOK
  <2> QED
    BY <1>1, <2>1, <2>2 DEF LadderTypeOK
<1>3. FloodIsBounded'
  BY <1>1, EmptyWindow, LadderAssumption DEF FloodIsBounded
<1> QED
  BY <1>2, <1>3 DEF LadderInv

LEMMA StepInv == LadderInv /\ [LadderNext]_ladderVars => LadderInv'
<1> SUFFICES ASSUME LadderInv, [LadderNext]_ladderVars PROVE LadderInv'
  OBVIOUS
<1>0. /\ blocked \in BOOLEAN /\ interventions \in 0 .. MaxUser /\ restarts \in 0 .. MaxRestarts
      /\ MaxUser \in Nat /\ MaxRestarts \in Nat
  BY LadderAssumption DEF LadderInv, LadderTypeOK
<1>1. ASSUME NEW r \in Records, Arrive(r) PROVE LadderInv'
  BY <1>1, ArriveKeeps
<1>2. CASE Tick
  BY <1>2, TickKeeps
<1>3. CASE Shown \/ Leave \/ ArmUnblock
  BY <1>3 DEF Shown, Leave, ArmUnblock, Snapshot, Render, book, LadderInv, LadderTypeOK, FloodIsBounded
<1>4. CASE ResetPeer \/ UnblockPeer
  <2>1. /\ FreshBook /\ view' = "none" /\ armed' = FALSE /\ UNCHANGED <<intake, restarts>>
        /\ interventions < MaxUser /\ interventions' = interventions + 1
        /\ blocked' \in {blocked, FALSE}
    BY <1>4 DEF ResetPeer, UnblockPeer, UnhardBlock, Render
  <2>2. interventions' \in 0 .. MaxUser
    BY <1>0, <2>1
  <2>3. blocked' \in BOOLEAN
    BY <1>0, <2>1
  <2> QED
    BY <1>0, <2>1, <2>2, <2>3, FreshKeeps
<1>6. CASE Restart
  <2>1. /\ FreshBook /\ view' = "none" /\ armed' = FALSE
        /\ UNCHANGED <<blocked, intake, interventions>>
        /\ restarts < MaxRestarts /\ restarts' = restarts + 1
    BY <1>6 DEF Restart, Render
  <2>2. restarts' \in 0 .. MaxRestarts
    BY <1>0, <2>1
  <2> QED
    BY <1>0, <2>1, <2>2, FreshKeeps
<1>7. CASE UNCHANGED ladderVars
  BY <1>7 DEF ladderVars, LadderInv, LadderTypeOK, FloodIsBounded
<1> QED
  BY <1>1, <1>2, <1>3, <1>4, <1>6, <1>7 DEF LadderNext

\* The level, the throttle, the view and the window keep their types, for every
\* number of records and every threshold (misbehavior.ts).
THEOREM LadderTypes == LadderSpec => []LadderTypeOK
<1>1. LadderInv => LadderTypeOK
  BY DEF LadderInv
<1> QED
  BY <1>1, InitInv, StepInv, PTL DEF LadderSpec

\* A producer that is not blocked has never had more invalid and dropped arrivals
\* in a window than Tier 2 allows, whatever ticks, unblocks, resets and restarts
\* did in between, for every window and threshold (the hard block of misbehavior.ts).
THEOREM FloodBound == LadderSpec => []FloodIsBounded
<1>1. LadderInv => FloodIsBounded
  BY DEF LadderInv
<1> QED
  BY <1>1, InitInv, StepInv, PTL DEF LadderSpec
=============================================================================
