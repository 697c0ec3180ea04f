-------------------------- MODULE Replication_proofs --------------------------
(***************************************************************************)
(* Proofs about the replicated event, for any number of devices, records   *)
(* and crashes: the types, that no clock calls a later edit concurrent     *)
(* with what its author had applied, and that every edit of the user is    *)
(* shown, replaced by a later one, or kept in an open conflict.            *)
(***************************************************************************)
EXTENDS Replication, SequenceTheorems, TLAPS

\* A record's own entry is its position, and its clock counts no record that
\* is not written and at least what its producer had applied.
ClocksAccurate ==
  \A p \in Devices : \A s \in 1 .. Len(log[p]) :
    /\ log[p][s].clock[p] = s
    /\ \A q \in Devices : /\ log[p][s].knew[q] <= log[p][s].clock[q]
                          /\ log[p][s].clock[q] <= Len(log[q])

\* A device's clock dominates its history.
HistoryDominated ==
  \A d, p \in Devices : \A s \in 1 .. applied[d][p] :
    Dominates(clock[d], log[p][s].clock)

\* What the producer of a record had applied is in the record's clock, and
\* was written when nothing counted the record yet.
KnownIsBefore ==
  \A p, q \in Devices : \A s \in 1 .. Len(log[p]), t \in 1 .. Len(log[q]) :
    <<p, s>> # <<q, t>> /\ s <= log[q][t].knew[p] =>
      /\ Dominates(log[q][t].clock, log[p][s].clock)
      /\ log[p][s].clock[q] < t

IInv == TypeOK /\ ClocksAccurate /\ HistoryDominated /\ KnownIsBefore

-----------------------------------------------------------------------------
(* Records and their positions.                                            *)

\* An identifier is a device and a position in its log.
LEMMA Positions ==
  ASSUME NEW logs \in [Devices -> Seq(Records)]
  PROVE  \A i : i \in UNION {{p} \X DOMAIN logs[p] : p \in Devices} <=>
           /\ i = <<i[1], i[2]>>
           /\ i[1] \in Devices
           /\ i[2] \in 1 .. Len(logs[i[1]])
<1> DEFINE ids == UNION {{p} \X DOMAIN logs[p] : p \in Devices}
<1>1. \A p \in Devices : DOMAIN logs[p] = 1 .. Len(logs[p])
  OBVIOUS
<1>2. ASSUME NEW i \in ids
      PROVE  i = <<i[1], i[2]>> /\ i[1] \in Devices /\ i[2] \in 1 .. Len(logs[i[1]])
  <2>1. PICK p \in Devices : i \in {p} \X DOMAIN logs[p]
    OBVIOUS
  <2>2. PICK s \in DOMAIN logs[p] : i = <<p, s>>
    BY <2>1
  <2> QED
    BY <1>1, <2>2
<1>3. ASSUME NEW i, i = <<i[1], i[2]>>, i[1] \in Devices, i[2] \in 1 .. Len(logs[i[1]])
      PROVE  i \in ids
  <2>1. i \in {i[1]} \X DOMAIN logs[i[1]]
    BY <1>1, <1>3
  <2> QED
    BY <1>3, <2>1
<1> QED
  BY <1>2, <1>3

LEMMA IdIsPair ==
  ASSUME TypeOK, NEW i \in Ids
  PROVE  /\ i = <<i[1], i[2]>>
         /\ i[1] \in Devices
         /\ i[2] \in 1 .. Len(log[i[1]])
         /\ i[2] \in Nat
<1>1. log \in [Devices -> Seq(Records)]
  BY DEF TypeOK
<1>2. /\ i = <<i[1], i[2]>>
      /\ i[1] \in Devices
      /\ i[2] \in 1 .. Len(log[i[1]])
  BY <1>1, Positions DEF Ids
<1>3. Len(log[i[1]]) \in Nat
  BY <1>1, <1>2
<1> QED
  BY <1>2, <1>3

\* A record has the type of records.
LEMMA RecType ==
  ASSUME TypeOK, NEW i \in Ids
  PROVE  /\ Rec(i) \in Records
         /\ Rec(i).path \in Paths
         /\ Rec(i).value \in Values
         /\ Rec(i).clock \in Clocks
         /\ Rec(i).knew \in Clocks
<1>1. i[1] \in Devices /\ i[2] \in 1 .. Len(log[i[1]])
  BY IdIsPair
<1>2. log[i[1]] \in Seq(Records)
  BY <1>1 DEF TypeOK
<1>3. log[i[1]][i[2]] \in Records
  BY <1>1, <1>2
<1> QED
  BY <1>3 DEF Rec, Records

-----------------------------------------------------------------------------
(* Local changes.                                                          *)

\* What Write does to the logs, record by record.
LEMMA WriteAppends ==
  ASSUME TypeOK, NEW d \in Devices, NEW changes \in Seq(Changes),
         NEW resolution \in BOOLEAN, Write(d, changes, resolution)
  PROVE  /\ log' \in [Devices -> Seq(Records)]
         /\ \A p \in Devices \ {d} : log'[p] = log[p]
         /\ Len(log'[d]) = Len(log[d]) + Len(changes)
         /\ \A p \in Devices : /\ Len(log[p]) \in Nat /\ Len(log'[p]) \in Nat
                               /\ Len(log[p]) <= Len(log'[p])
         /\ \A s \in 1 .. Len(log[d]) : log'[d][s] = log[d][s]
         /\ \A s \in Len(log[d]) + 1 .. Len(log'[d]) :
              \A q \in Devices :
                /\ log'[d][s].clock[q] = IF q = d THEN s ELSE clock[d][q]
                /\ log'[d][s].knew[q] = IF q = d THEN s ELSE applied[d][q]
         /\ \A s \in Len(log[d]) + 1 .. Len(log'[d]) :
              LET k == s - Len(log[d])
              IN  /\ k \in 1 .. Len(changes)
                  /\ log'[d][s].path = changes[k].path
                  /\ log'[d][s].value = changes[k].value
                  /\ log'[d][s].resolution = resolution
<1> DEFINE New(k) ==
      [path       |-> changes[k].path,
       value      |-> changes[k].value,
       clock      |-> [clock[d] EXCEPT ![d] = Len(log[d]) + k],
       knew       |-> [applied[d] EXCEPT ![d] = Len(log[d]) + k],
       resolution |-> resolution]
<1> DEFINE news == [k \in DOMAIN changes |-> New(k)]
<1>1. /\ log[d] \in Seq(Records) /\ Len(log[d]) \in Nat
      /\ clock[d] \in Clocks /\ applied[d] \in Clocks
      /\ log \in [Devices -> Seq(Records)]
  BY DEF TypeOK
<1>2. /\ DOMAIN changes = 1 .. Len(changes)
      /\ Len(changes) \in Nat
      /\ \A k \in 1 .. Len(changes) : changes[k] \in Changes
  OBVIOUS
<1>3. ASSUME NEW k \in 1 .. Len(changes)
      PROVE  New(k) \in Records
  <2>1. changes[k].path \in Paths /\ changes[k].value \in Values
    BY <1>2 DEF Changes
  <2>2. Len(log[d]) + k \in Nat
    BY <1>1, <1>2
  <2>3. /\ [clock[d] EXCEPT ![d] = Len(log[d]) + k] \in Clocks
        /\ [applied[d] EXCEPT ![d] = Len(log[d]) + k] \in Clocks
    BY <1>1, <2>2 DEF Clocks
  <2> QED
    BY <2>1, <2>3 DEF Records
<1>4. /\ news \in Seq(Records)
      /\ Len(news) = Len(changes)
      /\ \A k \in 1 .. Len(changes) : news[k] = New(k)
  <2> HIDE DEF New
  <2> QED
    BY <1>2, <1>3
<1>5. log' = [log EXCEPT ![d] = @ \o news]
  BY DEF Write
<1> HIDE DEF news, New
<1>6. log'[d] = log[d] \o news
  BY <1>1, <1>5
<1>7. log' \in [Devices -> Seq(Records)] /\ \A p \in Devices \ {d} : log'[p] = log[p]
  BY <1>1, <1>4, <1>5
<1>8. /\ Len(log'[d]) = Len(log[d]) + Len(changes)
      /\ \A s \in 1 .. Len(log[d]) : log'[d][s] = log[d][s]
      /\ \A s \in Len(log[d]) + 1 .. Len(log'[d]) :
           log'[d][s] = news[s - Len(log[d])]
  <2>1. /\ log[d] \in Seq(Records) /\ Len(log[d]) \in Nat
        /\ news \in Seq(Records) /\ Len(news) = Len(changes)
        /\ Len(changes) \in Nat
    BY <1>1, <1>2, <1>4
  <2>2. /\ Len(log[d] \o news) = Len(log[d]) + Len(news)
        /\ \A s \in 1 .. Len(log[d]) + Len(news) :
             (log[d] \o news)[s] = IF s <= Len(log[d]) THEN log[d][s]
                                                       ELSE news[s - Len(log[d])]
    BY <2>1, ConcatProperties
  <2>3. ASSUME NEW s \in 1 .. Len(log[d])
        PROVE  log'[d][s] = log[d][s]
    BY <1>6, <2>1, <2>2
  <2>4. ASSUME NEW s \in Len(log[d]) + 1 .. Len(log'[d])
        PROVE  log'[d][s] = news[s - Len(log[d])]
    BY <1>6, <2>1, <2>2
  <2> QED
    BY <1>6, <2>1, <2>2, <2>3, <2>4
<1>9. ASSUME NEW s \in Len(log[d]) + 1 .. Len(log'[d])
      PROVE  /\ \A q \in Devices :
                  /\ log'[d][s].clock[q] = IF q = d THEN s ELSE clock[d][q]
                  /\ log'[d][s].knew[q] = IF q = d THEN s ELSE applied[d][q]
             /\ LET k == s - Len(log[d])
                IN  /\ k \in 1 .. Len(changes)
                    /\ log'[d][s].path = changes[k].path
                    /\ log'[d][s].value = changes[k].value
                    /\ log'[d][s].resolution = resolution
  <2> DEFINE k == s - Len(log[d])
  <2>1. k \in 1 .. Len(changes) /\ Len(log[d]) + k = s
    BY <1>1, <1>2, <1>8
  <2>2. log'[d][s] = New(k)
    BY <1>4, <1>8, <2>1
  <2> QED
    BY <1>1, <2>1, <2>2 DEF New, Clocks
<1>10. ASSUME NEW p \in Devices
       PROVE  /\ Len(log[p]) \in Nat /\ Len(log'[p]) \in Nat
              /\ Len(log[p]) <= Len(log'[p])
  <2>1. Len(log[p]) \in Nat
    BY <1>1
  <2>2. CASE p = d
    BY <1>1, <1>2, <1>8, <2>2
  <2>3. CASE p # d
    BY <1>7, <2>1, <2>3
  <2> QED
    BY <2>2, <2>3
<1> QED
  BY <1>7, <1>8, <1>9, <1>10

\* No record loses its place.
LEMMA WriteIds ==
  ASSUME TypeOK, NEW d \in Devices, NEW changes \in Seq(Changes),
         NEW resolution \in BOOLEAN, Write(d, changes, resolution)
  PROVE  Ids \subseteq Ids'
<1>1. log \in [Devices -> Seq(Records)]
  BY DEF TypeOK
<1>2. log' \in [Devices -> Seq(Records)]
  BY WriteAppends
<1>3. \A p \in Devices : /\ Len(log[p]) \in Nat /\ Len(log'[p]) \in Nat
                         /\ Len(log[p]) <= Len(log'[p])
  BY WriteAppends
<1> SUFFICES ASSUME NEW i \in Ids
             PROVE  i \in Ids'
  OBVIOUS
<1>4. i = <<i[1], i[2]>> /\ i[1] \in Devices /\ i[2] \in 1 .. Len(log[i[1]])
  BY <1>1, Positions DEF Ids
<1>5. i[2] \in 1 .. Len(log'[i[1]])
  BY <1>3, <1>4
<1> QED
  BY <1>2, <1>4, <1>5, Positions DEF Ids

\* Write keeps the types of what it writes, and the frontier below the clock
\* below the end of every log.
LEMMA WriteTypes ==
  ASSUME TypeOK, NEW d \in Devices, NEW changes \in Seq(Changes),
         NEW resolution \in BOOLEAN, Write(d, changes, resolution)
  PROVE  /\ log' \in [Devices -> Seq(Records)]
         /\ applied' \in [Devices -> Clocks]
         /\ clock' \in [Devices -> Clocks]
         /\ \A e, p \in Devices :
              applied'[e][p] <= clock'[e][p] /\ clock'[e][p] <= Len(log'[p])
         /\ \A e \in Devices : applied'[e][e] = Len(log'[e])
         /\ \A e, p \in Devices :
              /\ applied'[e][p] = IF e = d /\ p = d THEN Len(log'[d]) ELSE applied[e][p]
              /\ clock'[e][p] = IF e = d /\ p = d THEN Len(log'[d]) ELSE clock[e][p]
         /\ Ids \subseteq Ids'
<1>1. /\ log' \in [Devices -> Seq(Records)]
      /\ \A p \in Devices : /\ Len(log[p]) \in Nat /\ Len(log'[p]) \in Nat
                            /\ Len(log[p]) <= Len(log'[p])
      /\ \A p \in Devices \ {d} : log'[p] = log[p]
  BY WriteAppends
<1>2. Ids \subseteq Ids'
  BY WriteIds
<1>3. /\ applied' = [applied EXCEPT ![d][d] = Len(log'[d])]
      /\ clock' = [clock EXCEPT ![d][d] = Len(log'[d])]
  BY DEF Write
<1>4. /\ applied \in [Devices -> [Devices -> Nat]]
      /\ clock \in [Devices -> [Devices -> Nat]]
      /\ \A e, p \in Devices : applied[e][p] <= clock[e][p] /\ clock[e][p] <= Len(log[p])
      /\ \A e \in Devices : applied[e][e] = Len(log[e])
  BY DEF TypeOK, Clocks
<1>5. Len(log'[d]) \in Nat
  BY <1>1
<1>6. /\ applied' \in [Devices -> [Devices -> Nat]]
      /\ clock' \in [Devices -> [Devices -> Nat]]
  BY <1>3, <1>4, <1>5
<1>7. \A e, p \in Devices :
        /\ applied'[e][p] = IF e = d /\ p = d THEN Len(log'[d]) ELSE applied[e][p]
        /\ clock'[e][p] = IF e = d /\ p = d THEN Len(log'[d]) ELSE clock[e][p]
  BY <1>3, <1>4
<1>8. ASSUME NEW e \in Devices, NEW p \in Devices
      PROVE  applied'[e][p] <= clock'[e][p] /\ clock'[e][p] <= Len(log'[p])
  <2>1. CASE e = d /\ p = d
    BY <1>5, <1>7, <2>1
  <2>2. CASE ~ (e = d /\ p = d)
    <3>1. applied[e][p] <= clock[e][p] /\ clock[e][p] <= Len(log[p])
      BY <1>4
    <3>2. clock[e][p] \in Nat /\ Len(log[p]) <= Len(log'[p])
      BY <1>1, <1>4
    <3> QED
      BY <1>1, <1>7, <2>2, <3>1, <3>2
  <2> QED
    BY <2>1, <2>2
<1>9. ASSUME NEW e \in Devices
      PROVE  applied'[e][e] = Len(log'[e])
  BY <1>1, <1>4, <1>7
<1> QED
  BY <1>1, <1>2, <1>6, <1>7, <1>8, <1>9 DEF Clocks

\* Write keeps what the clocks say.
LEMMA WriteCausality ==
  ASSUME IInv, NEW d \in Devices, NEW changes \in Seq(Changes),
         NEW resolution \in BOOLEAN, Write(d, changes, resolution)
  PROVE  ClocksAccurate' /\ HistoryDominated' /\ KnownIsBefore'
<1> DEFINE end == Len(log[d])
<1>1. TypeOK /\ ClocksAccurate /\ HistoryDominated /\ KnownIsBefore
  BY DEF IInv
<1>2. \A p \in Devices : /\ Len(log[p]) \in Nat /\ Len(log'[p]) \in Nat
                         /\ Len(log[p]) <= Len(log'[p])
  BY <1>1, WriteAppends
<1>3. \A e, p \in Devices :
        /\ applied'[e][p] = IF e = d /\ p = d THEN Len(log'[d]) ELSE applied[e][p]
        /\ clock'[e][p] = IF e = d /\ p = d THEN Len(log'[d]) ELSE clock[e][p]
  BY <1>1, WriteTypes
<1>4. \A e, p \in Devices :
        /\ applied[e][p] \in Nat /\ clock[e][p] \in Nat
        /\ applied[e][p] <= clock[e][p] /\ clock[e][p] <= Len(log[p])
  BY <1>1 DEF TypeOK, Clocks
<1>5. applied[d][d] = end
  BY <1>1 DEF TypeOK
<1>6. ASSUME NEW p \in Devices, NEW s \in 1 .. Len(log[p])
      PROVE  /\ s \in 1 .. Len(log'[p])
             /\ log'[p][s] = log[p][s]
             /\ \A q \in Devices :
                  log[p][s].clock[q] \in Nat /\ log[p][s].knew[q] \in Nat
  <2>0. /\ \A o \in Devices \ {d} : log'[o] = log[o]
        /\ \A t \in 1 .. Len(log[d]) : log'[d][t] = log[d][t]
    BY <1>1, WriteAppends
  <2>1. log'[p][s] = log[p][s]
    BY <2>0
  <2>2. log[p] \in Seq(Records)
    BY <1>1 DEF TypeOK
  <2>3. log[p][s] \in Records
    BY <2>2
  <2>4. \A q \in Devices : log[p][s].clock[q] \in Nat /\ log[p][s].knew[q] \in Nat
    BY <2>3 DEF Records, Clocks
  <2>5. s \in 1 .. Len(log'[p])
    BY <1>2
  <2> QED
    BY <2>1, <2>4, <2>5
<1>7. ASSUME NEW p \in Devices, NEW s \in 1 .. Len(log'[p]),
             s \notin 1 .. Len(log[p])
      PROVE  /\ p = d /\ end < s /\ s <= Len(log'[d])
             /\ \A q \in Devices :
                  /\ log'[p][s].clock[q] = IF q = d THEN s ELSE clock[d][q]
                  /\ log'[p][s].knew[q] = IF q = d THEN s ELSE applied[d][q]
  <2>1. p = d
    BY <1>1, <1>7, WriteAppends
  <2>2. s \in end + 1 .. Len(log'[d])
    BY <1>2, <1>7, <2>1
  <2>3. \A q \in Devices :
          /\ log'[d][s].clock[q] = IF q = d THEN s ELSE clock[d][q]
          /\ log'[d][s].knew[q] = IF q = d THEN s ELSE applied[d][q]
    <3>1. \A t \in end + 1 .. Len(log'[d]) :
            \A q \in Devices :
              /\ log'[d][t].clock[q] = IF q = d THEN t ELSE clock[d][q]
              /\ log'[d][t].knew[q] = IF q = d THEN t ELSE applied[d][q]
      BY <1>1, WriteAppends
    <3> QED
      BY <2>2, <3>1
  <2> QED
    BY <1>2, <2>1, <2>2, <2>3
<1>8. ClocksAccurate'
  <2> SUFFICES ASSUME NEW p \in Devices, NEW s \in 1 .. Len(log'[p])
               PROVE  /\ log'[p][s].clock[p] = s
                      /\ \A q \in Devices :
                           /\ log'[p][s].knew[q] <= log'[p][s].clock[q]
                           /\ log'[p][s].clock[q] <= Len(log'[q])
    BY DEF ClocksAccurate
  <2>1. CASE s \in 1 .. Len(log[p])
    <3>1. /\ log[p][s].clock[p] = s
          /\ \A q \in Devices : /\ log[p][s].knew[q] <= log[p][s].clock[q]
                                /\ log[p][s].clock[q] <= Len(log[q])
      BY <1>1, <2>1 DEF ClocksAccurate
    <3>2. log'[p][s] = log[p][s]
      BY <1>6, <2>1
    <3>3. ASSUME NEW q \in Devices
          PROVE  log[p][s].clock[q] <= Len(log'[q])
      <4>1. log[p][s].clock[q] <= Len(log[q]) /\ log[p][s].clock[q] \in Nat
        BY <1>6, <2>1, <3>1
      <4>2. Len(log[q]) \in Nat /\ Len(log'[q]) \in Nat /\ Len(log[q]) <= Len(log'[q])
        BY <1>2
      <4> QED
        BY <4>1, <4>2
    <3> QED
      BY <3>1, <3>2, <3>3
  <2>2. CASE s \notin 1 .. Len(log[p])
    BY <1>2, <1>4, <1>7, <2>2
  <2> QED
    BY <2>1, <2>2
<1>9. HistoryDominated'
  <2> SUFFICES ASSUME NEW e \in Devices, NEW p \in Devices,
                      NEW s \in 1 .. applied'[e][p], NEW q \in Devices
               PROVE  clock'[e][q] >= log'[p][s].clock[q]
    BY DEF HistoryDominated, Dominates
  <2>1. CASE s \in 1 .. applied[e][p]
    <3>1. s \in 1 .. Len(log[p])
      BY <1>2, <1>4, <2>1
    <3>2. clock[e][q] >= log[p][s].clock[q]
      BY <1>1, <2>1 DEF HistoryDominated, Dominates
    <3>3. /\ clock[e][q] \in Nat /\ clock[e][q] <= Len(log[q])
          /\ Len(log[q]) \in Nat /\ Len(log'[q]) \in Nat
          /\ Len(log[q]) <= Len(log'[q])
      BY <1>2, <1>4
    <3>4. clock'[e][q] \in Nat /\ clock'[e][q] >= clock[e][q]
      BY <1>3, <3>3
    <3>5. log'[p][s] = log[p][s] /\ log[p][s].clock[q] \in Nat
      BY <1>6, <3>1
    <3> QED
      BY <3>2, <3>3, <3>4, <3>5
  <2>2. CASE s \notin 1 .. applied[e][p]
    <3>1. e = d /\ p = d
      BY <1>3, <2>2
    <3>2. s \in 1 .. Len(log'[d]) /\ s \notin 1 .. Len(log[d])
      BY <1>3, <1>5, <2>2, <3>1
    <3>3. log'[d][s].clock[q] = IF q = d THEN s ELSE clock[d][q]
      BY <1>7, <3>2
    <3> QED
      BY <1>2, <1>3, <1>4, <3>1, <3>2, <3>3
  <2> QED
    BY <2>1, <2>2
<1>10. KnownIsBefore'
  <2> SUFFICES ASSUME NEW p \in Devices, NEW q \in Devices,
                      NEW s \in 1 .. Len(log'[p]), NEW t \in 1 .. Len(log'[q]),
                      <<p, s>> # <<q, t>>, s <= log'[q][t].knew[p]
               PROVE  /\ \A r \in Devices : log'[q][t].clock[r] >= log'[p][s].clock[r]
                      /\ log'[p][s].clock[q] < t
    BY DEF KnownIsBefore, Dominates
  <2>1. CASE s \in 1 .. Len(log[p]) /\ t \in 1 .. Len(log[q])
    BY <1>1, <1>6, <2>1 DEF KnownIsBefore, Dominates
  <2>2. CASE s \in 1 .. Len(log[p]) /\ t \notin 1 .. Len(log[q])
    <3>1. /\ q = d /\ end < t
          /\ \A r \in Devices :
               /\ log'[q][t].clock[r] = IF r = d THEN t ELSE clock[d][r]
               /\ log'[q][t].knew[r] = IF r = d THEN t ELSE applied[d][r]
      BY <1>7, <2>2
    <3>2. s \in 1 .. applied[d][p]
      BY <1>4, <1>5, <2>2, <3>1
    <3>3. \A r \in Devices : clock[d][r] >= log[p][s].clock[r]
      BY <1>1, <3>2 DEF HistoryDominated, Dominates
    <3>4. log[p][s].clock[d] <= end
      BY <1>1, <2>2 DEF ClocksAccurate
    <3> QED
      <4>1. /\ log'[p][s] = log[p][s] /\ end \in Nat
            /\ \A r \in Devices : log[p][s].clock[r] \in Nat /\ clock[d][r] \in Nat
        BY <1>2, <1>4, <1>6, <2>2
      <4>2. log[p][s].clock[q] < t
        BY <3>1, <3>4, <4>1
      <4>3. ASSUME NEW r \in Devices
            PROVE  log'[q][t].clock[r] >= log[p][s].clock[r]
        <5>1. CASE r = d
          BY <3>1, <3>4, <4>1, <5>1
        <5>2. CASE r # d
          BY <3>1, <3>3, <5>2
        <5> QED
          BY <5>1, <5>2
      <4> QED
        BY <4>1, <4>2, <4>3
  <2>3. CASE s \notin 1 .. Len(log[p]) /\ t \in 1 .. Len(log[q])
    <3>1. p = d /\ end < s
      BY <1>7, <2>3
    <3>2. log[q][t].knew[d] <= log[q][t].clock[d] /\ log[q][t].clock[d] <= end
      BY <1>1, <2>3 DEF ClocksAccurate
    <3>3. /\ log'[q][t] = log[q][t] /\ end \in Nat
          /\ log[q][t].knew[d] \in Nat /\ log[q][t].clock[d] \in Nat
      BY <1>2, <1>6, <2>3
    <3>4. s <= log[q][t].knew[d] /\ s \in Nat
      BY <3>1, <3>3
    <3>5. FALSE
      BY <3>1, <3>2, <3>3, <3>4
    <3> QED
      BY <3>5
  <2>4. CASE s \notin 1 .. Len(log[p]) /\ t \notin 1 .. Len(log[q])
    <3>1. /\ p = d /\ q = d
          /\ \A r \in Devices :
               /\ log'[p][s].clock[r] = IF r = d THEN s ELSE clock[d][r]
               /\ log'[q][t].clock[r] = IF r = d THEN t ELSE clock[d][r]
               /\ log'[q][t].knew[r] = IF r = d THEN t ELSE applied[d][r]
      BY <1>7, <2>4
    <3>2. s < t
      BY <3>1
    <3> QED
      BY <1>4, <3>1, <3>2
  <2> QED
    BY <2>1, <2>2, <2>3, <2>4
<1> QED
  BY <1>8, <1>9, <1>10

\* A step that writes and keeps the types of the rest keeps the invariant.
LEMMA WritePreserves ==
  ASSUME IInv, NEW d \in Devices, NEW changes \in Seq(Changes),
         NEW resolution \in BOOLEAN, Write(d, changes, resolution),
         row' \in [Devices -> Rows \cup {Gone}],
         open' \in [Devices -> [Paths -> SUBSET Ids]],
         cuts' \in 0 .. MaxCuts,
         misfit' \subseteq Devices, outlived' \subseteq Devices
  PROVE  IInv'
<1>1. TypeOK
  BY DEF IInv
<1>2. open' \in [Devices -> [Paths -> SUBSET Ids']]
  <2>1. Ids \subseteq Ids'
    BY <1>1, WriteIds
  <2> QED
    BY <2>1
<1>3. /\ log' \in [Devices -> Seq(Records)]
      /\ applied' \in [Devices -> Clocks]
      /\ clock' \in [Devices -> Clocks]
      /\ \A e, p \in Devices :
           applied'[e][p] <= clock'[e][p] /\ clock'[e][p] <= Len(log'[p])
      /\ \A e \in Devices : applied'[e][e] = Len(log'[e])
  BY <1>1, WriteTypes
<1>4. TypeOK'
  BY <1>2, <1>3 DEF TypeOK
<1>5. ClocksAccurate' /\ HistoryDominated' /\ KnownIsBefore'
  BY WriteCausality
<1> QED
  BY <1>4, <1>5 DEF IInv

\* The records of a local change have the type of changes.
LEMMA ChangeType ==
  ASSUME NEW path \in Paths, NEW value \in Values
  PROVE  /\ Change(path, value) \in Changes
         /\ <<Change(path, value)>> \in Seq(Changes)
<1>1. Change(path, value) \in Changes
  BY DEF Change, Changes
<1> QED
  BY <1>1

LEMMA GroupsType ==
  ASSUME NEW d \in Devices, NEW new \in Rows
  PROVE  Groups(d, new) \in Seq(Changes)
<1> DEFINE Group(f) ==
      IF new[f] = row[d][f] THEN <<>> ELSE <<Change(f, new[f])>>
<1>1. ASSUME NEW f \in Fields
      PROVE  Group(f) \in Seq(Changes)
  <2>1. f \in Paths /\ new[f] \in Values
    BY DEF Paths, Rows, Values
  <2>2. <<Change(f, new[f])>> \in Seq(Changes)
    BY <2>1, ChangeType
  <2>3. <<>> \in Seq(Changes)
    OBVIOUS
  <2> QED
    BY <2>2, <2>3
<1>2. Group("title") \in Seq(Changes) /\ Group("description") \in Seq(Changes)
  BY <1>1 DEF Fields
<1>3. Groups(d, new) = Group("title") \o Group("description")
  BY DEF Groups
<1> HIDE DEF Group
<1> QED
  BY <1>2, <1>3

\* Every local change keeps the invariant.
LEMMA LocalPreserves ==
  ASSUME IInv, NEW d \in Devices,
         Create(d) \/ Update(d) \/ CutUpdate(d) \/ Delete(d) \/ Resolve(d)
  PROVE  IInv'
<1>1. /\ TypeOK
      /\ row \in [Devices -> Rows \cup {Gone}]
      /\ open \in [Devices -> [Paths -> SUBSET Ids]]
      /\ cuts \in 0 .. MaxCuts
      /\ misfit \subseteq Devices /\ outlived \subseteq Devices
  BY DEF IInv, TypeOK
<1>2. CASE Create(d)
  <2>1. PICK new \in Rows :
          /\ Write(d, <<Change("event", new)>>, FALSE)
          /\ row' = [row EXCEPT ![d] = new]
          /\ UNCHANGED <<open, cuts, misfit, outlived>>
    BY <1>2 DEF Create
  <2>2. <<Change("event", new)>> \in Seq(Changes)
    BY ChangeType DEF Paths, Values
  <2>3. row' \in [Devices -> Rows \cup {Gone}]
    BY <1>1, <2>1
  <2> QED
    BY <1>1, <2>1, <2>2, <2>3, WritePreserves
<1>3. CASE Update(d)
  <2>1. PICK new \in Rows :
          /\ Write(d, Groups(d, new), FALSE)
          /\ row' = [row EXCEPT ![d] = new]
          /\ UNCHANGED <<open, cuts, misfit, outlived>>
    BY <1>3 DEF Update
  <2>2. Groups(d, new) \in Seq(Changes)
    BY GroupsType
  <2>3. row' \in [Devices -> Rows \cup {Gone}]
    BY <1>1, <2>1
  <2> QED
    BY <1>1, <2>1, <2>2, <2>3, WritePreserves
<1>4. CASE CutUpdate(d)
  <2>1. PICK new \in Rows :
          /\ cuts < MaxCuts
          /\ Write(d, <<Change("title", new["title"])>>, FALSE)
          /\ row' = [row EXCEPT ![d] = new]
          /\ cuts' = cuts + 1
          /\ UNCHANGED <<open, misfit, outlived>>
    BY <1>4 DEF CutUpdate
  <2>2. <<Change("title", new["title"])>> \in Seq(Changes)
    BY ChangeType DEF Paths, Fields, Rows, Values
  <2>3. row' \in [Devices -> Rows \cup {Gone}]
    BY <1>1, <2>1
  <2>4. cuts' \in 0 .. MaxCuts
    BY <1>1, <2>1, RecordAssumption
  <2> QED
    BY <1>1, <2>1, <2>2, <2>3, <2>4, WritePreserves
<1>5. CASE Delete(d)
  <2>1. <<Change("*", Gone)>> \in Seq(Changes)
    BY ChangeType DEF Paths, Values
  <2>2. row' \in [Devices -> Rows \cup {Gone}]
    BY <1>1, <1>5 DEF Delete
  <2> QED
    BY <1>1, <1>5, <2>1, <2>2, WritePreserves DEF Delete
<1>6. CASE Resolve(d)
  <2>1. PICK path \in Paths :
          /\ \E value \in Choices(d, path) :
               Write(d, <<Change(path, value)>>, TRUE)
          /\ open' = [open EXCEPT ![d][path] = {}]
          /\ UNCHANGED <<row, cuts, misfit, outlived>>
    BY <1>6 DEF Resolve
  <2>2. PICK value \in Choices(d, path) :
          Write(d, <<Change(path, value)>>, TRUE)
    BY <2>1
  <2>3. value \in Values
    <3>1. \A i \in open[d][path] : Rec(i).value \in Values
      BY <1>1, RecType
    <3> QED
      BY <2>2, <3>1 DEF Choices, LocalParticipant, Values
  <2>4. <<Change(path, value)>> \in Seq(Changes)
    BY <2>3, ChangeType
  <2>5. open' \in [Devices -> [Paths -> SUBSET Ids]]
    BY <1>1, <2>1
  <2> QED
    BY <1>1, <2>1, <2>2, <2>4, <2>5, WritePreserves
<1> QED
  BY <1>2, <1>3, <1>4, <1>5, <1>6

-----------------------------------------------------------------------------
(* Arrivals.                                                               *)

\* A record leaves a row or none.
LEMMA MutatedType ==
  ASSUME NEW old \in Rows \cup {Gone}, NEW r \in Records
  PROVE  Mutated(old, r) \in Rows \cup {Gone}
<1>1. ASSUME r.path \in Fields, r.value \in Texts, old # Gone
      PROVE  [old EXCEPT ![r.path] = r.value] \in Rows
  BY <1>1 DEF Rows
<1> QED
  BY <1>1 DEF Mutated

\* Only the row, the conflicts and the mark of device d change, and they keep
\* their types.
LEMMA DetectTypes ==
  ASSUME TypeOK, NEW d \in Devices, NEW i \in Ids,
         KeepRow(d, i) \/ ApplyToRow(d, i) \/ RecordConflict(d, i)
  PROVE  /\ row' \in [Devices -> Rows \cup {Gone}]
         /\ open' \in [Devices -> [Paths -> SUBSET Ids]]
         /\ misfit' \subseteq Devices /\ outlived' \subseteq Devices
<1>1. /\ row \in [Devices -> Rows \cup {Gone}]
      /\ open \in [Devices -> [Paths -> SUBSET Ids]]
      /\ misfit \subseteq Devices /\ outlived \subseteq Devices
  BY DEF TypeOK
<1>2. Rec(i) \in Records /\ Rec(i).path \in Paths
  BY RecType
<1>3. CASE KeepRow(d, i)
  BY <1>1, <1>3 DEF KeepRow
<1>4. CASE ApplyToRow(d, i)
  <2>1. Mutated(row[d], Rec(i)) \in Rows \cup {Gone}
    BY <1>1, <1>2, MutatedType
  <2> QED
    BY <1>1, <1>4, <2>1 DEF ApplyToRow
<1>5. CASE RecordConflict(d, i)
  <2>1. Conflicting(d, i) \subseteq Ids
    BY DEF Conflicting, Locals, History
  <2>2. open[d][Rec(i).path] \cup Conflicting(d, i) \cup {i} \in SUBSET Ids
    BY <1>1, <1>2, <2>1
  <2> QED
    BY <1>1, <1>2, <1>5, <2>2 DEF RecordConflict
<1> QED
  BY <1>3, <1>4, <1>5

\* A delivery keeps the invariant: the clock of the device takes in the clock
\* of the one record by which its history grows.
LEMMA DeliverPreserves ==
  ASSUME IInv, NEW d \in Devices, NEW p \in Devices, Deliver(d, p)
  PROVE  IInv'
<1> DEFINE s == applied[d][p] + 1
<1> DEFINE i == <<p, s>>
<1>1. TypeOK /\ ClocksAccurate /\ HistoryDominated /\ KnownIsBefore
  BY DEF IInv
<1>2. /\ p # d
      /\ applied[d][p] < Len(log[p])
      /\ Accept(d, i)
      /\ KeepRow(d, i) \/ ApplyToRow(d, i) \/ RecordConflict(d, i)
  BY DEF Deliver
<1>3. /\ log \in [Devices -> Seq(Records)]
      /\ applied \in [Devices -> [Devices -> Nat]]
      /\ clock \in [Devices -> [Devices -> Nat]]
      /\ \A e, q \in Devices : applied[e][q] <= clock[e][q] /\ clock[e][q] <= Len(log[q])
      /\ \A e \in Devices : applied[e][e] = Len(log[e])
      /\ cuts \in 0 .. MaxCuts
  BY <1>1 DEF TypeOK, Clocks
<1>4. \A q \in Devices : Len(log[q]) \in Nat
  BY <1>3
<1>5. s \in 1 .. Len(log[p])
  BY <1>2, <1>3, <1>4
<1>6. i \in Ids
  BY <1>3, <1>5, Positions DEF Ids
<1>7. /\ log[p][s].clock \in [Devices -> Nat]
      /\ log[p][s].clock[p] = s
      /\ \A q \in Devices : log[p][s].clock[q] <= Len(log[q])
  <2>1. Rec(i).clock \in Clocks
    BY <1>1, <1>6, RecType
  <2> QED
    BY <1>1, <1>5, <2>1 DEF ClocksAccurate, Rec, Clocks
<1>8. /\ log' = log /\ cuts' = cuts
      /\ applied' = [applied EXCEPT ![d][p] = s]
      /\ clock' = [clock EXCEPT ![d] = Merge(@, log[p][s].clock)]
  BY <1>2 DEF Accept, Rec
<1>9. \A e, q \in Devices :
        applied'[e][q] = IF e = d /\ q = p THEN s ELSE applied[e][q]
  BY <1>3, <1>8
<1>10. \A e, q \in Devices :
         clock'[e][q] = IF e = d /\ log[p][s].clock[q] > clock[d][q]
                          THEN log[p][s].clock[q] ELSE clock[e][q]
  <2>1. clock' = [clock EXCEPT ![d] = [q \in Devices |->
           IF log[p][s].clock[q] > clock[d][q] THEN log[p][s].clock[q]
                                               ELSE clock[d][q]]]
    BY <1>3, <1>8 DEF Merge
  <2> QED
    BY <1>3, <2>1
<1>11. /\ applied' \in [Devices -> [Devices -> Nat]]
       /\ clock' \in [Devices -> [Devices -> Nat]]
  <2>1. s \in Nat
    BY <1>3
  <2>2. Merge(clock[d], log[p][s].clock) \in [Devices -> Nat]
    BY <1>3, <1>7 DEF Merge
  <2> QED
    BY <1>3, <1>8, <2>1, <2>2
<1> HIDE DEF s
<1>12. \A e, q \in Devices :
         /\ clock[e][q] \in Nat /\ clock'[e][q] \in Nat
         /\ clock[e][q] <= clock'[e][q]
         /\ clock'[e][q] <= Len(log[q])
  <2> TAKE e, q \in Devices
  <2>1. /\ clock[e][q] \in Nat /\ clock[d][q] \in Nat /\ log[p][s].clock[q] \in Nat
        /\ clock[e][q] <= Len(log[q]) /\ log[p][s].clock[q] <= Len(log[q])
    BY <1>3, <1>7
  <2> QED
    BY <1>10, <2>1
<1>13. \A q \in Devices : clock'[d][q] >= log[p][s].clock[q]
  <2> TAKE q \in Devices
  <2>1. clock[d][q] \in Nat /\ log[p][s].clock[q] \in Nat
    BY <1>3, <1>7
  <2> QED
    BY <1>10, <2>1
<1>14. TypeOK'
  <2>1. Ids' = Ids
    BY <1>8 DEF Ids
  <2>2. /\ row' \in [Devices -> Rows \cup {Gone}]
        /\ open' \in [Devices -> [Paths -> SUBSET Ids']]
        /\ misfit' \subseteq Devices /\ outlived' \subseteq Devices
    BY <1>1, <1>2, <1>6, <2>1, DetectTypes
  <2>3. ASSUME NEW e \in Devices, NEW q \in Devices
        PROVE  applied'[e][q] <= clock'[e][q] /\ clock'[e][q] <= Len(log[q])
    <3>1. applied[e][q] \in Nat /\ applied[e][q] <= clock[e][q]
      BY <1>3
    <3>2. CASE e = d /\ q = p
      BY <1>7, <1>9, <1>12, <1>13, <3>2
    <3>3. CASE ~ (e = d /\ q = p)
      BY <1>9, <1>12, <3>1, <3>3
    <3> QED
      BY <3>2, <3>3
  <2>4. \A e \in Devices : applied'[e][e] = Len(log'[e])
    BY <1>2, <1>3, <1>8, <1>9
  <2> QED
    BY <1>3, <1>8, <1>11, <2>2, <2>3, <2>4 DEF TypeOK, Clocks
<1>15. ClocksAccurate' /\ KnownIsBefore'
  BY <1>1, <1>8 DEF ClocksAccurate, KnownIsBefore
<1>16. HistoryDominated'
  <2> SUFFICES ASSUME NEW e \in Devices, NEW q \in Devices,
                      NEW t \in 1 .. applied'[e][q], NEW r \in Devices
               PROVE  clock'[e][r] >= log[q][t].clock[r]
    BY <1>8 DEF HistoryDominated, Dominates
  <2>1. CASE t \in 1 .. applied[e][q]
    <3>1. clock[e][r] >= log[q][t].clock[r]
      BY <1>1, <2>1 DEF HistoryDominated, Dominates
    <3>2. log[q][t].clock[r] \in Nat
      <4>1. t \in 1 .. Len(log[q])
        <5>1. /\ applied[e][q] \in Nat /\ clock[e][q] \in Nat
              /\ applied[e][q] <= clock[e][q] /\ clock[e][q] <= Len(log[q])
          BY <1>3
        <5> QED
          BY <1>4, <2>1, <5>1
      <4>2. log[q][t] \in Records
        <5>1. log[q] \in Seq(Records)
          BY <1>3
        <5> QED
          BY <4>1, <5>1
      <4> QED
        BY <4>2 DEF Records, Clocks
    <3> QED
      BY <1>12, <3>1, <3>2
  <2>2. CASE t \notin 1 .. applied[e][q]
    <3>1. e = d /\ q = p
      BY <1>9, <2>2
    <3>2. t = s
      <4>1. applied[d][p] \in Nat /\ applied'[d][p] = s
        BY <1>3, <1>9
      <4> QED
        BY <2>2, <3>1, <4>1 DEF s
    <3> QED
      BY <1>13, <3>1, <3>2
  <2> QED
    BY <2>1, <2>2
<1> QED
  BY <1>14, <1>15, <1>16 DEF IInv

-----------------------------------------------------------------------------
(* The theorems.                                                           *)

\* IInv is inductive.
THEOREM Induction == Spec => []IInv
<1>1. Init => IInv
  <2> SUFFICES ASSUME Init
               PROVE  IInv
    OBVIOUS
  <2>1. /\ log = [d \in Devices |-> <<>>]
        /\ applied = [d \in Devices |-> [q \in Devices |-> 0]]
        /\ clock = [d \in Devices |-> [q \in Devices |-> 0]]
        /\ row = [d \in Devices |-> Gone]
        /\ open = [d \in Devices |-> [path \in Paths |-> {}]]
        /\ cuts = 0 /\ misfit = {} /\ outlived = {}
    BY DEF Init
  <2>2. \A q \in Devices : log[q] = <<>> /\ Len(log[q]) = 0
    BY <2>1
  <2>3. log \in [Devices -> Seq(Records)]
    BY <2>1
  <2>4. TypeOK
    BY <2>1, <2>2, <2>3, RecordAssumption DEF TypeOK, Clocks
  <2>5. ClocksAccurate /\ KnownIsBefore
    BY <2>2 DEF ClocksAccurate, KnownIsBefore
  <2>6. HistoryDominated
    BY <2>1 DEF HistoryDominated
  <2> QED
    BY <2>4, <2>5, <2>6 DEF IInv
<1>2. IInv /\ [Next]_vars => IInv'
  <2> SUFFICES ASSUME IInv, [Next]_vars
               PROVE  IInv'
    OBVIOUS
  <2>1. CASE Next
    BY <2>1, LocalPreserves, DeliverPreserves DEF Next
  <2>2. CASE UNCHANGED vars
    BY <2>2 DEF vars, IInv, TypeOK, Ids, ClocksAccurate, HistoryDominated,
                KnownIsBefore
  <2> QED
    BY <2>1, <2>2
<1> QED
  BY <1>1, <1>2, PTL DEF Spec

\* The logs, frontiers, clocks, rows and conflicts keep their types, and each
\* frontier stays below the device's clock and that below the ends of the logs.
THEOREM TypesHold == Spec => []TypeOK
<1>1. IInv => TypeOK
  BY DEF IInv
<1> QED
  BY <1>1, Induction, PTL

\* Whatever the order of arrivals, no clock calls a record concurrent with
\* one that its author had applied (T1 and the clock merge of T2).
THEOREM AuthorsSupersede == Spec => []NoFalseConcurrency
<1>1. IInv => NoFalseConcurrency
  <2> SUFFICES ASSUME IInv, NEW i \in Ids, NEW j \in Ids, Knew(j, i)
               PROVE  CausallyBefore(i, j)
    BY DEF NoFalseConcurrency
  <2>1. TypeOK /\ ClocksAccurate /\ KnownIsBefore
    BY DEF IInv
  <2>2. /\ i = <<i[1], i[2]>> /\ i[1] \in Devices /\ i[2] \in 1 .. Len(log[i[1]])
        /\ j = <<j[1], j[2]>> /\ j[1] \in Devices /\ j[2] \in 1 .. Len(log[j[1]])
    BY <2>1, IdIsPair
  <2>3. <<i[1], i[2]>> # <<j[1], j[2]>> /\ i[2] <= log[j[1]][j[2]].knew[i[1]]
    BY <2>2 DEF Knew, Rec
  <2>4. Dominates(Rec(j).clock, Rec(i).clock) /\ Rec(i).clock[j[1]] < j[2]
    BY <2>1, <2>2, <2>3 DEF KnownIsBefore, Rec
  <2>5. Rec(i).clock[i[1]] = i[2] /\ Rec(j).clock[j[1]] = j[2]
    BY <2>1, <2>2 DEF ClocksAccurate, Rec
  <2>6. Rec(j).clock[i[1]] >= i[2]
    BY <2>2, <2>4, <2>5 DEF Dominates
  <2>7. Rec(i).clock # Rec(j).clock
    BY <2>2, <2>4, <2>5
  <2> QED
    BY <2>4, <2>6, <2>7 DEF CausallyBefore, SameOrDescendant
<1> QED
  BY <1>1, Induction, PTL

-----------------------------------------------------------------------------
(* No edit is lost.  The rules of detection decide by clocks and by the     *)
(* current row; that they never drop an edit needs that clocks order every  *)
(* two records in one way at most, and that an open conflict holds records  *)
(* of its own field.                                                       *)

\* Of two records one at most counts the other: the later one.
OneCountsOther ==
  \A p, q \in Devices : \A s \in 1 .. Len(log[p]), t \in 1 .. Len(log[q]) :
    <<p, s>> # <<q, t>> => ~ (log[p][s].clock[q] >= t /\ log[q][t].clock[p] >= s)

\* What the user writes into a field is a text.
EditsAreTexts ==
  \A i \in Ids : Rec(i).path \in Fields /\ ~ Rec(i).resolution => Rec(i).value \in Texts

\* A conflict is about records that were applied; an edit of a field is in
\* the conflict of its field or of the whole event.
ConflictsFine ==
  \A d \in Devices : \A path \in Paths : \A i \in open[d][path] :
    i \in History(d) /\ (Rec(i).path \in Fields => path \in {Rec(i).path, "*"})

EInv == IInv /\ OneCountsOther /\ EditsAreTexts /\ ConflictsFine /\ NoEditLost

-----------------------------------------------------------------------------
(* The order of records.                                                    *)

LEMMA LaterWhenDominating ==
  ASSUME IInv, OneCountsOther, NEW i \in Ids, NEW j \in Ids, i # j,
         Dominates(Rec(i).clock, Rec(j).clock)
  PROVE  CausallyBefore(j, i)
<1>1. /\ i = <<i[1], i[2]>> /\ i[1] \in Devices /\ i[2] \in 1 .. Len(log[i[1]])
      /\ j = <<j[1], j[2]>> /\ j[1] \in Devices /\ j[2] \in 1 .. Len(log[j[1]])
  BY IdIsPair DEF IInv
<1>2. Rec(i).clock[i[1]] = i[2] /\ Rec(j).clock[j[1]] = j[2]
  BY <1>1 DEF IInv, ClocksAccurate, Rec
<1>3. Rec(i).clock[j[1]] >= j[2]
  BY <1>1, <1>2 DEF Dominates
<1>4. ~ (Rec(i).clock[j[1]] >= j[2] /\ Rec(j).clock[i[1]] >= i[2])
  BY <1>1 DEF OneCountsOther, Rec
<1>5. Rec(i).clock # Rec(j).clock
  BY <1>1, <1>2, <1>3, <1>4
<1> QED  BY <1>3, <1>5 DEF CausallyBefore, SameOrDescendant

LEMMA Trichotomy ==
  ASSUME IInv, OneCountsOther, NEW i \in Ids, NEW j \in Ids, i # j
  PROVE  CausallyBefore(i, j) \/ CausallyBefore(j, i) \/ Concurrent(Rec(i).clock, Rec(j).clock)
BY LaterWhenDominating DEF Concurrent

-----------------------------------------------------------------------------
(* What a local change adds to the history of its device.                   *)

LEMMA HistoryPositions ==
  ASSUME TypeOK, NEW d \in Devices, NEW i
  PROVE  i \in History(d) <=> i \in Ids /\ i[2] \in 1 .. applied[d][i[1]]
<1>1. i \in Ids => i[1] \in Devices /\ i[2] \in 1 .. Len(log[i[1]]) /\ i[2] \in Nat
  BY IdIsPair
<1> QED  BY <1>1 DEF History, TypeOK, Clocks

LEMMA WriteHistory ==
  ASSUME IInv, TypeOK', NEW d \in Devices, NEW changes \in Seq(Changes),
         NEW resolution \in BOOLEAN, Write(d, changes, resolution)
  PROVE  /\ \A i \in Ids : i \in Ids' /\ Rec(i)' = Rec(i)
         /\ \A e \in Devices \ {d} : History(e)' = History(e)
         /\ History(d) \subseteq History(d)'
         /\ \A i \in Ids' \ Ids :
              /\ i \in History(d)'
              /\ Rec(i)'.resolution = resolution
              /\ \E k \in 1 .. Len(changes) : Rec(i)'.path = changes[k].path
                                              /\ Rec(i)'.value = changes[k].value
         /\ \A k \in 1 .. Len(changes) : \E i \in Ids' \ Ids :
              Rec(i)'.path = changes[k].path /\ Rec(i)'.value = changes[k].value
         /\ \A i \in Ids' \ Ids : \A h \in History(d) : CausallyBefore(h, i)'
<1>1. TypeOK /\ log \in [Devices -> Seq(Records)] /\ log' \in [Devices -> Seq(Records)]
  BY DEF IInv, TypeOK
<1>2. /\ \A p \in Devices \ {d} : log'[p] = log[p]
      /\ Len(log'[d]) = Len(log[d]) + Len(changes)
      /\ \A p \in Devices : /\ Len(log[p]) \in Nat /\ Len(log'[p]) \in Nat
                            /\ Len(log[p]) <= Len(log'[p])
      /\ \A s \in 1 .. Len(log[d]) : log'[d][s] = log[d][s]
      /\ \A s \in Len(log[d]) + 1 .. Len(log'[d]) :
           \A q \in Devices : log'[d][s].clock[q] = IF q = d THEN s ELSE clock[d][q]
      /\ \A s \in Len(log[d]) + 1 .. Len(log'[d]) :
              LET k == s - Len(log[d])
              IN  /\ k \in 1 .. Len(changes)
                  /\ log'[d][s].path = changes[k].path
                  /\ log'[d][s].value = changes[k].value
                  /\ log'[d][s].resolution = resolution
  BY <1>1, WriteAppends
<1>3. /\ \A e, p \in Devices :
           applied'[e][p] = IF e = d /\ p = d THEN Len(log'[d]) ELSE applied[e][p]
      /\ Ids \subseteq Ids'
  BY <1>1, WriteTypes
<1>4. ASSUME NEW i \in Ids PROVE i \in Ids' /\ Rec(i)' = Rec(i)
  <2>1. i[1] \in Devices /\ i[2] \in 1 .. Len(log[i[1]])
    BY <1>1, IdIsPair
  <2>2. /\ \A s \in 1 .. Len(log[d]) : log'[d][s] = log[d][s]
        /\ \A p \in Devices \ {d} : log'[p] = log[p]
    BY <1>2
  <2>3. log'[i[1]][i[2]] = log[i[1]][i[2]]
    <3>1. CASE i[1] = d
      BY <2>1, <2>2, <3>1
    <3>2. CASE i[1] # d
      BY <2>1, <2>2, <3>2
    <3> QED  BY <3>1, <3>2
  <2>4. Rec(i)' = Rec(i)
    BY <2>3 DEF Rec
  <2> QED  BY <1>3, <2>4
<1>5. ASSUME NEW i \in Ids'
      PROVE  i = <<i[1], i[2]>> /\ i[1] \in Devices /\ i[2] \in 1 .. Len(log'[i[1]])
  BY <1>1, Positions DEF Ids
<1>6. ASSUME NEW i \in Ids' \ Ids
      PROVE  i[1] = d /\ i[2] \in Len(log[d]) + 1 .. Len(log'[d])
  <2>1. i = <<i[1], i[2]>> /\ i[1] \in Devices /\ i[2] \in 1 .. Len(log'[i[1]])
    BY <1>5
  <2>2. ~ (i[2] \in 1 .. Len(log[i[1]]))
    BY <1>1, <1>6, <2>1, Positions DEF Ids
  <2> QED  BY <1>2, <2>1, <2>2
<1>7. \A e, p \in Devices : applied[e][p] \in Nat /\ applied[e][p] <= Len(log[p])
      /\ applied[d][d] = Len(log[d])
  <2>1. \A e, p \in Devices : /\ applied[e][p] \in Nat /\ clock[e][p] \in Nat
                              /\ applied[e][p] <= clock[e][p] /\ clock[e][p] <= Len(log[p])
        /\ applied[d][d] = Len(log[d])
    BY <1>1 DEF TypeOK, Clocks
  <2>2. \A p \in Devices : Len(log[p]) \in Nat
    BY <1>2
  <2> QED  BY <2>1, <2>2
<1>8. ASSUME NEW e \in Devices \ {d} PROVE History(e)' = History(e)
  <2>1. ASSUME NEW i \in History(e)' PROVE i \in History(e)
    <3>1. i \in Ids' /\ i[2] <= applied'[e][i[1]]
      BY <2>1 DEF History
    <3>2. i[1] \in Devices /\ i[2] \in 1 .. Len(log'[i[1]]) /\ applied'[e][i[1]] = applied[e][i[1]]
      BY <1>3, <1>5, <3>1
    <3>3. i[2] \in 1 .. Len(log[i[1]])
      BY <1>2, <1>7, <3>1, <3>2
    <3>4. i \in Ids
      BY <1>1, <1>5, <3>1, <3>2, <3>3, Positions DEF Ids
    <3> QED  BY <3>1, <3>2, <3>4 DEF History
  <2>2. ASSUME NEW i \in History(e) PROVE i \in History(e)'
    BY <1>1, <1>3, <2>2, IdIsPair DEF History
  <2> QED  BY <2>1, <2>2
<1>9. History(d) \subseteq History(d)'
  <2> SUFFICES ASSUME NEW i \in History(d) PROVE i \in History(d)'
    OBVIOUS
  <2>1. i \in Ids /\ i[2] <= applied[d][i[1]] /\ i[1] \in Devices /\ i[2] \in Nat
    BY <1>1, IdIsPair DEF History
  <2>a. /\ \A p \in Devices : Len(log[p]) \in Nat /\ Len(log'[p]) \in Nat
                            /\ Len(log[p]) <= Len(log'[p])
        /\ \A p \in Devices : applied[d][p] \in Nat /\ applied[d][p] <= Len(log[p])
    BY <1>2, <1>7
  <2>2. i[2] <= applied'[d][i[1]]
    <3>1. CASE i[1] = d
      <4>1. applied'[d][d] = Len(log'[d])
        BY <1>3
      <4>2. i[2] <= applied[d][d]
        BY <2>1, <3>1
      <4>3. i[2] <= Len(log'[d])
        BY <2>1, <2>a, <4>2
      <4> QED  BY <3>1, <4>1, <4>3
    <3>2. CASE i[1] # d
      <4>1. applied'[d][i[1]] = applied[d][i[1]]
        BY <1>3, <2>1, <3>2
      <4> QED  BY <2>1, <4>1
    <3> QED  BY <3>1, <3>2
  <2> QED  BY <1>3, <2>1, <2>2 DEF History
<1>10. ASSUME NEW i \in Ids' \ Ids
       PROVE  /\ i \in History(d)'
              /\ Rec(i)'.resolution = resolution
              /\ \E k \in 1 .. Len(changes) : Rec(i)'.path = changes[k].path
                                              /\ Rec(i)'.value = changes[k].value
  <2>1. i[1] = d /\ i[2] \in Len(log[d]) + 1 .. Len(log'[d])
    BY <1>6
  <2>2. i[2] <= applied'[d][i[1]]
    BY <1>2, <1>3, <2>1
  <2> DEFINE k == i[2] - Len(log[d])
  <2>3. /\ k \in 1 .. Len(changes)
        /\ log'[d][i[2]].path = changes[k].path
        /\ log'[d][i[2]].value = changes[k].value
        /\ log'[d][i[2]].resolution = resolution
    BY <1>2, <2>1
  <2>4. Rec(i)' = log'[d][i[2]]
    BY <2>1 DEF Rec
  <2> HIDE DEF k
  <2> QED  BY <2>2, <2>3, <2>4 DEF History
<1>11. ASSUME NEW k \in 1 .. Len(changes)
       PROVE  \E i \in Ids' \ Ids :
                Rec(i)'.path = changes[k].path /\ Rec(i)'.value = changes[k].value
  <2>s. PICK s : s = Len(log[d]) + k
    OBVIOUS
  <2> DEFINE i == <<d, s>>
  <2>0. Len(changes) \in Nat
    OBVIOUS
  <2>1. s \in Len(log[d]) + 1 .. Len(log'[d]) /\ s \in 1 .. Len(log'[d])
        /\ s \notin 1 .. Len(log[d]) /\ s - Len(log[d]) = k
    BY <1>2, <2>0, <2>s
  <2>2. i \in Ids' /\ i \notin Ids
    BY <1>1, <2>1, Positions DEF Ids
  <2>3. log'[d][s].path = changes[k].path /\ log'[d][s].value = changes[k].value
    BY <1>2, <2>1
  <2>4. Rec(i)' = log'[d][s]
    BY DEF Rec
  <2> QED  BY <2>2, <2>3, <2>4
<1>12. ASSUME NEW i \in Ids' \ Ids, NEW h \in History(d) PROVE CausallyBefore(h, i)'
  <2>1. i[1] = d /\ i[2] \in Len(log[d]) + 1 .. Len(log'[d])
    BY <1>6
  <2>2. \A q \in Devices : Rec(i)'.clock[q] = IF q = d THEN i[2] ELSE clock[d][q]
    <3>1. \A s \in Len(log[d]) + 1 .. Len(log'[d]) :
            \A q \in Devices : log'[d][s].clock[q] = IF q = d THEN s ELSE clock[d][q]
      BY <1>2
    <3>2. Rec(i)' = log'[d][i[2]]
      BY <2>1 DEF Rec
    <3> QED  BY <2>1, <3>1, <3>2
  <2>3. h \in Ids /\ h[1] \in Devices /\ h[2] \in 1 .. applied[d][h[1]] /\ h[2] \in Nat
        /\ Rec(h)' = Rec(h) /\ Rec(h).clock \in Clocks
    BY <1>1, <1>4, HistoryPositions, IdIsPair, RecType
  <2>4. \A q \in Devices : clock[d][q] >= Rec(h).clock[q] /\ clock[d][q] \in Nat
                           /\ clock[d][q] <= Len(log[q]) /\ applied[d][q] <= clock[d][q]
    <3>1. \A q \in Devices : /\ clock[d][q] \in Nat /\ clock[d][q] <= Len(log[q])
                             /\ applied[d][q] <= clock[d][q]
      BY <1>1 DEF TypeOK, Clocks
    <3>2. \A q \in Devices : clock[d][q] >= log[h[1]][h[2]].clock[q]
      BY <2>3 DEF IInv, HistoryDominated, Dominates
    <3> QED  BY <3>1, <3>2 DEF Rec
  <2>5. ASSUME NEW q \in Devices
        PROVE  /\ Rec(i)'.clock[q] >= Rec(h).clock[q] /\ Rec(i)'.clock[q] >= clock[d][q]
               /\ q = d => Rec(i)'.clock[q] # Rec(h).clock[q]
    <3>1. Rec(h).clock[q] \in Nat /\ clock[d][q] >= Rec(h).clock[q] /\ clock[d][q] \in Nat
          /\ clock[d][q] <= Len(log[q]) /\ Len(log[q]) \in Nat
      BY <1>2, <2>3, <2>4 DEF Clocks
    <3>2. CASE q = d
      BY <2>1, <2>2, <3>1, <3>2
    <3>3. CASE q # d
      BY <2>2, <3>1, <3>3
    <3> QED  BY <3>2, <3>3
  <2>6. Rec(i)'.clock[h[1]] >= h[2]
    <3>1. /\ Rec(i)'.clock[h[1]] >= clock[d][h[1]] /\ clock[d][h[1]] \in Nat
          /\ applied[d][h[1]] <= clock[d][h[1]] /\ applied[d][h[1]] \in Nat
      BY <1>7, <2>3, <2>4, <2>5
    <3>2. CASE h[1] = d
      BY <1>2, <2>1, <2>2, <2>3, <3>1, <3>2
    <3>3. CASE h[1] # d
      BY <2>2, <2>3, <3>1, <3>3
    <3> QED  BY <3>2, <3>3
  <2>7. Rec(i)'.clock # Rec(h).clock
    BY <2>5
  <2> QED  BY <2>3, <2>5, <2>6, <2>7 DEF CausallyBefore, SameOrDescendant, Dominates
<1> QED  BY <1>4, <1>8, <1>9, <1>10, <1>11, <1>12

\* Where no conflict of others and no mark is taken back, what a local change
\* does to the edits that count: old ones that it does not replace, new ones.
LEMMA WriteEdits ==
  ASSUME IInv, TypeOK', NEW d \in Devices, NEW changes \in Seq(Changes),
         NEW resolution \in BOOLEAN, Write(d, changes, resolution)
  PROVE  /\ \A e \in Devices \ {d} : Edits(e)' \subseteq Edits(e)
         /\ \A i \in Edits(d)' :
              \/ /\ i \in Edits(d)
                 /\ \A k \in 1 .. Len(changes) :
                      /\ changes[k].path \notin {Rec(i).path, "event", "*"}
                      /\ changes[k].value # Gone
              \/ /\ ~ resolution
                 /\ \E k \in 1 .. Len(changes) : /\ Rec(i)'.path = changes[k].path
                                                 /\ Rec(i)'.value = changes[k].value
<1>1. /\ \A i \in Ids : i \in Ids' /\ Rec(i)' = Rec(i)
      /\ \A e \in Devices \ {d} : History(e)' = History(e)
      /\ History(d) \subseteq History(d)'
      /\ \A i \in Ids' \ Ids :
           /\ i \in History(d)'
           /\ Rec(i)'.resolution = resolution
           /\ \E k \in 1 .. Len(changes) : Rec(i)'.path = changes[k].path
                                           /\ Rec(i)'.value = changes[k].value
      /\ \A k \in 1 .. Len(changes) : \E i \in Ids' \ Ids :
           Rec(i)'.path = changes[k].path /\ Rec(i)'.value = changes[k].value
      /\ \A i \in Ids' \ Ids : \A h \in History(d) : CausallyBefore(h, i)'
  BY WriteHistory
<1>2. \A i, j \in Ids : Supersedes(j, i)' <=> Supersedes(j, i)
  BY <1>1 DEF Supersedes, CausallyBefore, SameOrDescendant
<1>3. \A e \in Devices : History(e) \subseteq Ids /\ History(e)' \subseteq Ids'
  BY DEF History
<1>4. ASSUME NEW e \in Devices \ {d}, NEW i \in Edits(e)' PROVE i \in Edits(e)
  <2>1. /\ i \in History(e)' /\ Rec(i)'.path \in Fields /\ ~ Rec(i)'.resolution
        /\ \A l \in History(e)' : ~ Supersedes(l, i)'
    BY <1>4 DEF Edits
  <2> QED  BY <1>1, <1>2, <1>3, <2>1 DEF Edits
<1>5. ASSUME NEW i \in Edits(d)', i \in Ids
      PROVE  /\ i \in Edits(d)
             /\ \A k \in 1 .. Len(changes) :
                  /\ changes[k].path \notin {Rec(i).path, "event", "*"}
                  /\ changes[k].value # Gone
  <2>1. /\ i \in History(d)' /\ Rec(i)'.path \in Fields /\ ~ Rec(i)'.resolution
        /\ \A l \in History(d)' : ~ Supersedes(l, i)'
    BY <1>5 DEF Edits
  <2>2. i \in History(d)
    <3>1. i[2] <= applied'[d][i[1]] /\ i[1] \in Devices /\ i[2] \in 1 .. Len(log[i[1]])
      BY <1>5, <2>1, IdIsPair DEF History, IInv
    <3>2. /\ applied'[d][i[1]] = IF i[1] = d THEN Len(log'[d]) ELSE applied[d][i[1]]
          /\ applied[d][d] = Len(log[d])
      BY <3>1, WriteTypes DEF IInv, TypeOK
    <3> QED  BY <1>5, <3>1, <3>2 DEF History
  <2>3. i \in Edits(d)
    BY <1>1, <1>2, <1>3, <2>1, <2>2 DEF Edits
  <2>4. ASSUME NEW k \in 1 .. Len(changes)
        PROVE  changes[k].path \notin {Rec(i).path, "event", "*"} /\ changes[k].value # Gone
    <3>1. PICK l \in Ids' \ Ids :
            Rec(l)'.path = changes[k].path /\ Rec(l)'.value = changes[k].value
      BY <1>1
    <3>2. l \in History(d)' /\ CausallyBefore(i, l)' /\ ~ Supersedes(l, i)'
      BY <1>1, <2>1, <2>2, <3>1
    <3> QED  BY <1>1, <1>5, <3>1, <3>2 DEF Supersedes
  <2> QED  BY <2>3, <2>4
<1>6. ASSUME NEW i \in Edits(d)', i \notin Ids
      PROVE  /\ ~ resolution
             /\ \E k \in 1 .. Len(changes) : /\ Rec(i)'.path = changes[k].path
                                             /\ Rec(i)'.value = changes[k].value
  <2>1. i \in Ids' \ Ids /\ ~ Rec(i)'.resolution
    BY <1>3, <1>6 DEF Edits
  <2> QED  BY <1>1, <2>1
<1> QED  BY <1>4, <1>5, <1>6

\* The records of an update are about the fields that changed, one for each.
LEMMA GroupsCover ==
  ASSUME NEW d \in Devices, NEW new \in Rows
  PROVE  LET changes == Groups(d, new)
         IN  /\ \A k \in 1 .. Len(changes) :
                  changes[k].path \in Fields /\ changes[k].value = new[changes[k].path]
             /\ \A f \in Fields : new[f] # row[d][f] =>
                  \E k \in 1 .. Len(changes) : changes[k].path = f
             /\ \A k, m \in 1 .. Len(changes) : changes[k].path = changes[m].path => k = m
<1> DEFINE t == Change("title", new["title"])
           e == Change("description", new["description"])
           changes == Groups(d, new)
<1>1. t.path = "title" /\ t.value = new["title"]
      /\ e.path = "description" /\ e.value = new["description"]
  BY DEF Change
<1>2. changes = (IF new["title"] = row[d]["title"] THEN <<>> ELSE <<t>>)
                  \o (IF new["description"] = row[d]["description"] THEN <<>> ELSE <<e>>)
  BY DEF Groups
<1> HIDE DEF t, e, changes
<1>3. CASE new["title"] = row[d]["title"] /\ new["description"] = row[d]["description"]
  <2>1. Len(changes) = 0
    BY <1>2, <1>3
  <2> QED  BY <1>3, <2>1 DEF Fields, changes
<1>4. CASE new["title"] = row[d]["title"] /\ new["description"] # row[d]["description"]
  <2>1. Len(changes) = 1 /\ changes[1] = e
    BY <1>2, <1>4
  <2> QED  BY <1>1, <1>4, <2>1 DEF Fields, changes
<1>5. CASE new["title"] # row[d]["title"] /\ new["description"] = row[d]["description"]
  <2>1. Len(changes) = 1 /\ changes[1] = t
    BY <1>2, <1>5
  <2> QED  BY <1>1, <1>5, <2>1 DEF Fields, changes
<1>6. CASE new["title"] # row[d]["title"] /\ new["description"] # row[d]["description"]
  <2>1. Len(changes) = 2 /\ changes[1] = t /\ changes[2] = e
    BY <1>2, <1>6
  <2> QED  BY <1>1, <1>6, <2>1 DEF Fields, changes
<1> QED  BY <1>3, <1>4, <1>5, <1>6

\* A local change keeps the order of records, and a record of the user's edit
\* holds a text.
LEMMA WriteOrders ==
  ASSUME IInv, OneCountsOther, EditsAreTexts, TypeOK', NEW d \in Devices,
         NEW changes \in Seq(Changes), NEW resolution \in BOOLEAN,
         Write(d, changes, resolution),
         \A k \in 1 .. Len(changes) :
           changes[k].path \in Fields /\ ~ resolution => changes[k].value \in Texts
  PROVE  OneCountsOther' /\ EditsAreTexts'
<1>1. EditsAreTexts'
  <2> SUFFICES ASSUME NEW i \in Ids', Rec(i)'.path \in Fields, ~ Rec(i)'.resolution
               PROVE  Rec(i)'.value \in Texts
    BY DEF EditsAreTexts
  <2>1. CASE i \in Ids
    BY <2>1, WriteHistory DEF EditsAreTexts
  <2>2. CASE i \notin Ids
    <3>1. /\ Rec(i)'.resolution = resolution
          /\ \E k \in 1 .. Len(changes) : Rec(i)'.path = changes[k].path
                                          /\ Rec(i)'.value = changes[k].value
      BY <2>2, WriteHistory
    <3> QED  BY <3>1
  <2> QED  BY <2>1, <2>2
<1>2. OneCountsOther'
  <2>1. /\ \A p \in Devices \ {d} : log'[p] = log[p]
        /\ \A p \in Devices : /\ Len(log[p]) \in Nat /\ Len(log'[p]) \in Nat
                              /\ Len(log[p]) <= Len(log'[p])
        /\ \A s \in 1 .. Len(log[d]) : log'[d][s] = log[d][s]
        /\ \A s \in Len(log[d]) + 1 .. Len(log'[d]) :
             \A q \in Devices : log'[d][s].clock[q] = IF q = d THEN s ELSE clock[d][q]
    BY WriteAppends DEF IInv
  <2>2. \A p, q \in Devices : \A s \in 1 .. Len(log[p]) :
          log[p][s].clock[q] \in Nat /\ log[p][s].clock[q] <= Len(log[q])
    <3> TAKE p, q \in Devices
    <3> TAKE s \in 1 .. Len(log[p])
    <3>1. log[p] \in Seq(Records)
      BY DEF IInv, TypeOK
    <3>2. log[p][s] \in Records
      BY <3>1
    <3> QED  BY <3>2 DEF Records, Clocks, IInv, ClocksAccurate
  <2>3. \A q \in Devices : clock[d][q] \in Nat /\ clock[d][q] <= Len(log[q])
    BY DEF IInv, TypeOK, Clocks
  <2>4. ASSUME NEW p \in Devices, NEW s \in 1 .. Len(log'[p]), s \notin 1 .. Len(log[p])
        PROVE  p = d /\ s \in Len(log[d]) + 1 .. Len(log'[d])
    BY <2>1, <2>4
  <2> SUFFICES ASSUME NEW p \in Devices, NEW q \in Devices,
                      NEW s \in 1 .. Len(log'[p]), NEW t \in 1 .. Len(log'[q]),
                      <<p, s>> # <<q, t>>,
                      log'[p][s].clock[q] >= t, log'[q][t].clock[p] >= s
               PROVE  FALSE
    BY DEF OneCountsOther
  <2>5. CASE s \in 1 .. Len(log[p]) /\ t \in 1 .. Len(log[q])
    <3>1. log'[p][s] = log[p][s] /\ log'[q][t] = log[q][t]
      BY <2>1, <2>5
    <3> QED  BY <2>5, <3>1 DEF OneCountsOther
  <2>6. CASE s \in 1 .. Len(log[p]) /\ t \notin 1 .. Len(log[q])
    <3>1. log'[p][s] = log[p][s] /\ q = d /\ t > Len(log[d])
      BY <2>1, <2>4, <2>6
    <3> QED  BY <2>1, <2>2, <2>6, <3>1
  <2>7. CASE s \notin 1 .. Len(log[p]) /\ t \in 1 .. Len(log[q])
    <3>1. log'[q][t] = log[q][t] /\ p = d /\ s > Len(log[d])
      BY <2>1, <2>4, <2>7
    <3> QED  BY <2>1, <2>2, <2>7, <3>1
  <2>8. CASE s \notin 1 .. Len(log[p]) /\ t \notin 1 .. Len(log[q])
    <3>1. p = d /\ q = d /\ s \in Len(log[d]) + 1 .. Len(log'[d])
          /\ t \in Len(log[d]) + 1 .. Len(log'[d])
      BY <2>4, <2>8
    <3>2. log'[d][s].clock[d] = s /\ log'[d][t].clock[d] = t
      BY <2>1, <3>1
    <3> QED  BY <2>1, <3>1, <3>2
  <2> QED  BY <2>5, <2>6, <2>7, <2>8
<1> QED  BY <1>1, <1>2

LEMMA OneChange ==
  ASSUME NEW path \in Paths, NEW value \in Values
  PROVE  LET changes == <<Change(path, value)>>
         IN  /\ changes \in Seq(Changes) /\ Len(changes) = 1
             /\ \A k \in 1 .. Len(changes) : changes[k].path = path /\ changes[k].value = value
<1> DEFINE c == Change(path, value)
<1>1. c.path = path /\ c.value = value /\ <<c>> \in Seq(Changes)
  BY ChangeType DEF Change
<1> HIDE DEF c
<1>2. Len(<<c>>) = 1 /\ <<c>>[1] = c
  OBVIOUS
<1> QED  BY <1>1, <1>2 DEF c

LEMMA LocalKeepsEdits ==
  ASSUME EInv, NEW d \in Devices,
         Create(d) \/ Update(d) \/ CutUpdate(d) \/ Delete(d) \/ Resolve(d)
  PROVE  EInv'
<1>1. IInv /\ IInv' /\ TypeOK' /\ OneCountsOther /\ EditsAreTexts /\ ConflictsFine /\ NoEditLost
  BY LocalPreserves DEF EInv, IInv
<1>2. /\ row \in [Devices -> Rows \cup {Gone}] /\ open \in [Devices -> [Paths -> SUBSET Ids]]
      /\ cuts \in 0 .. MaxCuts
  BY <1>1 DEF IInv, TypeOK
<1> DEFINE Wrote(changes, resolution) ==
      /\ changes \in Seq(Changes) /\ resolution \in BOOLEAN
      /\ Write(d, changes, resolution)
      /\ \A k \in 1 .. Len(changes) :
           changes[k].path \in Fields /\ ~ resolution => changes[k].value \in Texts
<1>3. ASSUME NEW changes, NEW resolution, Wrote(changes, resolution),
             \A e \in Devices, path \in Paths : open'[e][path] \subseteq open[e][path]
      PROVE  OneCountsOther' /\ EditsAreTexts' /\ ConflictsFine'
  <2>1. OneCountsOther' /\ EditsAreTexts'
    BY <1>1, <1>3, WriteOrders
  <2>2. /\ \A i \in Ids : Rec(i)' = Rec(i)
        /\ \A e \in Devices : History(e) \subseteq History(e)' /\ History(e) \subseteq Ids
    BY <1>1, <1>3, WriteHistory DEF History
  <2>3. ConflictsFine'
    BY <1>1, <1>3, <2>2 DEF ConflictsFine
  <2> QED  BY <2>1, <2>3
\* On the other devices nothing changes.
<1>4. ASSUME NEW changes, NEW resolution, Wrote(changes, resolution), cuts = 0, misfit' = misfit,
             NEW e \in Devices \ ({d} \cup misfit), row'[e] = row[e], open'[e] = open[e],
             NEW i \in Edits(e)'
      PROVE  Shown(e, i)' \/ Preserved(e, i)'
  <2>1. i \in Edits(e)
    BY <1>1, <1>4, WriteEdits
  <2>2. Rec(i)' = Rec(i)
    BY <1>1, <1>4, <2>1, WriteHistory DEF Edits, History
  <2> QED  BY <1>1, <1>4, <2>1, <2>2 DEF NoEditLost, Shown, Preserved
<1>5. ASSUME NEW path \in {"event", "*"}, NEW value \in Values, Wrote(<<Change(path, value)>>, FALSE)
      PROVE  Edits(d)' = {}
  <2> DEFINE changes == <<Change(path, value)>>
  <2>1. Len(changes) = 1 /\ \A k \in 1 .. Len(changes) : changes[k].path = path
    BY OneChange DEF Paths
  <2> HIDE DEF changes
  <2>2. ASSUME NEW i \in Edits(d)' PROVE FALSE
    <3>1. Rec(i)'.path \in Fields
      BY <2>2 DEF Edits
    <3>2. \/ \A k \in 1 .. Len(changes) : changes[k].path \notin {Rec(i).path, "event", "*"}
          \/ \E k \in 1 .. Len(changes) : Rec(i)'.path = changes[k].path
      BY <1>1, <1>5, <2>2, WriteEdits DEF changes
    <3> QED  BY <2>1, <3>1, <3>2 DEF Fields
  <2> QED  BY <2>2
<1>6. CASE Create(d)
  <2>1. PICK new \in Rows : /\ Write(d, <<Change("event", new)>>, FALSE)
                            /\ row' = [row EXCEPT ![d] = new]
                            /\ UNCHANGED <<open, cuts, misfit, outlived>>
    BY <1>6 DEF Create
  <2>2. Wrote(<<Change("event", new)>>, FALSE) /\ new \in Values
    <3> DEFINE c == <<Change("event", new)>>
    <3>1. new \in Values /\ "event" \in Paths /\ "event" \notin Fields
      BY DEF Values, Paths, Fields
    <3>2. c \in Seq(Changes) /\ \A k \in 1 .. Len(c) : c[k].path = "event"
      BY <3>1, OneChange
    <3>3. Write(d, c, FALSE) /\ FALSE \in BOOLEAN
      BY <2>1
    <3> HIDE DEF c
    <3>4. Wrote(c, FALSE)
      BY <3>1, <3>2, <3>3
    <3> QED  BY <3>1, <3>4 DEF c
  <2>3. Edits(d)' = {}
    BY <1>5, <2>2
  <2>4. NoEditLost'
    BY <1>2, <1>4, <2>1, <2>2, <2>3 DEF NoEditLost
  <2> QED  BY <1>1, <1>3, <2>1, <2>2, <2>4 DEF EInv
<1>7. CASE Delete(d)
  <2>1. /\ Write(d, <<Change("*", Gone)>>, FALSE)
        /\ row' = [row EXCEPT ![d] = Gone]
        /\ UNCHANGED <<open, cuts, misfit, outlived>>
    BY <1>7 DEF Delete
  <2>2. Wrote(<<Change("*", Gone)>>, FALSE) /\ Gone \in Values
    <3> DEFINE c == <<Change("*", Gone)>>
    <3>1. Gone \in Values /\ "*" \in Paths /\ "*" \notin Fields
      BY DEF Values, Paths, Fields
    <3>2. c \in Seq(Changes) /\ \A k \in 1 .. Len(c) : c[k].path = "*"
      BY <3>1, OneChange
    <3>3. Write(d, c, FALSE) /\ FALSE \in BOOLEAN
      BY <2>1
    <3> HIDE DEF c
    <3>4. Wrote(c, FALSE)
      BY <3>1, <3>2, <3>3
    <3> QED  BY <3>1, <3>4 DEF c
  <2>3. Edits(d)' = {}
    BY <1>5, <2>2
  <2>4. NoEditLost'
    BY <1>2, <1>4, <2>1, <2>2, <2>3 DEF NoEditLost
  <2> QED  BY <1>1, <1>3, <2>1, <2>2, <2>4 DEF EInv
<1>8. CASE CutUpdate(d)
  <2>1. PICK new \in Rows : /\ Write(d, <<Change("title", new["title"])>>, FALSE)
                            /\ cuts' = cuts + 1 /\ UNCHANGED open
    BY <1>8 DEF CutUpdate
  <2>2. Wrote(<<Change("title", new["title"])>>, FALSE)
    <3> DEFINE v == new["title"]
    <3>1. v \in Texts /\ v \in Values /\ "title" \in Paths
      BY DEF Values, Paths, Fields, Rows
    <3>2. Write(d, <<Change("title", v)>>, FALSE)
      BY <2>1
    <3> HIDE DEF v
    <3>3. Wrote(<<Change("title", v)>>, FALSE)
      BY <3>1, <3>2, OneChange
    <3> QED  BY <3>3 DEF v
  <2>3. NoEditLost'
    BY <1>2, <2>1, RecordAssumption DEF NoEditLost
  <2> QED  BY <1>1, <1>3, <2>1, <2>2, <2>3 DEF EInv
<1>9. CASE Update(d)
  <2>1. PICK new \in Rows : /\ Write(d, Groups(d, new), FALSE)
                            /\ row' = [row EXCEPT ![d] = new]
                            /\ UNCHANGED <<open, cuts, misfit, outlived>>
    BY <1>9 DEF Update
  <2> DEFINE changes == Groups(d, new)
  <2>2. /\ \A k \in 1 .. Len(changes) :
             changes[k].path \in Fields /\ changes[k].value = new[changes[k].path]
        /\ \A f \in Fields : new[f] # row[d][f] => \E k \in 1 .. Len(changes) : changes[k].path = f
    BY GroupsCover
  <2>3. changes \in Seq(Changes)
    BY GroupsType
  <2> HIDE DEF changes
  <2>4. Wrote(changes, FALSE)
    BY <2>1, <2>2, <2>3 DEF changes, Rows
  <2>5. ASSUME cuts = 0, d \notin misfit, NEW i \in Edits(d)'
        PROVE  Shown(d, i)' \/ Preserved(d, i)'
    <3>1. row'[d] = new /\ new # Gone /\ Rec(i)'.path \in Fields
      BY <1>2, <2>1, <2>5, ValueAssumption DEF Edits
    <3>2. CASE /\ i \in Edits(d)
               /\ \A k \in 1 .. Len(changes) : changes[k].path # Rec(i).path
      <4>1. Rec(i)' = Rec(i)
        BY <1>1, <2>4, <3>2, WriteHistory DEF Edits, History
      <4>2. new[Rec(i).path] = row[d][Rec(i).path]
        BY <2>2, <3>1, <3>2, <4>1
      <4> QED  BY <1>1, <2>1, <2>5, <3>1, <3>2, <4>1, <4>2 DEF NoEditLost, Shown, Preserved
    <3>3. CASE \E k \in 1 .. Len(changes) : /\ Rec(i)'.path = changes[k].path
                                            /\ Rec(i)'.value = changes[k].value
      BY <2>2, <3>1, <3>3 DEF Shown
    <3> QED  BY <1>1, <2>4, <2>5, <3>2, <3>3, WriteEdits
  <2>6. NoEditLost'
    BY <1>2, <1>4, <2>1, <2>4, <2>5 DEF NoEditLost
  <2> QED  BY <1>1, <1>3, <2>1, <2>4, <2>6 DEF EInv
<1>10. CASE Resolve(d)
  <2>1. PICK path \in Paths :
          /\ \E value \in Choices(d, path) : Write(d, <<Change(path, value)>>, TRUE)
          /\ open' = [open EXCEPT ![d][path] = {}]
          /\ UNCHANGED <<row, cuts, misfit, outlived>>
    BY <1>10 DEF Resolve
  <2>2. PICK value \in Choices(d, path) : Write(d, <<Change(path, value)>>, TRUE)
    BY <2>1
  <2>3. value \in Values
    <3>1. \A i \in open[d][path] : Rec(i).value \in Values
      BY <1>1, <1>2, RecType DEF IInv
    <3> QED  BY <2>2, <3>1 DEF Choices, LocalParticipant, Values
  <2> DEFINE changes == <<Change(path, value)>>
  <2>4. /\ Len(changes) = 1 /\ changes \in Seq(Changes)
        /\ \A k \in 1 .. Len(changes) : changes[k].path = path
    BY <2>3, OneChange
  <2> HIDE DEF changes
  <2>5. Wrote(changes, TRUE)
    BY <2>2, <2>4 DEF changes
  <2>6. /\ \A e \in Devices \ {d} : open'[e] = open[e]
        /\ \A p \in Paths : open'[d][p] = IF p = path THEN {} ELSE open[d][p]
    BY <1>2, <2>1
  <2>7. ASSUME cuts = 0, d \notin misfit, NEW i \in Edits(d)'
        PROVE  Shown(d, i)' \/ Preserved(d, i)'
    <3>1. i \in Edits(d) /\ path \notin {Rec(i).path, "event", "*"} /\ Rec(i).path \in Fields
      <4>1. /\ i \in Edits(d)
            /\ \A k \in 1 .. Len(changes) : changes[k].path \notin {Rec(i).path, "event", "*"}
        BY <1>1, <2>5, <2>7, WriteEdits
      <4>2. Rec(i).path \in Fields
        BY <4>1 DEF Edits
      <4> QED  BY <2>4, <4>1, <4>2
    <3>2. Rec(i)' = Rec(i)
      BY <1>1, <2>5, <3>1, WriteHistory DEF Edits, History
    <3>3. i \notin open[d][path]
      BY <1>1, <3>1 DEF ConflictsFine
    <3> QED  BY <1>1, <2>1, <2>6, <2>7, <3>1, <3>2, <3>3 DEF NoEditLost, Shown, Preserved
  <2>8. NoEditLost'
    <3> SUFFICES ASSUME cuts' = 0, NEW e \in Devices \ misfit', NEW i \in Edits(e)'
                 PROVE  Shown(e, i)' \/ Preserved(e, i)'
      BY DEF NoEditLost
    <3>1. row' = row /\ cuts = 0 /\ misfit' = misfit
      BY <2>1
    <3>2. CASE e = d
      BY <2>7, <3>1, <3>2
    <3>3. CASE e # d
      BY <1>4, <2>5, <2>6, <3>1, <3>3
    <3> QED  BY <3>2, <3>3
  <2>9. \A e \in Devices, p \in Paths : open'[e][p] \subseteq open[e][p]
    BY <2>6
  <2>10. OneCountsOther' /\ EditsAreTexts' /\ ConflictsFine'
    BY <1>3, <2>5, <2>9
  <2> QED  BY <1>1, <2>8, <2>10 DEF EInv
<1> QED  BY <1>6, <1>7, <1>8, <1>9, <1>10

-----------------------------------------------------------------------------
(* What an arrival does to the edits that count.                            *)

\* An edit j that counts, beside an arriving record i that is compared with it
\* and neither replaces it nor conflicts with it: both say the same.
LEMMA ComparedAgree ==
  ASSUME IInv, OneCountsOther, NEW d \in Devices, NEW i \in Ids, NEW j \in History(d), i # j,
         j \in Locals(d, i), ~ IsStale(d, i), Conflicting(d, i) = {}, ~ CausallyBefore(j, i)
  PROVE  Rec(i).value = Rec(j).value
<1>1. j \in Ids
  BY DEF History
<1>2. ~ CausallyBefore(i, j)
  BY DEF IsStale
<1>3. Concurrent(Rec(i).clock, Rec(j).clock)
  BY <1>1, <1>2, Trichotomy
<1> QED  BY <1>3 DEF Conflicting, ValuesDiffer

LEMMA ApplyKeepsEdit ==
  ASSUME EInv, NEW d \in Devices, NEW i \in Ids, NEW j \in Edits(d), i # j,
         ApplyToRow(d, i), ~ Misfits(d, i), ~ Supersedes(i, j), Shown(d, j)
  PROVE  row'[d] # Gone /\ row'[d][Rec(j).path] = Rec(j).value
<1> DEFINE g == Rec(j).path
<1>1. /\ j \in History(d) /\ j \in Ids /\ g \in Fields /\ Rec(j).value \in Texts
      /\ IInv /\ OneCountsOther
  BY DEF EInv, Edits, History, EditsAreTexts
<1>2. /\ row[d] \in Rows /\ row[d][g] = Rec(j).value /\ Rec(i) \in Records
      /\ Rec(i).path \in Paths /\ Rec(i).value \in Values
      /\ row'[d] = Mutated(row[d], Rec(i))
  <2>1. row \in [Devices -> Rows \cup {Gone}]
    BY <1>1 DEF IInv, TypeOK
  <2> QED  BY <1>1, <2>1, RecType DEF IInv, Shown, ApplyToRow
<1>3. ~ IsStale(d, i) /\ Conflicting(d, i) = {}
  BY DEF ApplyToRow
<1>4. Gone \notin Rows /\ Gone \notin Texts /\ Texts \cap Rows = {}
  BY ValueAssumption
<1>5. ASSUME Rec(i).path \in {"event", "*"} PROVE ~ CausallyBefore(j, i)
  BY <1>5 DEF Supersedes
<1>6. ASSUME Rec(i).path = "event" PROVE FALSE
  BY <1>1, <1>5, <1>6 DEF Misfits
<1>7. CASE Rec(i).value = Gone
  <2>1. CASE Rec(i).path \in Fields
    BY <1>1, <1>7, <2>1 DEF Misfits, Supersedes
  <2>2. CASE Rec(i).path = "*"
    <3>1. j \in Locals(d, i)
      BY <1>1, <2>2 DEF Locals
    <3>2. Rec(i).value = Rec(j).value
      BY <1>1, <1>3, <1>5, <2>2, <3>1, ComparedAgree
    <3> QED  BY <1>1, <1>4, <1>7, <3>2
  <2> QED  BY <1>2, <1>6, <2>1, <2>2 DEF Paths
<1>8. CASE Rec(i).path \in Fields /\ Rec(i).value \in Texts
  <2>1. row'[d] = [row[d] EXCEPT ![Rec(i).path] = Rec(i).value]
    BY <1>2, <1>4, <1>8 DEF Mutated
  <2>2. row'[d] \in Rows /\ row'[d][g] = IF g = Rec(i).path THEN Rec(i).value ELSE row[d][g]
    BY <1>1, <1>2, <1>8, <2>1 DEF Rows
  <2>3. ASSUME g = Rec(i).path PROVE Rec(i).value = Rec(j).value
    <3>1. j \in Locals(d, i) /\ ~ CausallyBefore(j, i)
      BY <1>1, <2>3 DEF Locals, Supersedes
    <3> QED  BY <1>1, <1>3, <3>1, ComparedAgree
  <2> QED  BY <1>2, <1>4, <2>2, <2>3
<1>9. CASE Rec(i).path \notin Fields /\ Rec(i).value \in Rows
  <2>1. Rec(i).path = "*"
    BY <1>2, <1>6, <1>9 DEF Paths
  <2>2. j \in Locals(d, i)
    BY <1>1, <2>1 DEF Locals
  <2>3. Rec(i).value = Rec(j).value
    BY <1>1, <1>3, <1>5, <2>1, <2>2, ComparedAgree
  <2> QED  BY <1>1, <1>4, <1>9, <2>3
<1>10. CASE /\ Rec(i).value # Gone
            /\ ~ (Rec(i).path \in Fields /\ Rec(i).value \in Texts)
            /\ ~ (Rec(i).path \notin Fields /\ Rec(i).value \in Rows)
  <2>1. row'[d] = row[d]
    BY <1>2, <1>10 DEF Mutated
  <2> QED  BY <1>2, <1>4, <2>1
<1> QED  BY <1>7, <1>8, <1>9, <1>10

\* The arriving record itself, when it is an edit that counts.
LEMMA ArrivalCounts ==
  ASSUME EInv, NEW d \in Devices, NEW i \in Ids,
         Rec(i).path \in Fields, ~ Rec(i).resolution,
         \A l \in History(d) : ~ Supersedes(l, i),
         \/ KeepRow(d, i)
         \/ ApplyToRow(d, i) /\ ~ Misfits(d, i)
         \/ RecordConflict(d, i)
  PROVE  \/ row'[d] # Gone /\ row'[d][Rec(i).path] = Rec(i).value
         \/ \E path \in Paths : i \in open'[d][path]
<1> DEFINE f == Rec(i).path
<1>1. /\ Rec(i).value \in Texts /\ f \in Paths /\ f # "*"
      /\ row \in [Devices -> Rows \cup {Gone}] /\ open \in [Devices -> [Paths -> SUBSET Ids]]
      /\ Gone \notin Rows /\ Gone \notin Texts
  BY ValueAssumption DEF EInv, EditsAreTexts, IInv, TypeOK, Paths, Fields
<1>2. ~ IsStale(d, i)
  BY <1>1 DEF IsStale, Locals, Supersedes
<1>3. CASE KeepRow(d, i)
  <2>1. Rec(i).value = LocalValue(d, f) /\ row' = row
    BY <1>2, <1>3 DEF KeepRow, IsNoop
  <2> QED  BY <1>1, <2>1 DEF LocalValue
<1>4. CASE ApplyToRow(d, i) /\ ~ Misfits(d, i)
  <2>1. row[d] \in Rows /\ row'[d] = Mutated(row[d], Rec(i))
    BY <1>1, <1>4 DEF Misfits, ApplyToRow
  <2>2. row'[d] = [row[d] EXCEPT ![f] = Rec(i).value]
    BY <1>1, <2>1 DEF Mutated
  <2> QED  BY <1>1, <2>1, <2>2 DEF Rows
<1>5. CASE RecordConflict(d, i)
  <2>1. open' = [open EXCEPT ![d][f] = @ \cup Conflicting(d, i) \cup {i}]
    BY <1>5 DEF RecordConflict
  <2>2. i \in open'[d][f]
    BY <1>1, <2>1
  <2> QED  BY <1>1, <2>2
<1> QED  BY <1>3, <1>4, <1>5

\* An arrival adds one record x to the history of d, and touches neither the
\* logs nor another device's history.
LEMMA Arrival ==
  ASSUME TypeOK, NEW d \in Devices, NEW p \in Devices, Deliver(d, p)
  PROVE  \E x \in Ids :
           /\ log' = log /\ cuts' = cuts
           /\ \A e \in Devices \ {d} : History(e)' = History(e)
           /\ History(d)' = History(d) \cup {x}
           /\ x \notin History(d)
           /\ KeepRow(d, x) \/ ApplyToRow(d, x) \/ RecordConflict(d, x)
<1> DEFINE i == <<p, applied[d][p] + 1>>
<1>1. TypeOK
  OBVIOUS
<1>2. /\ p # d /\ applied[d][p] < Len(log[p]) /\ Accept(d, i)
      /\ KeepRow(d, i) \/ ApplyToRow(d, i) \/ RecordConflict(d, i)
  BY DEF Deliver
<1>3. /\ log \in [Devices -> Seq(Records)] /\ \A e, q \in Devices : applied[e][q] \in Nat
      /\ applied \in [Devices -> [Devices -> Nat]]
      /\ row \in [Devices -> Rows \cup {Gone}] /\ open \in [Devices -> [Paths -> SUBSET Ids]]
  BY <1>1 DEF TypeOK, Clocks
<1>4. i[1] = p /\ i[2] = applied[d][p] + 1 /\ i \in Ids
  <2>1. applied[d][p] + 1 \in 1 .. Len(log[p])
    BY <1>2, <1>3
  <2> QED  BY <1>3, <2>1, Positions DEF Ids
<1>5. log' = log /\ cuts' = cuts /\ applied' = [applied EXCEPT ![d][p] = i[2]]
  BY <1>2, <1>4 DEF Accept
<1>6. PICK x : x = i
  OBVIOUS
<1> HIDE DEF i
<1>7. Ids' = Ids
  BY <1>5 DEF Ids
<1>8. /\ \A e \in Devices \ {d} : History(e)' = History(e)
      /\ History(d)' = History(d) \cup {x}
      /\ x \notin History(d)
  <2>1. \A e, q \in Devices : applied'[e][q] = IF e = d /\ q = p THEN i[2] ELSE applied[e][q]
    BY <1>3, <1>5
  <2>2. ASSUME NEW j \in Ids
        PROVE  /\ j = <<j[1], j[2]>> /\ j[1] \in Devices /\ j[2] \in Nat
    BY <1>1, IdIsPair
  <2>3. \A e \in Devices \ {d} : History(e)' = History(e)
    BY <1>7, <2>1, <2>2 DEF History
  <2>4. ASSUME NEW j \in History(d)' PROVE j \in History(d) \cup {x}
    <3>1. j \in Ids /\ j[2] <= applied'[d][j[1]]
      BY <1>7, <2>4 DEF History
    <3>2. CASE j[1] = p /\ j[2] = applied[d][p] + 1
      BY <1>6, <2>2, <3>1, <3>2 DEF i
    <3>3. CASE j[1] # p
      BY <2>1, <2>2, <3>1, <3>3 DEF History
    <3>4. CASE j[1] = p /\ j[2] # applied[d][p] + 1
      <4>1. applied'[d][p] = applied[d][p] + 1 /\ applied[d][p] \in Nat
        BY <1>3, <1>4, <2>1
      <4>2. j[2] <= applied[d][j[1]]
        BY <2>2, <3>1, <3>4, <4>1
      <4> QED  BY <3>1, <4>2 DEF History
    <3> QED  BY <3>2, <3>3, <3>4
  <2>5. ASSUME NEW j \in History(d) \cup {x} PROVE j \in History(d)'
    <3>1. j \in Ids /\ j[2] \in Nat /\ j[1] \in Devices
      BY <1>4, <1>6, <2>2, <2>5 DEF History
    <3>2. CASE j = x
      <4>1. j[1] = p /\ j[2] = i[2]
        BY <1>4, <1>6, <3>2
      <4>2. j[2] <= applied'[d][j[1]]
        BY <1>4, <2>1, <3>1, <4>1
      <4> QED  BY <1>7, <3>1, <4>2 DEF History
    <3>3. CASE j \in History(d)
      <4>1. j[2] <= applied[d][j[1]] /\ applied[d][j[1]] \in Nat
        BY <1>3, <3>1, <3>3 DEF History
      <4>2. j[2] <= applied'[d][j[1]]
        <5>1. CASE j[1] = p
          <6>1. applied'[d][p] = applied[d][p] + 1 /\ applied[d][p] \in Nat
            BY <1>3, <1>4, <2>1
          <6> QED  BY <3>1, <4>1, <5>1, <6>1
        <5>2. CASE j[1] # p
          BY <2>1, <3>1, <4>1, <5>2
        <5> QED  BY <5>1, <5>2
      <4> QED  BY <1>7, <3>1, <4>2 DEF History
    <3> QED  BY <2>5, <3>2, <3>3
  <2>6. x \notin History(d)
    BY <1>3, <1>4, <1>6 DEF History
  <2> QED  BY <2>3, <2>4, <2>5, <2>6
<1>9. /\ KeepRow(d, x) \/ ApplyToRow(d, x) \/ RecordConflict(d, x)
      /\ x \in Ids
  BY <1>2, <1>4, <1>6
<1> QED  BY <1>5, <1>8, <1>9

LEMMA DeliverKeepsEdits ==
  ASSUME EInv, NEW d \in Devices, NEW p \in Devices, Deliver(d, p)
  PROVE  EInv'
<1>1. /\ IInv /\ IInv' /\ TypeOK /\ OneCountsOther /\ EditsAreTexts /\ ConflictsFine /\ NoEditLost
  BY DeliverPreserves DEF EInv, IInv
<1>2. /\ row \in [Devices -> Rows \cup {Gone}] /\ open \in [Devices -> [Paths -> SUBSET Ids]]
  BY <1>1 DEF TypeOK
<1>3. PICK x \in Ids :
        /\ log' = log /\ cuts' = cuts
        /\ \A e \in Devices \ {d} : History(e)' = History(e)
        /\ History(d)' = History(d) \cup {x}
        /\ x \notin History(d)
        /\ KeepRow(d, x) \/ ApplyToRow(d, x) \/ RecordConflict(d, x)
  BY <1>1, Arrival
<1>4. /\ Ids' = Ids /\ \A j : Rec(j)' = Rec(j)
      /\ \A j, l : CausallyBefore(j, l)' = CausallyBefore(j, l)
      /\ \A j, l : Supersedes(j, l)' = Supersedes(j, l)
  BY <1>3 DEF Ids, Rec, CausallyBefore, SameOrDescendant, Supersedes
<1>5. /\ \A e \in Devices \ {d} : History(e)' = History(e)
      /\ History(d)' = History(d) \cup {x}
      /\ x \notin History(d)
  BY <1>3
<1>6. /\ KeepRow(d, x) \/ ApplyToRow(d, x) \/ RecordConflict(d, x)
      /\ x \in Ids
  BY <1>3
<1>7. OneCountsOther' /\ EditsAreTexts'
  BY <1>1, <1>3, <1>4 DEF OneCountsOther, EditsAreTexts
<1>8. /\ \A e \in Devices \ {d} : open'[e] = open[e] /\ row'[e] = row[e]
      /\ \A path \in Paths : open[d][path] \subseteq open'[d][path]
      /\ misfit \subseteq misfit'
      /\ ApplyToRow(d, x) /\ Misfits(d, x) => d \in misfit'
  <2>1. Rec(x).path \in Paths
    BY <1>1, <1>6, RecType
  <2>2. CASE KeepRow(d, x)
    <3>1. row' = row /\ open' = open /\ misfit' = misfit /\ ~ ApplyToRow(d, x)
      BY <2>2 DEF KeepRow, ApplyToRow
    <3> QED  BY <3>1
  <2>3. CASE ApplyToRow(d, x)
    <3>1. open' = open /\ row' = [row EXCEPT ![d] = Mutated(@, Rec(x))]
      BY <2>3 DEF ApplyToRow
    <3>2. misfit' = IF Misfits(d, x) THEN misfit \cup {d} ELSE misfit
      BY <2>3 DEF ApplyToRow
    <3>3. \A e \in Devices \ {d} : row'[e] = row[e]
      BY <1>2, <3>1
    <3> QED  BY <3>1, <3>2, <3>3
  <2>4. CASE RecordConflict(d, x)
    <3>1. row' = row /\ misfit' = misfit /\ ~ ApplyToRow(d, x)
          /\ open' = [open EXCEPT ![d][Rec(x).path] = @ \cup Conflicting(d, x) \cup {x}]
      BY <2>4 DEF RecordConflict, ApplyToRow
    <3>2. \A e \in Devices \ {d} : open'[e] = open[e]
      BY <1>2, <3>1
    <3>3. \A path \in Paths : open[d][path] \subseteq open'[d][path]
      BY <1>2, <2>1, <3>1
    <3> QED  BY <3>1, <3>2, <3>3
  <2> QED  BY <1>6, <2>2, <2>3, <2>4
<1>9. ConflictsFine'
  <2>1. \A e \in Devices : History(e) \subseteq History(e)'
    BY <1>5
  <2>2. CASE open' = open
    BY <1>1, <1>4, <2>1, <2>2 DEF ConflictsFine
  <2>3. CASE RecordConflict(d, x)
    <3>1. /\ Rec(x).path \in Paths
          /\ open' = [open EXCEPT ![d][Rec(x).path] = @ \cup Conflicting(d, x) \cup {x}]
      BY <1>1, <1>6, <2>3, RecType DEF RecordConflict
    <3>2. \A j \in Conflicting(d, x) \cup {x} :
            /\ j \in History(d)'
            /\ Rec(j).path \in Fields => Rec(x).path \in {Rec(j).path, "*"}
      BY <1>5 DEF Conflicting, Locals, Fields
    <3>3. \A e \in Devices, path \in Paths : \A j \in open'[e][path] :
            \/ j \in open[e][path]
            \/ e = d /\ path = Rec(x).path /\ j \in Conflicting(d, x) \cup {x}
      BY <1>2, <3>1
    <3> QED  BY <1>1, <1>4, <2>1, <3>2, <3>3 DEF ConflictsFine
  <2> QED  BY <1>6, <2>2, <2>3 DEF KeepRow, ApplyToRow
<1>10. NoEditLost'
  <2> SUFFICES ASSUME cuts' = 0, NEW e \in Devices \ misfit', NEW j \in Edits(e)'
               PROVE  Shown(e, j)' \/ Preserved(e, j)'
    BY DEF NoEditLost
  <2>1. /\ j \in History(e)' /\ Rec(j).path \in Fields /\ ~ Rec(j).resolution
        /\ \A l \in History(e)' : ~ Supersedes(l, j)
    BY <1>4 DEF Edits
  <2>2. ASSUME j \in History(e)
        PROVE  j \in Edits(e) /\ (Shown(e, j) \/ Preserved(e, j))
    <3>1. j \in Edits(e)
      BY <1>5, <2>1, <2>2 DEF Edits
    <3> QED  BY <1>1, <1>3, <1>8, <3>1 DEF NoEditLost
  <2>3. CASE e # d
    BY <1>4, <1>5, <1>8, <2>1, <2>2, <2>3 DEF Shown, Preserved
  <2>4. CASE e = d /\ j = x
    <3>1. \A l \in History(d) : ~ Supersedes(l, x)
      BY <1>5, <2>1, <2>4
    <3>2. \/ row'[d] # Gone /\ row'[d][Rec(x).path] = Rec(x).value
          \/ \E path \in Paths : x \in open'[d][path]
      BY <1>6, <1>8, <2>1, <2>4, <3>1, ArrivalCounts
    <3> QED  BY <1>4, <2>4, <3>2 DEF Shown, Preserved
  <2>5. CASE e = d /\ j # x
    <3>1. j \in History(d) /\ j \in Edits(d) /\ ~ Supersedes(x, j)
      BY <1>5, <2>1, <2>2, <2>5
    <3>2. CASE Preserved(d, j)
      BY <1>8, <2>5, <3>2 DEF Preserved
    <3>3. CASE Shown(d, j) /\ row' = row
      BY <1>4, <2>5, <3>3 DEF Shown
    <3>4. CASE Shown(d, j) /\ ApplyToRow(d, x)
      <4>1. row'[d] # Gone /\ row'[d][Rec(j).path] = Rec(j).value
        BY <1>6, <1>8, <2>5, <3>1, <3>4, ApplyKeepsEdit
      <4> QED  BY <1>4, <2>5, <4>1 DEF Shown
    <3> QED  BY <1>6, <2>2, <2>5, <3>1, <3>2, <3>3, <3>4 DEF KeepRow, RecordConflict
  <2> QED  BY <2>3, <2>4, <2>5
<1> QED  BY <1>1, <1>7, <1>9, <1>10 DEF EInv

-----------------------------------------------------------------------------

LEMMA EditsInvariance == Spec => []EInv
<1>1. Init => OneCountsOther /\ EditsAreTexts /\ ConflictsFine /\ NoEditLost
  <2> SUFFICES ASSUME Init PROVE OneCountsOther /\ EditsAreTexts /\ ConflictsFine /\ NoEditLost
    OBVIOUS
  <2>1. \A q \in Devices : log[q] = <<>> /\ Len(log[q]) = 0 /\ DOMAIN log[q] = {}
    BY DEF Init
  <2>2. Ids = {}
    BY <2>1 DEF Ids
  <2>3. \A d \in Devices : Edits(d) = {} /\ \A path \in Paths : open[d][path] = {}
    BY <2>2 DEF Edits, History, Init
  <2> QED  BY <2>1, <2>2, <2>3 DEF OneCountsOther, EditsAreTexts, ConflictsFine, NoEditLost
<1>2. IInv /\ IInv' /\ EInv /\ [Next]_vars => EInv'
  <2> SUFFICES ASSUME IInv', EInv, [Next]_vars PROVE EInv'
    OBVIOUS
  <2>1. CASE Next
    BY <2>1, LocalKeepsEdits, DeliverKeepsEdits DEF Next
  <2>2. CASE UNCHANGED vars
    <3>1. log' = log /\ applied' = applied /\ row' = row /\ open' = open
          /\ cuts' = cuts /\ misfit' = misfit
      BY <2>2 DEF vars
    <3>2. OneCountsOther /\ EditsAreTexts /\ ConflictsFine /\ NoEditLost
      BY DEF EInv
    <3>3. OneCountsOther' /\ EditsAreTexts'
      BY <3>1, <3>2 DEF OneCountsOther, EditsAreTexts, Ids, Rec
    <3>4. ConflictsFine'
      BY <3>1, <3>2 DEF ConflictsFine, History, Ids, Rec
    <3>5. \A e : Edits(e)' = Edits(e)
      BY <3>1 DEF Edits, History, Ids, Rec, Supersedes, CausallyBefore, SameOrDescendant
    <3>6. NoEditLost'
      BY <3>1, <3>2, <3>5 DEF NoEditLost, Shown, Preserved, Rec
    <3> QED  BY <3>3, <3>4, <3>6 DEF EInv
  <2> QED  BY <2>1, <2>2
<1>3. IInv /\ OneCountsOther /\ EditsAreTexts /\ ConflictsFine /\ NoEditLost => EInv
  BY DEF EInv
<1> QED  BY <1>1, <1>2, <1>3, Induction, PTL DEF Spec

\* Whatever the order of arrivals, an edit of the user that no applied record
\* replaces is shown or kept in an open conflict, for any number of devices and
\* records (conflict_detection.ts detect, database.ts applyRemoteChange).
THEOREM EditsSurvive == Spec => []NoEditLost
<1>1. EInv => NoEditLost
  BY DEF EInv
<1> QED  BY <1>1, EditsInvariance, PTL
-----------------------------------------------------------------------------
(* Divergence is visible.  Of the records that are about a field, those     *)
(* that no other of them follows say, without exception, what the device    *)
(* shows, where nothing was put before the user, mismatched or ignored; and *)
(* which records these are depends on the history alone.                   *)

\* Record or change r decides about field f.
Touches(r, f) == r.path \in {f, "event", "*"}

\* The part of a row, or of a value for the whole event, that is field f.
Part(v, f) == IF v = Gone THEN Gone ELSE v[f]

\* What r says field f should be.
Says(r, f) == IF r.path = f THEN r.value ELSE Part(r.value, f)

\* The records at d about field f that none of them follows.
Tops(d, f) ==
  {i \in History(d) :
     /\ Touches(Rec(i), f)
     /\ \A l \in History(d) : Touches(Rec(l), f) => ~ CausallyBefore(i, l)}

\* A device that no rule of detection has led away from its history.
Quiet(d) ==
  /\ d \notin misfit \cup outlived
  /\ \A path \in Paths : open[d][path] = {}
  /\ \A i \in History(d) : ~ Rec(i).resolution

\* The user creates whole events and deletes them.
ShapesFine ==
  \A i \in Ids : ~ Rec(i).resolution =>
    /\ Rec(i).path = "event" => Rec(i).value \in Rows
    /\ Rec(i).path = "*" => Rec(i).value = Gone

SomeTop ==
  \A d \in Devices : \A f \in Fields :
    (\E i \in History(d) : Touches(Rec(i), f)) => Tops(d, f) # {}

\* A row has records about each of its fields.
RowIsMade ==
  \A d \in Devices : row[d] # Gone =>
    \A f \in Fields : \E i \in History(d) : Touches(Rec(i), f)

TopsShown ==
  cuts = 0 =>
    \A d \in Devices : Quiet(d) =>
      \A f \in Fields : \A i \in Tops(d, f) : Says(Rec(i), f) = Part(row[d], f)

DInv == EInv /\ ShapesFine /\ SomeTop /\ RowIsMade /\ TopsShown

\* No two of the changes are about the same field.
OneForEach(changes) ==
  \A f \in Fields : \A k, m \in 1 .. Len(changes) :
    Touches(changes[k], f) /\ Touches(changes[m], f) => k = m

-----------------------------------------------------------------------------
(* The order of records is one.                                             *)

LEMMA ClockOrder ==
  ASSUME NEW a \in Clocks, NEW b \in Clocks, NEW c \in Clocks,
         Dominates(b, a), a # b, Dominates(c, b)
  PROVE  Dominates(c, a) /\ a # c
<1>1. \A p \in Devices : a[p] \in Nat /\ b[p] \in Nat /\ c[p] \in Nat
                         /\ b[p] >= a[p] /\ c[p] >= b[p]
  BY DEF Clocks, Dominates
<1>2. \A p \in Devices : c[p] >= a[p]
  BY <1>1
<1>3. ASSUME a = c PROVE FALSE
  <2>1. \A p \in Devices : a[p] = b[p]
    BY <1>1, <1>3
  <2> QED  BY <2>1 DEF Clocks
<1> QED  BY <1>2, <1>3 DEF Dominates

LEMMA BeforeIsTransitive ==
  ASSUME TypeOK, NEW i \in Ids, NEW j \in Ids, NEW l \in Ids,
         CausallyBefore(i, j), CausallyBefore(j, l)
  PROVE  CausallyBefore(i, l)
<1>1. /\ Rec(i).clock \in Clocks /\ Rec(j).clock \in Clocks /\ Rec(l).clock \in Clocks
      /\ i[1] \in Devices /\ i[2] \in Nat
  BY RecType, IdIsPair
<1>2. /\ Dominates(Rec(j).clock, Rec(i).clock) /\ Rec(i).clock # Rec(j).clock
      /\ Dominates(Rec(l).clock, Rec(j).clock) /\ Rec(j).clock[i[1]] >= i[2]
  BY DEF CausallyBefore, SameOrDescendant
<1>3. Dominates(Rec(l).clock, Rec(i).clock) /\ Rec(i).clock # Rec(l).clock
  BY <1>1, <1>2, ClockOrder
<1>4. Rec(l).clock[i[1]] >= i[2]
  <2>1. Rec(l).clock[i[1]] >= Rec(j).clock[i[1]]
    BY <1>1, <1>2 DEF Dominates
  <2>2. Rec(l).clock[i[1]] \in Nat /\ Rec(j).clock[i[1]] \in Nat
    BY <1>1 DEF Clocks
  <2> QED  BY <1>1, <1>2, <2>1, <2>2
<1> QED  BY <1>3, <1>4 DEF CausallyBefore, SameOrDescendant

-----------------------------------------------------------------------------
(* Local changes.                                                           *)

\* New records are the changes, in their order.
LEMMA NewRecords ==
  ASSUME TypeOK, NEW d \in Devices, NEW changes \in Seq(Changes),
         NEW resolution \in BOOLEAN, Write(d, changes, resolution),
         NEW i \in Ids' \ Ids
  PROVE  \E k \in 1 .. Len(changes) :
           /\ i = <<d, Len(log[d]) + k>>
           /\ Rec(i)'.path = changes[k].path /\ Rec(i)'.value = changes[k].value
<1>1. /\ log \in [Devices -> Seq(Records)] /\ log' \in [Devices -> Seq(Records)]
      /\ \A p \in Devices \ {d} : log'[p] = log[p]
      /\ Len(log'[d]) = Len(log[d]) + Len(changes)
      /\ \A p \in Devices : Len(log[p]) \in Nat /\ Len(log'[p]) \in Nat
      /\ \A s \in Len(log[d]) + 1 .. Len(log'[d]) :
              LET k == s - Len(log[d])
              IN  /\ k \in 1 .. Len(changes)
                  /\ log'[d][s].path = changes[k].path
                  /\ log'[d][s].value = changes[k].value
  BY WriteAppends DEF TypeOK
<1>2. i = <<i[1], i[2]>> /\ i[1] \in Devices /\ i[2] \in 1 .. Len(log'[i[1]])
  BY <1>1, Positions DEF Ids
<1>3. ~ (i[2] \in 1 .. Len(log[i[1]]))
  BY <1>1, <1>2, Positions DEF Ids
<1>4. i[1] = d /\ i[2] \in Len(log[d]) + 1 .. Len(log'[d])
  BY <1>1, <1>2, <1>3
<1>5. PICK k : k = i[2] - Len(log[d])
  OBVIOUS
<1>6. /\ k \in 1 .. Len(changes)
      /\ log'[d][i[2]].path = changes[k].path /\ log'[d][i[2]].value = changes[k].value
  BY <1>1, <1>4, <1>5
<1>7. i = <<d, Len(log[d]) + k>>
  <2>1. i[2] = Len(log[d]) + k
    BY <1>1, <1>4, <1>5
  <2> QED  BY <1>2, <1>4, <2>1
<1>8. Rec(i)' = log'[d][i[2]]
  BY <1>4 DEF Rec
<1> QED  BY <1>6, <1>7, <1>8

\* Nothing that was there follows a new record.
LEMMA OldIsNotAfter ==
  ASSUME TypeOK', OneCountsOther', NEW i \in Ids', NEW j \in Ids', i # j,
         CausallyBefore(i, j)'
  PROVE  ~ CausallyBefore(j, i)'
<1>1. log' \in [Devices -> Seq(Records)]
  BY DEF TypeOK
<1>2. /\ i = <<i[1], i[2]>> /\ i[1] \in Devices /\ i[2] \in 1 .. Len(log'[i[1]])
      /\ j = <<j[1], j[2]>> /\ j[1] \in Devices /\ j[2] \in 1 .. Len(log'[j[1]])
  BY <1>1, Positions DEF Ids
<1>3. <<j[1], j[2]>> # <<i[1], i[2]>>
  BY <1>2
<1>4. ~ (log'[j[1]][j[2]].clock[i[1]] >= i[2] /\ log'[i[1]][i[2]].clock[j[1]] >= j[2])
  BY <1>2, <1>3 DEF OneCountsOther
<1> QED  BY <1>4 DEF CausallyBefore, SameOrDescendant, Rec

\* After a local change, the records that none follows are the new ones about
\* the field, or the old ones if there are none.
LEMMA WriteTops ==
  ASSUME IInv, TypeOK', OneCountsOther', SomeTop, NEW d \in Devices,
         NEW changes \in Seq(Changes), NEW resolution \in BOOLEAN,
         Write(d, changes, resolution), OneForEach(changes)
  PROVE  /\ \A e \in Devices \ {d} : \A f : Tops(e, f)' = Tops(e, f)
         /\ \A f : \A i \in Tops(d, f)' :
              \/ /\ i \in Tops(d, f)
                 /\ \A k \in 1 .. Len(changes) : ~ Touches(changes[k], f)
              \/ \E k \in 1 .. Len(changes) :
                   /\ Touches(changes[k], f)
                   /\ Rec(i)'.path = changes[k].path /\ Rec(i)'.value = changes[k].value
         /\ SomeTop'
<1>1. /\ \A i \in Ids : i \in Ids' /\ Rec(i)' = Rec(i)
      /\ \A e \in Devices \ {d} : History(e)' = History(e)
      /\ History(d) \subseteq History(d)'
      /\ \A i \in Ids' \ Ids : i \in History(d)'
      /\ \A k \in 1 .. Len(changes) : \E i \in Ids' \ Ids :
           Rec(i)'.path = changes[k].path /\ Rec(i)'.value = changes[k].value
      /\ \A i \in Ids' \ Ids : \A h \in History(d) : CausallyBefore(h, i)'
  BY WriteHistory
<1>2. \A e \in Devices : History(e) \subseteq Ids /\ History(e)' \subseteq Ids'
  BY DEF History
<1>3. \A i, j \in Ids : CausallyBefore(i, j)' <=> CausallyBefore(i, j)
  BY <1>1 DEF CausallyBefore, SameOrDescendant
<1>4. ASSUME NEW e \in Devices \ {d}, NEW f PROVE Tops(e, f)' = Tops(e, f)
  BY <1>1, <1>2, <1>3 DEF Tops, Touches
<1>5. ASSUME NEW i \in History(d)', i \in Ids PROVE i \in History(d)
  <2>1. i[2] <= applied'[d][i[1]] /\ i[1] \in Devices /\ i[2] \in 1 .. Len(log[i[1]])
    BY <1>5, IdIsPair DEF History, IInv
  <2>2. /\ applied'[d][i[1]] = IF i[1] = d THEN Len(log'[d]) ELSE applied[d][i[1]]
        /\ applied[d][d] = Len(log[d])
    BY <2>1, WriteTypes DEF IInv, TypeOK
  <2> QED  BY <1>5, <2>1, <2>2 DEF History
<1>6. ASSUME NEW f, NEW i \in Tops(d, f)', i \in Ids
      PROVE  /\ i \in Tops(d, f)
             /\ \A k \in 1 .. Len(changes) : ~ Touches(changes[k], f)
  <2>1. /\ i \in History(d)' /\ Touches(Rec(i)', f)
        /\ \A l \in History(d)' : Touches(Rec(l)', f) => ~ CausallyBefore(i, l)'
    BY <1>6 DEF Tops, Touches
  <2>2. i \in History(d)
    BY <1>5, <1>6, <2>1
  <2>3. i \in Tops(d, f)
    BY <1>1, <1>2, <1>3, <2>1, <2>2 DEF Tops
  <2>4. ASSUME NEW k \in 1 .. Len(changes), Touches(changes[k], f) PROVE FALSE
    <3>1. PICK l \in Ids' \ Ids :
            Rec(l)'.path = changes[k].path /\ Rec(l)'.value = changes[k].value
      BY <1>1
    <3>2. l \in History(d)' /\ CausallyBefore(i, l)' /\ Touches(Rec(l)', f)
      BY <1>1, <2>2, <2>4, <3>1 DEF Touches
    <3> QED  BY <2>1, <3>2
  <2> QED  BY <2>3, <2>4
<1>7. ASSUME NEW f, NEW i \in Tops(d, f)', i \notin Ids
      PROVE  \E k \in 1 .. Len(changes) :
               /\ Touches(changes[k], f)
               /\ Rec(i)'.path = changes[k].path /\ Rec(i)'.value = changes[k].value
  <2>1. i \in Ids' \ Ids /\ Touches(Rec(i)', f)
    BY <1>2, <1>7 DEF Tops, Touches
  <2>2. PICK k \in 1 .. Len(changes) :
          Rec(i)'.path = changes[k].path /\ Rec(i)'.value = changes[k].value
    BY <2>1, NewRecords DEF IInv
  <2> QED  BY <2>1, <2>2 DEF Touches
<1>8. ASSUME NEW f \in Fields, NEW i \in History(d)', Touches(Rec(i)', f)
      PROVE  Tops(d, f)' # {}
  <2>1. CASE \E n \in Ids' \ Ids : Touches(Rec(n)', f)
    <3>1. PICK n \in Ids' \ Ids : Touches(Rec(n)', f)
      BY <2>1
    <3>2. n \in History(d)' /\ n \in Ids'
      BY <1>1
    <3>3. ASSUME NEW l \in History(d)', Touches(Rec(l)', f), CausallyBefore(n, l)' PROVE FALSE
      <4>1. CASE l \in Ids
        <5>1. CausallyBefore(l, n)' /\ l # n /\ l \in Ids'
          BY <1>1, <1>5, <3>3, <4>1
        <5> QED  BY <3>2, <3>3, <5>1, OldIsNotAfter
      <4>2. CASE l \notin Ids
        <5>1. l \in Ids' \ Ids
          BY <1>2, <4>2
        <5>2. PICK k \in 1 .. Len(changes) :
                n = <<d, Len(log[d]) + k>> /\ Rec(n)'.path = changes[k].path
          BY NewRecords DEF IInv
        <5>3. PICK m \in 1 .. Len(changes) :
                l = <<d, Len(log[d]) + m>> /\ Rec(l)'.path = changes[m].path
          BY <5>1, NewRecords DEF IInv
        <5>4. Touches(changes[k], f) /\ Touches(changes[m], f)
          BY <3>1, <3>3, <5>2, <5>3 DEF Touches
        <5>5. n = l
          BY <5>2, <5>3, <5>4 DEF OneForEach
        <5> QED  BY <3>3, <5>5 DEF CausallyBefore
      <4> QED  BY <4>1, <4>2
    <3>4. n \in Tops(d, f)'
      BY <3>1, <3>2, <3>3 DEF Tops, Touches
    <3> QED  BY <3>4
  <2>2. CASE \A n \in Ids' \ Ids : ~ Touches(Rec(n)', f)
    <3>1. i \in Ids /\ i \in History(d) /\ Touches(Rec(i), f)
      BY <1>1, <1>2, <1>5, <1>8, <2>2
    <3>2. PICK t \in Tops(d, f) : TRUE
      BY <3>1 DEF SomeTop
    <3>3. /\ t \in History(d) /\ t \in Ids /\ Touches(Rec(t), f)
          /\ \A l \in History(d) : Touches(Rec(l), f) => ~ CausallyBefore(t, l)
      BY <1>2, <3>2 DEF Tops
    <3>4. ASSUME NEW l \in History(d)', Touches(Rec(l)', f) PROVE ~ CausallyBefore(t, l)'
      <4>1. l \in Ids /\ l \in History(d) /\ Touches(Rec(l), f)
        BY <1>1, <1>2, <1>5, <2>2, <3>4
      <4> QED  BY <1>3, <3>3, <4>1
    <3>5. t \in Tops(d, f)'
      BY <1>1, <3>3, <3>4 DEF Tops, Touches
    <3> QED  BY <3>5
  <2> QED  BY <2>1, <2>2
<1>9. SomeTop'
  <2> SUFFICES ASSUME NEW e \in Devices, NEW f \in Fields,
                      NEW i \in History(e)', Touches(Rec(i)', f)
               PROVE  Tops(e, f)' # {}
    BY DEF SomeTop, Touches
  <2>1. CASE e = d
    BY <1>8, <2>1
  <2>2. CASE e # d
    <3>1. i \in History(e) /\ Touches(Rec(i), f)
      BY <1>1, <1>2, <2>2
    <3> QED  BY <1>4, <2>2, <3>1 DEF SomeTop
  <2> QED  BY <2>1, <2>2
<1> QED  BY <1>4, <1>6, <1>7, <1>9

LEMMA WriteShapes ==
  ASSUME IInv, TypeOK', ShapesFine, NEW d \in Devices, NEW changes \in Seq(Changes),
         NEW resolution \in BOOLEAN, Write(d, changes, resolution),
         \A k \in 1 .. Len(changes) : ~ resolution =>
           /\ changes[k].path = "event" => changes[k].value \in Rows
           /\ changes[k].path = "*" => changes[k].value = Gone
  PROVE  ShapesFine'
<1> SUFFICES ASSUME NEW i \in Ids', ~ Rec(i)'.resolution
             PROVE  /\ Rec(i)'.path = "event" => Rec(i)'.value \in Rows
                    /\ Rec(i)'.path = "*" => Rec(i)'.value = Gone
  BY DEF ShapesFine
<1>1. CASE i \in Ids
  BY <1>1, WriteHistory DEF ShapesFine
<1>2. CASE i \notin Ids
  <2>1. /\ Rec(i)'.resolution = resolution
        /\ \E k \in 1 .. Len(changes) : /\ Rec(i)'.path = changes[k].path
                                        /\ Rec(i)'.value = changes[k].value
    BY <1>2, WriteHistory
  <2> QED  BY <2>1
<1> QED  BY <1>1, <1>2

LEMMA WriteMakes ==
  ASSUME IInv, TypeOK', RowIsMade, NEW d \in Devices, NEW changes \in Seq(Changes),
         NEW resolution \in BOOLEAN, Write(d, changes, resolution),
         \A e \in Devices \ {d} : row'[e] = row[e],
         \/ row'[d] # Gone => row[d] # Gone
         \/ \A f \in Fields : \E k \in 1 .. Len(changes) : Touches(changes[k], f)
  PROVE  RowIsMade'
<1> SUFFICES ASSUME NEW e \in Devices, row'[e] # Gone, NEW f \in Fields
             PROVE  \E i \in History(e)' : Touches(Rec(i)', f)
  BY DEF RowIsMade, Touches
<1>1. /\ \A i \in Ids : Rec(i)' = Rec(i)
      /\ \A o \in Devices \ {d} : History(o)' = History(o)
      /\ History(d) \subseteq History(d)'
      /\ \A i \in Ids' \ Ids : i \in History(d)'
      /\ \A k \in 1 .. Len(changes) : \E i \in Ids' \ Ids :
           Rec(i)'.path = changes[k].path /\ Rec(i)'.value = changes[k].value
  BY WriteHistory
<1>2. CASE row[e] # Gone
  <2>1. PICK i \in History(e) : Touches(Rec(i), f)
    BY <1>2 DEF RowIsMade
  <2>2. i \in Ids /\ i \in History(e)'
    BY <1>1, <2>1 DEF History
  <2> QED  BY <1>1, <2>1, <2>2
<1>3. CASE row[e] = Gone
  <2>1. e = d
    BY <1>3
  <2>2. PICK k \in 1 .. Len(changes) : Touches(changes[k], f)
    BY <1>3, <2>1
  <2>3. PICK i \in Ids' \ Ids : Rec(i)'.path = changes[k].path
    BY <1>1
  <2> QED  BY <1>1, <2>1, <2>2, <2>3 DEF Touches
<1> QED  BY <1>2, <1>3

\* On the devices that do not write, the tops are shown as before.
LEMMA OthersShow ==
  ASSUME IInv, TypeOK', TopsShown, NEW d \in Devices, NEW changes \in Seq(Changes),
         NEW resolution \in BOOLEAN, Write(d, changes, resolution), cuts = 0,
         NEW e \in Devices \ {d}, Tops(e, "title")' = Tops(e, "title"),
         Tops(e, "description")' = Tops(e, "description"),
         row'[e] = row[e], open'[e] = open[e], misfit' = misfit, outlived' = outlived,
         Quiet(e)', NEW f \in Fields, NEW i \in Tops(e, f)'
  PROVE  Says(Rec(i)', f) = Part(row'[e], f)
<1>1. i \in Tops(e, f)
  BY DEF Fields
<1>2. /\ History(e)' = History(e) /\ History(e) \subseteq Ids
      /\ \A j \in Ids : Rec(j)' = Rec(j)
  BY WriteHistory DEF History
<1>3. i \in Ids /\ Rec(i)' = Rec(i)
  BY <1>1, <1>2 DEF Tops
<1>4. Quiet(e)
  BY <1>2 DEF Quiet
<1> QED  BY <1>1, <1>3, <1>4 DEF TopsShown

\* A change says of a field what the row then shows, or the field is as before.
Shows(changes, old, new) ==
  \A f \in Fields :
    /\ \A k \in 1 .. Len(changes) :
         Touches(changes[k], f) => Says(changes[k], f) = Part(new, f)
    /\ \/ \E k \in 1 .. Len(changes) : Touches(changes[k], f)
       \/ Part(new, f) = Part(old, f)

LEMMA WriterShows ==
  ASSUME IInv, TypeOK', OneCountsOther', SomeTop, TopsShown, NEW d \in Devices,
         NEW changes \in Seq(Changes), Write(d, changes, FALSE), cuts = 0,
         OneForEach(changes), Shows(changes, row[d], row'[d]),
         open'[d] = open[d], misfit' = misfit, outlived' = outlived,
         Quiet(d)', NEW f \in Fields, NEW i \in Tops(d, f)'
  PROVE  Says(Rec(i)', f) = Part(row'[d], f)
<1>1. CASE /\ i \in Tops(d, f)
           /\ \A k \in 1 .. Len(changes) : ~ Touches(changes[k], f)
  <2>1. /\ \A j \in Ids : Rec(j)' = Rec(j)
        /\ History(d) \subseteq History(d)' /\ History(d) \subseteq Ids
    BY WriteHistory DEF History
  <2>2. Rec(i)' = Rec(i)
    BY <1>1, <2>1 DEF Tops
  <2>3. Quiet(d)
    BY <2>1 DEF Quiet
  <2>4. Says(Rec(i), f) = Part(row[d], f)
    BY <1>1, <2>3 DEF TopsShown
  <2> QED  BY <1>1, <2>2, <2>4 DEF Shows
<1>2. CASE \E k \in 1 .. Len(changes) :
             /\ Touches(changes[k], f)
             /\ Rec(i)'.path = changes[k].path /\ Rec(i)'.value = changes[k].value
  <2>1. PICK k \in 1 .. Len(changes) :
          /\ Touches(changes[k], f)
          /\ Rec(i)'.path = changes[k].path /\ Rec(i)'.value = changes[k].value
    BY <1>2
  <2>2. Says(changes[k], f) = Part(row'[d], f)
    BY <2>1 DEF Shows
  <2> QED  BY <2>1, <2>2 DEF Says
<1>3. FALSE \in BOOLEAN
  OBVIOUS
<1>4. \A j \in Tops(d, f)' :
        \/ /\ j \in Tops(d, f)
           /\ \A k \in 1 .. Len(changes) : ~ Touches(changes[k], f)
        \/ \E k \in 1 .. Len(changes) :
             /\ Touches(changes[k], f)
             /\ Rec(j)'.path = changes[k].path /\ Rec(j)'.value = changes[k].value
  BY <1>3, WriteTops
<1> QED  BY <1>1, <1>2, <1>4

\* A local change keeps all that DInv adds: the changes say what the row shows,
\* or a crash or a resolution excuses them.
LEMMA WriteKeepsShown ==
  ASSUME DInv, EInv', NEW d \in Devices, NEW changes \in Seq(Changes),
         NEW resolution \in BOOLEAN, Write(d, changes, resolution), OneForEach(changes),
         \A e \in Devices \ {d} : row'[e] = row[e] /\ open'[e] = open[e],
         misfit' = misfit, outlived' = outlived, cuts' = 0 => cuts = 0,
         \A k \in 1 .. Len(changes) : ~ resolution =>
           /\ changes[k].path = "event" => changes[k].value \in Rows
           /\ changes[k].path = "*" => changes[k].value = Gone,
         \/ row'[d] # Gone => row[d] # Gone
         \/ \A f \in Fields : \E k \in 1 .. Len(changes) : Touches(changes[k], f),
         \/ cuts' # 0
         \/ resolution /\ Len(changes) = 1
         \/ ~ resolution /\ open'[d] = open[d] /\ Shows(changes, row[d], row'[d])
  PROVE  DInv'
<1>1. /\ IInv /\ IInv' /\ TypeOK' /\ OneCountsOther' /\ ShapesFine /\ SomeTop /\ RowIsMade
      /\ TopsShown
  BY DEF DInv, EInv, IInv
<1>2. ShapesFine'
  BY <1>1, WriteShapes
<1>3. RowIsMade'
  BY <1>1, WriteMakes
<1>4. SomeTop' /\ \A e \in Devices \ {d} : \A f : Tops(e, f)' = Tops(e, f)
  BY <1>1, WriteTops
<1>5. ASSUME cuts' = 0, NEW e \in Devices, Quiet(e)', NEW f \in Fields, NEW i \in Tops(e, f)'
      PROVE  Says(Rec(i)', f) = Part(row'[e], f)
  <2>1. CASE e # d
    <3>1. cuts = 0 /\ row'[e] = row[e] /\ open'[e] = open[e]
          /\ Tops(e, "title")' = Tops(e, "title")
          /\ Tops(e, "description")' = Tops(e, "description")
      BY <1>4, <1>5, <2>1
    <3> QED  BY <1>1, <1>5, <2>1, <3>1, OthersShow
  <2>2. CASE e = d /\ resolution /\ Len(changes) = 1
    <3>1. 1 \in 1 .. Len(changes)
      BY <2>2
    <3>2. PICK n \in Ids' \ Ids : n \in History(d)' /\ Rec(n)'.resolution = resolution
      BY <1>1, <3>1, WriteHistory
    <3> QED  BY <1>5, <2>2, <3>2 DEF Quiet
  <2>3. CASE /\ e = d /\ ~ resolution /\ open'[d] = open[d]
             /\ Shows(changes, row[d], row'[d])
    <3>1. Write(d, changes, FALSE)
      BY <2>3
    <3>2. cuts = 0 /\ Quiet(d)' /\ i \in Tops(d, f)'
      BY <1>5, <2>3
    <3>3. Says(Rec(i)', f) = Part(row'[d], f)
      BY <1>1, <2>3, <3>1, <3>2, WriterShows
    <3> QED  BY <2>3, <3>3
  <2> QED  BY <1>5, <2>1, <2>2, <2>3
<1>6. TopsShown'
  BY <1>5 DEF TopsShown
<1> QED  BY <1>2, <1>3, <1>4, <1>6 DEF DInv

\* One change is about each field at most once.
LEMMA OneChangeOnly ==
  ASSUME NEW changes, Len(changes) = 1
  PROVE  OneForEach(changes)
BY DEF OneForEach

LEMMA OneOfEachField ==
  ASSUME NEW changes,
         \A k \in 1 .. Len(changes) : changes[k].path \in Fields,
         \A k, m \in 1 .. Len(changes) : changes[k].path = changes[m].path => k = m
  PROVE  OneForEach(changes)
<1> SUFFICES ASSUME NEW f \in Fields, NEW k \in 1 .. Len(changes), NEW m \in 1 .. Len(changes),
                    Touches(changes[k], f), Touches(changes[m], f)
             PROVE  k = m
  BY DEF OneForEach
<1>1. changes[k].path = f /\ changes[m].path = f
  BY DEF Touches, Fields
<1> QED  BY <1>1

LEMMA LocalKeepsShown ==
  ASSUME DInv, NEW d \in Devices,
         Create(d) \/ Update(d) \/ CutUpdate(d) \/ Delete(d) \/ Resolve(d)
  PROVE  DInv'
<1>1. /\ EInv /\ EInv' /\ IInv /\ TypeOK
      /\ row \in [Devices -> Rows \cup {Gone}] /\ open \in [Devices -> [Paths -> SUBSET Ids]]
      /\ cuts \in 0 .. MaxCuts
  BY LocalKeepsEdits DEF DInv, EInv, IInv, TypeOK
<1>2. Gone \notin Rows /\ Gone \notin Texts
  BY ValueAssumption
<1>3. CASE Create(d)
  <2>1. PICK new \in Rows : /\ Write(d, <<Change("event", new)>>, FALSE)
                            /\ row' = [row EXCEPT ![d] = new]
                            /\ UNCHANGED <<open, cuts, misfit, outlived>>
    BY <1>3 DEF Create
  <2>2. PICK changes : changes = <<Change("event", new)>>
    OBVIOUS
  <2>3. /\ changes \in Seq(Changes) /\ Len(changes) = 1
        /\ \A k \in 1 .. Len(changes) : changes[k].path = "event" /\ changes[k].value = new
    BY <2>2, OneChange DEF Paths, Values
  <2>4. Write(d, changes, FALSE)
    BY <2>1, <2>2
  <2>5. row'[d] = new /\ \A e \in Devices \ {d} : row'[e] = row[e]
    BY <1>1, <2>1
  <2>6. \A f \in Fields : \E k \in 1 .. Len(changes) : Touches(changes[k], f)
    BY <2>3 DEF Touches
  <2>7. Shows(changes, row[d], row'[d])
    <3>1. "event" \notin Fields /\ new # Gone
      BY <1>2 DEF Fields
    <3> QED  BY <2>3, <2>5, <2>6, <3>1 DEF Shows, Says
  <2>8. OneForEach(changes)
    BY <2>3, OneChangeOnly
  <2> QED  BY <1>1, <2>1, <2>3, <2>4, <2>5, <2>6, <2>7, <2>8, WriteKeepsShown
<1>4. CASE Delete(d)
  <2>1. /\ Write(d, <<Change("*", Gone)>>, FALSE) /\ row[d] # Gone
        /\ row' = [row EXCEPT ![d] = Gone]
        /\ UNCHANGED <<open, cuts, misfit, outlived>>
    BY <1>4 DEF Delete
  <2>2. PICK changes : changes = <<Change("*", Gone)>>
    OBVIOUS
  <2>3. /\ changes \in Seq(Changes) /\ Len(changes) = 1
        /\ \A k \in 1 .. Len(changes) : changes[k].path = "*" /\ changes[k].value = Gone
    BY <2>2, OneChange DEF Paths, Values
  <2>4. Write(d, changes, FALSE)
    BY <2>1, <2>2
  <2>5. row'[d] = Gone /\ \A e \in Devices \ {d} : row'[e] = row[e]
    BY <1>1, <2>1
  <2>6. \A f \in Fields : \E k \in 1 .. Len(changes) : Touches(changes[k], f)
    BY <2>3 DEF Touches
  <2>7. Shows(changes, row[d], row'[d])
    <3>1. "*" \notin Fields
      BY DEF Fields
    <3> QED  BY <2>3, <2>5, <2>6, <3>1 DEF Shows, Says
  <2>8. OneForEach(changes)
    BY <2>3, OneChangeOnly
  <2> QED  BY <1>1, <2>1, <2>3, <2>4, <2>5, <2>7, <2>8, WriteKeepsShown
<1>5. CASE CutUpdate(d)
  <2>1. PICK new \in Rows : /\ row[d] # Gone
                            /\ Write(d, <<Change("title", new["title"])>>, FALSE)
                            /\ row' = [row EXCEPT ![d] = new]
                            /\ cuts' = cuts + 1
                            /\ UNCHANGED <<open, misfit, outlived>>
    BY <1>5 DEF CutUpdate
  <2>2. PICK changes : changes = <<Change("title", new["title"])>>
    OBVIOUS
  <2>3. /\ changes \in Seq(Changes) /\ Len(changes) = 1
        /\ \A k \in 1 .. Len(changes) : changes[k].path = "title"
    BY <2>2, OneChange DEF Paths, Values, Rows, Fields
  <2>4. Write(d, changes, FALSE)
    BY <2>1, <2>2
  <2>5. cuts' # 0 /\ \A e \in Devices \ {d} : row'[e] = row[e]
    BY <1>1, <2>1, RecordAssumption
  <2>6. OneForEach(changes)
    BY <2>3, OneChangeOnly
  <2> QED  BY <1>1, <2>1, <2>3, <2>4, <2>5, <2>6, WriteKeepsShown
<1>6. CASE Update(d)
  <2>1. PICK new \in Rows : /\ row[d] # Gone
                            /\ Write(d, Groups(d, new), FALSE)
                            /\ row' = [row EXCEPT ![d] = new]
                            /\ UNCHANGED <<open, cuts, misfit, outlived>>
    BY <1>6 DEF Update
  <2>2. PICK changes : changes = Groups(d, new)
    OBVIOUS
  <2>3. /\ changes \in Seq(Changes)
        /\ \A k \in 1 .. Len(changes) :
             changes[k].path \in Fields /\ changes[k].value = new[changes[k].path]
        /\ \A f \in Fields : new[f] # row[d][f] => \E k \in 1 .. Len(changes) : changes[k].path = f
        /\ \A k, m \in 1 .. Len(changes) : changes[k].path = changes[m].path => k = m
    BY <2>2, GroupsCover, GroupsType
  <2>4. Write(d, changes, FALSE)
    BY <2>1, <2>2
  <2>5. row'[d] = new /\ new # Gone /\ \A e \in Devices \ {d} : row'[e] = row[e]
    BY <1>1, <1>2, <2>1
  <2>6. \A k \in 1 .. Len(changes) : \A f : Touches(changes[k], f) <=> changes[k].path = f
    BY <2>3 DEF Touches, Fields
  <2>7. Shows(changes, row[d], row'[d])
    <3> SUFFICES ASSUME NEW f \in Fields
                 PROVE  /\ \A k \in 1 .. Len(changes) :
                             Touches(changes[k], f) => Says(changes[k], f) = Part(new, f)
                        /\ \/ \E k \in 1 .. Len(changes) : Touches(changes[k], f)
                           \/ Part(new, f) = Part(row[d], f)
      BY <2>5 DEF Shows
    <3>1. Part(new, f) = new[f] /\ Part(row[d], f) = row[d][f]
      BY <2>1, <2>5 DEF Part
    <3>2. ASSUME NEW k \in 1 .. Len(changes), Touches(changes[k], f)
          PROVE  Says(changes[k], f) = Part(new, f)
      <4>1. changes[k].path = f /\ changes[k].value = new[f]
        BY <2>3, <2>6, <3>2
      <4> QED  BY <3>1, <4>1 DEF Says
    <3>3. \/ \E k \in 1 .. Len(changes) : Touches(changes[k], f)
          \/ new[f] = row[d][f]
      BY <2>3, <2>6
    <3> QED  BY <3>1, <3>2, <3>3
  <2>8. OneForEach(changes)
    BY <2>3, OneOfEachField
  <2>9. \A k \in 1 .. Len(changes) : changes[k].path # "event" /\ changes[k].path # "*"
    BY <2>3 DEF Fields
  <2> QED  BY <1>1, <2>1, <2>3, <2>4, <2>5, <2>7, <2>8, <2>9, WriteKeepsShown
<1>7. CASE Resolve(d)
  <2>1. PICK path \in Paths :
          /\ \E value \in Choices(d, path) : Write(d, <<Change(path, value)>>, TRUE)
          /\ open' = [open EXCEPT ![d][path] = {}]
          /\ UNCHANGED <<row, cuts, misfit, outlived>>
    BY <1>7 DEF Resolve
  <2>2. PICK value \in Choices(d, path) : Write(d, <<Change(path, value)>>, TRUE)
    BY <2>1
  <2>3. value \in Values
    <3>1. \A i \in open[d][path] : Rec(i).value \in Values
      BY <1>1, RecType
    <3> QED  BY <2>2, <3>1 DEF Choices, LocalParticipant, Values
  <2>4. PICK changes : changes = <<Change(path, value)>>
    OBVIOUS
  <2>5. changes \in Seq(Changes) /\ Len(changes) = 1 /\ OneForEach(changes)
    BY <2>3, <2>4, OneChange, OneChangeOnly
  <2>6. Write(d, changes, TRUE)
    BY <2>2, <2>4
  <2>7. \A e \in Devices \ {d} : row'[e] = row[e] /\ open'[e] = open[e]
    BY <1>1, <2>1
  <2> QED  BY <1>1, <2>1, <2>5, <2>6, <2>7, WriteKeepsShown
<1> QED  BY <1>3, <1>4, <1>5, <1>6, <1>7

-----------------------------------------------------------------------------
(* Arrivals.                                                                *)

\* The value of an ordinary record, by what it is about.
LEMMA Shape ==
  ASSUME EInv, ShapesFine, NEW i \in Ids, ~ Rec(i).resolution, NEW f \in Fields,
         Touches(Rec(i), f)
  PROVE  \/ /\ Rec(i).path = f /\ Rec(i).value \in Texts
            /\ Says(Rec(i), f) = Rec(i).value
         \/ /\ Rec(i).path = "event" /\ Rec(i).value \in Rows /\ Rec(i).value # Gone
            /\ Says(Rec(i), f) = Rec(i).value[f]
         \/ /\ Rec(i).path = "*" /\ Rec(i).value = Gone
            /\ Says(Rec(i), f) = Gone
<1>1. Gone \notin Rows /\ "event" \notin Fields /\ "*" \notin Fields
  BY ValueAssumption DEF Fields
<1>2. CASE Rec(i).path = f
  BY <1>1, <1>2 DEF Says, EInv, EditsAreTexts
<1>3. CASE Rec(i).path = "event"
  BY <1>1, <1>3 DEF Says, Part, ShapesFine
<1>4. CASE Rec(i).path = "*"
  BY <1>1, <1>4 DEF Says, Part, ShapesFine
<1> QED  BY <1>2, <1>3, <1>4 DEF Touches

\* A record that nothing at d follows, and that changes nothing there, says
\* what the row shows.
LEMMA KeptShown ==
  ASSUME EInv, ShapesFine, NEW d \in Devices, NEW x \in Ids, ~ Rec(x).resolution,
         NEW f \in Fields, Touches(Rec(x), f),
         IsNoop(d, x) \/ (IsStale(d, x) /\ ~ Outlives(d, x)),
         \A l \in History(d) : Touches(Rec(l), f) => ~ CausallyBefore(x, l)
  PROVE  Says(Rec(x), f) = Part(row[d], f)
<1>1. /\ row[d] \in Rows \cup {Gone} /\ Gone \notin Rows /\ Gone \notin Texts
      /\ "event" \notin Fields /\ "*" \notin Fields
  BY ValueAssumption DEF EInv, IInv, TypeOK, Fields
<1>2. CASE IsNoop(d, x)
  <2>1. Rec(x).value = LocalValue(d, Rec(x).path)
    BY <1>2 DEF IsNoop
  <2>2. CASE Rec(x).path = f /\ Rec(x).value \in Texts /\ Says(Rec(x), f) = Rec(x).value
    BY <1>1, <2>1, <2>2 DEF LocalValue, Part
  <2>3. CASE /\ Rec(x).path = "event" /\ Rec(x).value # Gone
             /\ Says(Rec(x), f) = Rec(x).value[f]
    BY <1>1, <2>1, <2>3 DEF LocalValue, Part
  <2>4. CASE Rec(x).path = "*" /\ Rec(x).value = Gone /\ Says(Rec(x), f) = Gone
    BY <1>1, <2>1, <2>4 DEF LocalValue, Part
  <2> QED  BY <2>2, <2>3, <2>4, Shape
<1>3. CASE IsStale(d, x) /\ ~ Outlives(d, x)
  <2>1. PICK l \in Locals(d, x) : CausallyBefore(x, l)
    BY <1>3 DEF IsStale
  <2>2. l \in History(d) /\ l \in Ids /\ Rec(l).path \in Paths
    BY RecType DEF Locals, History, EInv, IInv
  <2>3. CASE Rec(x).path # "*"
    BY <2>1, <2>2, <2>3 DEF Locals, Touches
  <2>4. CASE Rec(x).path = "*"
    <3>1. PICK m \in History(d) : CausallyBefore(x, m) /\ Rec(m).path \notin Fields
      BY <1>3, <2>4 DEF Outlives
    <3>2. Rec(m).path \in Paths
      BY <3>1, RecType DEF History, EInv, IInv
    <3> QED  BY <3>1, <3>2 DEF Touches, Paths
  <2> QED  BY <2>3, <2>4
<1> QED  BY <1>2, <1>3

\* A record that is applied, and mismatches nothing, is shown.
LEMMA AppliedShown ==
  ASSUME EInv, ShapesFine, NEW d \in Devices, NEW x \in Ids, ~ Rec(x).resolution,
         NEW f \in Fields, Touches(Rec(x), f), ~ Misfits(d, x)
  PROVE  Says(Rec(x), f) = Part(Mutated(row[d], Rec(x)), f)
<1>1. /\ row[d] \in Rows \cup {Gone} /\ Gone \notin Rows /\ Gone \notin Texts
      /\ Texts \cap Rows = {} /\ "event" \notin Fields /\ "*" \notin Fields
  BY ValueAssumption DEF EInv, IInv, TypeOK, Fields
<1>2. CASE Rec(x).path = f /\ Rec(x).value \in Texts /\ Says(Rec(x), f) = Rec(x).value
  <2>1. row[d] \in Rows /\ row[d] # Gone /\ Rec(x).value # Gone
    BY <1>1, <1>2 DEF Misfits
  <2>2. Mutated(row[d], Rec(x)) = [row[d] EXCEPT ![f] = Rec(x).value]
    BY <1>2, <2>1 DEF Mutated
  <2>3. [row[d] EXCEPT ![f] = Rec(x).value] \in Rows
        /\ [row[d] EXCEPT ![f] = Rec(x).value][f] = Rec(x).value
    BY <1>2, <2>1 DEF Rows
  <2> QED  BY <1>1, <1>2, <2>2, <2>3 DEF Part
<1>3. CASE /\ Rec(x).path = "event" /\ Rec(x).value \in Rows /\ Rec(x).value # Gone
           /\ Says(Rec(x), f) = Rec(x).value[f]
  <2>1. Mutated(row[d], Rec(x)) = Rec(x).value
    BY <1>1, <1>3 DEF Mutated
  <2> QED  BY <1>3, <2>1 DEF Part
<1>4. CASE Rec(x).path = "*" /\ Rec(x).value = Gone /\ Says(Rec(x), f) = Gone
  <2>1. Mutated(row[d], Rec(x)) = Gone
    BY <1>1, <1>4 DEF Mutated
  <2> QED  BY <1>4, <2>1 DEF Part
<1> QED  BY <1>2, <1>3, <1>4, Shape

\* What x is compared with and does not follow says the same as x.
LEMMA BesideAgrees ==
  ASSUME EInv, ShapesFine, NEW d \in Devices, NEW x \in Ids, ~ Rec(x).resolution,
         NEW f \in Fields, Touches(Rec(x), f), ~ Misfits(d, x),
         ~ IsStale(d, x), Conflicting(d, x) = {},
         NEW i \in History(d), i # x, ~ Rec(i).resolution, Touches(Rec(i), f),
         ~ CausallyBefore(i, x)
  PROVE  Says(Rec(i), f) = Says(Rec(x), f)
<1>1. /\ i \in Ids /\ IInv /\ OneCountsOther
      /\ Gone \notin Rows /\ Gone \notin Texts /\ "event" \notin Fields /\ "*" \notin Fields
  BY ValueAssumption DEF EInv, History, Fields
<1>2. i \in Locals(d, x) => Rec(x).value = Rec(i).value
  BY <1>1, ComparedAgree
<1>3. CASE i \in Locals(d, x)
  <2>1. Rec(x).value = Rec(i).value
    BY <1>2, <1>3
  <2>2. Texts \cap Rows = {}
    BY ValueAssumption
  <2>3. \/ Rec(x).path = f /\ Rec(x).value \in Texts /\ Says(Rec(x), f) = Rec(x).value
        \/ Rec(x).value \in Rows /\ Says(Rec(x), f) = Rec(x).value[f]
        \/ Rec(x).value = Gone /\ Says(Rec(x), f) = Gone
    BY Shape
  <2>4. \/ Rec(i).path = f /\ Rec(i).value \in Texts /\ Says(Rec(i), f) = Rec(i).value
        \/ Rec(i).value \in Rows /\ Says(Rec(i), f) = Rec(i).value[f]
        \/ Rec(i).value = Gone /\ Says(Rec(i), f) = Gone
    BY <1>1, Shape
  <2> QED  BY <1>1, <2>1, <2>2, <2>3, <2>4
<1>4. CASE i \notin Locals(d, x)
  <2>1. Rec(x).path # "*" /\ Rec(i).path # "*" /\ Rec(i).path # Rec(x).path
    BY <1>4 DEF Locals
  <2>2. {Rec(x).path, Rec(i).path} = {f, "event"}
    BY <2>1 DEF Touches
  <2>3. Misfits(d, x)
    BY <2>2 DEF Misfits
  <2> QED  BY <2>3
<1> QED  BY <1>3, <1>4

\* A field that x is not about keeps its part of the row.
LEMMA OtherFieldKept ==
  ASSUME EInv, ShapesFine, NEW d \in Devices, NEW x \in Ids, ~ Rec(x).resolution,
         NEW f \in Fields, ~ Touches(Rec(x), f), ~ Misfits(d, x)
  PROVE  Part(Mutated(row[d], Rec(x)), f) = Part(row[d], f)
<1>1. /\ row[d] \in Rows \cup {Gone} /\ Gone \notin Rows /\ Gone \notin Texts
      /\ Rec(x).path \in Paths
  BY ValueAssumption, RecType DEF EInv, IInv, TypeOK
<1>2. Rec(x).path \in Fields /\ Rec(x).path # f
  BY <1>1 DEF Touches, Paths
<1>3. Rec(x).value \in Texts /\ Rec(x).value # Gone
  BY <1>1, <1>2 DEF EInv, EditsAreTexts
<1>4. row[d] \in Rows /\ row[d] # Gone
  BY <1>1, <1>2, <1>3 DEF Misfits
<1>5. Mutated(row[d], Rec(x)) = [row[d] EXCEPT ![Rec(x).path] = Rec(x).value]
  BY <1>2, <1>3, <1>4 DEF Mutated
<1>6. /\ [row[d] EXCEPT ![Rec(x).path] = Rec(x).value] \in Rows
      /\ [row[d] EXCEPT ![Rec(x).path] = Rec(x).value][f] = row[d][f]
  BY <1>2, <1>3, <1>4 DEF Rows
<1> QED  BY <1>1, <1>4, <1>5, <1>6 DEF Part

\* What an arrival leaves on top is shown, where it opens no conflict.
LEMMA ArrivalShows ==
  ASSUME EInv, ShapesFine, TopsShown, cuts = 0, NEW d \in Devices, NEW x \in Ids,
         x \notin History(d), ~ Rec(x).resolution, Quiet(d), NEW f \in Fields,
         \/ KeepRow(d, x) /\ (IsNoop(d, x) \/ ~ Outlives(d, x))
         \/ ApplyToRow(d, x) /\ ~ Misfits(d, x),
         NEW i \in History(d) \cup {x}, Touches(Rec(i), f),
         \A l \in History(d) \cup {x} : Touches(Rec(l), f) => ~ CausallyBefore(i, l)
  PROVE  Says(Rec(i), f) = Part(row'[d], f)
<1>1. ASSUME i # x
      PROVE  /\ i \in Tops(d, f) /\ i \in History(d) /\ ~ Rec(i).resolution
             /\ Says(Rec(i), f) = Part(row[d], f)
  BY <1>1 DEF Tops, TopsShown, Quiet
<1>2. CASE KeepRow(d, x) /\ (IsNoop(d, x) \/ ~ Outlives(d, x))
  <2>1. row' = row /\ (IsNoop(d, x) \/ (IsStale(d, x) /\ ~ Outlives(d, x)))
    <3>1. row' = row /\ (IsNoop(d, x) \/ IsStale(d, x))
      BY <1>2 DEF KeepRow
    <3> QED  BY <1>2, <3>1, Zenon
  <2>2. ASSUME i = x PROVE Says(Rec(i), f) = Part(row[d], f)
    BY <2>1, <2>2, KeptShown
  <2> QED  BY <1>1, <2>1, <2>2
<1>3. CASE ApplyToRow(d, x) /\ ~ Misfits(d, x)
  <2>1. /\ ~ IsStale(d, x) /\ Conflicting(d, x) = {}
        /\ row'[d] = Mutated(row[d], Rec(x))
    <3>1. row \in [Devices -> Rows \cup {Gone}]
      BY DEF EInv, IInv, TypeOK
    <3> QED  BY <1>3, <3>1 DEF ApplyToRow
  <2>2. CASE i = x
    BY <1>3, <2>1, <2>2, AppliedShown
  <2>3. CASE i # x /\ Touches(Rec(x), f)
    <3>1. ~ CausallyBefore(i, x)
      BY <2>3
    <3>2. Says(Rec(i), f) = Says(Rec(x), f)
      BY <1>1, <1>3, <2>1, <2>3, <3>1, BesideAgrees
    <3>3. Says(Rec(x), f) = Part(row'[d], f)
      BY <1>3, <2>1, <2>3, AppliedShown
    <3> QED  BY <3>2, <3>3
  <2>4. CASE i # x /\ ~ Touches(Rec(x), f)
    BY <1>1, <1>3, <2>1, <2>4, OtherFieldKept
  <2> QED  BY <2>2, <2>3, <2>4
<1> QED  BY <1>2, <1>3

\* Of the history with x there is a record that none follows, if there was one.
LEMMA TopAfterArrival ==
  ASSUME TypeOK, SomeTop, NEW d \in Devices, NEW x \in Ids, NEW f \in Fields,
         NEW j \in History(d) \cup {x}, Touches(Rec(j), f)
  PROVE  \E i \in History(d) \cup {x} :
           /\ Touches(Rec(i), f)
           /\ \A l \in History(d) \cup {x} : Touches(Rec(l), f) => ~ CausallyBefore(i, l)
<1>1. History(d) \subseteq Ids
  BY DEF History
<1>2. ASSUME NEW t \in Tops(d, f)
      PROVE  /\ t \in History(d) /\ t \in Ids /\ Touches(Rec(t), f)
             /\ \A l \in History(d) : Touches(Rec(l), f) => ~ CausallyBefore(t, l)
  BY <1>1 DEF Tops
<1>3. CASE ~ Touches(Rec(x), f)
  <2>1. PICK t \in Tops(d, f) : TRUE
    BY <1>3 DEF SomeTop
  <2> QED  BY <1>2, <1>3, <2>1
<1>4. CASE /\ Touches(Rec(x), f)
           /\ \E l \in History(d) : Touches(Rec(l), f) /\ CausallyBefore(x, l)
  <2>1. PICK l \in History(d) : Touches(Rec(l), f) /\ CausallyBefore(x, l)
    BY <1>4
  <2>2. PICK t \in Tops(d, f) : TRUE
    BY <2>1 DEF SomeTop
  <2>3. ~ CausallyBefore(t, x)
    <3>1. l \in Ids /\ t \in Ids
      BY <1>1, <1>2, <2>1
    <3>2. ~ CausallyBefore(t, l)
      BY <1>2, <2>1
    <3> QED  BY <2>1, <3>1, <3>2, BeforeIsTransitive
  <2> QED  BY <1>2, <2>3
<1>5. CASE /\ Touches(Rec(x), f)
           /\ \A l \in History(d) : Touches(Rec(l), f) => ~ CausallyBefore(x, l)
  <2>1. ~ CausallyBefore(x, x)
    BY DEF CausallyBefore
  <2> QED  BY <1>5, <2>1
<1> QED  BY <1>3, <1>4, <1>5

LEMMA DeliverKeepsShown ==
  ASSUME DInv, NEW d \in Devices, NEW p \in Devices, Deliver(d, p)
  PROVE  DInv'
<1>1. /\ EInv /\ EInv' /\ IInv /\ TypeOK /\ ShapesFine /\ SomeTop /\ RowIsMade /\ TopsShown
      /\ row \in [Devices -> Rows \cup {Gone}] /\ open \in [Devices -> [Paths -> SUBSET Ids]]
  BY DeliverKeepsEdits DEF DInv, EInv, IInv, TypeOK
<1>2. PICK x \in Ids :
        /\ log' = log /\ cuts' = cuts
        /\ \A e \in Devices \ {d} : History(e)' = History(e)
        /\ History(d)' = History(d) \cup {x}
        /\ x \notin History(d)
        /\ KeepRow(d, x) \/ ApplyToRow(d, x) \/ RecordConflict(d, x)
  BY <1>1, Arrival
<1>3. /\ Ids' = Ids /\ \A j : Rec(j)' = Rec(j)
      /\ \A j, l : CausallyBefore(j, l)' = CausallyBefore(j, l)
  BY <1>2 DEF Ids, Rec, CausallyBefore, SameOrDescendant
<1>4. \A e \in Devices \ {d} : \A f : Tops(e, f)' = Tops(e, f)
  BY <1>2, <1>3 DEF Tops
<1>5. /\ Rec(x) \in Records /\ Rec(x).path \in Paths
  BY <1>1, RecType
<1>6. ShapesFine'
  BY <1>1, <1>3 DEF ShapesFine
<1>7. SomeTop'
  <2> SUFFICES ASSUME NEW e \in Devices, NEW f \in Fields,
                      NEW j \in History(e)', Touches(Rec(j), f)
               PROVE  Tops(e, f)' # {}
    BY <1>3 DEF SomeTop
  <2>1. CASE e # d
    BY <1>1, <1>2, <1>4, <2>1 DEF SomeTop
  <2>2. CASE e = d
    <3>1. PICK i \in History(d) \cup {x} :
            /\ Touches(Rec(i), f)
            /\ \A l \in History(d) \cup {x} : Touches(Rec(l), f) => ~ CausallyBefore(i, l)
      BY <1>1, <1>2, <2>2, TopAfterArrival
    <3>2. i \in Tops(d, f)'
      BY <1>2, <1>3, <3>1 DEF Tops
    <3> QED  BY <2>2, <3>2
  <2> QED  BY <2>1, <2>2
<1>8. /\ \A e \in Devices \ {d} : row'[e] = row[e] /\ open'[e] = open[e]
      /\ row'[d] = row[d] \/ (ApplyToRow(d, x) /\ row'[d] = Mutated(row[d], Rec(x)))
  <2>1. CASE KeepRow(d, x)
    <3>1. row' = row /\ open' = open
      BY <2>1 DEF KeepRow
    <3> QED  BY <3>1
  <2>2. CASE ApplyToRow(d, x)
    BY <1>1, <2>2 DEF ApplyToRow
  <2>3. CASE RecordConflict(d, x)
    <3>1. row' = row
          /\ open' = [open EXCEPT ![d][Rec(x).path] = @ \cup Conflicting(d, x) \cup {x}]
      BY <2>3 DEF RecordConflict
    <3>2. \A e \in Devices \ {d} : open'[e] = open[e]
      BY <1>1, <3>1
    <3> QED  BY <3>1, <3>2
  <2> QED  BY <1>2, <2>1, <2>2, <2>3
<1>9. RowIsMade'
  <2> SUFFICES ASSUME NEW e \in Devices, row'[e] # Gone, NEW f \in Fields
               PROVE  \E i \in History(e)' : Touches(Rec(i), f)
    BY <1>3 DEF RowIsMade
  <2>1. CASE row[e] # Gone
    <3>1. PICK i \in History(e) : Touches(Rec(i), f)
      BY <1>1, <2>1 DEF RowIsMade
    <3> QED  BY <1>2, <3>1
  <2>2. CASE row[e] = Gone
    <3>1. e = d /\ Mutated(Gone, Rec(x)) # Gone
      BY <1>8, <2>2
    <3>2. Rec(x).path \notin Fields
      BY <3>1 DEF Mutated
    <3>3. Touches(Rec(x), f)
      BY <1>5, <3>2 DEF Touches, Paths
    <3> QED  BY <1>2, <3>1, <3>3
  <2> QED  BY <2>1, <2>2
<1>10. TopsShown'
  <2> SUFFICES ASSUME cuts' = 0, NEW e \in Devices, Quiet(e)', NEW f \in Fields,
                      NEW i \in Tops(e, f)'
               PROVE  Says(Rec(i), f) = Part(row'[e], f)
    BY <1>3 DEF TopsShown
  <2>1. /\ misfit \subseteq misfit' /\ outlived \subseteq outlived'
        /\ \A path \in Paths : open[d][path] \subseteq open'[d][path]
        /\ KeepRow(d, x) /\ ~ IsNoop(d, x) /\ Outlives(d, x) => d \in outlived'
        /\ ApplyToRow(d, x) /\ Misfits(d, x) => d \in misfit'
        /\ RecordConflict(d, x) => x \in open'[d][Rec(x).path]
    <3>1. CASE KeepRow(d, x)
      <4>1. ~ ApplyToRow(d, x) /\ ~ RecordConflict(d, x)
        BY <3>1 DEF KeepRow, ApplyToRow, RecordConflict
      <4> QED  BY <3>1, <4>1 DEF KeepRow
    <3>2. CASE ApplyToRow(d, x)
      <4>1. ~ KeepRow(d, x) /\ ~ RecordConflict(d, x)
        BY <3>2 DEF KeepRow, ApplyToRow, RecordConflict
      <4> QED  BY <3>2, <4>1 DEF ApplyToRow
    <3>3. CASE RecordConflict(d, x)
      <4>1. ~ KeepRow(d, x) /\ ~ ApplyToRow(d, x)
        BY <3>3 DEF KeepRow, ApplyToRow, RecordConflict
      <4>2. /\ misfit' = misfit /\ outlived' = outlived
            /\ open' = [open EXCEPT ![d][Rec(x).path] = @ \cup Conflicting(d, x) \cup {x}]
        BY <3>3 DEF RecordConflict
      <4>3. /\ x \in open'[d][Rec(x).path]
            /\ \A path \in Paths : open[d][path] \subseteq open'[d][path]
        BY <1>1, <1>5, <4>2
      <4> QED  BY <4>1, <4>2, <4>3
    <3> QED  BY <1>2, <3>1, <3>2, <3>3
  <2>2. CASE e # d
    <3>1. Quiet(e) /\ i \in Tops(e, f)
      BY <1>2, <1>3, <1>4, <1>8, <2>1, <2>2 DEF Quiet
    <3>2. cuts = 0 /\ row'[e] = row[e]
      BY <1>2, <1>8, <2>2
    <3> QED  BY <1>1, <3>1, <3>2 DEF TopsShown
  <2>3. CASE e = d
    <3>1. Quiet(d) /\ ~ Rec(x).resolution
      BY <1>2, <1>3, <2>1, <2>3 DEF Quiet
    <3>2. \/ KeepRow(d, x) /\ (IsNoop(d, x) \/ ~ Outlives(d, x))
          \/ ApplyToRow(d, x) /\ ~ Misfits(d, x)
      BY <1>2, <1>5, <2>1, <2>3 DEF Quiet
    <3>3. /\ i \in History(d) \cup {x} /\ Touches(Rec(i), f)
          /\ \A l \in History(d) \cup {x} : Touches(Rec(l), f) => ~ CausallyBefore(i, l)
      BY <1>2, <1>3, <2>3 DEF Tops
    <3>4. cuts = 0
      BY <1>2
    <3>5. Says(Rec(i), f) = Part(row'[d], f)
      BY <1>1, <1>2, <3>1, <3>2, <3>3, <3>4, ArrivalShows
    <3> QED  BY <2>3, <3>5
  <2> QED  BY <2>2, <2>3
<1> QED  BY <1>1, <1>6, <1>7, <1>9, <1>10 DEF DInv

-----------------------------------------------------------------------------

LEMMA ShownInvariance == Spec => []DInv
<1>1. Init => ShapesFine /\ SomeTop /\ RowIsMade /\ TopsShown
  <2> SUFFICES ASSUME Init PROVE ShapesFine /\ SomeTop /\ RowIsMade /\ TopsShown
    OBVIOUS
  <2>1. \A q \in Devices : log[q] = <<>> /\ DOMAIN log[q] = {}
    BY DEF Init
  <2>2. Ids = {}
    BY <2>1 DEF Ids
  <2>3. \A d \in Devices : History(d) = {} /\ row[d] = Gone /\ \A f : Tops(d, f) = {}
    BY <2>2 DEF Tops, History, Init
  <2> QED  BY <2>2, <2>3 DEF ShapesFine, SomeTop, RowIsMade, TopsShown
<1>2. EInv /\ EInv' /\ DInv /\ [Next]_vars => DInv'
  <2> SUFFICES ASSUME EInv', DInv, [Next]_vars PROVE DInv'
    OBVIOUS
  <2>1. CASE Next
    BY <2>1, LocalKeepsShown, DeliverKeepsShown DEF Next
  <2>2. CASE UNCHANGED vars
    <3>1. log' = log /\ applied' = applied /\ row' = row /\ open' = open
          /\ cuts' = cuts /\ misfit' = misfit /\ outlived' = outlived
      BY <2>2 DEF vars
    <3>2. /\ \A d : History(d)' = History(d)
          /\ \A i : Rec(i)' = Rec(i) /\ Ids' = Ids
          /\ \A d, f : Tops(d, f)' = Tops(d, f)
          /\ \A d : Quiet(d)' = Quiet(d)
      BY <3>1 DEF Tops, Quiet, History, Ids, Rec, CausallyBefore, SameOrDescendant
    <3>3. ShapesFine' /\ SomeTop' /\ RowIsMade' /\ TopsShown'
      BY <3>1, <3>2 DEF DInv, ShapesFine, SomeTop, RowIsMade, TopsShown
    <3> QED  BY <3>3 DEF DInv
  <2> QED  BY <2>1, <2>2
<1>3. EInv /\ ShapesFine /\ SomeTop /\ RowIsMade /\ TopsShown => DInv
  BY DEF DInv
<1>4. DInv => EInv
  BY DEF DInv
<1> QED  BY <1>1, <1>2, <1>3, <1>4, EditsInvariance, PTL DEF Spec

\* Two quiet devices with one history show the same event: a record that none
\* follows is there for both, and both show it.
LEMMA SameHistorySameRow ==
  ASSUME DInv, cuts = 0, NEW d \in Devices, NEW e \in Devices, Quiet(d), Quiet(e),
         History(d) = History(e), row[d] # Gone
  PROVE  row[d] = row[e]
<1>1. ASSUME NEW f \in Fields PROVE Part(row[d], f) = Part(row[e], f)
  <2>1. PICK t \in Tops(d, f) : TRUE
    BY DEF DInv, SomeTop, RowIsMade
  <2>2. t \in Tops(e, f)
    BY <2>1 DEF Tops
  <2> QED  BY <2>1, <2>2 DEF DInv, TopsShown
<1>2. /\ row[d] \in Rows /\ row[e] \in Rows \cup {Gone} /\ Gone \notin Texts
  BY ValueAssumption DEF DInv, EInv, IInv, TypeOK
<1>3. row[e] # Gone
  <2>1. "title" \in Fields /\ row[d]["title"] \in Texts
    BY <1>2 DEF Rows, Fields
  <2> QED  BY <1>1, <1>2, <2>1 DEF Part
<1>4. \A f \in Fields : row[d][f] = row[e][f]
  BY <1>1, <1>3 DEF Part
<1> QED  BY <1>2, <1>3, <1>4 DEF Rows

\* However the records came to them, devices with the same history show the
\* same event or have a conflict open that tells of it, unless detection put an
\* edit beside a creation or ignored a deletion (conflict_detection.ts detect).
THEOREM DivergenceShows == Spec => []DivergenceIsVisible
<1>1. DInv => DivergenceIsVisible
  <2> SUFFICES ASSUME DInv, cuts = 0, NEW d \in Devices \ (misfit \cup outlived),
                      NEW e \in Devices \ (misfit \cup outlived),
                      applied[d] = applied[e], \A i \in History(d) : ~ Rec(i).resolution,
                      row[d] # row[e],
                      \A path \in Paths : open[d][path] \cup open[e][path] = {}
               PROVE  FALSE
    BY DEF DivergenceIsVisible
  <2>1. History(d) = History(e)
    BY DEF History
  <2>2. Quiet(d) /\ Quiet(e)
    BY <2>1 DEF Quiet
  <2>3. row[d] # Gone \/ row[e] # Gone
    OBVIOUS
  <2> QED  BY <2>1, <2>2, <2>3, SameHistorySameRow
<1> QED  BY <1>1, ShownInvariance, PTL
=============================================================================
