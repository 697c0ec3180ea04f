--------------------------- MODULE FullState_proofs ---------------------------
(***************************************************************************)
(* Proofs about snapshots and swept history, for any number of devices,    *)
(* events, records, sweeps and snapshots, cut or not: the version of an    *)
(* event covers its row, a snapshot replaces nothing that its clock does   *)
(* not cover, an open conflict keeps its sides and its row.  Of snapshots  *)
(* of one message, graves apart: they are adopted, and no event vanishes.  *)
(***************************************************************************)
EXTENDS FullState, FiniteSetTheorems, SequenceTheorems, TLAPS

-----------------------------------------------------------------------------
(* The inductive invariant.                                                *)

\* A record's own entry is its position, and its clock counts no record that
\* is not written; times are no later than the number of records.
RecordsAccurate ==
  \A p \in Devices : \A n \in 1 .. Len(log[p]) :
    /\ log[p][n].clock[p] = n
    /\ \A q \in Devices : log[p][n].clock[q] <= Len(log[q])
    /\ log[p][n].hlc <= Cardinality(Ids)

\* The sides of an unresolved conflict are in the history.
OpenIsKept == \A d \in Devices, e \in Events : open[d][e] \subseteq kept[d]

\* A message claims nothing that was not written, and the version of each of
\* its entries covers the entry's row.
ChunkFine(c) ==
  /\ \A p \in Devices : c.clock[p] <= Len(log[p])
  /\ \A k \in DOMAIN c.entries :
       LET x == c.entries[k]
       IN  /\ x.row \in Ids
           /\ x.latest \in Ids \cup {Gone}
           /\ x.event \notin lost => x.version[x.row[1]] >= x.row[2]
           /\ x.row = c.rows[x.event]

ChunksFine ==
  \A d \in Devices : \A j \in 1 .. Len(incoming[d]) : ChunkFine(incoming[d][j])

IInv == TypeOK /\ RecordsAccurate /\ OpenIsKept /\ ChunksFine /\ VersionCoversRow

\* The types by what they are about.
LogsTyped ==
  /\ log \in [Devices -> Seq(Records)]
  /\ applied \in [Devices -> Clocks]
  /\ clock \in [Devices -> Clocks]
  /\ \A d, p \in Devices : applied[d][p] <= clock[d][p] /\ clock[d][p] <= Len(log[p])

TablesTyped ==
  /\ kept \in [Devices -> SUBSET Ids]
  /\ row \in [Devices -> [Events -> Ids \cup {Gone}]]
  /\ version \in [Devices -> [Events -> Clocks \cup {Unversioned}]]
  /\ latest \in [Devices -> [Events -> [id : Ids \cup {Gone}, hlc : Nat] \cup {Unversioned}]]
  /\ open \in [Devices -> [Events -> SUBSET Ids]]

RestTyped ==
  /\ tombs \in [Devices -> SUBSET (Events \X ((Devices \X Nat) \cup {Gone}))]
  /\ incoming \in [Devices -> Seq(Chunk)]
  /\ built \in 0 .. MaxSnapshots
  /\ swept \in 0 .. MaxSweeps
  /\ cuts \in 0 .. MaxCuts
  /\ honest \in BOOLEAN
  /\ migrated \in 0 .. MaxRecords /\ lost \subseteq Events
  /\ early \subseteq Events

LEMMA TypesSplit == TypeOK <=> LogsTyped /\ TablesTyped /\ RestTyped
BY DEF TypeOK, LogsTyped, TablesTyped, RestTyped

LEMMA TypesJoin == LogsTyped' /\ TablesTyped' /\ RestTyped' => TypeOK'
BY DEF TypeOK, LogsTyped, TablesTyped, RestTyped

-----------------------------------------------------------------------------
(* The greatest of a bounded set of numbers.                               *)

Below == {nm \in Nat \X Nat : nm[1] < nm[2]}

LEMMA BelowIsWellFounded == IsWellFoundedOn(Below, Nat)
BY NatLessThanWellFounded DEF OpToRel, Below

LEMMA GreatestExists ==
  ASSUME NEW T \in SUBSET Nat, T # {}, NEW n \in Nat, \A x \in T : x <= n
  PROVE  \E x \in T : \A y \in T : y <= x
<1> DEFINE Left == {n - x : x \in T}
<1>1. Left \in SUBSET Nat /\ Left # {}
  <2>1. \A x \in T : n - x \in Nat
    OBVIOUS
  <2> QED
    BY <2>1
<1>2. PICK m \in Left : \A k \in Left : <<k, m>> \notin Below
  <2> HIDE DEF Left
  <2> QED
    BY <1>1, BelowIsWellFounded, WFMin
<1>3. PICK x \in T : m = n - x
  BY <1>2
<1>4. ASSUME NEW y \in T PROVE y <= x
  <2>1. n - y \in Left /\ n - y \in Nat /\ n - x \in Nat
    BY <1>1
  <2>2. ~ (n - y < n - x)
    BY <1>2, <1>3, <2>1 DEF Below
  <2> QED
    BY <2>2
<1> QED
  BY <1>4

LEMMA MaxIsElement ==
  ASSUME NEW T \in SUBSET Nat, T # {}, NEW n \in Nat, \A x \in T : x <= n
  PROVE  Max(T) \in T
<1>1. PICK x \in T : \A y \in T : y <= x
  BY GreatestExists
<1>2. \A y \in T : x >= y
  BY <1>1
<1> QED
  BY <1>2 DEF Max

-----------------------------------------------------------------------------
(* Records and their positions.                                            *)

\* An identifier is a device and a position in its log.
LEMMA Positions ==
  ASSUME NEW logs \in [Devices -> Seq(Records)]
  PROVE  \A i : i \in UNION {{p} \X DOMAIN logs[p] : p \in Devices} <=>
           /\ i = <<i[1], i[2]>>
           /\ i[1] \in Devices
           /\ i[2] \in 1 .. Len(logs[i[1]])
<1> DEFINE ids == UNION {{p} \X DOMAIN logs[p] : p \in Devices}
<1>1. \A p \in Devices : DOMAIN logs[p] = 1 .. Len(logs[p])
  OBVIOUS
<1>2. ASSUME NEW i \in ids
      PROVE  i = <<i[1], i[2]>> /\ i[1] \in Devices /\ i[2] \in 1 .. Len(logs[i[1]])
  <2>1. PICK p \in Devices : i \in {p} \X DOMAIN logs[p]
    OBVIOUS
  <2>2. PICK s \in DOMAIN logs[p] : i = <<p, s>>
    BY <2>1
  <2> QED
    BY <1>1, <2>2
<1>3. ASSUME NEW i, i = <<i[1], i[2]>>, i[1] \in Devices, i[2] \in 1 .. Len(logs[i[1]])
      PROVE  i \in ids
  <2>1. i \in {i[1]} \X DOMAIN logs[i[1]]
    BY <1>1, <1>3
  <2> QED
    BY <1>3, <2>1
<1> QED
  BY <1>2, <1>3

LEMMA LogLengths ==
  ASSUME LogsTyped
  PROVE  \A p \in Devices : Len(log[p]) \in Nat /\ DOMAIN log[p] = 1 .. Len(log[p])
BY DEF LogsTyped

LEMMA IdIsPair ==
  ASSUME LogsTyped, NEW i \in Ids
  PROVE  /\ i = <<i[1], i[2]>>
         /\ i[1] \in Devices
         /\ i[2] \in 1 .. Len(log[i[1]])
         /\ i[2] \in Nat
         /\ i \in Devices \X Nat
<1>1. log \in [Devices -> Seq(Records)]
  BY DEF LogsTyped
<1>2. /\ i = <<i[1], i[2]>>
      /\ i[1] \in Devices
      /\ i[2] \in 1 .. Len(log[i[1]])
  BY <1>1, Positions DEF Ids
<1>3. Len(log[i[1]]) \in Nat
  BY <1>2, LogLengths
<1>4. i[2] \in Nat
  BY <1>2, <1>3
<1> QED
  BY <1>2, <1>4

LEMMA PairIsId ==
  ASSUME LogsTyped, NEW p \in Devices, NEW n \in 1 .. Len(log[p])
  PROVE  <<p, n>> \in Ids
<1>1. log \in [Devices -> Seq(Records)]
  BY DEF LogsTyped
<1> QED
  BY <1>1, Positions DEF Ids

\* A record has the type of records, and what RecordsAccurate says.
LEMMA RecType ==
  ASSUME LogsTyped, NEW i \in Ids
  PROVE  /\ Rec(i) \in Records
         /\ Rec(i).event \in Events
         /\ Rec(i).kind \in Kinds
         /\ Rec(i).clock \in Clocks
         /\ Rec(i).hlc \in Nat
<1>1. i[1] \in Devices /\ i[2] \in 1 .. Len(log[i[1]])
  BY IdIsPair
<1>2. log[i[1]] \in Seq(Records)
  BY <1>1 DEF LogsTyped
<1>3. log[i[1]][i[2]] \in Records
  BY <1>1, <1>2
<1> QED
  BY <1>3 DEF Rec, Records

LEMMA RecFacts ==
  ASSUME LogsTyped, RecordsAccurate, NEW i \in Ids
  PROVE  /\ Rec(i).clock[i[1]] = i[2]
         /\ \A q \in Devices : Rec(i).clock[q] <= Len(log[q])
         /\ Rec(i).hlc <= Cardinality(Ids)
BY IdIsPair DEF RecordsAccurate, Rec

LEMMA IdsAreFinite ==
  ASSUME LogsTyped
  PROVE  IsFiniteSet(Ids) /\ Cardinality(Ids) \in Nat
<1> DEFINE Pairs(p) == {p} \X DOMAIN log[p]
           AllPairs == {Pairs(p) : p \in Devices}
           f == [p \in Devices |-> Pairs(p)]
<1>1. IsFiniteSet(AllPairs)
  <2>1. f \in Surjection(Devices, AllPairs)
    BY DEF Surjection
  <2>2. IsFiniteSet(Devices)
    BY DevicesAssumption
  <2> HIDE DEF f, AllPairs
  <2> QED
    BY <2>1, <2>2, FS_Surjection
<1>2. ASSUME NEW p \in Devices
      PROVE  IsFiniteSet(Pairs(p))
  <2>1. DOMAIN log[p] = 1 .. Len(log[p]) /\ Len(log[p]) \in Nat
    BY LogLengths
  <2>2. IsFiniteSet(1 .. Len(log[p]))
    BY <2>1, FS_Interval
  <2>3. IsFiniteSet({p})
    BY FS_Singleton
  <2> QED
    BY <2>1, <2>2, <2>3, FS_Product
<1>3. \A T \in AllPairs : IsFiniteSet(T)
  BY <1>2
<1>4. Ids = UNION AllPairs
  BY DEF Ids
<1>5. IsFiniteSet(UNION AllPairs)
  <2> HIDE DEF AllPairs
  <2> QED
    BY <1>1, <1>3, FS_UNION
<1> QED
  BY <1>4, <1>5, FS_CardinalityType

-----------------------------------------------------------------------------
(* Versions and clocks.                                                    *)

LEMMA MergeIsUpper ==
  ASSUME NEW a \in Clocks, NEW b \in Clocks
  PROVE  /\ Merge(a, b) \in Clocks
         /\ \A p \in Devices : /\ Merge(a, b)[p] >= a[p]
                               /\ Merge(a, b)[p] >= b[p]
                               /\ Merge(a, b)[p] \in {a[p], b[p]}
<1>1. ASSUME NEW p \in Devices
      PROVE  /\ Merge(a, b)[p] \in Nat
             /\ Merge(a, b)[p] >= a[p] /\ Merge(a, b)[p] >= b[p]
             /\ Merge(a, b)[p] \in {a[p], b[p]}
  <2>1. a[p] \in Nat /\ b[p] \in Nat
    BY DEF Clocks
  <2>2. Merge(a, b)[p] = IF b[p] > a[p] THEN b[p] ELSE a[p]
    BY DEF Merge
  <2> QED
    BY <2>1, <2>2
<1>2. Merge(a, b) = [p \in Devices |-> Merge(a, b)[p]]
  BY DEF Merge
<1>3. Merge(a, b) \in Clocks
  BY <1>1, <1>2 DEF Clocks
<1> QED
  BY <1>1, <1>3

LEMMA HistoryVersionType ==
  ASSUME LogsTyped, TablesTyped, RecordsAccurate, NEW d \in Devices, NEW e \in Events
  PROVE  VersionOfHistory(d, e) \in Clocks
<1> DEFINE left == {i \in kept[d] : Rec(i).event = e}
           Entries(p) == {0} \cup {Rec(i).clock[p] : i \in left}
<1>1. left \subseteq Ids
  BY DEF TablesTyped
<1>2. ASSUME NEW p \in Devices
      PROVE  Max(Entries(p)) \in Nat
  <2>1. Len(log[p]) \in Nat
    BY LogLengths
  <2>2. ASSUME NEW i \in left
        PROVE  Rec(i).clock[p] \in Nat /\ Rec(i).clock[p] <= Len(log[p])
    <3>1. i \in Ids
      BY <1>1
    <3>2. Rec(i).clock \in Clocks /\ Rec(i).clock[p] <= Len(log[p])
      BY <3>1, RecType, RecFacts
    <3> QED
      BY <3>2 DEF Clocks
  <2>3. Entries(p) \in SUBSET Nat /\ Entries(p) # {}
    BY <2>2
  <2>4. \A x \in Entries(p) : x <= Len(log[p])
    BY <2>1, <2>2
  <2> HIDE DEF Entries
  <2>5. Max(Entries(p)) \in Entries(p)
    BY <2>1, <2>3, <2>4, MaxIsElement
  <2> QED
    BY <2>3, <2>5
<1> QED
  BY <1>2 DEF VersionOfHistory, Clocks

LEMMA LocalVersionType ==
  ASSUME LogsTyped, TablesTyped, RecordsAccurate, NEW d \in Devices, NEW e \in Events
  PROVE  /\ LocalVersion(d, e) \in Clocks
         /\ version[d][e] # Unversioned => LocalVersion(d, e) = version[d][e]
<1>1. CASE version[d][e] # Unversioned
  BY <1>1 DEF TablesTyped, LocalVersion
<1>2. CASE version[d][e] = Unversioned
  <2>1. LocalVersion(d, e) = VersionOfHistory(d, e)
    BY <1>2 DEF LocalVersion, VersionOfHistory
  <2> QED
    BY <1>2, <2>1, HistoryVersionType
<1> QED
  BY <1>1, <1>2

\* Of some records of the history one is the newest.
LEMMA NewestExists ==
  ASSUME LogsTyped, RecordsAccurate, NEW left \in SUBSET Ids, left # {}
  PROVE  (CHOOSE i \in left : \A j \in left : Rec(j).hlc <= Rec(i).hlc) \in left
<1> DEFINE Times == {Rec(i).hlc : i \in left}
<1>1. Cardinality(Ids) \in Nat
  BY IdsAreFinite
<1>2. \A i \in left : Rec(i).hlc \in Nat /\ Rec(i).hlc <= Cardinality(Ids)
  BY RecType, RecFacts
<1>3. Times \in SUBSET Nat /\ Times # {} /\ \A t \in Times : t <= Cardinality(Ids)
  BY <1>2
<1>4. PICK t \in Times : \A u \in Times : u <= t
  <2> HIDE DEF Times
  <2> QED
    BY <1>1, <1>3, GreatestExists
<1>5. PICK i \in left : t = Rec(i).hlc
  BY <1>4
<1>6. \A j \in left : Rec(j).hlc <= Rec(i).hlc
  BY <1>4, <1>5
<1> QED
  BY <1>6

LEMMA LatestProducerType ==
  ASSUME LogsTyped, TablesTyped, RecordsAccurate, NEW d \in Devices, NEW e \in Events
  PROVE  LatestProducer(d, e) \in Ids \cup {Gone}
<1> DEFINE left == {i \in kept[d] : Rec(i).event = e}
<1>1. left \in SUBSET Ids
  BY DEF TablesTyped
<1>2. CASE latest[d][e] # Unversioned
  <2>1. latest[d][e] \in [id : Ids \cup {Gone}, hlc : Nat]
    BY <1>2 DEF TablesTyped
  <2>2. LatestProducer(d, e) = latest[d][e].id
    BY <1>2 DEF LatestProducer
  <2> QED
    BY <2>1, <2>2
<1>3. CASE latest[d][e] = Unversioned /\ left # {}
  <2> DEFINE newest == CHOOSE i \in left : \A j \in left : Rec(j).hlc <= Rec(i).hlc
  <2>1. newest \in left
    <3> HIDE DEF left
    <3> QED
      BY <1>1, <1>3, NewestExists
  <2>2. LatestProducer(d, e) = newest
    BY <1>3 DEF LatestProducer
  <2> QED
    BY <1>1, <2>1, <2>2
<1>4. CASE latest[d][e] = Unversioned /\ left = {}
  BY <1>4 DEF LatestProducer
<1> QED
  BY <1>2, <1>3, <1>4

-----------------------------------------------------------------------------
(* Steps that write no record.                                             *)

\* A change of the tables that leaves the logs leaves the records as they are.
LEMMA LogsKept ==
  ASSUME IInv, log' = log
  PROVE  /\ Ids' = Ids
         /\ RecordsAccurate'
         /\ \A i : Rec(i)' = Rec(i)
<1>1. Ids' = Ids
  BY DEF Ids
<1>2. RecordsAccurate'
  BY <1>1 DEF IInv, RecordsAccurate
<1> QED
  BY <1>1, <1>2 DEF Rec

\* A message stays fine when records are written and versions are lost.
LEMMA ChunkStaysFine ==
  ASSUME NEW c \in Chunk, ChunkFine(c), LogsTyped, LogsTyped',
         \A p \in Devices : Len(log[p]) <= Len(log'[p]),
         Ids \subseteq Ids', lost \subseteq lost'
  PROVE  ChunkFine(c)'
<1>1. ASSUME NEW p \in Devices PROVE c.clock[p] <= Len(log'[p])
  <2>1. /\ c.clock[p] \in Nat /\ c.clock[p] <= Len(log[p])
        /\ Len(log[p]) <= Len(log'[p])
    BY DEF ChunkFine, Chunk, Clocks
  <2>2. Len(log[p]) \in Nat
    BY LogLengths
  <2>3. Len(log'[p]) \in Nat
    BY DEF LogsTyped
  <2> QED
    BY <2>1, <2>2, <2>3
<1>2. ASSUME NEW k \in DOMAIN c.entries
      PROVE  LET x == c.entries[k]
             IN  /\ x.row \in Ids'
                 /\ x.latest \in Ids' \cup {Gone}
                 /\ x.event \notin lost' => x.version[x.row[1]] >= x.row[2]
                 /\ x.row = c.rows[x.event]
  BY DEF ChunkFine
<1> QED
  BY <1>1, <1>2 DEF ChunkFine

LEMMA ChunksStayFine ==
  ASSUME LogsTyped, LogsTyped',
         \A p \in Devices : Len(log[p]) <= Len(log'[p]),
         Ids \subseteq Ids', lost \subseteq lost',
         \A b \in Devices : \A j \in 1 .. Len(incoming'[b]) :
           incoming'[b][j] \in Chunk /\ ChunkFine(incoming'[b][j])
  PROVE  ChunksFine'
<1>1. ASSUME NEW c \in Chunk, ChunkFine(c) PROVE ChunkFine(c)'
  BY <1>1, ChunkStaysFine
<1>2. ASSUME NEW b \in Devices, NEW j \in 1 .. Len(incoming'[b])
      PROVE  ChunkFine(incoming[b][j])'
  <2>1. PICK c : c = incoming'[b][j]
    OBVIOUS
  <2>2. ChunkFine(c)'
    BY <1>1, <2>1
  <2> QED
    BY <2>1, <2>2 DEF ChunkFine
<1> QED
  BY <1>2 DEF ChunksFine

\* The messages on their way, one by one.
LEMMA ComingFine ==
  ASSUME RestTyped, ChunksFine, NEW b \in Devices, NEW j \in 1 .. Len(incoming[b])
  PROVE  incoming[b][j] \in Chunk /\ ChunkFine(incoming[b][j])
<1>1. incoming[b] \in Seq(Chunk)
  BY DEF RestTyped
<1> QED
  BY <1>1 DEF ChunksFine

-----------------------------------------------------------------------------
(* Local changes.                                                          *)

\* A new record of d is one more record, at the end of its log.
LEMMA WriteGrows ==
  ASSUME LogsTyped, NEW d \in Devices, NEW e \in Events, NEW kind \in Kinds,
         Write(d, e, kind)
  PROVE  LET n == Len(log[d]) + 1
         IN  /\ n \in Nat
             /\ log' \in [Devices -> Seq(Records)]
             /\ Len(log'[d]) = n
             /\ \A p \in Devices \ {d} : log'[p] = log[p]
             /\ \A p \in Devices : /\ Len(log'[p]) \in Nat
                                   /\ Len(log[p]) <= Len(log'[p])
             /\ \A p \in Devices : \A s \in 1 .. Len(log[p]) : log'[p][s] = log[p][s]
             /\ log'[d][n] = [event |-> e, kind |-> kind,
                              clock |-> [clock[d] EXCEPT ![d] = n],
                              hlc |-> Cardinality(Ids) + 1]
             /\ [clock[d] EXCEPT ![d] = n] \in Clocks
<1> DEFINE n == Len(log[d]) + 1
           c == [clock[d] EXCEPT ![d] = n]
           r == [event |-> e, kind |-> kind, clock |-> c, hlc |-> Cardinality(Ids) + 1]
<1>1. /\ log[d] \in Seq(Records) /\ Len(log[d]) \in Nat
      /\ log \in [Devices -> Seq(Records)]
      /\ clock[d] \in Clocks
  BY LogLengths DEF LogsTyped
<1>2. n \in Nat /\ c \in Clocks
  BY <1>1 DEF Clocks
<1>3. r \in Records
  BY <1>2, IdsAreFinite DEF Records
<1>4. log' = [log EXCEPT ![d] = Append(@, r)]
  BY DEF Write
<1> HIDE DEF r, n
<1>5. /\ log'[d] = Append(log[d], r)
      /\ \A p \in Devices \ {d} : log'[p] = log[p]
  BY <1>1, <1>4
<1>6. /\ Append(log[d], r) \in Seq(Records)
      /\ Len(Append(log[d], r)) = Len(log[d]) + 1
      /\ \A s \in 1 .. Len(log[d]) : Append(log[d], r)[s] = log[d][s]
      /\ Append(log[d], r)[Len(log[d]) + 1] = r
  BY <1>1, <1>3, AppendProperties
<1>7. log' \in [Devices -> Seq(Records)]
  BY <1>1, <1>4, <1>6
<1>8. ASSUME NEW p \in Devices
      PROVE  /\ Len(log'[p]) \in Nat /\ Len(log[p]) <= Len(log'[p])
             /\ \A s \in 1 .. Len(log[p]) : log'[p][s] = log[p][s]
  <2>1. Len(log[p]) \in Nat
    BY LogLengths
  <2>2. CASE p = d
    <3>1. Len(log'[d]) = Len(log[d]) + 1 /\ \A s \in 1 .. Len(log[d]) : log'[d][s] = log[d][s]
      BY <1>5, <1>6
    <3> QED
      BY <2>1, <2>2, <3>1
  <2>3. CASE p # d
    BY <1>5, <2>1, <2>3
  <2> QED
    BY <2>2, <2>3
<1>9. Len(log'[d]) = n /\ log'[d][n] = r
  BY <1>5, <1>6 DEF n
<1> QED
  BY <1>2, <1>5, <1>7, <1>8, <1>9 DEF n, r

LEMMA WriteTypesLogs ==
  ASSUME LogsTyped, NEW d \in Devices, NEW e \in Events, NEW kind \in Kinds,
         Write(d, e, kind)
  PROVE  LogsTyped'
<1> DEFINE n == Len(log[d]) + 1
<1>1. /\ n \in Nat /\ Len(log'[d]) = n
      /\ log' \in [Devices -> Seq(Records)]
      /\ \A p \in Devices : Len(log'[p]) \in Nat /\ Len(log[p]) <= Len(log'[p])
  BY WriteGrows
<1>2. /\ applied' = [applied EXCEPT ![d][d] = n]
      /\ clock' = [clock EXCEPT ![d][d] = n]
  BY DEF Write
<1> HIDE DEF n
<1>3. /\ applied \in [Devices -> Clocks] /\ clock \in [Devices -> Clocks]
  BY DEF LogsTyped
<1>4. /\ applied' \in [Devices -> Clocks] /\ clock' \in [Devices -> Clocks]
  BY <1>1, <1>2, <1>3 DEF Clocks
<1>5. ASSUME NEW q \in Devices, NEW p \in Devices
      PROVE  applied'[q][p] <= clock'[q][p] /\ clock'[q][p] <= Len(log'[p])
  <2>1. /\ applied[q][p] \in Nat /\ clock[q][p] \in Nat
        /\ applied[q][p] <= clock[q][p] /\ clock[q][p] <= Len(log[p])
        /\ Len(log[p]) \in Nat
    BY LogLengths DEF LogsTyped, Clocks
  <2>2. CASE q = d /\ p = d
    BY <1>1, <1>2, <1>3, <2>2 DEF Clocks
  <2>3. CASE ~ (q = d /\ p = d)
    <3>1. applied'[q][p] = applied[q][p] /\ clock'[q][p] = clock[q][p]
      BY <1>2, <1>3, <2>3 DEF Clocks
    <3> QED
      BY <1>1, <2>1, <3>1
  <2> QED
    BY <2>2, <2>3
<1> QED
  BY <1>1, <1>4, <1>5 DEF LogsTyped

LEMMA WriteGrowsIds ==
  ASSUME LogsTyped, NEW d \in Devices, NEW e \in Events, NEW kind \in Kinds,
         Write(d, e, kind)
  PROVE  LET n == Len(log[d]) + 1
         IN  /\ Ids' = Ids \cup {<<d, n>>}
             /\ Cardinality(Ids)' = Cardinality(Ids) + 1
             /\ \A i \in Ids : Rec(i)' = Rec(i)
<1> DEFINE n == Len(log[d]) + 1
<1>1. /\ n \in Nat /\ Len(log'[d]) = n
      /\ log' \in [Devices -> Seq(Records)]
      /\ log \in [Devices -> Seq(Records)]
      /\ \A p \in Devices \ {d} : log'[p] = log[p]
      /\ \A p \in Devices : \A s \in 1 .. Len(log[p]) : log'[p][s] = log[p][s]
      /\ Len(log[d]) \in Nat
  BY WriteGrows, LogLengths DEF LogsTyped
<1>2. \A i : i \in Ids <=> /\ i = <<i[1], i[2]>>
                           /\ i[1] \in Devices
                           /\ i[2] \in 1 .. Len(log[i[1]])
  BY <1>1, Positions DEF Ids
<1>3. \A i : i \in Ids' <=> /\ i = <<i[1], i[2]>>
                            /\ i[1] \in Devices
                            /\ i[2] \in 1 .. Len(log'[i[1]])
  BY <1>1, Positions DEF Ids
<1>4. ASSUME NEW i PROVE i \in Ids' <=> i \in Ids \/ i = <<d, n>>
  <2>1. CASE i[1] = d
    <3>1. 1 .. n = 1 .. Len(log[d]) \cup {n}
      BY <1>1
    <3>2. (<<d, n>>)[1] = d /\ (<<d, n>>)[2] = n /\ d \in Devices
      OBVIOUS
    <3>3. i \in Ids' <=> i = <<i[1], i[2]>> /\ i[2] \in 1 .. n
      BY <1>1, <1>3, <2>1
    <3>4. i \in Ids <=> i = <<i[1], i[2]>> /\ i[2] \in 1 .. Len(log[d])
      BY <1>2, <2>1
    <3> QED
      BY <2>1, <3>1, <3>2, <3>3, <3>4
  <2>2. CASE i[1] # d
    BY <1>1, <1>2, <1>3, <2>2
  <2> QED
    BY <2>1, <2>2
<1>5. Ids' = Ids \cup {<<d, n>>}
  BY <1>4
<1>6. <<d, n>> \notin Ids
  BY <1>1, <1>2
<1>7. Cardinality(Ids)' = Cardinality(Ids) + 1
  <2>1. IsFiniteSet(Ids)
    BY IdsAreFinite
  <2>2. Cardinality(Ids \cup {<<d, n>>}) = Cardinality(Ids) + 1
    BY <1>6, <2>1, FS_AddElement
  <2> QED
    BY <1>5, <2>2
<1>8. ASSUME NEW i \in Ids PROVE Rec(i)' = Rec(i)
  BY <1>1, IdIsPair DEF Rec
<1> QED
  BY <1>5, <1>7, <1>8

LEMMA WriteKeepsRecords ==
  ASSUME LogsTyped, RecordsAccurate, NEW d \in Devices, NEW e \in Events,
         NEW kind \in Kinds, Write(d, e, kind)
  PROVE  RecordsAccurate'
<1> DEFINE n == Len(log[d]) + 1
<1>1. /\ n \in Nat /\ Len(log'[d]) = n
      /\ \A p \in Devices \ {d} : log'[p] = log[p]
      /\ \A p \in Devices : Len(log'[p]) \in Nat /\ Len(log[p]) <= Len(log'[p])
      /\ \A p \in Devices : \A s \in 1 .. Len(log[p]) : log'[p][s] = log[p][s]
      /\ log'[d][n].clock = [clock[d] EXCEPT ![d] = n]
      /\ log'[d][n].hlc = Cardinality(Ids) + 1
  <2>1. log'[d][n] = [event |-> e, kind |-> kind,
                      clock |-> [clock[d] EXCEPT ![d] = n],
                      hlc |-> Cardinality(Ids) + 1]
    BY WriteGrows
  <2>2. /\ n \in Nat /\ Len(log'[d]) = n
        /\ \A p \in Devices \ {d} : log'[p] = log[p]
        /\ \A p \in Devices : Len(log'[p]) \in Nat /\ Len(log[p]) <= Len(log'[p])
        /\ \A p \in Devices : \A s \in 1 .. Len(log[p]) : log'[p][s] = log[p][s]
    BY WriteGrows
  <2> HIDE DEF n
  <2> QED
    BY <2>1, <2>2
<1>2. Cardinality(Ids)' = Cardinality(Ids) + 1 /\ Cardinality(Ids) \in Nat
  BY WriteGrowsIds, IdsAreFinite
<1>3. ASSUME NEW p \in Devices, NEW s \in 1 .. Len(log'[p]), s \in 1 .. Len(log[p])
      PROVE  /\ log'[p][s].clock[p] = s
             /\ \A q \in Devices : log'[p][s].clock[q] <= Len(log'[q])
             /\ log'[p][s].hlc <= Cardinality(Ids)'
  <2>1. log'[p][s] = log[p][s]
    BY <1>1, <1>3
  <2>2. <<p, s>> \in Ids /\ Rec(<<p, s>>) = log[p][s]
    BY <1>3, PairIsId DEF Rec
  <2>3. log[p][s].clock \in Clocks /\ log[p][s].hlc \in Nat
    BY <2>2, RecType
  <2>4. /\ log[p][s].clock[p] = s
        /\ log[p][s].hlc <= Cardinality(Ids)
    BY <1>3 DEF RecordsAccurate
  <2>5. ASSUME NEW q \in Devices PROVE log[p][s].clock[q] <= Len(log'[q])
    <3>1. log[p][s].clock[q] <= Len(log[q]) /\ log[p][s].clock[q] \in Nat
      BY <1>3, <2>3 DEF RecordsAccurate, Clocks
    <3>2. Len(log[q]) \in Nat /\ Len(log'[q]) \in Nat /\ Len(log[q]) <= Len(log'[q])
      BY <1>1, LogLengths
    <3> QED
      BY <3>1, <3>2
  <2> QED
    BY <1>2, <2>1, <2>3, <2>4, <2>5
<1>4. /\ log'[d][n].clock[d] = n
      /\ \A q \in Devices : log'[d][n].clock[q] <= Len(log'[q])
      /\ log'[d][n].hlc <= Cardinality(Ids)'
  <2>1. clock[d] \in Clocks /\ \A q \in Devices : clock[d][q] <= Len(log[q])
    BY DEF LogsTyped
  <2>2. ASSUME NEW q \in Devices PROVE log'[d][n].clock[q] <= Len(log'[q])
    <3>1. clock[d][q] \in Nat /\ clock[d][q] <= Len(log[q]) /\ Len(log[q]) \in Nat
      BY <2>1, LogLengths DEF Clocks
    <3>2. log'[d][n].clock[q] = IF q = d THEN n ELSE clock[d][q]
      BY <1>1, <2>1 DEF Clocks
    <3>3. Len(log'[q]) \in Nat /\ Len(log[q]) <= Len(log'[q])
      BY <1>1
    <3> HIDE DEF n
    <3> QED
      BY <1>1, <3>1, <3>2, <3>3
  <2>3. log'[d][n].clock[d] = n
    BY <1>1, <2>1 DEF Clocks
  <2> QED
    BY <1>1, <1>2, <2>2, <2>3
<1>5. ASSUME NEW p \in Devices, NEW s \in 1 .. Len(log'[p]), s \notin 1 .. Len(log[p])
      PROVE  p = d /\ s = n
  <2>1. Len(log[d]) \in Nat
    BY LogLengths
  <2> QED
    BY <1>1, <1>5, <2>1
<1> HIDE DEF n
<1> QED
  BY <1>3, <1>4, <1>5 DEF RecordsAccurate

-----------------------------------------------------------------------------
(* What a record does to the version and the latest record of its event.   *)

LEMMA VersionedCovers ==
  ASSUME TablesTyped, NEW d \in Devices, NEW e \in Events, NEW c \in Clocks
  PROVE  /\ Versioned(d, e, c) \in [Devices -> [Events -> Clocks \cup {Unversioned}]]
         /\ Versioned(d, e, c)[d][e] \in Clocks
         /\ \A p \in Devices : Versioned(d, e, c)[d][e][p] >= c[p]
         /\ version[d][e] # Unversioned =>
              \A p \in Devices : Versioned(d, e, c)[d][e][p] >= version[d][e][p]
         /\ \A b \in Devices, f \in Events :
              <<b, f>> # <<d, e>> => Versioned(d, e, c)[b][f] = version[b][f]
<1> DEFINE v == IF version[d][e] = Unversioned THEN c ELSE Merge(version[d][e], c)
<1>1. version \in [Devices -> [Events -> Clocks \cup {Unversioned}]]
  BY DEF TablesTyped
<1>2. /\ v \in Clocks
      /\ \A p \in Devices : v[p] >= c[p]
      /\ version[d][e] # Unversioned => \A p \in Devices : v[p] >= version[d][e][p]
  <2>1. CASE version[d][e] = Unversioned
    <3>1. \A p \in Devices : c[p] \in Nat
      BY DEF Clocks
    <3> QED
      BY <2>1, <3>1
  <2>2. CASE version[d][e] # Unversioned
    <3>1. version[d][e] \in Clocks
      BY <1>1, <2>2
    <3> QED
      BY <2>2, <3>1, MergeIsUpper
  <2> QED
    BY <2>1, <2>2
<1>3. Versioned(d, e, c) = [version EXCEPT ![d] = [version[d] EXCEPT ![e] = v]]
  BY <1>1 DEF Versioned
<1> HIDE DEF v
<1>4. /\ Versioned(d, e, c)[d][e] = v
      /\ \A b \in Devices, f \in Events :
           <<b, f>> # <<d, e>> => Versioned(d, e, c)[b][f] = version[b][f]
  BY <1>1, <1>3
<1>5. Versioned(d, e, c) \in [Devices -> [Events -> Clocks \cup {Unversioned}]]
  BY <1>1, <1>2, <1>3
<1> QED
  BY <1>2, <1>4, <1>5

\* A record that is merged into the version may become the row.
LEMMA CoveringGrows ==
  ASSUME LogsTyped, TablesTyped, VersionCoversRow, lost' = lost,
         NEW d \in Devices, NEW e \in Events, NEW c \in Clocks,
         NEW i \in Devices \X Nat, c[i[1]] >= i[2],
         version' = Versioned(d, e, c),
         \E m \in {i, Gone} : row' \in {row, [row EXCEPT ![d][e] = m]}
  PROVE  VersionCoversRow'
<1> SUFFICES ASSUME NEW b \in Devices, NEW f \in Events,
                    row'[b][f] # Gone, f \notin lost'
             PROVE  /\ version'[b][f] # Unversioned
                    /\ version'[b][f][row'[b][f][1]] >= row'[b][f][2]
  BY DEF VersionCoversRow
<1>1. /\ version'[d][e] \in Clocks
      /\ \A q \in Devices : version'[d][e][q] >= c[q]
      /\ version[d][e] # Unversioned =>
           \A q \in Devices : version'[d][e][q] >= version[d][e][q]
      /\ \A g \in Devices, h \in Events :
           <<g, h>> # <<d, e>> => version'[g][h] = version[g][h]
  BY VersionedCovers
<1>2. Unversioned \notin Clocks
  BY UnversionedAssumption
<1>3. row \in [Devices -> [Events -> Ids \cup {Gone}]]
  BY DEF TablesTyped
<1>4. CASE row'[b][f] = row[b][f]
  <2>1. /\ row[b][f] \in Ids /\ version[b][f] # Unversioned
        /\ version[b][f][row[b][f][1]] >= row[b][f][2]
    BY <1>3, <1>4 DEF VersionCoversRow
  <2>2. row[b][f][1] \in Devices /\ row[b][f][2] \in Nat
    BY <2>1, IdIsPair
  <2>3. CASE <<b, f>> = <<d, e>>
    <3>1. PICK q \in Devices : q = row[b][f][1]
      BY <2>2
    <3>2. version[d][e] \in Clocks
      BY <2>1, <2>3 DEF TablesTyped
    <3>3. version[d][e][q] \in Nat /\ version'[d][e][q] \in Nat
      BY <1>1, <3>2 DEF Clocks
    <3>4. version'[d][e][q] >= version[d][e][q]
      BY <1>1, <2>1, <2>3
    <3>5. version[d][e][q] >= row[b][f][2]
      BY <2>1, <2>3, <3>1
    <3>6. version'[d][e][q] >= row[b][f][2]
      BY <2>2, <3>3, <3>4, <3>5
    <3> QED
      BY <1>1, <1>2, <1>4, <2>3, <3>1, <3>6
  <2>4. CASE <<b, f>> # <<d, e>>
    BY <1>1, <1>4, <2>1, <2>4
  <2> QED
    BY <2>3, <2>4
<1>5. CASE row'[b][f] # row[b][f]
  <2>1. PICK m \in {i, Gone} : row' \in {row, [row EXCEPT ![d][e] = m]}
    OBVIOUS
  <2>2. b = d /\ f = e /\ row'[b][f] = i
    BY <1>3, <1>5, <2>1
  <2>3. version'[d][e][i[1]] >= i[2]
    <3>1. i[1] \in Devices /\ i[2] \in Nat
      OBVIOUS
    <3>2. PICK q \in Devices : q = i[1]
      BY <3>1
    <3>3. version'[d][e][q] \in Nat /\ c[q] \in Nat
      BY <1>1 DEF Clocks
    <3>4. version'[d][e][q] >= c[q] /\ c[q] >= i[2]
      BY <1>1, <3>2
    <3> QED
      BY <3>1, <3>2, <3>3, <3>4
  <2> QED
    BY <1>1, <1>2, <2>2, <2>3
<1> QED
  BY <1>4, <1>5

LEMMA LaterType ==
  ASSUME TablesTyped, NEW J, Ids \subseteq J, NEW d \in Devices, NEW e \in Events,
         NEW i \in J, NEW t \in Nat
  PROVE  Later(d, e, i, t)
           \in [Devices -> [Events -> [id : J \cup {Gone}, hlc : Nat] \cup {Unversioned}]]
<1>1. latest \in [Devices -> [Events -> [id : J \cup {Gone}, hlc : Nat] \cup {Unversioned}]]
  <2>1. [id : Ids \cup {Gone}, hlc : Nat] \subseteq [id : J \cup {Gone}, hlc : Nat]
    OBVIOUS
  <2>2. latest \in [Devices -> [Events -> [id : Ids \cup {Gone}, hlc : Nat] \cup {Unversioned}]]
    BY DEF TablesTyped
  <2>3. ASSUME NEW b \in Devices, NEW f \in Events
        PROVE  latest[b][f] \in [id : J \cup {Gone}, hlc : Nat] \cup {Unversioned}
    BY <2>1, <2>2
  <2> QED
    BY <2>2, <2>3
<1>2. [id |-> i, hlc |-> t] \in [id : J \cup {Gone}, hlc : Nat]
  OBVIOUS
<1> DEFINE R == [id : J \cup {Gone}, hlc : Nat] \cup {Unversioned}
           r == [id |-> i, hlc |-> t]
<1>3. r \in R /\ latest \in [Devices -> [Events -> R]]
  BY <1>1, <1>2
<1>4. Later(d, e, i, t) \in {latest, [latest EXCEPT ![d][e] = r]}
  BY DEF Later
<1> HIDE DEF R, r
<1>5. Later(d, e, i, t) \in [Devices -> [Events -> R]]
  BY <1>3, <1>4
<1> QED
  BY <1>5 DEF R

-----------------------------------------------------------------------------
(* A local change preserves the invariant, whatever it does to the row and *)
(* to the conflict of its event.                                           *)

LEMMA WriteTypesTables ==
  ASSUME IInv, NEW d \in Devices, NEW e \in Events, NEW kind \in Kinds,
         Write(d, e, kind),
         row' \in {row, [row EXCEPT ![d][e] = <<d, Len(log[d]) + 1>>],
                   [row EXCEPT ![d][e] = Gone]},
         open' \in {open, [open EXCEPT ![d][e] = {}]}
  PROVE  TablesTyped'
<1> DEFINE n == Len(log[d]) + 1
           i == <<d, n>>
<1>1. LogsTyped /\ TablesTyped /\ RecordsAccurate
  BY TypesSplit DEF IInv
<1>2. Ids' = Ids \cup {i} /\ [clock[d] EXCEPT ![d] = n] \in Clocks
  BY <1>1, WriteGrowsIds, WriteGrows
<1>3. Cardinality(Ids) + 1 \in Nat
  BY <1>1, IdsAreFinite
<1>4. /\ kept' = [kept EXCEPT ![d] = @ \cup {i}]
      /\ version' = Versioned(d, e, [clock[d] EXCEPT ![d] = n])
      /\ latest' = Later(d, e, i, Cardinality(Ids) + 1)
  BY DEF Write
<1>5. row' \in {row, [row EXCEPT ![d][e] = i], [row EXCEPT ![d][e] = Gone]}
  OBVIOUS
<1> HIDE DEF i, n
<1>6. kept' \in [Devices -> SUBSET Ids']
  BY <1>1, <1>2, <1>4 DEF TablesTyped
<1>7. row' \in [Devices -> [Events -> Ids' \cup {Gone}]]
  <2>1. row \in [Devices -> [Events -> Ids' \cup {Gone}]]
    BY <1>1, <1>2 DEF TablesTyped
  <2>2. i \in Ids'
    BY <1>2
  <2>3. CASE row' = row
    BY <2>1, <2>3
  <2>4. CASE row' = [row EXCEPT ![d][e] = i]
    BY <2>1, <2>2, <2>4
  <2>5. CASE row' = [row EXCEPT ![d][e] = Gone]
    BY <2>1, <2>5
  <2> QED
    BY <1>5, <2>3, <2>4, <2>5
<1>8. version' \in [Devices -> [Events -> Clocks \cup {Unversioned}]]
  BY <1>1, <1>2, <1>4, VersionedCovers
<1>9. latest' \in [Devices -> [Events -> [id : Ids' \cup {Gone}, hlc : Nat] \cup {Unversioned}]]
  <2>1. i \in Ids' /\ Ids \subseteq Ids'
    BY <1>2
  <2> QED
    BY <1>1, <1>3, <1>4, <2>1, LaterType
<1>10. open' \in [Devices -> [Events -> SUBSET Ids']]
  <2>1. open \in [Devices -> [Events -> SUBSET Ids']]
    BY <1>1, <1>2 DEF TablesTyped
  <2> QED
    BY <2>1
<1> QED
  BY <1>6, <1>7, <1>8, <1>9, <1>10 DEF TablesTyped

LEMMA WritePreserves ==
  ASSUME IInv, NEW d \in Devices, NEW e \in Events, NEW kind \in Kinds,
         Write(d, e, kind),
         row' \in {row, [row EXCEPT ![d][e] = <<d, Len(log[d]) + 1>>],
                   [row EXCEPT ![d][e] = Gone]},
         open' \in {open, [open EXCEPT ![d][e] = {}]}
  PROVE  IInv'
<1> DEFINE n == Len(log[d]) + 1
           i == <<d, n>>
           c == [clock[d] EXCEPT ![d] = n]
<1>1. LogsTyped /\ TablesTyped /\ RestTyped /\ RecordsAccurate
  BY TypesSplit DEF IInv
<1>2. LogsTyped' /\ TablesTyped'
  BY <1>1, WriteTypesLogs, WriteTypesTables
<1>3. RestTyped'
  BY <1>1 DEF Write, counters, RestTyped
<1>4. RecordsAccurate'
  BY <1>1, WriteKeepsRecords
<1>5. /\ Ids' = Ids \cup {i} /\ c \in Clocks
      /\ \A p \in Devices : Len(log[p]) <= Len(log'[p])
  BY <1>1, WriteGrowsIds, WriteGrows
<1>6. /\ kept' = [kept EXCEPT ![d] = @ \cup {i}]
      /\ version' = Versioned(d, e, c)
      /\ incoming' = incoming /\ lost' = lost
  BY DEF Write, counters
<1>7. OpenIsKept'
  <2>1. \A b \in Devices : kept[b] \subseteq kept'[b]
    BY <1>1, <1>6 DEF TablesTyped
  <2>2. ASSUME NEW b \in Devices, NEW f \in Events
        PROVE  open'[b][f] \subseteq open[b][f]
    <3>1. open \in [Devices -> [Events -> SUBSET Ids]]
      BY <1>1 DEF TablesTyped
    <3>2. CASE open' = open
      BY <3>2
    <3>3. CASE open' = [open EXCEPT ![d][e] = {}]
      BY <3>1, <3>3
    <3> QED
      BY <3>2, <3>3
  <2> QED
    BY <2>1, <2>2 DEF OpenIsKept, IInv
<1>8. ChunksFine'
  <2>1. ASSUME NEW b \in Devices, NEW j \in 1 .. Len(incoming'[b])
        PROVE  incoming'[b][j] \in Chunk /\ ChunkFine(incoming'[b][j])
    BY <1>1, <1>6, ComingFine DEF IInv
  <2>2. Ids \subseteq Ids' /\ lost \subseteq lost'
    BY <1>5, <1>6
  <2> QED
    BY <1>1, <1>2, <1>5, <2>1, <2>2, ChunksStayFine
<1>9. VersionCoversRow'
  <2>1. c[d] = n
    BY <1>1 DEF LogsTyped, Clocks
  <2>2. i \in Ids'
    BY <1>5
  <2>3. n \in Nat
    BY <1>1, WriteGrows
  <2>4. i \in Devices \X Nat /\ c[i[1]] >= i[2]
    BY <2>1, <2>3
  <2>5. \E m \in {i, Gone} : row' \in {row, [row EXCEPT ![d][e] = m]}
    OBVIOUS
  <2>6. VersionCoversRow /\ lost' = lost
    BY <1>6 DEF IInv
  <2> HIDE DEF c, i, n
  <2> QED
    BY <1>1, <1>5, <1>6, <2>4, <2>5, <2>6, CoveringGrows
<1> QED
  BY <1>2, <1>3, <1>4, <1>7, <1>8, <1>9, TypesJoin DEF IInv

LEMMA LocalChangesPreserve ==
  ASSUME IInv, NEW d \in Devices, NEW e \in Events,
         Create(d, e) \/ Edit(d, e) \/ Delete(d, e) \/ Resolve(d, e)
  PROVE  IInv'
<1>1. /\ "event" \in Kinds
      /\ "field" \in Kinds
      /\ "*" \in Kinds
  BY DEF Kinds
<1>2. CASE Create(d, e)
  BY <1>1, <1>2, WritePreserves DEF Create
<1>3. CASE Edit(d, e)
  BY <1>1, <1>3, WritePreserves DEF Edit
<1>4. CASE Delete(d, e)
  BY <1>1, <1>4, WritePreserves DEF Delete
<1>5. CASE Resolve(d, e)
  BY <1>1, <1>5, WritePreserves DEF Resolve
<1> QED
  BY <1>2, <1>3, <1>4, <1>5

-----------------------------------------------------------------------------
(* Arrivals.                                                               *)

\* The record that arrives is written, and the clocks move with it.
LEMMA PullTypesLogs ==
  ASSUME IInv, NEW d \in Devices, NEW s \in Devices, NEW p \in Devices, Pull(d, s, p)
  PROVE  LogsTyped'
<1> DEFINE i == <<p, applied[d][p] + 1>>
<1>1. LogsTyped /\ TablesTyped /\ RecordsAccurate
  BY TypesSplit DEF IInv
<1>2. i \in Ids
  BY <1>1 DEF Pull, TablesTyped
<1>3. /\ Rec(i).clock \in Clocks
      /\ Rec(i).clock[p] = applied[d][p] + 1
      /\ \A q \in Devices : Rec(i).clock[q] <= Len(log[q])
  <2>1. i[1] = p /\ i[2] = applied[d][p] + 1
    OBVIOUS
  <2> HIDE DEF i
  <2> QED
    BY <1>1, <1>2, <2>1, RecType, RecFacts
<1> DEFINE c == Rec(i).clock
<1>4. /\ applied' = [applied EXCEPT ![d][p] = applied[d][p] + 1]
      /\ clock' = [clock EXCEPT ![d] = Merge(@, c)]
      /\ log' = log
  BY DEF Pull
<1> HIDE DEF i, c
<1>5. /\ applied \in [Devices -> Clocks] /\ clock \in [Devices -> Clocks]
      /\ log \in [Devices -> Seq(Records)]
      /\ clock[d] \in Clocks
  BY <1>1 DEF LogsTyped
<1>6. c \in Clocks /\ c[p] = applied[d][p] + 1 /\ \A q \in Devices : c[q] <= Len(log[q])
  BY <1>3 DEF c
<1>7. /\ Merge(clock[d], c) \in Clocks
      /\ \A q \in Devices : /\ Merge(clock[d], c)[q] >= clock[d][q]
                            /\ Merge(clock[d], c)[q] >= c[q]
                            /\ Merge(clock[d], c)[q] \in {clock[d][q], c[q]}
  BY <1>5, <1>6, MergeIsUpper
<1>8. applied' \in [Devices -> Clocks]
  <2>1. applied[d] \in Clocks
    BY <1>5
  <2>2. applied[d][p] \in Nat
    BY <2>1 DEF Clocks
  <2>3. applied[d][p] + 1 \in Nat
    BY <2>2
  <2> QED
    BY <1>4, <1>5, <2>3 DEF Clocks
<1>9. clock' \in [Devices -> Clocks]
  BY <1>4, <1>5, <1>7
<1>10. ASSUME NEW b \in Devices, NEW q \in Devices
       PROVE  applied'[b][q] <= clock'[b][q] /\ clock'[b][q] <= Len(log'[q])
  <2>1. /\ applied[b][q] \in Nat /\ clock[b][q] \in Nat
        /\ applied[b][q] <= clock[b][q] /\ clock[b][q] <= Len(log[q])
        /\ Len(log[q]) \in Nat
    BY <1>1, LogLengths DEF LogsTyped, Clocks
  <2>2. CASE b # d
    BY <1>4, <1>5, <2>1, <2>2
  <2>3. CASE b = d
    <3>1. clock'[d][q] = Merge(clock[d], c)[q]
      BY <1>4, <1>5
    <3>2. c[q] \in Nat /\ c[q] <= Len(log[q])
      BY <1>6 DEF Clocks
    <3>3. applied'[d][q] = IF q = p THEN applied[d][p] + 1 ELSE applied[d][q]
      BY <1>4, <1>5 DEF Clocks
    <3>4. Merge(clock[d], c)[q] \in Nat
      BY <1>7 DEF Clocks
    <3>5. clock'[d][q] <= Len(log'[q])
      BY <1>4, <1>7, <2>1, <2>3, <3>1, <3>2
    <3>6. applied'[d][q] <= clock'[d][q]
      <4>1. CASE q = p
        BY <1>6, <1>7, <3>1, <3>3, <4>1
      <4>2. CASE q # p
        BY <1>7, <2>1, <2>3, <3>1, <3>3, <3>4, <4>2
      <4> QED
        BY <4>1, <4>2
    <3> QED
      BY <2>3, <3>5, <3>6
  <2> QED
    BY <2>2, <2>3
<1> QED
  BY <1>4, <1>5, <1>8, <1>9, <1>10 DEF LogsTyped

LEMMA PullPreserves ==
  ASSUME IInv, NEW d \in Devices, NEW s \in Devices, NEW p \in Devices, Pull(d, s, p)
  PROVE  IInv'
<1> DEFINE i == <<p, applied[d][p] + 1>>
           e == Rec(i).event
           c == Rec(i).clock
<1>1. LogsTyped /\ TablesTyped /\ RestTyped /\ RecordsAccurate
  BY TypesSplit DEF IInv
<1>2. LogsTyped'
  BY PullTypesLogs
<1>3. log' = log /\ incoming' = incoming /\ lost' = lost
  BY DEF Pull, counters
<1>4. Ids' = Ids /\ RecordsAccurate'
  BY <1>3, LogsKept
<1>5. i \in Ids
  BY <1>1 DEF Pull, TablesTyped
<1>6. e \in Events /\ c \in Clocks /\ Rec(i).hlc \in Nat
  <2> HIDE DEF i
  <2> QED
    BY <1>1, <1>5, RecType
<1>7. c[p] = i[2] /\ i[1] = p
  <2>1. i[1] = p
    OBVIOUS
  <2> HIDE DEF i
  <2> QED
    BY <1>1, <1>5, <2>1, RecFacts
<1>8. /\ kept' = [kept EXCEPT ![d] = @ \cup {i}]
      /\ version' = Versioned(d, e, c)
      /\ latest' = Later(d, e, i, Rec(i).hlc)
  BY DEF Pull
<1>9. \/ row' = row
      \/ row' = [row EXCEPT ![d][e] = Mutated(d, i)]
  BY DEF Pull
<1>10. \/ open' = open
       \/ open' = [open EXCEPT ![d][e] = @ \cup Conflicting(d, i) \cup {i}]
  BY DEF Pull
<1>11. Mutated(d, i) \in {i, Gone}
  BY DEF Mutated
<1>12. Conflicting(d, i) \subseteq kept[d]
  BY DEF Conflicting, Locals
<1>13. RestTyped'
  <2>1. early' \subseteq Events
    <3>1. early \subseteq Events
      BY <1>1 DEF RestTyped
    <3>2. early' = early \/ early' = early \cup {e}
      BY DEF Pull
    <3> QED
      BY <1>6, <3>1, <3>2
  <2>2. /\ tombs' = tombs /\ incoming' = incoming /\ built' = built /\ swept' = swept
        /\ cuts' = cuts /\ honest' = honest /\ migrated' = migrated /\ lost' = lost
    BY DEF Pull, counters
  <2> QED
    BY <1>1, <2>1, <2>2 DEF RestTyped
<1> DEFINE m == Mutated(d, i)
           h == Rec(i).hlc
           K == Conflicting(d, i)
<1> HIDE DEF i, e, c, m, h, K
<1>14. kept' \in [Devices -> SUBSET Ids]
  BY <1>1, <1>5, <1>8 DEF TablesTyped
<1>15. row' \in [Devices -> [Events -> Ids \cup {Gone}]]
  <2>1. row \in [Devices -> [Events -> Ids \cup {Gone}]]
    BY <1>1 DEF TablesTyped
  <2>2. m \in Ids \cup {Gone}
    BY <1>5, <1>11 DEF m
  <2>3. row' = row \/ row' = [row EXCEPT ![d][e] = m]
    BY <1>9 DEF m
  <2> QED
    BY <2>1, <2>2, <2>3
<1>16. version' \in [Devices -> [Events -> Clocks \cup {Unversioned}]]
  BY <1>1, <1>6, <1>8, VersionedCovers
<1>17. latest' \in [Devices -> [Events -> [id : Ids \cup {Gone}, hlc : Nat] \cup {Unversioned}]]
  BY <1>1, <1>5, <1>6, <1>8, LaterType
<1>18. /\ open' \in [Devices -> [Events -> SUBSET Ids]]
       /\ \A b \in Devices, f \in Events :
            \/ open'[b][f] = open[b][f]
            \/ b = d /\ open'[b][f] = open[b][f] \cup K \cup {i}
  <2>1. open \in [Devices -> [Events -> SUBSET Ids]] /\ K \subseteq Ids
    BY <1>1, <1>12 DEF TablesTyped, K
  <2>2. open' = open \/ open' = [open EXCEPT ![d][e] = @ \cup K \cup {i}]
    BY <1>10 DEF K
  <2>3. CASE open' = open
    BY <2>1, <2>3
  <2>4. CASE open' = [open EXCEPT ![d][e] = @ \cup K \cup {i}]
    BY <1>5, <1>6, <2>1, <2>4
  <2> QED
    BY <2>2, <2>3, <2>4
<1>19. TablesTyped'
  BY <1>4, <1>14, <1>15, <1>16, <1>17, <1>18 DEF TablesTyped
<1>20. OpenIsKept'
  <2>1. \A b \in Devices : kept[b] \subseteq kept'[b]
    BY <1>1, <1>8 DEF TablesTyped
  <2>2. kept'[d] = kept[d] \cup {i}
    BY <1>1, <1>8 DEF TablesTyped
  <2>3. K \subseteq kept[d]
    BY <1>12 DEF K
  <2> SUFFICES ASSUME NEW b \in Devices, NEW f \in Events
               PROVE  open'[b][f] \subseteq kept'[b]
    BY DEF OpenIsKept
  <2>4. open[b][f] \subseteq kept[b]
    BY DEF IInv, OpenIsKept
  <2>5. CASE open'[b][f] = open[b][f]
    BY <2>1, <2>4, <2>5
  <2>6. CASE b = d /\ open'[b][f] = open[b][f] \cup K \cup {i}
    BY <2>1, <2>2, <2>3, <2>4, <2>6
  <2> QED
    BY <1>18, <2>5, <2>6
<1>21. ChunksFine'
  <2>1. ASSUME NEW b \in Devices, NEW j \in 1 .. Len(incoming'[b])
        PROVE  incoming'[b][j] \in Chunk /\ ChunkFine(incoming'[b][j])
    BY <1>1, <1>3, ComingFine DEF IInv
  <2>2. \A q \in Devices : Len(log[q]) <= Len(log'[q])
    BY <1>1, <1>3, LogLengths
  <2> QED
    BY <1>1, <1>2, <1>3, <1>4, <2>1, <2>2, ChunksStayFine
<1>22. VersionCoversRow'
  <2>1. i \in Devices \X Nat /\ c[i[1]] >= i[2]
    <3>1. i \in Devices \X Nat /\ i[2] \in Nat
      BY <1>1, <1>5, IdIsPair
    <3> QED
      BY <1>7, <3>1
  <2>2. \E g \in {i, Gone} : row' \in {row, [row EXCEPT ![d][e] = g]}
    BY <1>9, <1>11
  <2>3. VersionCoversRow /\ lost' = lost
    BY <1>3 DEF IInv
  <2> QED
    BY <1>1, <1>6, <1>8, <2>1, <2>2, <2>3, CoveringGrows
<1> QED
  BY <1>2, <1>4, <1>13, <1>19, <1>20, <1>21, <1>22, TypesJoin DEF IInv

-----------------------------------------------------------------------------
(* Sweeps, migrations, broken streams.                                     *)

\* What leaves the logs, the clocks and the messages alone keeps them fine.
LEMMA QuietStep ==
  ASSUME IInv, UNCHANGED <<log, applied, clock>>, TablesTyped', RestTyped',
         lost \subseteq lost',
         \A b \in Devices : \A j \in 1 .. Len(incoming'[b]) :
           incoming'[b][j] \in Chunk /\ ChunkFine(incoming'[b][j]),
         OpenIsKept', VersionCoversRow'
  PROVE  IInv'
<1>1. LogsTyped
  BY TypesSplit DEF IInv
<1>2. LogsTyped'
  BY <1>1 DEF LogsTyped
<1>3. Ids' = Ids /\ RecordsAccurate'
  BY LogsKept
<1>4. \A p \in Devices : Len(log[p]) <= Len(log'[p])
  BY <1>1, LogLengths
<1>5. ChunksFine'
  BY <1>1, <1>2, <1>3, <1>4, ChunksStayFine
<1> QED
  BY <1>2, <1>3, <1>5, TypesJoin DEF IInv

LEMMA SweepPreserves ==
  ASSUME IInv, NEW d \in Devices, Sweep(d)
  PROVE  IInv'
<1>1. LogsTyped /\ TablesTyped /\ RestTyped
  BY TypesSplit DEF IInv
<1>2. PICK peers \in SUBSET (Devices \ {d}) :
        /\ kept' = [kept EXCEPT ![d] = {i \in @ : ~ Compactable(d, peers, i)}]
        /\ tombs' = [tombs EXCEPT ![d] =
             {t \in @ : t[2] = Gone \/ ~ Compactable(d, peers, t[2])}]
  BY DEF Sweep
<1>3. /\ swept < MaxSweeps /\ swept' = swept + 1
      /\ UNCHANGED <<log, applied, clock, row, version, latest, open, incoming, built,
                     cuts, honest, migrated, lost, early>>
  BY DEF Sweep
<1>4. Ids' = Ids
  BY <1>3, LogsKept
<1>5. TablesTyped'
  <2>1. kept' \in [Devices -> SUBSET Ids]
    BY <1>1, <1>2 DEF TablesTyped
  <2> QED
    BY <1>1, <1>3, <1>4, <2>1 DEF TablesTyped
<1>6. RestTyped'
  <2>1. tombs' \in [Devices -> SUBSET (Events \X ((Devices \X Nat) \cup {Gone}))]
    BY <1>1, <1>2 DEF RestTyped
  <2>2. swept' \in 0 .. MaxSweeps
    <3>1. swept \in 0 .. MaxSweeps /\ MaxSweeps \in Nat
      BY <1>1, BoundsAssumption DEF RestTyped
    <3> QED
      BY <1>3, <3>1
  <2> QED
    BY <1>1, <1>3, <2>1, <2>2 DEF RestTyped
<1>7. OpenIsKept'
  <2> SUFFICES ASSUME NEW b \in Devices, NEW f \in Events, NEW i \in open'[b][f]
               PROVE  i \in kept'[b]
    BY DEF OpenIsKept
  <2>1. i \in open[b][f] /\ i \in kept[b]
    BY <1>3 DEF IInv, OpenIsKept
  <2>2. CASE b = d
    <3>1. ~ Compactable(d, peers, i)
      BY <2>1, <2>2 DEF Compactable
    <3> QED
      BY <1>1, <1>2, <2>1, <2>2, <3>1 DEF TablesTyped
  <2>3. CASE b # d
    BY <1>1, <1>2, <2>1, <2>3 DEF TablesTyped
  <2> QED
    BY <2>2, <2>3
<1>8. VersionCoversRow'
  BY <1>3 DEF IInv, VersionCoversRow
<1>9. \A b \in Devices : \A j \in 1 .. Len(incoming'[b]) :
        incoming'[b][j] \in Chunk /\ ChunkFine(incoming'[b][j])
  BY <1>1, <1>3, ComingFine DEF IInv
<1> QED
  BY <1>3, <1>5, <1>6, <1>7, <1>8, <1>9, QuietStep

LEMMA MigratePreserves ==
  ASSUME IInv, NEW d \in Devices, Migrate(d)
  PROVE  IInv'
<1>1. LogsTyped /\ TablesTyped /\ RestTyped /\ RecordsAccurate
  BY TypesSplit DEF IInv
<1>2. /\ version' = [version EXCEPT ![d] = Backfill(d)]
      /\ latest' = [latest EXCEPT ![d] = BackfillLatest(d)]
      /\ lost' = lost \cup {e \in Events : row[d][e] # Gone /\ Backfill(d)[e] # version[d][e]}
      /\ migrated' = migrated + 1 /\ Cardinality(Ids) + migrated < MaxRecords
      /\ UNCHANGED <<log, kept, applied, clock, row, tombs, open, incoming, built,
                     swept, cuts, honest, early>>
  BY DEF Migrate
<1>3. Ids' = Ids
  BY <1>2, LogsKept
<1>4. Backfill(d) \in [Events -> Clocks \cup {Unversioned}]
  BY <1>1, HistoryVersionType DEF Backfill
<1>5. BackfillLatest(d) \in [Events -> [id : Ids \cup {Gone}, hlc : Nat] \cup {Unversioned}]
  <2> DEFINE left(e) == {i \in kept[d] : Rec(i).event = e}
             newest(e) == CHOOSE i \in left(e) : \A j \in left(e) : Rec(j).hlc <= Rec(i).hlc
             entry(e) == IF left(e) = {} THEN Unversioned
                         ELSE [id |-> newest(e), hlc |-> Rec(newest(e)).hlc]
  <2>1. ASSUME NEW e \in Events
        PROVE  entry(e) \in [id : Ids \cup {Gone}, hlc : Nat] \cup {Unversioned}
    <3>1. CASE left(e) = {}
      BY <3>1
    <3>2. CASE left(e) # {}
      <4>1. left(e) \in SUBSET Ids
        BY <1>1 DEF TablesTyped
      <4>2. newest(e) \in left(e)
        <5> HIDE DEF left
        <5> QED
          BY <1>1, <3>2, <4>1, NewestExists
      <4> HIDE DEF left, newest
      <4>3. newest(e) \in Ids /\ Rec(newest(e)).hlc \in Nat
        BY <1>1, <4>1, <4>2, RecType
      <4> QED
        BY <3>2, <4>3
    <3> QED
      BY <3>1, <3>2
  <2>2. BackfillLatest(d) = [e \in Events |-> entry(e)]
    BY DEF BackfillLatest
  <2> HIDE DEF entry
  <2> QED
    BY <2>1, <2>2
<1>6. TablesTyped'
  <2>1. version' \in [Devices -> [Events -> Clocks \cup {Unversioned}]]
    BY <1>1, <1>2, <1>4 DEF TablesTyped
  <2>2. latest' \in [Devices -> [Events -> [id : Ids \cup {Gone}, hlc : Nat] \cup {Unversioned}]]
    BY <1>1, <1>2, <1>5 DEF TablesTyped
  <2> QED
    BY <1>1, <1>2, <1>3, <2>1, <2>2 DEF TablesTyped
<1>7. RestTyped'
  <2>1. migrated' \in 0 .. MaxRecords
    <3>1. migrated \in 0 .. MaxRecords /\ MaxRecords \in Nat
      BY <1>1, BoundsAssumption DEF RestTyped
    <3>2. Cardinality(Ids) \in Nat
      BY <1>1, IdsAreFinite
    <3> QED
      BY <1>2, <3>1, <3>2
  <2>2. lost' \subseteq Events
    BY <1>1, <1>2 DEF RestTyped
  <2> QED
    BY <1>1, <1>2, <2>1, <2>2 DEF RestTyped
<1>8. OpenIsKept'
  BY <1>2 DEF IInv, OpenIsKept
<1>9. VersionCoversRow'
  <2> SUFFICES ASSUME NEW b \in Devices, NEW f \in Events,
                      row'[b][f] # Gone, f \notin lost'
               PROVE  version'[b][f] = version[b][f]
    BY <1>2 DEF IInv, VersionCoversRow
  <2>1. CASE b = d
    <3>1. Backfill(d)[f] = version[d][f]
      BY <1>2, <2>1
    <3>2. version'[d] = Backfill(d)
      BY <1>1, <1>2 DEF TablesTyped
    <3> QED
      BY <2>1, <3>1, <3>2
  <2>2. CASE b # d
    BY <1>1, <1>2, <2>2 DEF TablesTyped
  <2> QED
    BY <2>1, <2>2
<1>10. \A b \in Devices : \A j \in 1 .. Len(incoming'[b]) :
         incoming'[b][j] \in Chunk /\ ChunkFine(incoming'[b][j])
  BY <1>1, <1>2, ComingFine DEF IInv
<1> QED
  BY <1>2, <1>6, <1>7, <1>8, <1>9, <1>10, QuietStep

LEMMA CutPreserves ==
  ASSUME IInv, NEW d \in Devices, Cut(d)
  PROVE  IInv'
<1>1. LogsTyped /\ TablesTyped /\ RestTyped
  BY TypesSplit DEF IInv
<1>2. /\ incoming' = [incoming EXCEPT ![d] = <<>>]
      /\ cuts < MaxCuts /\ cuts' = cuts + 1
      /\ UNCHANGED <<log, kept, applied, clock, row, version, latest, tombs, open, built,
                     swept, honest, migrated, lost, early>>
  BY DEF Cut, tables
<1>3. Ids' = Ids
  BY <1>2, LogsKept
<1>4. TablesTyped'
  BY <1>1, <1>2, <1>3 DEF TablesTyped
<1>5. RestTyped'
  <2>1. incoming' \in [Devices -> Seq(Chunk)]
    BY <1>1, <1>2 DEF RestTyped
  <2>2. cuts' \in 0 .. MaxCuts
    <3>1. cuts \in 0 .. MaxCuts /\ MaxCuts \in Nat
      BY <1>1, BoundsAssumption DEF RestTyped
    <3> QED
      BY <1>2, <3>1
  <2> QED
    BY <1>1, <1>2, <2>1, <2>2 DEF RestTyped
<1>6. OpenIsKept' /\ VersionCoversRow'
  BY <1>2 DEF IInv, OpenIsKept, VersionCoversRow
<1>7. ASSUME NEW b \in Devices, NEW j \in 1 .. Len(incoming'[b])
      PROVE  incoming'[b][j] \in Chunk /\ ChunkFine(incoming'[b][j])
  <2>1. b # d
    <3>1. b = d => Len(incoming'[b]) = 0
      BY <1>1, <1>2 DEF RestTyped
    <3> QED
      BY <3>1
  <2>2. incoming'[b] = incoming[b]
    BY <1>1, <1>2, <2>1 DEF RestTyped
  <2> QED
    BY <1>1, <2>2, ComingFine DEF IInv
<1> QED
  BY <1>2, <1>4, <1>5, <1>6, <1>7, QuietStep

-----------------------------------------------------------------------------
(* Building a snapshot.                                                    *)

\* The entries of s that a message may carry.
FineEntries(s) ==
  {x \in Entry : /\ x.row \in Ids
                 /\ x.latest \in Ids \cup {Gone}
                 /\ x.event \notin lost => x.version[x.row[1]] >= x.row[2]
                 /\ x.row = row[s][x.event] /\ x.row # Gone
                 /\ x.version = LocalVersion(s, x.event)}

\* The messages that s may send: its clock, its calendar and entries from there.
FineChunks(s) ==
  {c \in Chunk : /\ ChunkFine(c)
                 /\ c.clock = clock[s] /\ c.rows = row[s]
                 /\ \A k \in DOMAIN c.entries : c.entries[k] \in FineEntries(s)}

LEMMA BatchBounds ==
  ASSUME NEW size \in Nat \ {0}, NEW len \in Nat, NEW k \in 1 .. len \div size
  PROVE  /\ (k - 1) * size + 1 \in 1 .. len
         /\ k * size \in 1 .. len
<1> DEFINE q == len \div size
<1>1. q \in Nat /\ q * size <= len
  OBVIOUS
<1>2. k \in Nat /\ 1 <= k /\ k <= q
  BY <1>1
<1> HIDE DEF q
<1>3. k * size <= q * size
  BY <1>1, <1>2
<1>4. (k - 1) * size \in Nat /\ k * size = (k - 1) * size + size
  BY <1>2
<1>5. k * size \in Nat
  BY <1>4
<1> QED
  BY <1>1, <1>3, <1>4, <1>5

LEMMA RestBounds ==
  ASSUME NEW size \in Nat \ {0}, NEW len \in Nat
  PROVE  (len \div size) * size + 1 \in 1 .. len + 1
OBVIOUS

LEMMA ListedRows ==
  ASSUME IInv, NEW s \in Devices, NEW live \in Listings(s)
  PROVE  LET shown == {e \in Events : row[s][e] # Gone}
         IN  /\ Cardinality(shown) \in Nat
             /\ Cardinality(shown) <= Cardinality(Events)
             /\ DOMAIN live = 1 .. Cardinality(shown)
             /\ \A k \in DOMAIN live : live[k] \in shown
             /\ \A e \in shown : \E k \in DOMAIN live : live[k] = e
<1> DEFINE shown == {e \in Events : row[s][e] # Gone}
           n == Cardinality(shown)
<1>1. IsFiniteSet(shown) /\ n <= Cardinality(Events)
  <2>1. IsFiniteSet(Events) /\ shown \in SUBSET Events
    BY EventsAssumption
  <2> HIDE DEF shown
  <2> QED
    BY <2>1, FS_Subset
<1>2. n \in Nat
  BY <1>1, FS_CardinalityType
<1>3. /\ live \in [1 .. n -> shown]
      /\ \A j, k \in DOMAIN live : j < k => live[j] < live[k]
  BY DEF Listings
<1>4. shown \subseteq Nat
  BY EventsAssumption
<1> HIDE DEF shown, n
<1>5. live \in Injection(1 .. n, shown)
  <2>1. ASSUME NEW j \in 1 .. n, NEW k \in 1 .. n, live[j] = live[k]
        PROVE  j = k
    <3>1. live[j] \in Nat /\ live[k] \in Nat
      BY <1>3, <1>4
    <3>2. j \in Nat /\ k \in Nat
      BY <1>2
    <3>3. ~ (j < k) /\ ~ (k < j)
      BY <1>3, <2>1, <3>1
    <3> QED
      BY <3>2, <3>3
  <2> QED
    BY <1>3, <2>1 DEF Injection, IsInjective
<1>6. live \in Surjection(1 .. n, shown)
  <2>1. Cardinality(1 .. n) = n
    BY <1>2, FS_Interval
  <2>2. Cardinality(1 .. n) = Cardinality(shown)
    BY <2>1 DEF n
  <2> QED
    BY <1>1, <1>5, <2>2, FS_Injection
<1>7. \A e \in shown : \E k \in 1 .. n : live[k] = e
  BY <1>6 DEF Surjection
<1> QED
  BY <1>1, <1>2, <1>3, <1>7 DEF shown, n

LEMMA EntriesFine ==
  ASSUME IInv, NEW s \in Devices, NEW live \in Listings(s)
  PROVE  /\ EntriesOf(s, live) \in Seq(FineEntries(s))
         /\ Len(EntriesOf(s, live)) <= Cardinality(Events)
         /\ Len(EntriesOf(s, live)) \in Nat
         /\ \A e \in Events : row[s][e] # Gone =>
              \E k \in 1 .. Len(EntriesOf(s, live)) : EntriesOf(s, live)[k].event = e
<1> DEFINE shown == {e \in Events : row[s][e] # Gone}
           n == Cardinality(shown)
           entry(e) == [event |-> e, row |-> row[s][e], version |-> LocalVersion(s, e),
                        latest |-> LatestProducer(s, e)]
<1>1. LogsTyped /\ TablesTyped /\ RecordsAccurate
  BY TypesSplit DEF IInv
<1>2. /\ n \in Nat /\ n <= Cardinality(Events)
      /\ DOMAIN live = 1 .. n
      /\ \A k \in 1 .. n : live[k] \in shown
      /\ \A e \in shown : \E k \in 1 .. n : live[k] = e
  BY ListedRows
<1>3. ASSUME NEW e \in shown PROVE entry(e) \in FineEntries(s)
  <2>1. e \in Events /\ row[s][e] # Gone
    OBVIOUS
  <2>2. row[s][e] \in Ids /\ row[s][e] \in Devices \X Nat
    <3>1. row[s][e] \in Ids
      BY <1>1, <2>1 DEF TablesTyped
    <3> QED
      BY <1>1, <3>1, IdIsPair
  <2>3. LocalVersion(s, e) \in Clocks
    BY <1>1, <2>1, LocalVersionType
  <2>4. LatestProducer(s, e) \in Ids \cup {Gone}
    BY <1>1, <2>1, LatestProducerType
  <2>5. LatestProducer(s, e) \in (Devices \X Nat) \cup {Gone}
    BY <1>1, <2>4, IdIsPair
  <2>6. e \notin lost => LocalVersion(s, e)[row[s][e][1]] >= row[s][e][2]
    <3>1. e \notin lost => /\ version[s][e] # Unversioned
                           /\ version[s][e][row[s][e][1]] >= row[s][e][2]
      BY <2>1 DEF IInv, VersionCoversRow
    <3> QED
      BY <1>1, <2>1, <3>1, LocalVersionType
  <2> DEFINE x == entry(e)
  <2>7. x.event = e /\ x.row = row[s][e] /\ x.version = LocalVersion(s, e)
        /\ x.latest = LatestProducer(s, e)
    OBVIOUS
  <2>8. x \in Entry
    BY <2>1, <2>2, <2>3, <2>5 DEF Entry
  <2> HIDE DEF x
  <2>9. x \in FineEntries(s)
    BY <2>1, <2>2, <2>4, <2>6, <2>7, <2>8 DEF FineEntries
  <2> QED
    BY <2>9 DEF x
<1>4. EntriesOf(s, live) = [k \in 1 .. n |-> entry(live[k])]
  BY <1>2 DEF EntriesOf
<1>5. \A k \in 1 .. n : EntriesOf(s, live)[k].event = live[k]
  BY <1>4
<1> HIDE DEF shown, n, entry
<1>6. EntriesOf(s, live) \in Seq(FineEntries(s)) /\ Len(EntriesOf(s, live)) = n
  BY <1>2, <1>3, <1>4
<1>7. ASSUME NEW e \in Events, row[s][e] # Gone
      PROVE  \E k \in 1 .. n : EntriesOf(s, live)[k].event = e
  <2>1. e \in shown
    BY <1>7 DEF shown
  <2> QED
    BY <1>2, <1>5, <2>1
<1> QED
  BY <1>2, <1>6, <1>7

LEMMA ChunkOfFine ==
  ASSUME IInv, NEW s \in Devices, NEW es \in Seq(FineEntries(s)),
         NEW ts \in SUBSET (Events \X ((Devices \X Nat) \cup {Gone}))
  PROVE  ChunkOf(s, es, ts) \in FineChunks(s)
<1>1. LogsTyped /\ TablesTyped
  BY TypesSplit DEF IInv
<1> DEFINE c == ChunkOf(s, es, ts)
<1>2. c.clock = clock[s] /\ c.entries = es /\ c.tombs = ts /\ c.rows = row[s]
  BY DEF ChunkOf
<1>3. es \in Seq(Entry)
  <2>1. FineEntries(s) \subseteq Entry
    BY DEF FineEntries
  <2> QED
    BY <2>1, SeqMonotonic
<1>4. row[s] \in [Events -> (Devices \X Nat) \cup {Gone}]
  <2>1. row[s] \in [Events -> Ids \cup {Gone}]
    BY <1>1 DEF TablesTyped
  <2>2. Ids \subseteq Devices \X Nat
    BY <1>1, IdIsPair
  <2> QED
    BY <2>1, <2>2
<1>5. clock[s] \in Clocks /\ \A p \in Devices : clock[s][p] <= Len(log[p])
  BY <1>1 DEF LogsTyped
<1>6. c \in Chunk
  BY <1>3, <1>4, <1>5 DEF ChunkOf, Chunk
<1>7. \A k \in DOMAIN es : es[k] \in FineEntries(s)
  OBVIOUS
<1> HIDE DEF c
<1>8. ChunkFine(c)
  BY <1>2, <1>5, <1>7 DEF ChunkFine, FineEntries
<1>9. c \in FineChunks(s)
  BY <1>2, <1>6, <1>7, <1>8 DEF FineChunks
<1> QED
  BY <1>9 DEF c

\* A whole message lists every event its sender shows.
Whole(c) == \A e \in Events : c.rows[e] # Gone => e \in Carried(c)

LEMMA ChunksAreFine ==
  ASSUME IInv, NEW s \in Devices, NEW live \in Listings(s)
  PROVE  /\ ChunksOf(s, live) \in Seq(FineChunks(s))
         /\ ChunksOf(s, live) # <<>>
         /\ Cardinality(Events) < ChunkSize =>
              Whole(ChunksOf(s, live)[Len(ChunksOf(s, live))])
<1> DEFINE all   == EntriesOf(s, live)
           full  == Len(all) \div ChunkSize
           fulls == [k \in 1 .. full |->
                       ChunkOf(s, SubSeq(all, (k - 1) * ChunkSize + 1, k * ChunkSize), {})]
           rest  == SubSeq(all, full * ChunkSize + 1, Len(all))
           graves == IF tombs[s] = {} THEN <<>> ELSE <<ChunkOf(s, <<>>, tombs[s])>>
           last  == IF rest = <<>> THEN <<>> ELSE <<ChunkOf(s, rest, {})>>
           parts == fulls \o graves \o last
<1>1. /\ all \in Seq(FineEntries(s)) /\ Len(all) \in Nat
      /\ Len(all) <= Cardinality(Events)
      /\ \A k \in 1 .. Len(all) : all[k] \in FineEntries(s)
      /\ \A e \in Events : row[s][e] # Gone => \E k \in 1 .. Len(all) : all[k].event = e
  BY EntriesFine
<1>2. ChunkSize \in Nat \ {0}
  BY ChunkAssumption
<1>3. full \in Nat
  BY <1>1, <1>2
<1>4. tombs[s] \in SUBSET (Events \X ((Devices \X Nat) \cup {Gone}))
  BY TypesSplit DEF IInv, RestTyped
<1>5. ASSUME NEW k \in 1 .. full
      PROVE  SubSeq(all, (k - 1) * ChunkSize + 1, k * ChunkSize) \in Seq(FineEntries(s))
  <2>1. /\ (k - 1) * ChunkSize + 1 \in 1 .. Len(all)
        /\ k * ChunkSize \in 1 .. Len(all)
    BY <1>1, <1>2, BatchBounds
  <2> DEFINE a == (k - 1) * ChunkSize + 1
             b == k * ChunkSize
  <2> HIDE DEF all, full, a, b
  <2>2. a \in Int /\ b \in Int /\ \A i \in a .. b : all[i] \in FineEntries(s)
    BY <1>1, <2>1 DEF a, b
  <2>3. SubSeq(all, a, b) \in Seq(FineEntries(s))
    BY <2>2, SubSeqProperties
  <2> QED
    BY <2>3 DEF a, b
<1>6. fulls \in Seq(FineChunks(s)) /\ Len(fulls) = full
  <2>1. \A k \in 1 .. full :
          ChunkOf(s, SubSeq(all, (k - 1) * ChunkSize + 1, k * ChunkSize), {}) \in FineChunks(s)
    <3> HIDE DEF all, full
    <3> QED
      BY <1>5, ChunkOfFine
  <2> HIDE DEF all, full
  <2> QED
    BY <1>3, <2>1
<1>7. rest \in Seq(FineEntries(s))
  <2>1. full * ChunkSize + 1 \in 1 .. Len(all) + 1
    BY <1>1, <1>2, RestBounds
  <2> DEFINE a == full * ChunkSize + 1
  <2> HIDE DEF all, full, a
  <2>2. /\ a \in Int /\ Len(all) \in Int
        /\ \A i \in a .. Len(all) : all[i] \in FineEntries(s)
    BY <1>1, <2>1 DEF a
  <2>3. SubSeq(all, a, Len(all)) \in Seq(FineEntries(s))
    BY <2>2, SubSeqProperties
  <2> QED
    BY <2>3 DEF a
<1>8. /\ <<>> \in Seq(FineEntries(s))
      /\ <<>> \in Seq(FineChunks(s))
      /\ {} \in SUBSET (Events \X ((Devices \X Nat) \cup {Gone}))
  OBVIOUS
<1>9. graves \in Seq(FineChunks(s))
  <2>1. ChunkOf(s, <<>>, tombs[s]) \in FineChunks(s)
    BY <1>4, <1>8, ChunkOfFine
  <2> QED
    BY <1>8, <2>1
<1>10. last \in Seq(FineChunks(s))
  <2> HIDE DEF rest
  <2>1. ChunkOf(s, rest, {}) \in FineChunks(s)
    BY <1>7, <1>8, ChunkOfFine
  <2> QED
    BY <1>8, <2>1
<1>11. ChunkOf(s, <<>>, {}) \in FineChunks(s)
  BY <1>8, ChunkOfFine
<1>12. ChunksOf(s, live) = IF parts = <<>> THEN <<ChunkOf(s, <<>>, {})>> ELSE parts
  BY DEF ChunksOf
<1>13. parts \in Seq(FineChunks(s))
  <2> HIDE DEF fulls, graves, last
  <2> QED
    BY <1>6, <1>9, <1>10, ConcatProperties
<1>14. ChunksOf(s, live) \in Seq(FineChunks(s)) /\ ChunksOf(s, live) # <<>>
  <2> HIDE DEF parts
  <2> QED
    BY <1>11, <1>12, <1>13
<1>15. ASSUME Cardinality(Events) < ChunkSize
       PROVE  Whole(ChunksOf(s, live)[Len(ChunksOf(s, live))])
  <2> DEFINE whole == ChunksOf(s, live)
  <2>1. whole \in Seq(FineChunks(s)) /\ whole # <<>>
    BY <1>14
  <2>2. Len(all) < ChunkSize
    <3>1. Cardinality(Events) \in Nat
      BY EventsAssumption, FS_CardinalityType
    <3> QED
      BY <1>1, <1>2, <1>15, <3>1
  <2>3. full = 0
    <3> HIDE DEF all
    <3> QED
      BY <1>1, <1>2, <2>2
  <2>4. rest = all
    <3>1. full * ChunkSize + 1 = 1
      BY <1>2, <2>3
    <3> HIDE DEF all, full
    <3> QED
      BY <1>1, <3>1, SubSeqFull
  <2>5. CASE all = <<>>
    <3>1. \A e \in Events : row[s][e] = Gone
      BY <1>1, <2>5
    <3>2. \A k \in 1 .. Len(whole) : whole[k].rows = row[s]
      <4>1. fulls = <<>>
        BY <2>3
      <4>2. last = <<>>
        BY <2>4, <2>5
      <4>3. parts = graves
        <5> HIDE DEF fulls, graves, last
        <5> QED
          BY <1>9, <4>1, <4>2
      <4>4. whole = <<ChunkOf(s, <<>>, {})>> \/ whole = <<ChunkOf(s, <<>>, tombs[s])>>
        BY <1>12, <4>3
      <4>5. ChunkOf(s, <<>>, {}).rows = row[s] /\ ChunkOf(s, <<>>, tombs[s]).rows = row[s]
        BY DEF ChunkOf
      <4> HIDE DEF whole
      <4> QED
        BY <4>4, <4>5
    <3> HIDE DEF whole
    <3>3. Len(whole) \in 1 .. Len(whole)
      BY <2>1
    <3>4. whole[Len(whole)].rows = row[s]
      BY <3>2, <3>3
    <3>5. Whole(whole[Len(whole)])
      BY <3>1, <3>4 DEF Whole
    <3> QED
      BY <3>5 DEF whole
  <2>6. CASE all # <<>>
    <3> DEFINE c == ChunkOf(s, all, {})
    <3>1. last = <<c>>
      BY <2>4, <2>6
    <3>2. parts # <<>> /\ parts[Len(parts)] = c
      <4> DEFINE before == fulls \o graves
      <4>1. before \in Seq(FineChunks(s))
        <5> HIDE DEF fulls, graves
        <5> QED
          BY <1>6, <1>9, ConcatProperties
      <4>2. parts = before \o <<c>>
        BY <3>1
      <4>3. c \in FineChunks(s)
        <5> HIDE DEF all
        <5> QED
          BY <1>1, <1>8, ChunkOfFine
      <4> HIDE DEF before, parts, c
      <4>4. parts = Append(before, c)
        BY <4>1, <4>2, <4>3, AppendIsConcat
      <4> QED
        BY <4>1, <4>3, <4>4, AppendProperties
    <3>3. whole = parts
      BY <1>12, <3>2
    <3>4. c.rows = row[s] /\ c.entries = all
      BY DEF ChunkOf
    <3>5. Whole(c)
      <4>1. Carried(c) = {all[k].event : k \in DOMAIN all}
        BY <3>4 DEF Carried
      <4>2. DOMAIN all = 1 .. Len(all)
        <5> HIDE DEF all
        <5> QED
          BY <1>1
      <4> HIDE DEF all, c
      <4> QED
        BY <1>1, <3>4, <4>1, <4>2 DEF Whole
    <3> HIDE DEF parts, c, whole
    <3>6. Whole(whole[Len(whole)])
      BY <3>2, <3>3, <3>5
    <3> QED
      BY <3>6 DEF whole
  <2> QED
    BY <2>5, <2>6
<1> QED
  BY <1>14, <1>15

LEMMA BeginSnapshotPreserves ==
  ASSUME IInv, NEW r \in Devices, NEW s \in Devices, BeginSnapshot(r, s)
  PROVE  IInv'
<1>1. LogsTyped /\ TablesTyped /\ RestTyped
  BY TypesSplit DEF IInv
<1>2. PICK live \in Listings(s) :
        incoming' = [incoming EXCEPT ![r] = ChunksOf(s, live)]
  BY DEF BeginSnapshot
<1>3. /\ built < MaxSnapshots /\ built' = built + 1
      /\ honest' = (honest /\ clock[s] = applied[s] /\ incoming[s] = <<>>)
      /\ UNCHANGED <<log, kept, applied, clock, row, version, latest, tombs, open,
                     swept, cuts, migrated, lost, early>>
  BY DEF BeginSnapshot, tables
<1>4. Ids' = Ids
  BY <1>3, LogsKept
<1>5. TablesTyped'
  BY <1>1, <1>3, <1>4 DEF TablesTyped
<1> DEFINE cs == ChunksOf(s, live)
<1>6. cs \in Seq(FineChunks(s))
  BY ChunksAreFine
<1>7. cs \in Seq(Chunk)
  <2>1. FineChunks(s) \subseteq Chunk
    BY DEF FineChunks
  <2> HIDE DEF cs
  <2> QED
    BY <1>6, <2>1, SeqMonotonic
<1> HIDE DEF cs
<1>8. incoming' = [incoming EXCEPT ![r] = cs]
  BY <1>2 DEF cs
<1>9. RestTyped'
  <2>1. incoming' \in [Devices -> Seq(Chunk)]
    BY <1>1, <1>7, <1>8 DEF RestTyped
  <2>2. built' \in 0 .. MaxSnapshots
    <3>1. built \in 0 .. MaxSnapshots /\ MaxSnapshots \in Nat
      BY <1>1, BoundsAssumption DEF RestTyped
    <3> QED
      BY <1>3, <3>1
  <2>3. honest' \in BOOLEAN
    BY <1>1, <1>3 DEF RestTyped
  <2> QED
    BY <1>1, <1>3, <2>1, <2>2, <2>3 DEF RestTyped
<1>10. OpenIsKept' /\ VersionCoversRow'
  BY <1>3 DEF IInv, OpenIsKept, VersionCoversRow
<1>11. ASSUME NEW b \in Devices, NEW j \in 1 .. Len(incoming'[b])
       PROVE  incoming'[b][j] \in Chunk /\ ChunkFine(incoming'[b][j])
  <2>1. CASE b = r
    <3>1. incoming'[b] = cs
      BY <1>1, <1>8, <2>1 DEF RestTyped
    <3>2. incoming'[b][j] \in FineChunks(s)
      BY <1>6, <3>1
    <3> QED
      BY <3>2 DEF FineChunks
  <2>2. CASE b # r
    <3>1. incoming'[b] = incoming[b]
      BY <1>1, <1>8, <2>2 DEF RestTyped
    <3> QED
      BY <1>1, <3>1, ComingFine DEF IInv
  <2> QED
    BY <2>1, <2>2
<1> QED
  BY <1>3, <1>5, <1>9, <1>10, <1>11, QuietStep

-----------------------------------------------------------------------------
(* Applying a message.                                                     *)

LEMMA HeadIsFine ==
  ASSUME RestTyped, ChunksFine, NEW d \in Devices, incoming[d] # <<>>
  PROVE  Head(incoming[d]) \in Chunk /\ ChunkFine(Head(incoming[d]))
<1>1. incoming[d] \in Seq(Chunk)
  BY DEF RestTyped
<1>2. Head(incoming[d]) = incoming[d][1] /\ 1 \in 1 .. Len(incoming[d])
  BY <1>1
<1> QED
  BY <1>2, ComingFine

\* What message c does to event e of d: it removes an absent event, replaces one
\* that it stages, and leaves the others alone.
Replaced(d, c, e) ==
  \/ /\ e \in Absent(d, c)
     /\ row'[d][e] = Gone
     /\ version'[d][e] = Unversioned
     /\ latest'[d][e] = Unversioned
  \/ /\ e \notin Absent(d, c)
     /\ \E k \in Staged(d, c) :
          /\ c.entries[k].event = e
          /\ row'[d][e] = c.entries[k].row
          /\ version'[d][e] = TakenVersion(d, c.entries[k])
          /\ latest'[d][e] = TakenLatest(d, c.entries[k])
  \/ /\ e \notin Absent(d, c)
     /\ \A k \in Staged(d, c) : c.entries[k].event # e
     /\ row'[d][e] = row[d][e]
     /\ version'[d][e] = version[d][e]
     /\ latest'[d][e] = latest[d][e]

LEMMA ChunkApplied ==
  ASSUME IInv, NEW d \in Devices, ApplyChunk(d), NEW c, c = Head(incoming[d])
  PROVE  /\ \A e \in Events : Replaced(d, c, e)
         /\ \A b \in Devices \ {d} :
              row'[b] = row[b] /\ version'[b] = version[b] /\ latest'[b] = latest[b]
         /\ row' = [b \in Devices |-> [e \in Events |-> row'[b][e]]]
         /\ version' = [b \in Devices |-> [e \in Events |-> version'[b][e]]]
         /\ latest' = [b \in Devices |-> [e \in Events |-> latest'[b][e]]]
<1>1. TablesTyped
  BY TypesSplit DEF IInv
<1> DEFINE staged == {c.entries[k].event : k \in Staged(d, c)}
           staging(h) == [e \in {h.entries[k].event : k \in Staged(d, h)} |->
                            CHOOSE x \in {h.entries[k] : k \in Staged(d, h)} : x.event = e]
           rowFrom(h) == [e \in Events |->
             IF e \in Absent(d, h) THEN Gone
             ELSE IF e \in DOMAIN staging(h) THEN staging(h)[e].row ELSE row[d][e]]
           versionFrom(h) == [e \in Events |->
             IF e \in Absent(d, h) THEN Unversioned
             ELSE IF e \in DOMAIN staging(h) THEN TakenVersion(d, staging(h)[e])
             ELSE version[d][e]]
           latestFrom(h) == [e \in Events |->
             IF e \in Absent(d, h) THEN Unversioned
             ELSE IF e \in DOMAIN staging(h) THEN TakenLatest(d, staging(h)[e])
             ELSE latest[d][e]]
           entry == staging(c)
           newRow == rowFrom(c)
           newVersion == versionFrom(c)
           newLatest == latestFrom(c)
<1>2. /\ row' = [row EXCEPT ![d] = newRow]
      /\ version' = [version EXCEPT ![d] = newVersion]
      /\ latest' = [latest EXCEPT ![d] = newLatest]
  <2>1. /\ row' = [row EXCEPT ![d] = rowFrom(Head(incoming[d]))]
        /\ version' = [version EXCEPT ![d] = versionFrom(Head(incoming[d]))]
        /\ latest' = [latest EXCEPT ![d] = latestFrom(Head(incoming[d]))]
    BY Zenon DEF ApplyChunk
  <2> HIDE DEF rowFrom, versionFrom, latestFrom
  <2> QED
    BY <2>1
<1>3. DOMAIN entry = staged
  OBVIOUS
<1>4. ASSUME NEW e \in staged
      PROVE  \E k \in Staged(d, c) : c.entries[k].event = e /\ entry[e] = c.entries[k]
  <2> DEFINE xs == {c.entries[k] : k \in Staged(d, c)}
             x == CHOOSE y \in xs : y.event = e
  <2>1. \E y \in xs : y.event = e
    OBVIOUS
  <2>2. x \in xs /\ x.event = e
    <3> HIDE DEF xs
    <3> QED
      BY <2>1
  <2>3. entry[e] = x
    OBVIOUS
  <2> HIDE DEF x
  <2> QED
    BY <2>2, <2>3
<1>5. ASSUME NEW e \in Events
      PROVE  /\ newRow[e] = IF e \in Absent(d, c) THEN Gone
                            ELSE IF e \in DOMAIN entry THEN entry[e].row ELSE row[d][e]
             /\ newVersion[e] = IF e \in Absent(d, c) THEN Unversioned
                                ELSE IF e \in DOMAIN entry THEN TakenVersion(d, entry[e])
                                ELSE version[d][e]
             /\ newLatest[e] = IF e \in Absent(d, c) THEN Unversioned
                               ELSE IF e \in DOMAIN entry THEN TakenLatest(d, entry[e])
                               ELSE latest[d][e]
  OBVIOUS
<1>6. /\ newRow = [e \in Events |-> newRow[e]]
      /\ newVersion = [e \in Events |-> newVersion[e]]
      /\ newLatest = [e \in Events |-> newLatest[e]]
  OBVIOUS
<1>7. \A e : e \notin staged => \A k \in Staged(d, c) : c.entries[k].event # e
  OBVIOUS
<1> HIDE DEF entry, staged, newRow, newVersion, newLatest
<1>8. /\ row \in [Devices -> [Events -> Ids \cup {Gone}]]
      /\ version \in [Devices -> [Events -> Clocks \cup {Unversioned}]]
      /\ latest \in [Devices -> [Events -> [id : Ids \cup {Gone}, hlc : Nat] \cup {Unversioned}]]
  BY <1>1 DEF TablesTyped
<1>9. /\ row'[d] = newRow /\ version'[d] = newVersion /\ latest'[d] = newLatest
      /\ \A b \in Devices \ {d} :
           row'[b] = row[b] /\ version'[b] = version[b] /\ latest'[b] = latest[b]
  BY <1>2, <1>8
<1>10. /\ row' = [b \in Devices |-> [e \in Events |-> row'[b][e]]]
       /\ version' = [b \in Devices |-> [e \in Events |-> version'[b][e]]]
       /\ latest' = [b \in Devices |-> [e \in Events |-> latest'[b][e]]]
  <2>1. row' = [b \in Devices |-> [e \in Events |-> row'[b][e]]]
    <3>1. \A b \in Devices : row'[b] = [e \in Events |-> row'[b][e]]
      BY <1>6, <1>8, <1>9
    <3> QED
      BY <1>2, <1>8, <3>1
  <2>2. version' = [b \in Devices |-> [e \in Events |-> version'[b][e]]]
    <3>1. \A b \in Devices : version'[b] = [e \in Events |-> version'[b][e]]
      BY <1>6, <1>8, <1>9
    <3> QED
      BY <1>2, <1>8, <3>1
  <2>3. latest' = [b \in Devices |-> [e \in Events |-> latest'[b][e]]]
    <3>1. \A b \in Devices : latest'[b] = [e \in Events |-> latest'[b][e]]
      BY <1>6, <1>8, <1>9
    <3> QED
      BY <1>2, <1>8, <3>1
  <2> QED
    BY <2>1, <2>2, <2>3
<1>11. ASSUME NEW e \in Events
       PROVE  Replaced(d, c, e)
  <2>1. CASE e \in Absent(d, c)
    BY <1>5, <1>9, <2>1 DEF Replaced
  <2>2. CASE e \notin Absent(d, c) /\ e \in staged
    <3>1. PICK k \in Staged(d, c) : c.entries[k].event = e /\ entry[e] = c.entries[k]
      BY <1>4, <2>2
    <3> QED
      BY <1>3, <1>5, <1>9, <2>2, <3>1 DEF Replaced
  <2>3. CASE e \notin Absent(d, c) /\ e \notin staged
    BY <1>3, <1>5, <1>7, <1>9, <2>3 DEF Replaced
  <2> QED
    BY <2>1, <2>2, <2>3
<1> QED
  BY <1>9, <1>10, <1>11

LEMMA TakenTypes ==
  ASSUME IInv, NEW d \in Devices, NEW c \in Chunk, ChunkFine(c), NEW k \in Staged(d, c)
  PROVE  LET x == c.entries[k]
         IN  /\ x \in Entry
             /\ x.row \in Ids
             /\ TakenVersion(d, x) \in Clocks
             /\ \A p \in Devices : TakenVersion(d, x)[p] >= x.version[p]
             /\ TakenLatest(d, x) \in [id : Ids \cup {Gone}, hlc : Nat]
             /\ x.event \notin lost => x.version[x.row[1]] >= x.row[2]
             /\ x.row = c.rows[x.event]
<1>1. LogsTyped /\ TablesTyped /\ RecordsAccurate
  BY TypesSplit DEF IInv
<1>2. k \in DOMAIN c.entries
  BY DEF Staged
<1> DEFINE x == c.entries[k]
<1>3. x \in Entry
  <2>1. c.entries \in Seq(Entry)
    BY DEF Chunk
  <2> QED
    BY <1>2, <2>1
<1>4. /\ x.row \in Ids
      /\ x.latest \in Ids \cup {Gone}
      /\ x.event \notin lost => x.version[x.row[1]] >= x.row[2]
      /\ x.row = c.rows[x.event]
  BY <1>2 DEF ChunkFine
<1> HIDE DEF x
<1>5. x.event \in Events /\ x.version \in Clocks
  BY <1>3 DEF Entry
<1>6. LocalVersion(d, x.event) \in Clocks
  BY <1>1, <1>5, LocalVersionType
<1>7. /\ TakenVersion(d, x) \in Clocks
      /\ \A p \in Devices : TakenVersion(d, x)[p] >= x.version[p]
  BY <1>5, <1>6, MergeIsUpper DEF TakenVersion
<1>8. TakenLatest(d, x) \in [id : Ids \cup {Gone}, hlc : Nat]
  <2> DEFINE known == latest[d][x.event]
  <2>1. known \in [id : Ids \cup {Gone}, hlc : Nat] \cup {Unversioned}
    BY <1>1, <1>5 DEF TablesTyped
  <2>2. CASE known = Unversioned
    <3>1. TakenLatest(d, x) = [id |-> x.latest, hlc |-> 0]
      BY <2>2 DEF TakenLatest
    <3> QED
      BY <1>4, <3>1
  <2>3. CASE known # Unversioned
    <3>1. TakenLatest(d, x) \in {known, [known EXCEPT !.id = x.latest]}
      BY <2>3 DEF TakenLatest
    <3> HIDE DEF known
    <3>2. known \in [id : Ids \cup {Gone}, hlc : Nat]
      BY <2>1, <2>3
    <3> QED
      BY <1>4, <3>1, <3>2
  <2> QED
    BY <2>2, <2>3
<1> QED
  BY <1>3, <1>4, <1>7, <1>8 DEF x

LEMMA ApplyTypesLogs ==
  ASSUME IInv, NEW d \in Devices, ApplyChunk(d)
  PROVE  LogsTyped'
<1>1. LogsTyped /\ RestTyped
  BY TypesSplit DEF IInv
<1>2. PICK c : c = Head(incoming[d])
  OBVIOUS
<1>3. c \in Chunk /\ ChunkFine(c)
  BY <1>1, <1>2, HeadIsFine DEF IInv, ApplyChunk
<1>4. /\ applied' = [applied EXCEPT ![d] = Merge(@, c.clock)]
      /\ clock' = [clock EXCEPT ![d] = Merge(@, c.clock)]
      /\ log' = log
  BY <1>2 DEF ApplyChunk, TakeClock
<1> DEFINE cc == c.clock
<1>5. cc \in Clocks /\ \A p \in Devices : cc[p] <= Len(log[p])
  BY <1>3 DEF Chunk, ChunkFine
<1> HIDE DEF cc
<1>6. applied \in [Devices -> Clocks] /\ clock \in [Devices -> Clocks]
  BY <1>1 DEF LogsTyped
<1>7. /\ applied' = [applied EXCEPT ![d] = Merge(applied[d], cc)]
      /\ clock' = [clock EXCEPT ![d] = Merge(clock[d], cc)]
  BY <1>4, <1>6 DEF cc
<1>8. Merge(applied[d], cc) \in Clocks /\ Merge(clock[d], cc) \in Clocks
  BY <1>5, <1>6, MergeIsUpper
<1>9. applied' \in [Devices -> Clocks] /\ clock' \in [Devices -> Clocks]
  BY <1>6, <1>7, <1>8
<1>10. ASSUME NEW b \in Devices, NEW q \in Devices
       PROVE  applied'[b][q] <= clock'[b][q] /\ clock'[b][q] <= Len(log'[q])
  <2>1. /\ applied[b][q] \in Nat /\ clock[b][q] \in Nat
        /\ applied[b][q] <= clock[b][q] /\ clock[b][q] <= Len(log[q])
        /\ Len(log[q]) \in Nat
    BY <1>1, LogLengths DEF LogsTyped, Clocks
  <2>2. CASE b # d
    BY <1>4, <1>6, <1>7, <2>1, <2>2
  <2>3. CASE b = d
    <3>1. cc[q] \in Nat /\ cc[q] <= Len(log[q])
      BY <1>5 DEF Clocks
    <3>2. /\ applied'[d][q] = IF cc[q] > applied[d][q] THEN cc[q] ELSE applied[d][q]
          /\ clock'[d][q] = IF cc[q] > clock[d][q] THEN cc[q] ELSE clock[d][q]
      BY <1>6, <1>7 DEF Merge
    <3> QED
      BY <1>4, <2>1, <2>3, <3>1, <3>2
  <2> QED
    BY <2>2, <2>3
<1> QED
  BY <1>1, <1>4, <1>9, <1>10 DEF LogsTyped

LEMMA ApplyChunkPreserves ==
  ASSUME IInv, NEW d \in Devices, ApplyChunk(d)
  PROVE  IInv'
<1>1. LogsTyped /\ TablesTyped /\ RestTyped /\ RecordsAccurate
  BY TypesSplit DEF IInv
<1>2. PICK c : c = Head(incoming[d])
  OBVIOUS
<1>3. c \in Chunk /\ ChunkFine(c)
  BY <1>1, <1>2, HeadIsFine DEF IInv, ApplyChunk
<1>4. /\ incoming[d] # <<>>
      /\ incoming' = [incoming EXCEPT ![d] = Tail(@)]
      /\ tombs' = [tombs EXCEPT ![d] =
           @ \cup c.tombs \cup {<<e, LatestProducer(d, e)>> : e \in Absent(d, c)}]
      /\ UNCHANGED <<log, kept, open, built, swept, cuts, honest, migrated, lost, early>>
  BY <1>2 DEF ApplyChunk, counters
<1>5. Ids' = Ids /\ RecordsAccurate'
  BY <1>4, LogsKept
<1>6. LogsTyped'
  BY ApplyTypesLogs
<1>7. ASSUME NEW b \in Devices, NEW e \in Events
      PROVE  /\ row'[b][e] \in Ids \cup {Gone}
             /\ version'[b][e] \in Clocks \cup {Unversioned}
             /\ latest'[b][e] \in [id : Ids \cup {Gone}, hlc : Nat] \cup {Unversioned}
  <2>1. /\ row[b][e] \in Ids \cup {Gone}
        /\ version[b][e] \in Clocks \cup {Unversioned}
        /\ latest[b][e] \in [id : Ids \cup {Gone}, hlc : Nat] \cup {Unversioned}
    BY <1>1 DEF TablesTyped
  <2>2. CASE b # d
    <3>1. row'[b] = row[b] /\ version'[b] = version[b] /\ latest'[b] = latest[b]
      BY <1>2, <2>2, ChunkApplied
    <3> QED
      BY <2>1, <3>1
  <2>3. CASE b = d
    <3>1. CASE row'[d][e] = Gone /\ version'[d][e] = Unversioned /\ latest'[d][e] = Unversioned
      BY <2>3, <3>1
    <3>2. CASE \E k \in Staged(d, c) :
                 /\ row'[d][e] = c.entries[k].row
                 /\ version'[d][e] = TakenVersion(d, c.entries[k])
                 /\ latest'[d][e] = TakenLatest(d, c.entries[k])
      BY <1>3, <2>3, <3>2, TakenTypes
    <3>3. CASE /\ row'[d][e] = row[d][e] /\ version'[d][e] = version[d][e]
               /\ latest'[d][e] = latest[d][e]
      BY <2>1, <2>3, <3>3
    <3>4. Replaced(d, c, e)
      BY <1>2, ChunkApplied
    <3> QED
      BY <3>1, <3>2, <3>3, <3>4 DEF Replaced
  <2> QED
    BY <2>2, <2>3
<1>8. TablesTyped'
  <2>1. /\ row' = [b \in Devices |-> [e \in Events |-> row'[b][e]]]
        /\ version' = [b \in Devices |-> [e \in Events |-> version'[b][e]]]
        /\ latest' = [b \in Devices |-> [e \in Events |-> latest'[b][e]]]
    BY <1>2, ChunkApplied
  <2>2. row' \in [Devices -> [Events -> Ids \cup {Gone}]]
    BY <1>7, <2>1
  <2>3. version' \in [Devices -> [Events -> Clocks \cup {Unversioned}]]
    BY <1>7, <2>1
  <2> DEFINE R == [id : Ids \cup {Gone}, hlc : Nat] \cup {Unversioned}
  <2>4. latest' \in [Devices -> [Events -> R]]
    <3> HIDE DEF R
    <3>1. \A b \in Devices, e \in Events : latest'[b][e] \in R
      BY <1>7 DEF R
    <3> QED
      BY <2>1, <3>1
  <2> QED
    BY <1>1, <1>4, <1>5, <2>2, <2>3, <2>4 DEF TablesTyped
<1>9. RestTyped'
  <2> DEFINE Graves == Events \X ((Devices \X Nat) \cup {Gone})
  <2>1. tombs' \in [Devices -> SUBSET Graves]
    <3>1. c.tombs \in SUBSET Graves
      BY <1>3 DEF Chunk
    <3>2. ASSUME NEW e \in Absent(d, c)
          PROVE  <<e, LatestProducer(d, e)>> \in Graves
      <4>1. e \in Events
        BY DEF Absent
      <4>2. LatestProducer(d, e) \in Ids \cup {Gone}
        BY <1>1, <4>1, LatestProducerType
      <4>3. LatestProducer(d, e) \in (Devices \X Nat) \cup {Gone}
        BY <1>1, <4>2, IdIsPair
      <4> QED
        BY <4>1, <4>3
    <3>3. tombs \in [Devices -> SUBSET Graves]
      BY <1>1 DEF RestTyped
    <3> HIDE DEF Graves
    <3> QED
      BY <1>4, <3>1, <3>2, <3>3
  <2>2. incoming' \in [Devices -> Seq(Chunk)]
    <3>1. incoming \in [Devices -> Seq(Chunk)] /\ incoming[d] \in Seq(Chunk)
      BY <1>1 DEF RestTyped
    <3>2. Tail(incoming[d]) \in Seq(Chunk)
      BY <1>4, <3>1, HeadTailProperties
    <3> QED
      BY <1>4, <3>1, <3>2
  <2> QED
    BY <1>1, <1>4, <2>1, <2>2 DEF RestTyped
<1>10. OpenIsKept'
  BY <1>4 DEF IInv, OpenIsKept
<1>11. ChunksFine'
  <2>1. ASSUME NEW b \in Devices, NEW j \in 1 .. Len(incoming'[b])
        PROVE  incoming'[b][j] \in Chunk /\ ChunkFine(incoming'[b][j])
    <3>1. incoming \in [Devices -> Seq(Chunk)] /\ incoming[d] \in Seq(Chunk)
      BY <1>1 DEF RestTyped
    <3>2. CASE b = d
      <4>1. incoming'[d] = Tail(incoming[d])
        BY <1>4, <3>1
      <4>2. /\ Len(Tail(incoming[d])) = Len(incoming[d]) - 1
            /\ \A i \in 1 .. Len(Tail(incoming[d])) : Tail(incoming[d])[i] = incoming[d][i + 1]
        BY <1>4, <3>1, HeadTailProperties
      <4>3. j + 1 \in 1 .. Len(incoming[d]) /\ incoming'[d][j] = incoming[d][j + 1]
        <5>1. Len(incoming[d]) \in Nat
          BY <3>1
        <5> QED
          BY <3>2, <4>1, <4>2, <5>1
      <4> QED
        BY <1>1, <3>2, <4>3, ComingFine DEF IInv
    <3>3. CASE b # d
      <4>1. incoming'[b] = incoming[b]
        BY <1>4, <3>1, <3>3
      <4> QED
        BY <1>1, <4>1, ComingFine DEF IInv
    <3> QED
      BY <3>2, <3>3
  <2>2. \A q \in Devices : Len(log[q]) <= Len(log'[q])
    BY <1>1, <1>4, LogLengths
  <2> QED
    BY <1>1, <1>4, <1>5, <1>6, <2>1, <2>2, ChunksStayFine
<1>12. VersionCoversRow'
  <2> SUFFICES ASSUME NEW b \in Devices, NEW e \in Events,
                      row'[b][e] # Gone, e \notin lost'
               PROVE  /\ version'[b][e] # Unversioned
                      /\ version'[b][e][row'[b][e][1]] >= row'[b][e][2]
    BY DEF VersionCoversRow
  <2>1. e \notin lost
    BY <1>4
  <2>2. CASE row'[b][e] = row[b][e] /\ version'[b][e] = version[b][e]
    BY <2>1, <2>2 DEF IInv, VersionCoversRow
  <2>3. CASE \E k \in Staged(b, c) :
               /\ c.entries[k].event = e
               /\ row'[b][e] = c.entries[k].row
               /\ version'[b][e] = TakenVersion(b, c.entries[k])
    <3>1. PICK k \in Staged(b, c) :
               /\ c.entries[k].event = e
               /\ row'[b][e] = c.entries[k].row
               /\ version'[b][e] = TakenVersion(b, c.entries[k])
      BY <2>3
    <3> DEFINE x == c.entries[k]
    <3>2. /\ x.row \in Ids
          /\ TakenVersion(b, x) \in Clocks
          /\ \A p \in Devices : TakenVersion(b, x)[p] >= x.version[p]
          /\ x.version[x.row[1]] >= x.row[2]
          /\ x.version \in Clocks
      BY <1>3, <2>1, <3>1, TakenTypes DEF Entry
    <3> HIDE DEF x
    <3>3. x.row[1] \in Devices /\ x.row[2] \in Nat
      BY <1>1, <3>2, IdIsPair
    <3>4. PICK p \in Devices : p = x.row[1]
      BY <3>3
    <3>5. TakenVersion(b, x)[p] \in Nat /\ x.version[p] \in Nat
      BY <3>2 DEF Clocks
    <3>6. TakenVersion(b, x)[p] >= x.row[2]
      <4>1. TakenVersion(b, x)[p] >= x.version[p] /\ x.version[p] >= x.row[2]
        BY <3>2, <3>4
      <4> QED
        BY <3>3, <3>5, <4>1
    <3>7. TakenVersion(b, x) # Unversioned
      BY <3>2, UnversionedAssumption
    <3>8. row'[b][e] = x.row /\ version'[b][e] = TakenVersion(b, x)
      BY <3>1 DEF x
    <3> QED
      BY <3>4, <3>6, <3>7, <3>8
  <2>4. CASE b = d
    <3>1. Replaced(d, c, e)
      BY <1>2, ChunkApplied
    <3>2. row'[d][e] # Gone
      BY <2>4
    <3> QED
      BY <2>2, <2>3, <2>4, <3>1, <3>2 DEF Replaced
  <2>5. CASE b # d
    BY <1>2, <2>2, <2>5, ChunkApplied
  <2> QED
    BY <2>4, <2>5
<1> QED
  BY <1>5, <1>6, <1>8, <1>9, <1>10, <1>11, <1>12, TypesJoin DEF IInv

-----------------------------------------------------------------------------
(* The invariant holds always.                                             *)

LEMMA InitEstablishes == Init => IInv
<1> SUFFICES ASSUME Init PROVE IInv
  OBVIOUS
<1> USE DEF Init
<1>1. NoClock \in Clocks
  BY DEF NoClock, Clocks
<1>2. \A p \in Devices : Len(log[p]) = 0
  OBVIOUS
<1>3. LogsTyped
  <2>1. \A d, p \in Devices : applied[d][p] = 0 /\ clock[d][p] = 0
    BY DEF NoClock
  <2>2. log \in [Devices -> Seq(Records)]
    OBVIOUS
  <2>3. applied \in [Devices -> Clocks] /\ clock \in [Devices -> Clocks]
    BY <1>1
  <2> QED
    BY <1>2, <2>1, <2>2, <2>3 DEF LogsTyped
<1>4. TablesTyped
  BY DEF TablesTyped
<1>5. RestTyped
  <2>1. {MaxRecords, MaxSnapshots, MaxSweeps, MaxCuts} \subseteq Nat
    BY BoundsAssumption
  <2>2. /\ built \in 0 .. MaxSnapshots
        /\ swept \in 0 .. MaxSweeps
        /\ cuts \in 0 .. MaxCuts
        /\ migrated \in 0 .. MaxRecords
    BY <2>1
  <2>3. /\ tombs \in [Devices -> SUBSET (Events \X ((Devices \X Nat) \cup {Gone}))]
        /\ incoming \in [Devices -> Seq(Chunk)]
        /\ honest \in BOOLEAN /\ lost \subseteq Events /\ early \subseteq Events
    OBVIOUS
  <2> QED
    BY <2>2, <2>3 DEF RestTyped
<1>6. RecordsAccurate
  BY <1>2 DEF RecordsAccurate
<1>7. OpenIsKept
  BY DEF OpenIsKept
<1>8. ChunksFine
  <2>1. \A d \in Devices : Len(incoming[d]) = 0
    OBVIOUS
  <2> QED
    BY <2>1 DEF ChunksFine
<1>9. VersionCoversRow
  BY DEF VersionCoversRow
<1> QED
  BY <1>3, <1>4, <1>5, <1>6, <1>7, <1>8, <1>9, TypesSplit DEF IInv

LEMMA NextPreserves == IInv /\ [Next]_vars => IInv'
<1> SUFFICES ASSUME IInv, [Next]_vars PROVE IInv'
  OBVIOUS
<1>1. CASE \E d \in Devices : Migrate(d) \/ Sweep(d) \/ ApplyChunk(d) \/ Cut(d)
  BY <1>1, MigratePreserves, SweepPreserves, ApplyChunkPreserves, CutPreserves
<1>2. CASE \E d \in Devices, e \in Events :
             Create(d, e) \/ Edit(d, e) \/ Delete(d, e) \/ Resolve(d, e)
  BY <1>2, LocalChangesPreserve
<1>3. CASE \E d, s, p \in Devices : Pull(d, s, p)
  BY <1>3, PullPreserves
<1>4. CASE \E r, s \in Devices : BeginSnapshot(r, s)
  BY <1>4, BeginSnapshotPreserves
<1>5. CASE UNCHANGED vars
  <2>1. /\ UNCHANGED <<log, applied, clock>>
        /\ UNCHANGED <<kept, row, version, latest, open>>
        /\ UNCHANGED <<tombs, incoming, built, swept, cuts, honest, migrated, lost, early>>
    BY <1>5 DEF vars
  <2>2. LogsTyped /\ TablesTyped /\ RestTyped
    BY TypesSplit DEF IInv
  <2>3. Ids' = Ids
    BY <2>1, LogsKept
  <2>4. TablesTyped'
    BY <2>1, <2>2, <2>3 DEF TablesTyped
  <2>5. RestTyped'
    BY <2>1, <2>2 DEF RestTyped
  <2>6. OpenIsKept'
    BY <2>1 DEF IInv, OpenIsKept
  <2>7. VersionCoversRow'
    BY <2>1 DEF IInv, VersionCoversRow
  <2>8. \A b \in Devices : \A j \in 1 .. Len(incoming'[b]) :
          incoming'[b][j] \in Chunk /\ ChunkFine(incoming'[b][j])
    BY <2>1, <2>2, ComingFine DEF IInv
  <2> QED
    BY <2>1, <2>4, <2>5, <2>6, <2>7, <2>8, QuietStep
<1> QED
  BY <1>1, <1>2, <1>3, <1>4, <1>5 DEF Next

\* The inductive invariant: types, accurate records, histories that keep the
\* sides of open conflicts, messages whose versions cover their rows, and
\* versions that cover the rows of the calendar.
THEOREM Invariance == Spec => []IInv
BY InitEstablishes, NextPreserves, PTL DEF Spec

\* The tables, the clocks and the messages keep their types.
THEOREM TypeCorrect == Spec => []TypeOK
<1>1. IInv => TypeOK
  BY DEF IInv
<1> QED
  BY <1>1, Invariance, PTL

\* The stored version of an event covers the record that wrote its row,
\* whatever was swept, taken over or deleted (recordEntityVersion,
\* recordSnapshotEntityVersion), however many devices and snapshots there are.
THEOREM VersionsSurvive == Spec => []VersionCoversRow
<1>1. IInv => VersionCoversRow
  BY DEF IInv
<1> QED
  BY <1>1, Invariance, PTL

-----------------------------------------------------------------------------
(* What a message of a snapshot may change.                                *)

\* A message is taken by ApplyChunk and by nothing else.
LEMMA TakenIsApplied ==
  ASSUME IInv, Next, NEW d \in Devices, ChunkTaken(d)
  PROVE  ApplyChunk(d)
<1>1. RestTyped
  BY TypesSplit DEF IInv
<1>2. incoming \in [Devices -> Seq(Chunk)] /\ incoming[d] \in Seq(Chunk)
  BY <1>1 DEF RestTyped
<1>3. incoming[d] # <<>> /\ incoming'[d] = Tail(incoming[d]) /\ cuts' = cuts
  BY DEF ChunkTaken
<1>4. incoming'[d] # incoming[d]
  <2>1. Len(Tail(incoming[d])) = Len(incoming[d]) - 1 /\ Len(incoming[d]) \in Nat
    BY <1>2, <1>3, HeadTailProperties
  <2>2. PICK s, r : s = incoming[d] /\ r = Tail(incoming[d])
    OBVIOUS
  <2>3. Len(r) # Len(s)
    BY <2>1, <2>2
  <2>4. r # s
    BY ONLY <2>3
  <2> QED
    BY <1>3, <2>2, <2>4
<1>5. ASSUME NEW b \in Devices, Migrate(b) \/ Sweep(b) \/ ApplyChunk(b) \/ Cut(b)
      PROVE  ApplyChunk(d)
  <2>1. CASE Migrate(b)
    BY <1>4, <2>1 DEF Migrate
  <2>2. CASE Sweep(b)
    BY <1>4, <2>2 DEF Sweep
  <2>3. CASE ApplyChunk(b)
    <3>1. incoming' = [incoming EXCEPT ![b] = Tail(@)]
      BY <2>3 DEF ApplyChunk
    <3>2. b = d
      BY <1>2, <1>4, <3>1
    <3> QED
      BY <2>3, <3>2
  <2>4. CASE Cut(b)
    <3>1. cuts' = cuts + 1 /\ cuts \in 0 .. MaxCuts /\ MaxCuts \in Nat
      BY <1>1, <2>4, BoundsAssumption DEF Cut, RestTyped
    <3> QED
      BY <1>3, <3>1
  <2> QED
    BY <1>5, <2>1, <2>2, <2>3, <2>4
<1>6. ASSUME NEW b \in Devices, NEW e \in Events,
             Create(b, e) \/ Edit(b, e) \/ Delete(b, e) \/ Resolve(b, e)
      PROVE  FALSE
  <2>1. incoming' = incoming
    BY <1>6 DEF Create, Edit, Delete, Resolve, Write
  <2> QED
    BY <1>4, <2>1
<1>7. ASSUME NEW b \in Devices, NEW s \in Devices, NEW p \in Devices, Pull(b, s, p)
      PROVE  FALSE
  BY <1>4, <1>7 DEF Pull
<1>8. ASSUME NEW r \in Devices, NEW s \in Devices, BeginSnapshot(r, s)
      PROVE  FALSE
  <2>1. PICK live \in Listings(s) :
          incoming' = [incoming EXCEPT ![r] = ChunksOf(s, live)]
    BY <1>8 DEF BeginSnapshot
  <2>2. incoming[r] = <<>>
    BY <1>8 DEF BeginSnapshot
  <2>3. r # d
    BY <1>3, <2>2
  <2> QED
    BY <1>2, <1>4, <2>1, <2>3
<1> QED
  BY <1>5, <1>6, <1>7, <1>8 DEF Next

\* While the user has a conflict to resolve, no sweep takes one of its sides
\* away and no message settles it (sweep, hasUnresolvedConflict).
THEOREM ConflictsArePreserved == Spec => ConflictPreserved
<1> DEFINE Kept == \A d \in Devices, e \in Events :
             open[d][e] # {} /\ open' = open
             => /\ open[d][e] \subseteq kept'[d]
                /\ ChunkTaken(d) => row'[d][e] = row[d][e]
<1>1. IInv /\ [Next]_vars => [Kept]_vars
  <2> SUFFICES ASSUME IInv, Next, NEW d \in Devices, NEW e \in Events,
                      open[d][e] # {}, open' = open
               PROVE  /\ open[d][e] \subseteq kept'[d]
                      /\ ChunkTaken(d) => row'[d][e] = row[d][e]
    OBVIOUS
  <2>1. open[d][e] \subseteq kept'[d]
    <3>1. OpenIsKept'
      BY NextPreserves DEF IInv
    <3> QED
      BY <3>1 DEF OpenIsKept
  <2>2. ASSUME ChunkTaken(d) PROVE row'[d][e] = row[d][e]
    <3>1. ApplyChunk(d)
      BY <2>2, TakenIsApplied
    <3>2. PICK c : c = Head(incoming[d])
      OBVIOUS
    <3>3. Replaced(d, c, e)
      BY <3>1, <3>2, ChunkApplied
    <3>4. e \notin Absent(d, c)
      BY DEF Absent, InConflict
    <3>5. \A k \in Staged(d, c) : c.entries[k].event # e
      BY DEF Staged, InConflict
    <3> QED
      BY <3>3, <3>4, <3>5 DEF Replaced
  <2> QED
    BY <2>1, <2>2
<1> QED
  BY <1>1, Invariance, PTL DEF Spec, ConflictPreserved

\* A snapshot never replaces or deletes a change that its clock does not cover
\* (applySnapshot, DC-09 7.1), whatever its size and wherever it is cut.
THEOREM LocalWorkIsKept == Spec => LocalWorkSurvives
<1> DEFINE Kept == \A d \in Devices :
             ChunkTaken(d)
             => \A e \in Events :
                  /\ row[d][e] # Gone
                  /\ e \notin lost
                  /\ Head(incoming[d]).clock[row[d][e][1]] < row[d][e][2]
                  => row'[d][e] = row[d][e]
<1>1. IInv /\ [Next]_vars => [Kept]_vars
  <2> SUFFICES ASSUME IInv, Next, NEW d \in Devices, ChunkTaken(d), NEW e \in Events,
                      row[d][e] # Gone, e \notin lost,
                      Head(incoming[d]).clock[row[d][e][1]] < row[d][e][2]
               PROVE  row'[d][e] = row[d][e]
    OBVIOUS
  <2>1. LogsTyped /\ TablesTyped /\ RestTyped /\ RecordsAccurate
    BY TypesSplit DEF IInv
  <2>2. ApplyChunk(d)
    BY TakenIsApplied
  <2>3. PICK c : c = Head(incoming[d])
    OBVIOUS
  <2>4. c \in Chunk
    BY <2>1, <2>2, <2>3, HeadIsFine DEF IInv, ApplyChunk
  <2>5. row[d][e] \in Ids
    BY <2>1 DEF TablesTyped
  <2>6. PICK p \in Devices : p = row[d][e][1]
    BY <2>1, <2>5, IdIsPair
  <2>7. version[d][e] # Unversioned /\ version[d][e][p] >= row[d][e][2]
    BY <2>6 DEF IInv, VersionCoversRow
  <2>8. LocalVersion(d, e) \in Clocks /\ LocalVersion(d, e)[p] >= row[d][e][2]
    BY <2>1, <2>7, LocalVersionType
  <2>9. ~ Dominates(c.clock, LocalVersion(d, e))
    <3>1. c.clock[p] < row[d][e][2]
      BY <2>3, <2>6
    <3>2. /\ c.clock[p] \in Nat /\ LocalVersion(d, e)[p] \in Nat
          /\ row[d][e][2] \in Nat
      BY <2>1, <2>4, <2>5, <2>8, IdIsPair DEF Chunk, Clocks
    <3>3. ~ (c.clock[p] >= LocalVersion(d, e)[p])
      BY <2>8, <3>1, <3>2
    <3> QED
      BY <3>3 DEF Dominates
  <2>10. Replaced(d, c, e)
    BY <2>2, <2>3, ChunkApplied
  <2>11. e \notin Absent(d, c)
    BY <2>9 DEF Absent
  <2>12. \A k \in Staged(d, c) : c.entries[k].event # e
    BY <2>9 DEF Staged
  <2> QED
    BY <2>10, <2>11, <2>12 DEF Replaced
<1> QED
  BY <1>1, Invariance, PTL DEF Spec, LocalWorkSurvives

-----------------------------------------------------------------------------
(* A snapshot of one message.                                              *)

\* The last message of a snapshot that fits one message lists every event its
\* sender shows.
LastIsWhole ==
  \A d \in Devices : incoming[d] # <<>> => Whole(incoming[d][Len(incoming[d])])

LEMMA LastStaysWhole ==
  ASSUME Cardinality(Events) < ChunkSize, IInv, LastIsWhole, [Next]_vars
  PROVE  LastIsWhole'
<1>1. RestTyped
  BY TypesSplit DEF IInv
<1>2. incoming \in [Devices -> Seq(Chunk)]
  BY <1>1 DEF RestTyped
<1> SUFFICES ASSUME NEW d \in Devices, incoming'[d] # <<>>
             PROVE  Whole(incoming'[d][Len(incoming'[d])])
  BY DEF LastIsWhole, Whole, Carried
<1>3. CASE incoming'[d] = incoming[d]
  BY <1>3 DEF LastIsWhole
<1>4. CASE incoming[d] # <<>> /\ incoming'[d] = Tail(incoming[d])
  <2>1. incoming[d] \in Seq(Chunk)
    BY <1>2
  <2>2. /\ Len(Tail(incoming[d])) = Len(incoming[d]) - 1
        /\ \A i \in 1 .. Len(Tail(incoming[d])) : Tail(incoming[d])[i] = incoming[d][i + 1]
        /\ Tail(incoming[d]) \in Seq(Chunk)
    BY <1>4, <2>1, HeadTailProperties
  <2>3. Len(incoming[d]) \in Nat
    BY <2>1
  <2>4. Len(Tail(incoming[d])) \in 1 .. Len(Tail(incoming[d]))
    BY <1>4, <2>2
  <2>5. incoming'[d][Len(incoming'[d])] = incoming[d][Len(incoming[d])]
    BY <1>4, <2>2, <2>3, <2>4
  <2> QED
    BY <1>4, <2>5 DEF LastIsWhole
<1>5. ASSUME NEW b \in Devices, Migrate(b) \/ Sweep(b) \/ ApplyChunk(b) \/ Cut(b)
      PROVE  \/ incoming'[d] = incoming[d]
             \/ incoming[d] # <<>> /\ incoming'[d] = Tail(incoming[d])
  <2>1. CASE Migrate(b)
    BY <2>1 DEF Migrate
  <2>2. CASE Sweep(b)
    BY <2>2 DEF Sweep
  <2>3. CASE ApplyChunk(b)
    <3>1. incoming[b] # <<>> /\ incoming' = [incoming EXCEPT ![b] = Tail(@)]
      BY <2>3 DEF ApplyChunk
    <3> QED
      BY <1>2, <3>1
  <2>4. CASE Cut(b)
    <3>1. incoming' = [incoming EXCEPT ![b] = <<>>]
      BY <2>4 DEF Cut
    <3> QED
      BY <1>2, <3>1
  <2> QED
    BY <1>5, <2>1, <2>2, <2>3, <2>4
<1>6. ASSUME NEW b \in Devices, NEW e \in Events,
             Create(b, e) \/ Edit(b, e) \/ Delete(b, e) \/ Resolve(b, e)
      PROVE  incoming' = incoming
  BY <1>6 DEF Create, Edit, Delete, Resolve, Write
<1>7. ASSUME NEW b \in Devices, NEW s \in Devices, NEW p \in Devices, Pull(b, s, p)
      PROVE  incoming' = incoming
  BY <1>7 DEF Pull
<1>8. ASSUME NEW r \in Devices, NEW s \in Devices, BeginSnapshot(r, s)
      PROVE  Whole(incoming'[d][Len(incoming'[d])])
  <2>1. PICK live \in Listings(s) :
          incoming' = [incoming EXCEPT ![r] = ChunksOf(s, live)]
    BY <1>8 DEF BeginSnapshot
  <2>2. CASE r = d
    <3>1. incoming'[d] = ChunksOf(s, live)
      BY <1>2, <2>1, <2>2
    <3> QED
      BY <3>1, ChunksAreFine
  <2>3. CASE r # d
    <3>1. incoming'[d] = incoming[d]
      BY <1>2, <2>1, <2>3
    <3> QED
      BY <1>3, <3>1
  <2> QED
    BY <2>2, <2>3
<1>9. CASE UNCHANGED vars
  BY <1>3, <1>9 DEF vars
<1> QED
  BY <1>3, <1>4, <1>5, <1>6, <1>7, <1>8, <1>9 DEF Next

\* An event that is settled between two devices becomes what the sender of the
\* snapshot had, when the calendar fits one message (applySnapshot).
THEOREM SnapshotsAreAdopted ==
  ASSUME Cardinality(Events) < ChunkSize
  PROVE  Spec => SnapshotAdopted
<1> DEFINE Adopted == \A d \in Devices :
             ChunkTaken(d) /\ Len(incoming[d]) = 1
             => \A e \in Events :
                  /\ open[d][e] = {} /\ e \notin lost
                  /\ Dominates(Head(incoming[d]).clock, LocalVersion(d, e))
                  => row'[d][e] = Head(incoming[d]).rows[e]
<1>1. Init => LastIsWhole
  BY DEF Init, LastIsWhole
<1>2. IInv /\ LastIsWhole /\ [Next]_vars => LastIsWhole'
  BY LastStaysWhole
<1>3. IInv /\ LastIsWhole /\ [Next]_vars => [Adopted]_vars
  <2> SUFFICES ASSUME IInv, LastIsWhole, Next, NEW d \in Devices,
                      ChunkTaken(d), Len(incoming[d]) = 1, NEW e \in Events,
                      open[d][e] = {}, e \notin lost,
                      Dominates(Head(incoming[d]).clock, LocalVersion(d, e))
               PROVE  row'[d][e] = Head(incoming[d]).rows[e]
    OBVIOUS
  <2>1. LogsTyped /\ TablesTyped /\ RestTyped /\ RecordsAccurate
    BY TypesSplit DEF IInv
  <2>2. ApplyChunk(d)
    BY TakenIsApplied
  <2>3. PICK c : c = Head(incoming[d])
    OBVIOUS
  <2>4. c \in Chunk /\ ChunkFine(c) /\ incoming[d] # <<>>
    BY <2>1, <2>2, <2>3, HeadIsFine DEF IInv, ApplyChunk
  <2>5. Whole(c)
    <3>1. Whole(incoming[d][1])
      BY <2>4 DEF LastIsWhole
    <3>2. c = incoming[d][1]
      BY <2>1, <2>3, <2>4 DEF RestTyped
    <3> QED
      BY <3>1, <3>2
  <2>6. Replaced(d, c, e)
    BY <2>2, <2>3, ChunkApplied
  <2>7. CASE e \in Absent(d, c) /\ row'[d][e] = Gone
    <3>1. e \notin Carried(c)
      BY <2>7 DEF Absent
    <3>2. c.rows[e] = Gone
      BY <2>5, <3>1 DEF Whole
    <3> QED
      BY <2>3, <2>7, <3>2
  <2>8. ASSUME NEW k \in Staged(d, c), c.entries[k].event = e,
               row'[d][e] = c.entries[k].row
        PROVE  row'[d][e] = c.rows[e]
    BY <2>4, <2>8, TakenTypes
  <2>9. CASE /\ e \notin Absent(d, c) /\ row'[d][e] = row[d][e]
             /\ \A k \in Staged(d, c) : c.entries[k].event # e
    <3>1. CASE e \in Carried(c)
      <4>1. PICK k \in DOMAIN c.entries : c.entries[k].event = e
        BY <3>1 DEF Carried
      <4>2. SameRow(d, c.entries[k])
        BY <2>3, <2>9, <4>1 DEF Staged, InConflict
      <4>3. c.entries[k].row = c.rows[e]
        BY <2>4, <4>1 DEF ChunkFine
      <4> QED
        BY <2>3, <2>9, <4>1, <4>2, <4>3 DEF SameRow
    <3>2. CASE e \notin Carried(c)
      <4>1. c.rows[e] = Gone
        BY <2>5, <3>2 DEF Whole
      <4>2. row[d][e] = Gone
        <5> SUFFICES ASSUME row[d][e] # Gone PROVE FALSE
          OBVIOUS
        <5>1. LocalVersion(d, e) = NoClock
          BY <2>3, <2>9, <3>2 DEF Absent, InConflict
        <5>2. row[d][e] \in Ids
          BY <2>1 DEF TablesTyped
        <5>3. PICK p \in Devices : p = row[d][e][1]
          BY <2>1, <5>2, IdIsPair
        <5>4. row[d][e][2] \in 1 .. Len(log[p]) /\ Len(log[p]) \in Nat
          BY <2>1, <5>2, <5>3, IdIsPair, LogLengths
        <5>5. version[d][e] # Unversioned /\ version[d][e][p] >= row[d][e][2]
          BY <5>3 DEF IInv, VersionCoversRow
        <5>6. LocalVersion(d, e)[p] >= row[d][e][2]
          BY <2>1, <5>5, LocalVersionType
        <5>7. LocalVersion(d, e)[p] = 0
          BY <5>1 DEF NoClock
        <5> QED
          BY <5>4, <5>6, <5>7
      <4> QED
        BY <2>3, <2>9, <4>1, <4>2
    <3> QED
      BY <3>1, <3>2
  <2> QED
    BY <2>3, <2>6, <2>7, <2>8, <2>9 DEF Replaced
<1> QED
  BY <1>1, <1>2, <1>3, Invariance, PTL DEF Spec, SnapshotAdopted

-----------------------------------------------------------------------------
(* An event does not vanish: what a device counts as applied, it shows,    *)
(* unless the messages that bring it back are still under way.             *)

\* The creation of event e; an event has at most one (Create).
Births(e) == {i \in Ids : Rec(i).event = e /\ Rec(i).kind = "event"}

\* A clock that counts the creation.
Knows(births, v) == \E i \in births : v[i[1]] >= i[2]

\* The events of which nobody asked for less.
Alive == {e \in Events \ early : \A j \in Ids : Rec(j).event = e => Rec(j).kind # "*"}

\* The clocks of what sweeps have left of the history of e.
ClocksLeft(d, e) == {Rec(j).clock : j \in {i \in kept[d] : Rec(i).event = e}}

\* The last message under way to d.
Final(d) == incoming[d][Len(incoming[d])]

BornOnce == \A e \in Events : \A i, j \in Births(e) : i = j

OwnIsApplied == \A d \in Devices : applied[d][d] = Len(log[d])

\* The messages of a stream have one clock and speak of one calendar.
StreamsAgree ==
  \A d \in Devices : \A j \in 1 .. Len(incoming[d]) :
    /\ incoming[d][j].clock = Final(d).clock
    /\ incoming[d][j].rows = Final(d).rows
    /\ \A k \in DOMAIN incoming[d][j].entries : incoming[d][j].entries[k].row # Gone

IdleBeforeSnapshots == built = 0 => \A d \in Devices : incoming[d] = <<>>

\* Who writes about an event knows of its creation.
RecordsKnow ==
  \A j \in Ids : \A e \in Alive : Rec(j).event = e => Knows(Births(e), Rec(j).clock)

\* What d shows it knows, and the version covers the history that is left.
WhenShown(d, e) ==
  row[d][e] # Gone =>
    /\ Knows(Births(e), applied[d])
    /\ \A h \in ClocksLeft(d, e) :
         version[d][e] # Unversioned /\ Dominates(version[d][e], h)

\* What d does not show it does not know, or the last message has it; nothing
\* on d keeps the entry of that message out.
WhenGone(d, e) ==
  row[d][e] = Gone =>
    /\ version[d][e] = Unversioned
    /\ open[d][e] = {}
    /\ \A h \in ClocksLeft(d, e) : incoming[d] # <<>> /\ Dominates(Final(d).clock, h)
    /\ Knows(Births(e), applied[d]) => incoming[d] # <<>> /\ Final(d).rows[e] # Gone

VersionKnows(d, e) ==
  version[d][e] \in {Unversioned, NoClock} \/ Knows(Births(e), version[d][e])

HistoryKnows(d, e) == ClocksLeft(d, e) # {} => Knows(Births(e), applied[d])

\* A stream has the events that its clock counts, and no others.
StreamKnows(d, e) ==
  /\ incoming[d] # <<>> =>
       (Knows(Births(e), Final(d).clock) <=> Final(d).rows[e] # Gone)
  /\ \A j \in 1 .. Len(incoming[d]) : \A k \in DOMAIN incoming[d][j].entries :
       LET x == incoming[d][j].entries[k]
       IN  x.event = e => x.version = NoClock \/ Knows(Births(e), x.version)

Remembered(d, e) ==
  /\ WhenShown(d, e) /\ WhenGone(d, e)
  /\ VersionKnows(d, e) /\ HistoryKnows(d, e) /\ StreamKnows(d, e)

AllRemembered == RecordsKnow /\ \A d \in Devices, e \in Alive : Remembered(d, e)

\* What is true of streams and histories in every case.
Frame == BornOnce /\ OwnIsApplied /\ StreamsAgree /\ IdleBeforeSnapshots

NInv ==
  /\ IInv /\ LastIsWhole /\ Frame
  /\ honest /\ cuts = 0 => AllRemembered

\* The parts of the first invariant, which most steps below need.
LEMMA Typed ==
  IInv => LogsTyped /\ TablesTyped /\ RestTyped /\ RecordsAccurate
BY TypesSplit DEF IInv

-----------------------------------------------------------------------------
(* What a clock knows.                                                     *)

LEMMA DominatesTransitively ==
  ASSUME NEW u \in Clocks, NEW v \in Clocks, NEW w \in Clocks,
         Dominates(u, v), Dominates(v, w)
  PROVE  Dominates(u, w)
<1>1. ASSUME NEW p \in Devices PROVE u[p] >= w[p]
  <2>1. u[p] \in Nat /\ v[p] \in Nat /\ w[p] \in Nat
    BY DEF Clocks
  <2>2. u[p] >= v[p] /\ v[p] >= w[p]
    BY DEF Dominates
  <2> QED
    BY <2>1, <2>2
<1> QED
  BY <1>1 DEF Dominates

LEMMA KnowsMore ==
  ASSUME NEW B \in SUBSET (Devices \X Nat), NEW v \in Clocks, NEW w \in Clocks,
         Dominates(w, v), Knows(B, v)
  PROVE  Knows(B, w)
<1>1. PICK i \in B : v[i[1]] >= i[2]
  BY DEF Knows
<1>2. i[1] \in Devices /\ i[2] \in Nat
  OBVIOUS
<1>3. PICK p \in Devices : p = i[1]
  BY <1>2
<1>4. v[p] \in Nat /\ w[p] \in Nat /\ w[p] >= v[p]
  BY DEF Clocks, Dominates
<1>5. w[i[1]] >= i[2]
  BY <1>1, <1>2, <1>3, <1>4
<1> QED
  BY <1>5 DEF Knows

LEMMA KnowsMerged ==
  ASSUME NEW B \in SUBSET (Devices \X Nat), NEW v \in Clocks, NEW w \in Clocks
  PROVE  /\ Knows(B, Merge(v, w)) => Knows(B, v) \/ Knows(B, w)
         /\ Knows(B, v) \/ Knows(B, w) => Knows(B, Merge(v, w))
<1>1. /\ Merge(v, w) \in Clocks
      /\ \A p \in Devices : /\ Merge(v, w)[p] >= v[p]
                            /\ Merge(v, w)[p] >= w[p]
                            /\ Merge(v, w)[p] \in {v[p], w[p]}
  BY MergeIsUpper
<1>2. ASSUME Knows(B, Merge(v, w)) PROVE Knows(B, v) \/ Knows(B, w)
  <2>1. PICK i \in B : Merge(v, w)[i[1]] >= i[2]
    BY <1>2 DEF Knows
  <2>2. i[1] \in Devices
    OBVIOUS
  <2>3. Merge(v, w)[i[1]] \in {v[i[1]], w[i[1]]}
    BY <1>1, <2>2
  <2>4. v[i[1]] >= i[2] \/ w[i[1]] >= i[2]
    BY <2>1, <2>3
  <2> QED
    BY <2>4 DEF Knows
<1>3. Dominates(Merge(v, w), v) /\ Dominates(Merge(v, w), w)
  BY <1>1 DEF Dominates
<1> QED
  BY <1>1, <1>2, <1>3, KnowsMore

LEMMA BirthsArePairs ==
  ASSUME LogsTyped, NEW e
  PROVE  Births(e) \in SUBSET Ids /\ Births(e) \in SUBSET (Devices \X Nat)
<1>1. Births(e) \in SUBSET Ids
  BY DEF Births
<1> QED
  BY <1>1, IdIsPair

\* The clocks of the history that is left are clocks of records.
LEMMA ClocksLeftTyped ==
  ASSUME LogsTyped, TablesTyped, NEW d \in Devices, NEW e
  PROVE  ClocksLeft(d, e) \in SUBSET Clocks
<1>1. ASSUME NEW j \in kept[d] PROVE Rec(j).clock \in Clocks
  <2>1. j \in Ids
    BY DEF TablesTyped
  <2> QED
    BY <2>1, RecType
<1> QED
  BY <1>1 DEF ClocksLeft

\* The version that is derived from the history is the least that covers it.
LEMMA HistoryVersion ==
  ASSUME LogsTyped, TablesTyped, RecordsAccurate, NEW d \in Devices, NEW e \in Events
  PROVE  /\ \A h \in ClocksLeft(d, e) : Dominates(VersionOfHistory(d, e), h)
         /\ \A v \in Clocks : (\A h \in ClocksLeft(d, e) : Dominates(v, h))
                              => Dominates(v, VersionOfHistory(d, e))
         /\ ClocksLeft(d, e) = {} => VersionOfHistory(d, e) = NoClock
<1> DEFINE left == {i \in kept[d] : Rec(i).event = e}
           Entries(p) == {0} \cup {Rec(i).clock[p] : i \in left}
<1>1. left \subseteq Ids
  BY DEF TablesTyped
<1>2. ASSUME NEW p \in Devices
      PROVE  /\ Entries(p) \in SUBSET Nat
             /\ Max(Entries(p)) \in Entries(p)
             /\ \A x \in Entries(p) : x <= Max(Entries(p))
  <2>1. Len(log[p]) \in Nat
    BY LogLengths
  <2>2. ASSUME NEW i \in left
        PROVE  Rec(i).clock[p] \in Nat /\ Rec(i).clock[p] <= Len(log[p])
    <3>1. i \in Ids
      BY <1>1
    <3>2. Rec(i).clock \in Clocks /\ Rec(i).clock[p] <= Len(log[p])
      BY <3>1, RecType, RecFacts
    <3> QED
      BY <3>2 DEF Clocks
  <2>3. Entries(p) \in SUBSET Nat /\ Entries(p) # {}
    BY <2>2
  <2>4. \A x \in Entries(p) : x <= Len(log[p])
    BY <2>1, <2>2
  <2> HIDE DEF Entries
  <2>5. Max(Entries(p)) \in Entries(p)
    BY <2>1, <2>3, <2>4, MaxIsElement
  <2>6. PICK x \in Entries(p) : \A y \in Entries(p) : y <= x
    BY <2>1, <2>3, <2>4, GreatestExists
  <2>7. \A y \in Entries(p) : x >= y
    BY <2>3, <2>6
  <2>8. Max(Entries(p)) = CHOOSE z \in Entries(p) : \A y \in Entries(p) : z >= y
    BY DEF Max
  <2>9. \A y \in Entries(p) : Max(Entries(p)) >= y
    BY <2>7, <2>8
  <2>10. \A y \in Entries(p) : y <= Max(Entries(p))
    BY <2>3, <2>5, <2>9
  <2> QED
    BY <2>3, <2>5, <2>10
<1>3. \A p \in Devices : VersionOfHistory(d, e)[p] = Max(Entries(p))
  BY DEF VersionOfHistory
<1>4. ClocksLeft(d, e) = {Rec(i).clock : i \in left}
  BY DEF ClocksLeft
<1>5. \A p \in Devices : Entries(p) = {0} \cup {h[p] : h \in ClocksLeft(d, e)}
  BY <1>4
<1> HIDE DEF Entries, left
<1>6. ASSUME NEW h \in ClocksLeft(d, e) PROVE Dominates(VersionOfHistory(d, e), h)
  <2>1. ASSUME NEW p \in Devices PROVE VersionOfHistory(d, e)[p] >= h[p]
    <3>1. h[p] \in Entries(p)
      BY <1>5
    <3>2. h[p] \in Nat /\ Max(Entries(p)) \in Nat /\ h[p] <= Max(Entries(p))
      BY <1>2, <3>1
    <3> QED
      BY <1>3, <3>2
  <2> QED
    BY <2>1 DEF Dominates
<1>7. ASSUME NEW v \in Clocks, \A h \in ClocksLeft(d, e) : Dominates(v, h)
      PROVE  Dominates(v, VersionOfHistory(d, e))
  <2>1. ASSUME NEW p \in Devices PROVE v[p] >= VersionOfHistory(d, e)[p]
    <3>1. v[p] \in Nat
      BY DEF Clocks
    <3>2. Max(Entries(p)) \in Entries(p)
      BY <1>2
    <3>3. ASSUME NEW x \in Entries(p) PROVE v[p] >= x
      <4>1. CASE x = 0
        BY <3>1, <4>1
      <4>2. CASE x # 0
        <5>1. PICK h \in ClocksLeft(d, e) : x = h[p]
          BY <1>5, <4>2
        <5> QED
          BY <1>7, <5>1 DEF Dominates
      <4> QED
        BY <4>1, <4>2
    <3> QED
      BY <1>3, <3>2, <3>3
  <2> QED
    BY <2>1 DEF Dominates
<1>8. ASSUME ClocksLeft(d, e) = {} PROVE VersionOfHistory(d, e) = NoClock
  <2>1. \A p \in Devices : Max(Entries(p)) = 0
    <3>1. \A p \in Devices : Entries(p) = {0}
      BY <1>5, <1>8
    <3> QED
      BY <1>2, <3>1
  <2>2. VersionOfHistory(d, e) = [p \in Devices |-> VersionOfHistory(d, e)[p]]
    BY DEF VersionOfHistory
  <2> QED
    BY <1>3, <2>1, <2>2 DEF NoClock
<1> QED
  BY <1>6, <1>7, <1>8

\* A record of the history that is left knows of the creation.
LEMMA LeftKnows ==
  ASSUME LogsTyped, TablesTyped, RecordsKnow, NEW d \in Devices, NEW e \in Alive,
         NEW h \in ClocksLeft(d, e)
  PROVE  h \in Clocks /\ Knows(Births(e), h)
<1>1. PICK j \in kept[d] : Rec(j).event = e /\ h = Rec(j).clock
  BY DEF ClocksLeft
<1>2. j \in Ids
  BY <1>1 DEF TablesTyped
<1> QED
  BY <1>1, <1>2, RecType DEF RecordsKnow

\* The version that the snapshot rules read covers the history that is left,
\* and is empty or knows of the creation.
LEMMA LocalVersionKnows ==
  ASSUME NInv, AllRemembered, NEW d \in Devices, NEW e \in Alive
  PROVE  /\ LocalVersion(d, e) \in Clocks
         /\ \A h \in ClocksLeft(d, e) : Dominates(LocalVersion(d, e), h)
         /\ LocalVersion(d, e) = NoClock \/ Knows(Births(e), LocalVersion(d, e))
<1>1. LogsTyped /\ TablesTyped /\ RestTyped /\ RecordsAccurate
  BY Typed DEF NInv
<1>2. e \in Events
  BY DEF Alive
<1>3. /\ LocalVersion(d, e) \in Clocks
      /\ version[d][e] # Unversioned => LocalVersion(d, e) = version[d][e]
  BY <1>1, <1>2, LocalVersionType
<1>4. WhenShown(d, e) /\ WhenGone(d, e) /\ VersionKnows(d, e)
  BY DEF AllRemembered, Remembered
<1>5. CASE version[d][e] # Unversioned
  <2>1. row[d][e] # Gone
    BY <1>4, <1>5 DEF WhenGone
  <2>2. \A h \in ClocksLeft(d, e) : Dominates(version[d][e], h)
    BY <1>4, <2>1 DEF WhenShown
  <2>3. version[d][e] = NoClock \/ Knows(Births(e), version[d][e])
    BY <1>4, <1>5 DEF VersionKnows
  <2> QED
    BY <1>3, <1>5, <2>2, <2>3
<1>6. CASE version[d][e] = Unversioned
  <2>1. LocalVersion(d, e) = VersionOfHistory(d, e)
    BY <1>6 DEF LocalVersion, VersionOfHistory
  <2>2. \A h \in ClocksLeft(d, e) : Dominates(VersionOfHistory(d, e), h)
    BY <1>1, <1>2, HistoryVersion
  <2>3. CASE ClocksLeft(d, e) = {}
    <3>1. VersionOfHistory(d, e) = NoClock
      BY <1>1, <1>2, <2>3, HistoryVersion
    <3> QED
      BY <1>3, <2>1, <2>2, <3>1
  <2>4. CASE ClocksLeft(d, e) # {}
    <3>1. PICK h \in ClocksLeft(d, e) : TRUE
      BY <2>4
    <3>2. h \in Clocks /\ Knows(Births(e), h)
      BY <1>1, <3>1, LeftKnows DEF AllRemembered
    <3>3. Dominates(LocalVersion(d, e), h)
      BY <2>1, <2>2, <3>1
    <3>4. Births(e) \in SUBSET (Devices \X Nat)
      BY <1>1, BirthsArePairs
    <3>5. Knows(Births(e), LocalVersion(d, e))
      BY <1>3, <3>2, <3>3, <3>4, KnowsMore
    <3> QED
      BY <1>3, <2>1, <2>2, <3>5
  <2> QED
    BY <2>3, <2>4
<1> QED
  BY <1>5, <1>6

\* A step that leaves an event of a device alone.
LEMMA Unmoved ==
  ASSUME LogsTyped, NEW d \in Devices, NEW e \in Events, Remembered(d, e),
         row'[d][e] = row[d][e], version'[d][e] = version[d][e],
         open'[d][e] = open[d][e], incoming'[d] = incoming[d],
         ClocksLeft(d, e)' \subseteq ClocksLeft(d, e),
         Knows(Births(e)', applied'[d]) <=> Knows(Births(e), applied[d]),
         incoming[d] # <<>> =>
           (Knows(Births(e)', Final(d).clock) <=> Knows(Births(e), Final(d).clock)),
         Births(e) \subseteq Births(e)'
  PROVE  Remembered(d, e)'
<1>1. Final(d)' = Final(d)
  BY DEF Final
<1>2. \A v : Knows(Births(e), v) => Knows(Births(e)', v)
  BY DEF Knows
<1>3. WhenShown(d, e)'
  BY DEF Remembered, WhenShown
<1>4. WhenGone(d, e)'
  BY <1>1 DEF Remembered, WhenGone
<1>5. VersionKnows(d, e)'
  BY <1>2 DEF Remembered, VersionKnows
<1>6. HistoryKnows(d, e)'
  <2>1. ClocksLeft(d, e)' # {} => ClocksLeft(d, e) # {}
    OBVIOUS
  <2> QED
    BY <2>1 DEF Remembered, HistoryKnows
<1>7. StreamKnows(d, e)'
  BY <1>1, <1>2 DEF Remembered, StreamKnows
<1> QED
  BY <1>3, <1>4, <1>5, <1>6, <1>7 DEF Remembered

\* Where the records and what is kept of them stay.
LEMMA HistoryStays ==
  ASSUME log' = log, early' = early
  PROVE  /\ \A e : Births(e)' = Births(e)
         /\ Alive' = Alive
         /\ RecordsKnow => RecordsKnow'
         /\ \A d, e : kept'[d] = kept[d] => ClocksLeft(d, e)' = ClocksLeft(d, e)
<1>1. Ids' = Ids /\ \A i : Rec(i)' = Rec(i)
  BY DEF Ids, Rec
<1>2. \A e : Births(e)' = Births(e)
  BY <1>1 DEF Births
<1>3. Alive' = Alive
  BY <1>1 DEF Alive
<1>4. RecordsKnow => RecordsKnow'
  BY <1>1, <1>2, <1>3 DEF RecordsKnow
<1>5. \A d, e : kept'[d] = kept[d] => ClocksLeft(d, e)' = ClocksLeft(d, e)
  BY <1>1 DEF ClocksLeft
<1> QED
  BY <1>2, <1>3, <1>4, <1>5

-----------------------------------------------------------------------------
(* Sweeps, migrations and the start of a snapshot.                         *)

LEMMA SweepRemembers ==
  ASSUME NInv, AllRemembered, NEW d \in Devices, Sweep(d)
  PROVE  AllRemembered'
<1>1. LogsTyped /\ TablesTyped /\ RestTyped /\ RecordsAccurate
  BY Typed DEF NInv
<1>2. PICK peers \in SUBSET (Devices \ {d}) :
        kept' = [kept EXCEPT ![d] = {i \in @ : ~ Compactable(d, peers, i)}]
  BY DEF Sweep
<1>3. /\ log' = log /\ early' = early /\ applied' = applied /\ row' = row
      /\ version' = version /\ open' = open /\ incoming' = incoming
  BY DEF Sweep
<1>4. \A b \in Devices : kept'[b] \subseteq kept[b]
  <2>1. kept \in [Devices -> SUBSET Ids]
    BY <1>1 DEF TablesTyped
  <2> QED
    BY <1>2, <2>1
<1>5. /\ \A e : Births(e)' = Births(e)
      /\ Alive' = Alive
      /\ RecordsKnow'
  BY <1>3, HistoryStays DEF AllRemembered
<1>6. \A i : Rec(i)' = Rec(i)
  BY <1>3 DEF Rec
<1>7. ASSUME NEW b \in Devices, NEW f \in Alive PROVE Remembered(b, f)'
  <2>1. ClocksLeft(b, f)' \subseteq ClocksLeft(b, f)
    BY <1>4, <1>6 DEF ClocksLeft
  <2>2. Remembered(b, f) /\ f \in Events
    BY DEF AllRemembered, Alive
  <2>3. Knows(Births(f)', applied'[b]) <=> Knows(Births(f), applied[b])
    BY <1>3, <1>5
  <2>4. Births(f) \subseteq Births(f)'
    BY <1>5
  <2>5. Knows(Births(f)', Final(b).clock) <=> Knows(Births(f), Final(b).clock)
    BY <1>5
  <2> QED
    BY <1>1, <1>3, <2>1, <2>2, <2>3, <2>4, <2>5, Unmoved
<1> QED
  BY <1>5, <1>7 DEF AllRemembered

\* Before the first snapshot an event that is not shown has no history; so a
\* migration finds a version for those only that are shown.
LEMMA MigrateRemembers ==
  ASSUME NInv, AllRemembered, NEW d \in Devices, Migrate(d)
  PROVE  AllRemembered'
<1>1. LogsTyped /\ TablesTyped /\ RestTyped /\ RecordsAccurate
  BY Typed DEF NInv
<1>2. /\ version' = [version EXCEPT ![d] = Backfill(d)]
      /\ log' = log /\ early' = early /\ applied' = applied /\ row' = row /\ kept' = kept
      /\ open' = open /\ incoming' = incoming
  BY DEF Migrate
<1>3. version \in [Devices -> [Events -> Clocks \cup {Unversioned}]]
  BY <1>1 DEF TablesTyped
<1>4. \A b \in Devices : incoming[b] = <<>>
  BY DEF Migrate, NInv, Frame, IdleBeforeSnapshots
<1>5. /\ \A e : Births(e)' = Births(e)
      /\ Alive' = Alive
      /\ RecordsKnow'
      /\ \A b, e : ClocksLeft(b, e)' = ClocksLeft(b, e)
  BY <1>2, HistoryStays DEF AllRemembered
<1>6. ASSUME NEW b \in Devices, NEW f \in Alive PROVE Remembered(b, f)'
  <2>1. Remembered(b, f) /\ f \in Events
    BY DEF AllRemembered, Alive
  <2>2. CASE b # d
    <3>1. version'[b] = version[b]
      BY <1>2, <1>3, <2>2
    <3>2. Knows(Births(f)', applied'[b]) <=> Knows(Births(f), applied[b])
      BY <1>2, <1>5
    <3>3. Births(f) \subseteq Births(f)' /\ ClocksLeft(b, f)' \subseteq ClocksLeft(b, f)
      BY <1>5
    <3> QED
      BY <1>1, <1>2, <1>4, <2>1, <3>1, <3>2, <3>3, Unmoved
  <2>3. CASE b = d
    <3>1. version'[d][f] = Backfill(d)[f]
      BY <1>2, <1>3
    <3>2. Backfill(d)[f] = IF ClocksLeft(d, f) # {} THEN VersionOfHistory(d, f) ELSE Unversioned
      <4>1. (\E i \in kept[d] : Rec(i).event = f) <=> ClocksLeft(d, f) # {}
        BY DEF ClocksLeft
      <4>2. Backfill(d)[f] = IF \E i \in kept[d] : Rec(i).event = f
                             THEN VersionOfHistory(d, f) ELSE Unversioned
        BY <2>1 DEF Backfill
      <4> QED
        BY <4>1, <4>2
    <3>3. ClocksLeft(d, f) # {} => row[d][f] # Gone
      BY <1>4, <2>1, <2>3 DEF Remembered, WhenGone
    <3>4. VersionOfHistory(d, f) \in Clocks /\ VersionOfHistory(d, f) # Unversioned
      BY <1>1, <2>1, HistoryVersionType, UnversionedAssumption
    <3>5. \A h \in ClocksLeft(d, f) : Dominates(VersionOfHistory(d, f), h)
      BY <1>1, <2>1, HistoryVersion
    <3>6. WhenShown(d, f)'
      BY <1>2, <1>5, <2>1, <2>3, <3>1, <3>2, <3>4, <3>5 DEF Remembered, WhenShown
    <3>7. WhenGone(d, f)'
      BY <1>2, <1>4, <1>5, <2>1, <2>3, <3>1, <3>2, <3>3 DEF Remembered, WhenGone
    <3>8. VersionKnows(d, f)'
      <4>1. CASE ClocksLeft(d, f) = {}
        BY <3>1, <3>2, <4>1 DEF VersionKnows
      <4>2. CASE ClocksLeft(d, f) # {}
        <5>1. PICK h \in ClocksLeft(d, f) : TRUE
          BY <4>2
        <5>2. h \in Clocks /\ Knows(Births(f), h)
          BY <1>1, <5>1, LeftKnows DEF AllRemembered
        <5>3. Knows(Births(f), VersionOfHistory(d, f))
          BY <1>1, <3>4, <3>5, <5>1, <5>2, BirthsArePairs, KnowsMore
        <5> QED
          BY <1>5, <3>1, <3>2, <4>2, <5>3 DEF VersionKnows
      <4> QED
        BY <4>1, <4>2
    <3>9. HistoryKnows(d, f)'
      BY <1>2, <1>5, <2>1, <2>3 DEF Remembered, HistoryKnows
    <3>10. StreamKnows(d, f)'
      <4>1. incoming'[d] = <<>> /\ Len(incoming'[d]) = 0
        BY <1>2, <1>4
      <4> QED
        BY <4>1 DEF StreamKnows
    <3> QED
      BY <2>3, <3>6, <3>7, <3>8, <3>9, <3>10 DEF Remembered
  <2> QED
    BY <2>2, <2>3
<1> QED
  BY <1>5, <1>6 DEF AllRemembered

\* What s sends is what it shows, and that is what its clock counts.
LEMMA StreamOf ==
  ASSUME NInv, AllRemembered, NEW s \in Devices, NEW live \in Listings(s),
         clock[s] = applied[s], incoming[s] = <<>>, NEW f \in Alive,
         NEW cs, cs = ChunksOf(s, live)
  PROVE  /\ cs # <<>> /\ Len(cs) \in 1 .. Len(cs)
         /\ cs[Len(cs)].clock = clock[s] /\ cs[Len(cs)].rows = row[s]
         /\ Knows(Births(f), clock[s]) <=> row[s][f] # Gone
         /\ \A j \in 1 .. Len(cs) : \A k \in DOMAIN cs[j].entries :
              LET x == cs[j].entries[k]
              IN  x.event = f => x.version = NoClock \/ Knows(Births(f), x.version)
<1>1. IInv
  BY DEF NInv
<1>2. cs \in Seq(FineChunks(s)) /\ cs # <<>>
  BY <1>1, ChunksAreFine
<1>3. Len(cs) \in 1 .. Len(cs) /\ \A j \in 1 .. Len(cs) : cs[j] \in FineChunks(s)
  BY <1>2
<1>4. cs[Len(cs)].clock = clock[s] /\ cs[Len(cs)].rows = row[s]
  BY <1>3 DEF FineChunks
<1>5. Knows(Births(f), clock[s]) <=> row[s][f] # Gone
  BY DEF AllRemembered, Remembered, WhenShown, WhenGone
<1>6. ASSUME NEW j \in 1 .. Len(cs), NEW k \in DOMAIN cs[j].entries,
             cs[j].entries[k].event = f
      PROVE  cs[j].entries[k].version = NoClock \/ Knows(Births(f), cs[j].entries[k].version)
  <2>1. cs[j].entries[k] \in FineEntries(s)
    BY <1>3 DEF FineChunks
  <2>2. cs[j].entries[k].version = LocalVersion(s, f)
    BY <1>6, <2>1 DEF FineEntries
  <2> QED
    BY <2>2, LocalVersionKnows
<1> QED
  BY <1>2, <1>3, <1>4, <1>5, <1>6

LEMMA BeginSnapshotRemembers ==
  ASSUME NInv, AllRemembered, NEW r \in Devices, NEW s \in Devices, BeginSnapshot(r, s),
         honest'
  PROVE  AllRemembered'
<1>1. LogsTyped /\ TablesTyped /\ RestTyped /\ RecordsAccurate
  BY Typed DEF NInv
<1>2. PICK live \in Listings(s) :
        incoming' = [incoming EXCEPT ![r] = ChunksOf(s, live)]
  BY DEF BeginSnapshot
<1>3. /\ clock[s] = applied[s] /\ incoming[s] = <<>> /\ incoming[r] = <<>>
      /\ log' = log /\ early' = early /\ applied' = applied /\ row' = row /\ kept' = kept
      /\ open' = open /\ version' = version
  BY DEF BeginSnapshot, tables
<1>4. incoming \in [Devices -> Seq(Chunk)]
  BY <1>1 DEF RestTyped
<1>5. PICK cs : cs = ChunksOf(s, live)
  OBVIOUS
<1>6. incoming'[r] = cs /\ \A b \in Devices \ {r} : incoming'[b] = incoming[b]
  BY <1>2, <1>4, <1>5
<1>7. /\ \A e : Births(e)' = Births(e)
      /\ Alive' = Alive
      /\ RecordsKnow'
      /\ \A b, e : ClocksLeft(b, e)' = ClocksLeft(b, e)
  BY <1>3, HistoryStays DEF AllRemembered
<1>8. ASSUME NEW b \in Devices, NEW f \in Alive PROVE Remembered(b, f)'
  <2>1. Remembered(b, f) /\ f \in Events
    BY DEF AllRemembered, Alive
  <2>2. CASE b # r
    <3>1. Knows(Births(f)', applied'[b]) <=> Knows(Births(f), applied[b])
      BY <1>3, <1>7
    <3>2. Births(f) \subseteq Births(f)' /\ ClocksLeft(b, f)' \subseteq ClocksLeft(b, f)
      BY <1>7
    <3>3. Knows(Births(f)', Final(b).clock) <=> Knows(Births(f), Final(b).clock)
      BY <1>7
    <3> QED
      BY <1>1, <1>3, <1>6, <2>1, <2>2, <3>1, <3>2, <3>3, Unmoved
  <2>3. CASE b = r
    <3>1. /\ cs # <<>> /\ Len(cs) \in 1 .. Len(cs)
          /\ cs[Len(cs)].clock = clock[s] /\ cs[Len(cs)].rows = row[s]
          /\ Knows(Births(f), clock[s]) <=> row[s][f] # Gone
          /\ \A j \in 1 .. Len(cs) : \A k \in DOMAIN cs[j].entries :
               LET x == cs[j].entries[k]
               IN  x.event = f => x.version = NoClock \/ Knows(Births(f), x.version)
      BY <1>3, <1>5, StreamOf
    <3>2. Final(r)' = cs[Len(cs)]
      BY <1>6 DEF Final
    <3>3. WhenShown(r, f)'
      BY <1>3, <1>7, <2>1, <2>3 DEF Remembered, WhenShown
    <3>4. WhenGone(r, f)'
      BY <1>3, <1>7, <2>1, <2>3 DEF Remembered, WhenGone
    <3>5. VersionKnows(r, f)' /\ HistoryKnows(r, f)'
      BY <1>3, <1>7, <2>1, <2>3 DEF Remembered, VersionKnows, HistoryKnows
    <3>6. StreamKnows(r, f)'
      BY <1>6, <1>7, <3>1, <3>2 DEF StreamKnows
    <3> QED
      BY <2>3, <3>3, <3>4, <3>5, <3>6 DEF Remembered
  <2> QED
    BY <2>2, <2>3
<1> QED
  BY <1>7, <1>8 DEF AllRemembered

-----------------------------------------------------------------------------
(* Taking a message of a snapshot.                                         *)

\* What is left of a stream once its first message is taken.
LEMMA RestOfStream ==
  ASSUME NEW s \in Seq(Chunk), s # <<>>
  PROVE  /\ Head(s) = s[1] /\ 1 \in 1 .. Len(s) /\ Len(s) \in 1 .. Len(s)
         /\ Len(Tail(s)) = Len(s) - 1 /\ Len(s) \in Nat
         /\ \A j \in 1 .. Len(Tail(s)) : j + 1 \in 1 .. Len(s) /\ Tail(s)[j] = s[j + 1]
         /\ Tail(s) # <<>> => Tail(s)[Len(Tail(s))] = s[Len(s)]
         /\ Tail(s) = <<>> => Head(s) = s[Len(s)]
<1>1. /\ Len(Tail(s)) = Len(s) - 1 /\ Len(s) \in Nat
      /\ \A j \in 1 .. Len(Tail(s)) : Tail(s)[j] = s[j + 1]
      /\ Tail(s) \in Seq(Chunk)
  BY HeadTailProperties
<1>2. Len(s) # 0 /\ Head(s) = s[1]
  BY <1>1
<1>3. \A j \in 1 .. Len(Tail(s)) : j + 1 \in 1 .. Len(s)
  BY <1>1
<1>4. ASSUME Tail(s) # <<>> PROVE Tail(s)[Len(Tail(s))] = s[Len(s)]
  <2>1. Len(Tail(s)) \in 1 .. Len(Tail(s))
    BY <1>1, <1>4
  <2>2. Len(Tail(s)) + 1 = Len(s)
    BY <1>1
  <2> QED
    BY <1>1, <2>1, <2>2
<1>5. ASSUME Tail(s) = <<>> PROVE Head(s) = s[Len(s)]
  <2>1. Len(s) = 1
    <3>1. PICK t : t = Tail(s)
      OBVIOUS
    <3>2. Len(t) = 0
      BY <1>5, <3>1
    <3> QED
      BY <1>1, <3>1, <3>2
  <2> QED
    BY <1>2, <2>1
<1> QED
  BY <1>1, <1>2, <1>3, <1>4, <1>5

\* Whoever removes an event has been told of its creation; so the stream has
\* the event, and this is not its last message.
LEMMA AbsentComesAgain ==
  ASSUME NInv, AllRemembered, NEW d \in Devices, incoming[d] # <<>>,
         NEW c, c = Head(incoming[d]), NEW f \in Alive, f \in Absent(d, c)
  PROVE  /\ Final(d).rows[f] # Gone
         /\ Tail(incoming[d]) # <<>>
         /\ \A h \in ClocksLeft(d, f) : Dominates(Final(d).clock, h)
<1>1. LogsTyped /\ TablesTyped /\ RestTyped /\ RecordsAccurate
  BY Typed DEF NInv
<1>2. incoming[d] \in Seq(Chunk) /\ f \in Events
  BY <1>1 DEF RestTyped, Alive
<1>3. c \in Chunk /\ c = incoming[d][1] /\ 1 \in 1 .. Len(incoming[d])
  BY <1>1, <1>2, HeadIsFine, RestOfStream DEF NInv, IInv
<1>4. c.clock = Final(d).clock /\ c.rows = Final(d).rows /\ c.clock \in Clocks
  BY <1>3 DEF NInv, Frame, StreamsAgree, Chunk
<1>5. /\ Dominates(c.clock, LocalVersion(d, f)) /\ LocalVersion(d, f) # NoClock
      /\ f \notin Carried(c)
  BY DEF Absent
<1>6. /\ LocalVersion(d, f) \in Clocks
      /\ \A h \in ClocksLeft(d, f) : Dominates(LocalVersion(d, f), h)
      /\ Knows(Births(f), LocalVersion(d, f))
  BY <1>5, LocalVersionKnows
<1>7. Knows(Births(f), c.clock)
  BY <1>1, <1>4, <1>5, <1>6, BirthsArePairs, KnowsMore
<1>8. Final(d).rows[f] # Gone
  BY <1>4, <1>7 DEF AllRemembered, Remembered, StreamKnows
<1>9. Tail(incoming[d]) # <<>>
  <2> SUFFICES ASSUME Tail(incoming[d]) = <<>> PROVE FALSE
    OBVIOUS
  <2>1. c = Final(d)
    BY <1>2, RestOfStream DEF Final
  <2>2. Whole(c)
    BY <2>1 DEF NInv, LastIsWhole, Final
  <2> QED
    BY <1>2, <1>4, <1>5, <1>8, <2>2 DEF Whole
<1>10. ASSUME NEW h \in ClocksLeft(d, f) PROVE Dominates(Final(d).clock, h)
  <2>1. h \in Clocks /\ Dominates(LocalVersion(d, f), h)
    BY <1>1, <1>6, ClocksLeftTyped
  <2> QED
    BY <1>4, <1>5, <1>6, <2>1, DominatesTransitively
<1> QED
  BY <1>8, <1>9, <1>10

\* The last message brings every event that its receiver lacks and knows of.
LEMMA LastBringsBack ==
  ASSUME NInv, AllRemembered, NEW d \in Devices, incoming[d] # <<>>,
         NEW c, c = Head(incoming[d]), Tail(incoming[d]) = <<>>,
         NEW f \in Alive, row[d][f] = Gone, c.rows[f] # Gone
  PROVE  \E k \in Staged(d, c) : c.entries[k].event = f
<1>1. LogsTyped /\ TablesTyped /\ RestTyped /\ RecordsAccurate
  BY Typed DEF NInv
<1>2. incoming[d] \in Seq(Chunk) /\ f \in Events
  BY <1>1 DEF RestTyped, Alive
<1>3. c = Final(d) /\ c \in Chunk /\ c = incoming[d][1] /\ 1 \in 1 .. Len(incoming[d])
  BY <1>1, <1>2, RestOfStream, HeadIsFine DEF Final, NInv, IInv
<1>4. Whole(c)
  BY <1>3 DEF NInv, LastIsWhole, Final
<1>5. PICK k \in DOMAIN c.entries : c.entries[k].event = f
  BY <1>2, <1>4 DEF Whole, Carried
<1>6. c.entries[k].row # Gone
  BY <1>3 DEF NInv, Frame, StreamsAgree
<1>7. /\ version[d][f] = Unversioned /\ open[d][f] = {}
      /\ \A h \in ClocksLeft(d, f) : Dominates(c.clock, h)
  BY <1>3 DEF AllRemembered, Remembered, WhenGone
<1>8. LocalVersion(d, f) = VersionOfHistory(d, f)
  BY <1>7 DEF LocalVersion, VersionOfHistory
<1>9. c.clock \in Clocks
  BY <1>3 DEF Chunk
<1>10. Dominates(c.clock, LocalVersion(d, f))
  BY <1>1, <1>2, <1>7, <1>8, <1>9, HistoryVersion
<1>11. k \in Staged(d, c)
  BY <1>5, <1>6, <1>7, <1>10 DEF Staged, InConflict, SameRow
<1> QED
  BY <1>5, <1>11

\* The event of an entry that is taken over.
LEMMA StagedIsShown ==
  ASSUME NInv, AllRemembered, NEW d \in Devices, incoming[d] # <<>>,
         NEW c, c = Head(incoming[d]), NEW f \in Alive, NEW k \in Staged(d, c),
         c.entries[k].event = f
  PROVE  /\ c.entries[k].row # Gone
         /\ TakenVersion(d, c.entries[k]) \in Clocks
         /\ \A h \in ClocksLeft(d, f) : Dominates(TakenVersion(d, c.entries[k]), h)
         /\ \/ TakenVersion(d, c.entries[k]) = NoClock
            \/ Knows(Births(f), TakenVersion(d, c.entries[k]))
         /\ Knows(Births(f), c.clock)
<1>1. LogsTyped /\ TablesTyped /\ RestTyped /\ RecordsAccurate
  BY Typed DEF NInv
<1>2. incoming[d] \in Seq(Chunk) /\ f \in Events
  BY <1>1 DEF RestTyped, Alive
<1>3. /\ c \in Chunk /\ c = incoming[d][1] /\ 1 \in 1 .. Len(incoming[d])
      /\ ChunkFine(c)
  BY <1>1, <1>2, RestOfStream, HeadIsFine DEF NInv, IInv
<1>4. k \in DOMAIN c.entries
  BY DEF Staged
<1>5. PICK x : x = c.entries[k]
  OBVIOUS
<1>6. x.event = f /\ x.row # Gone /\ x.row = c.rows[f]
  BY <1>3, <1>4, <1>5 DEF NInv, Frame, StreamsAgree, ChunkFine
<1>7. x.version \in Clocks
  <2>1. c.entries[k] \in Entry
    BY <1>3, <1>4 DEF Chunk
  <2> QED
    BY <1>5, <2>1 DEF Entry
<1>8. c.clock = Final(d).clock /\ c.rows = Final(d).rows
  BY <1>3 DEF NInv, Frame, StreamsAgree
<1>9. Knows(Births(f), c.clock)
  BY <1>6, <1>8 DEF AllRemembered, Remembered, StreamKnows
<1>10. x.version = NoClock \/ Knows(Births(f), x.version)
  BY <1>3, <1>4, <1>5, <1>6 DEF AllRemembered, Remembered, StreamKnows
<1>11. /\ LocalVersion(d, f) \in Clocks
       /\ \A h \in ClocksLeft(d, f) : Dominates(LocalVersion(d, f), h)
       /\ LocalVersion(d, f) = NoClock \/ Knows(Births(f), LocalVersion(d, f))
  BY LocalVersionKnows
<1>12. TakenVersion(d, x) = Merge(LocalVersion(d, f), x.version)
  BY <1>6 DEF TakenVersion
<1>13. PICK v \in Clocks : v = LocalVersion(d, f)
  BY <1>11
<1>14. /\ Merge(v, x.version) \in Clocks
       /\ Dominates(Merge(v, x.version), v)
  BY <1>7, MergeIsUpper DEF Dominates
<1>15. ASSUME NEW h \in ClocksLeft(d, f) PROVE Dominates(Merge(v, x.version), h)
  <2>1. h \in Clocks /\ Dominates(v, h)
    BY <1>1, <1>11, <1>13, ClocksLeftTyped
  <2> QED
    BY <1>14, <2>1, DominatesTransitively
<1>16. Merge(v, x.version) = NoClock \/ Knows(Births(f), Merge(v, x.version))
  <2>1. CASE v = NoClock /\ x.version = NoClock
    BY <2>1 DEF Merge, NoClock
  <2>2. CASE Knows(Births(f), v) \/ Knows(Births(f), x.version)
    BY <1>1, <1>7, <2>2, BirthsArePairs, KnowsMerged
  <2> QED
    BY <1>10, <1>11, <1>13, <2>1, <2>2
<1> QED
  BY <1>5, <1>6, <1>9, <1>12, <1>13, <1>14, <1>15, <1>16

\* What a message leaves of an event.
LEMMA ApplyChunkRemembers ==
  ASSUME NInv, AllRemembered, NEW d \in Devices, ApplyChunk(d)
  PROVE  AllRemembered'
<1>1. LogsTyped /\ TablesTyped /\ RestTyped /\ RecordsAccurate
  BY Typed DEF NInv
<1>2. PICK c : c = Head(incoming[d])
  OBVIOUS
<1>3. /\ incoming[d] # <<>>
      /\ applied' = [applied EXCEPT ![d] = Merge(@, c.clock)]
      /\ incoming' = [incoming EXCEPT ![d] = Tail(@)]
      /\ log' = log /\ early' = early /\ kept' = kept /\ open' = open
  BY <1>2 DEF ApplyChunk, TakeClock
<1>4. /\ incoming \in [Devices -> Seq(Chunk)] /\ incoming[d] \in Seq(Chunk)
      /\ applied \in [Devices -> Clocks] /\ applied[d] \in Clocks
  BY <1>1 DEF RestTyped, LogsTyped
<1>5. /\ incoming'[d] = Tail(incoming[d])
      /\ applied'[d] = Merge(applied[d], c.clock)
      /\ \A b \in Devices \ {d} : incoming'[b] = incoming[b] /\ applied'[b] = applied[b]
  BY <1>3, <1>4
<1>6. /\ \A e : Births(e)' = Births(e)
      /\ Alive' = Alive
      /\ RecordsKnow'
      /\ \A b, e : ClocksLeft(b, e)' = ClocksLeft(b, e)
  BY <1>3, HistoryStays DEF AllRemembered
<1>7. /\ \A f \in Events : Replaced(d, c, f)
      /\ \A b \in Devices \ {d} : row'[b] = row[b] /\ version'[b] = version[b]
  BY <1>2, ChunkApplied DEF NInv
<1>8. /\ Head(incoming[d]) = incoming[d][1] /\ 1 \in 1 .. Len(incoming[d])
      /\ Len(Tail(incoming[d])) = Len(incoming[d]) - 1 /\ Len(incoming[d]) \in Nat
      /\ \A j \in 1 .. Len(Tail(incoming[d])) :
           j + 1 \in 1 .. Len(incoming[d]) /\ Tail(incoming[d])[j] = incoming[d][j + 1]
      /\ Tail(incoming[d]) # <<>> =>
           Tail(incoming[d])[Len(Tail(incoming[d]))] = incoming[d][Len(incoming[d])]
  BY <1>3, <1>4, RestOfStream
<1>9. incoming'[d] # <<>> => Final(d)' = Final(d)
  BY <1>5, <1>8 DEF Final
<1>10. c \in Chunk /\ c.clock \in Clocks
       /\ c.clock = Final(d).clock /\ c.rows = Final(d).rows
  <2>1. c \in Chunk
    BY <1>1, <1>2, <1>3, HeadIsFine DEF NInv, IInv
  <2> QED
    BY <1>2, <1>8, <2>1 DEF NInv, Frame, StreamsAgree, Chunk
<1>11. ASSUME NEW f \in Alive PROVE Remembered(d, f)'
  <2>1. Remembered(d, f) /\ f \in Events
    BY DEF AllRemembered, Alive
  <2>2. /\ Knows(Births(f), Merge(applied[d], c.clock))
           => Knows(Births(f), applied[d]) \/ Knows(Births(f), c.clock)
        /\ Knows(Births(f), applied[d]) \/ Knows(Births(f), c.clock)
           => Knows(Births(f), Merge(applied[d], c.clock))
    BY <1>1, <1>4, <1>10, BirthsArePairs, KnowsMerged
  <2>3. Knows(Births(f), applied'[d])
        <=> Knows(Births(f), applied[d]) \/ Knows(Births(f), c.clock)
    BY <1>5, <2>2
  <2>4. Knows(Births(f), c.clock) <=> c.rows[f] # Gone
    BY <1>3, <1>10, <2>1 DEF Remembered, StreamKnows
  <2>5. HistoryKnows(d, f)'
    BY <1>6, <2>1, <2>3 DEF Remembered, HistoryKnows
  <2>6. StreamKnows(d, f)'
    <3>1. incoming'[d] # <<>> =>
            (Knows(Births(f)', Final(d)'.clock) <=> Final(d)'.rows[f] # Gone)
      BY <1>6, <1>9, <1>10, <2>4
    <3>2. ASSUME NEW j \in 1 .. Len(incoming'[d]), NEW k \in DOMAIN incoming'[d][j].entries
          PROVE  incoming'[d][j].entries[k].event = f =>
                   \/ incoming'[d][j].entries[k].version = NoClock
                   \/ Knows(Births(f)', incoming'[d][j].entries[k].version)
      <4>1. j + 1 \in 1 .. Len(incoming[d]) /\ incoming'[d][j] = incoming[d][j + 1]
        BY <1>5, <1>8
      <4>2. PICK i \in 1 .. Len(incoming[d]) : i = j + 1
        BY <4>1
      <4>3. incoming'[d][j] = incoming[d][i]
        BY <4>1, <4>2
      <4> QED
        BY <1>6, <2>1, <4>3 DEF Remembered, StreamKnows
    <3> QED
      BY <3>1, <3>2 DEF StreamKnows
  <2>7. CASE f \in Absent(d, c) /\ row'[d][f] = Gone /\ version'[d][f] = Unversioned
    <3>1. /\ Final(d).rows[f] # Gone
          /\ Tail(incoming[d]) # <<>>
          /\ \A h \in ClocksLeft(d, f) : Dominates(Final(d).clock, h)
      BY <1>2, <1>3, <2>7, AbsentComesAgain
    <3>2. open[d][f] = {}
      BY <2>7 DEF Absent, InConflict
    <3>3. WhenShown(d, f)' /\ VersionKnows(d, f)'
      BY <2>7 DEF WhenShown, VersionKnows
    <3>4. WhenGone(d, f)'
      BY <1>3, <1>5, <1>6, <1>9, <2>7, <3>1, <3>2 DEF WhenGone
    <3> QED
      BY <2>5, <2>6, <3>3, <3>4 DEF Remembered
  <2>8. ASSUME NEW k \in Staged(d, c), c.entries[k].event = f,
               row'[d][f] = c.entries[k].row,
               version'[d][f] = TakenVersion(d, c.entries[k])
        PROVE  Remembered(d, f)'
    <3>1. PICK v : v = TakenVersion(d, c.entries[k])
      OBVIOUS
    <3>2. /\ row'[d][f] # Gone
          /\ v \in Clocks
          /\ \A h \in ClocksLeft(d, f) : Dominates(v, h)
          /\ v = NoClock \/ Knows(Births(f), v)
          /\ Knows(Births(f), c.clock)
      BY <1>2, <1>3, <2>8, <3>1, StagedIsShown
    <3>3. version'[d][f] = v /\ v # Unversioned
      BY <2>8, <3>1, <3>2, UnversionedAssumption
    <3>4. WhenShown(d, f)'
      BY <1>6, <2>3, <3>2, <3>3 DEF WhenShown
    <3>5. WhenGone(d, f)'
      BY <3>2 DEF WhenGone
    <3>6. VersionKnows(d, f)'
      BY <1>6, <3>2, <3>3 DEF VersionKnows
    <3> QED
      BY <2>5, <2>6, <3>4, <3>5, <3>6 DEF Remembered
  <2>9. CASE /\ \A k \in Staged(d, c) : c.entries[k].event # f
             /\ row'[d][f] = row[d][f] /\ version'[d][f] = version[d][f]
    <3>1. WhenShown(d, f)'
      BY <1>6, <2>1, <2>3, <2>9 DEF Remembered, WhenShown
    <3>2. VersionKnows(d, f)'
      BY <1>6, <2>1, <2>9 DEF Remembered, VersionKnows
    <3>3. WhenGone(d, f)'
      <4> SUFFICES ASSUME row'[d][f] = Gone
                   PROVE  /\ version'[d][f] = Unversioned
                          /\ open'[d][f] = {}
                          /\ \A h \in ClocksLeft(d, f) :
                               incoming'[d] # <<>> /\ Dominates(Final(d)'.clock, h)
                          /\ Knows(Births(f), applied'[d]) =>
                               incoming'[d] # <<>> /\ Final(d)'.rows[f] # Gone
        BY <1>6 DEF WhenGone
      <4>1. /\ row[d][f] = Gone /\ version[d][f] = Unversioned /\ open[d][f] = {}
            /\ \A h \in ClocksLeft(d, f) : Dominates(Final(d).clock, h)
            /\ Knows(Births(f), applied[d]) => Final(d).rows[f] # Gone
        BY <2>1, <2>9 DEF Remembered, WhenGone
      <4>2. Knows(Births(f), applied'[d]) => c.rows[f] # Gone
        BY <1>10, <2>3, <2>4, <4>1
      <4>3. CASE incoming'[d] # <<>>
        BY <1>3, <1>9, <1>10, <2>9, <4>1, <4>2, <4>3
      <4>4. CASE incoming'[d] = <<>>
        <5>1. c.rows[f] = Gone
          <6> SUFFICES ASSUME c.rows[f] # Gone PROVE FALSE
            OBVIOUS
          <6>1. Tail(incoming[d]) = <<>>
            BY <1>5, <4>4
          <6>2. \E k \in Staged(d, c) : c.entries[k].event = f
            BY <1>2, <1>3, <4>1, <6>1, LastBringsBack
          <6> QED
            BY <2>9, <6>2
        <5>2. ~ Knows(Births(f), applied'[d])
          BY <4>2, <5>1
        <5>3. ClocksLeft(d, f) = {}
          BY <2>1, <2>3, <5>2 DEF Remembered, HistoryKnows
        <5> QED
          BY <1>3, <2>9, <4>1, <5>2, <5>3
      <4> QED
        BY <4>3, <4>4
    <3> QED
      BY <2>5, <2>6, <3>1, <3>2, <3>3 DEF Remembered
  <2>10. Replaced(d, c, f)
    BY <1>7, <2>1
  <2> QED
    BY <2>7, <2>8, <2>9, <2>10 DEF Replaced
<1>12. ASSUME NEW b \in Devices \ {d}, NEW f \in Alive PROVE Remembered(b, f)'
  <2>1. Remembered(b, f) /\ f \in Events
    BY DEF AllRemembered, Alive
  <2>2. Births(f) \subseteq Births(f)' /\ ClocksLeft(b, f)' \subseteq ClocksLeft(b, f)
    BY <1>6
  <2>3. Knows(Births(f)', applied'[b]) <=> Knows(Births(f), applied[b])
    BY <1>5, <1>6
  <2>4. Knows(Births(f)', Final(b).clock) <=> Knows(Births(f), Final(b).clock)
    BY <1>6
  <2> QED
    BY <1>1, <1>3, <1>5, <1>7, <2>1, <2>2, <2>3, <2>4, Unmoved
<1> QED
  BY <1>6, <1>11, <1>12 DEF AllRemembered

-----------------------------------------------------------------------------
(* Writing a record.                                                       *)

LEMMA WriteHistory ==
  ASSUME LogsTyped, TablesTyped, NEW d \in Devices, NEW e \in Events,
         NEW kind \in Kinds, Write(d, e, kind), NEW i, i = <<d, Len(log[d]) + 1>>
  PROVE  /\ \A f : Births(f) \subseteq Births(f)' /\ Births(f)' \subseteq Births(f) \cup {i}
         /\ kind # "event" => \A f : Births(f)' = Births(f)
         /\ kind = "event" => i \in Births(e)'
         /\ \A f : f # e => Births(f)' = Births(f)
         /\ Alive' \subseteq Alive
         /\ e \in Alive' => kind # "*"
         /\ \A b \in Devices : \A f :
              <<b, f>> # <<d, e>> => ClocksLeft(b, f)' = ClocksLeft(b, f)
         /\ ClocksLeft(d, e)' = ClocksLeft(d, e) \cup {Rec(i)'.clock}
<1>1. Ids' = Ids \cup {i} /\ \A j \in Ids : Rec(j)' = Rec(j)
  BY WriteGrowsIds
<1>2. Rec(i)' = [event |-> e, kind |-> kind,
                 clock |-> [clock[d] EXCEPT ![d] = Len(log[d]) + 1],
                 hlc |-> Cardinality(Ids) + 1]
  BY WriteGrows DEF Rec
<1>3. Rec(i)'.event = e /\ Rec(i)'.kind = kind
  BY <1>2
<1>4. kept' = [kept EXCEPT ![d] = @ \cup {i}] /\ early' = early
  BY DEF Write
<1>5. kept \in [Devices -> SUBSET Ids]
  BY DEF TablesTyped
<1>6. \A f : Births(f) \subseteq Births(f)' /\ Births(f)' \subseteq Births(f) \cup {i}
  BY <1>1 DEF Births
<1>7. kind # "event" => \A f : Births(f)' = Births(f)
  BY <1>1, <1>3 DEF Births
<1>8. kind = "event" => i \in Births(e)'
  BY <1>1, <1>3 DEF Births
<1>9. \A f : f # e => Births(f)' = Births(f)
  BY <1>1, <1>3 DEF Births
<1>10. Alive' \subseteq Alive
  BY <1>1, <1>4 DEF Alive
<1>11. e \in Alive' => kind # "*"
  BY <1>1, <1>3 DEF Alive
<1>12. ASSUME NEW b \in Devices, NEW f, <<b, f>> # <<d, e>>
       PROVE  ClocksLeft(b, f)' = ClocksLeft(b, f)
  <2>1. \A j \in kept[b] : Rec(j)' = Rec(j)
    BY <1>1, <1>5
  <2>2. CASE b # d
    <3>1. kept'[b] = kept[b]
      BY <1>4, <1>5, <2>2
    <3> QED
      BY <2>1, <3>1 DEF ClocksLeft
  <2>3. CASE b = d
    <3>1. kept'[b] = kept[b] \cup {i} /\ Rec(i)'.event # f
      BY <1>3, <1>4, <1>5, <1>12, <2>3
    <3>2. {j \in kept'[b] : Rec(j)'.event = f} = {j \in kept[b] : Rec(j).event = f}
      BY <2>1, <3>1
    <3> QED
      BY <2>1, <3>2 DEF ClocksLeft
  <2> QED
    BY <2>2, <2>3
<1>13. ClocksLeft(d, e)' = ClocksLeft(d, e) \cup {Rec(i)'.clock}
  <2>1. \A j \in kept[d] : Rec(j)' = Rec(j)
    BY <1>1, <1>5
  <2>2. kept'[d] = kept[d] \cup {i}
    BY <1>4, <1>5
  <2>3. {j \in kept'[d] : Rec(j)'.event = e} = {j \in kept[d] : Rec(j).event = e} \cup {i}
    BY <1>3, <2>1, <2>2
  <2> QED
    BY <2>1, <2>3 DEF ClocksLeft
<1> QED
  BY <1>6, <1>7, <1>8, <1>9, <1>10, <1>11, <1>12, <1>13

\* A clock that does not count the new record knows what it knew.
LEMMA KnowsAsBefore ==
  ASSUME LogsTyped, TablesTyped, NEW d \in Devices, NEW e \in Events,
         NEW kind \in Kinds, Write(d, e, kind),
         NEW v \in Clocks, v[d] <= Len(log[d]), NEW f
  PROVE  Knows(Births(f)', v) <=> Knows(Births(f), v)
<1>1. PICK i : i = <<d, Len(log[d]) + 1>>
  OBVIOUS
<1>2. Births(f) \subseteq Births(f)' /\ Births(f)' \subseteq Births(f) \cup {i}
  BY <1>1, WriteHistory
<1>3. ~ (v[i[1]] >= i[2])
  <2>1. i[1] = d /\ i[2] = Len(log[d]) + 1
    BY <1>1
  <2>2. v[d] \in Nat /\ Len(log[d]) \in Nat
    BY LogLengths DEF Clocks
  <2> QED
    BY <2>1, <2>2
<1> QED
  BY <1>2, <1>3 DEF Knows

\* What the author of a record of e shows and knows of it afterwards.
LEMMA WriterKnows ==
  ASSUME NInv, AllRemembered, NEW d \in Devices, NEW e \in Events, NEW kind \in Kinds,
         Write(d, e, kind), NEW i, i = <<d, Len(log[d]) + 1>>,
         e \in Alive, kind = "event" \/ row[d][e] # Gone
  PROVE  /\ Rec(i)'.clock \in Clocks
         /\ applied'[d] \in Clocks
         /\ Knows(Births(e)', Rec(i)'.clock)
         /\ Knows(Births(e)', applied'[d])
<1>1. LogsTyped /\ TablesTyped /\ RestTyped /\ RecordsAccurate
  BY Typed DEF NInv
<1>2. PICK n \in Nat : n = Len(log[d]) + 1
  BY <1>1, WriteGrows
<1>3. /\ Rec(i)'.clock = [clock[d] EXCEPT ![d] = n]
      /\ [clock[d] EXCEPT ![d] = n] \in Clocks
  <2>1. /\ log'[d][n].clock = [clock[d] EXCEPT ![d] = n]
        /\ [clock[d] EXCEPT ![d] = n] \in Clocks
    <3>1. /\ log'[d][Len(log[d]) + 1] = [event |-> e, kind |-> kind,
                                        clock |-> [clock[d] EXCEPT ![d] = Len(log[d]) + 1],
                                        hlc |-> Cardinality(Ids) + 1]
          /\ [clock[d] EXCEPT ![d] = Len(log[d]) + 1] \in Clocks
      BY <1>1, WriteGrows
    <3>2. log'[d][Len(log[d]) + 1].clock = [clock[d] EXCEPT ![d] = Len(log[d]) + 1]
      BY <3>1
    <3> QED
      BY <1>2, <3>1, <3>2
  <2>2. i[1] = d /\ i[2] = n
    BY <1>2
  <2> QED
    BY <2>1, <2>2 DEF Rec
<1>4. clock[d] \in Clocks /\ applied[d] \in Clocks
  BY <1>1 DEF LogsTyped
<1>5. /\ Rec(i)'.clock[d] = n
      /\ \A p \in Devices \ {d} : Rec(i)'.clock[p] = clock[d][p]
  BY <1>3, <1>4 DEF Clocks
<1>6. applied'[d] = [applied[d] EXCEPT ![d] = n]
  BY <1>1, <1>2 DEF Write, LogsTyped
<1>7. applied'[d][d] = n /\ \A p \in Devices \ {d} : applied'[d][p] = applied[d][p]
  BY <1>4, <1>6 DEF Clocks
<1>8. applied'[d] \in Clocks
  BY <1>2, <1>4, <1>6 DEF Clocks
<1>9. \A f : Births(f) \subseteq Births(f)'
  BY <1>1, WriteHistory
<1>10. CASE kind = "event"
  <2>1. i \in Births(e)' /\ i[1] = d /\ i[2] = n
    BY <1>1, <1>2, <1>10, WriteHistory
  <2>2. Rec(i)'.clock[i[1]] >= i[2] /\ applied'[d][i[1]] >= i[2]
    BY <1>2, <1>5, <1>7, <2>1
  <2> QED
    BY <1>3, <1>8, <2>1, <2>2 DEF Knows
<1>11. CASE row[d][e] # Gone
  <2>1. Knows(Births(e), applied[d])
    BY <1>11 DEF AllRemembered, Remembered, WhenShown
  <2>2. Dominates(applied'[d], applied[d]) /\ Dominates(Rec(i)'.clock, applied[d])
    <3>1. ASSUME NEW p \in Devices
          PROVE  applied'[d][p] >= applied[d][p] /\ Rec(i)'.clock[p] >= applied[d][p]
      <4>1. /\ applied[d][p] \in Nat /\ clock[d][p] \in Nat
            /\ applied[d][p] <= clock[d][p] /\ clock[d][p] <= Len(log[p])
            /\ Len(log[p]) \in Nat
        BY <1>1, LogLengths DEF LogsTyped, Clocks
      <4> QED
        BY <1>2, <1>5, <1>7, <4>1
    <3> QED
      BY <3>1 DEF Dominates
  <2>3. Knows(Births(e), applied'[d]) /\ Knows(Births(e), Rec(i)'.clock)
    BY <1>1, <1>3, <1>4, <1>8, <2>1, <2>2, BirthsArePairs, KnowsMore
  <2> QED
    BY <1>3, <1>8, <1>9, <2>3 DEF Knows
<1> QED
  BY <1>10, <1>11

\* A record of e, and what it changes for its author: the others are left alone,
\* because nobody counts a record that was not written.
LEMMA WriteRemembers ==
  ASSUME NInv, AllRemembered, NEW d \in Devices, NEW e \in Events, NEW kind \in Kinds,
         Write(d, e, kind),
         e \in Alive' => /\ kind = "event" \/ row[d][e] # Gone
                         /\ row'[d][e] # Gone,
         kind = "event" => \A j \in Ids : Rec(j).event # e,
         \A b \in Devices, f \in Events :
           <<b, f>> # <<d, e>> => row'[b][f] = row[b][f] /\ open'[b][f] = open[b][f]
  PROVE  AllRemembered'
<1>1. LogsTyped /\ TablesTyped /\ RestTyped /\ RecordsAccurate /\ ChunksFine
  BY Typed DEF NInv, IInv
<1>2. PICK i : i = <<d, Len(log[d]) + 1>>
  OBVIOUS
<1>3. /\ \A f : Births(f) \subseteq Births(f)' /\ Births(f)' \subseteq Births(f) \cup {i}
      /\ \A f : f # e => Births(f)' = Births(f)
      /\ Alive' \subseteq Alive
      /\ e \in Alive' => kind # "*"
      /\ \A b \in Devices : \A f :
           <<b, f>> # <<d, e>> => ClocksLeft(b, f)' = ClocksLeft(b, f)
      /\ ClocksLeft(d, e)' = ClocksLeft(d, e) \cup {Rec(i)'.clock}
  BY <1>1, <1>2, WriteHistory
<1>4. Ids' = Ids \cup {i} /\ \A j \in Ids : Rec(j)' = Rec(j)
  BY <1>1, <1>2, WriteGrowsIds
<1>5. Rec(i)' = [event |-> e, kind |-> kind,
                 clock |-> [clock[d] EXCEPT ![d] = Len(log[d]) + 1],
                 hlc |-> Cardinality(Ids) + 1]
  BY <1>1, <1>2, WriteGrows DEF Rec
<1>6. /\ incoming' = incoming
      /\ applied' = [applied EXCEPT ![d][d] = Len(log[d]) + 1]
  BY DEF Write
<1>7. PICK c \in Clocks : c = Rec(i)'.clock
  <2>1. Rec(i)'.clock = [clock[d] EXCEPT ![d] = Len(log[d]) + 1]
    BY <1>5
  <2>2. [clock[d] EXCEPT ![d] = Len(log[d]) + 1] \in Clocks
    BY <1>1, WriteGrows
  <2> QED
    BY <2>1, <2>2
<1>8. version' = Versioned(d, e, c)
  BY <1>5, <1>7 DEF Write
<1>9. /\ version'[d][e] \in Clocks
      /\ Dominates(version'[d][e], c)
      /\ version[d][e] # Unversioned => Dominates(version'[d][e], version[d][e])
      /\ \A b \in Devices, f \in Events :
           <<b, f>> # <<d, e>> => version'[b][f] = version[b][f]
  BY <1>1, <1>8, VersionedCovers DEF Dominates
<1>10. e \in Alive' => /\ applied'[d] \in Clocks
                       /\ Knows(Births(e)', c)
                       /\ Knows(Births(e)', applied'[d])
  BY <1>2, <1>3, <1>7, WriterKnows
<1>11. RecordsKnow'
  <2> SUFFICES ASSUME NEW j, j \in Ids', NEW f, f \in Alive', Rec(j)'.event = f
               PROVE  Knows(Births(f)', Rec(j)'.clock)
    BY DEF RecordsKnow
  <2>1. CASE j \in Ids
    <3>1. Rec(j)' = Rec(j) /\ f \in Alive
      BY <1>3, <1>4, <2>1
    <3>2. Knows(Births(f), Rec(j).clock) /\ Births(f) \subseteq Births(f)'
      BY <1>3, <2>1, <3>1 DEF AllRemembered, RecordsKnow
    <3>3. Knows(Births(f)', Rec(j).clock)
      BY <3>2 DEF Knows
    <3> QED
      BY <3>1, <3>3
  <2>2. CASE j = i
    <3>1. f = e /\ Rec(j)'.clock = c
      BY <1>5, <1>7, <2>2
    <3> QED
      BY <1>10, <3>1
  <2> QED
    BY <1>4, <2>1, <2>2
<1>12. ASSUME NEW b \in Devices, NEW f \in Alive'
       PROVE  incoming[b] # <<>> =>
                (Knows(Births(f)', Final(b).clock) <=> Knows(Births(f), Final(b).clock))
  <2> SUFFICES ASSUME incoming[b] # <<>>
               PROVE  Knows(Births(f)', Final(b).clock) <=> Knows(Births(f), Final(b).clock)
    OBVIOUS
  <2>1. Len(incoming[b]) \in 1 .. Len(incoming[b])
    BY <1>1, RestOfStream DEF RestTyped
  <2>2. Final(b) \in Chunk /\ ChunkFine(Final(b))
    BY <1>1, <2>1, ComingFine DEF Final
  <2>3. Final(b).clock \in Clocks /\ Final(b).clock[d] <= Len(log[d])
    BY <2>2 DEF Chunk, ChunkFine
  <2> QED
    BY <1>1, <2>3, KnowsAsBefore
<1>13. ASSUME NEW b \in Devices, NEW f \in Alive', <<b, f>> # <<d, e>>
       PROVE  Remembered(b, f)'
  <2>1. f \in Alive /\ f \in Events /\ Remembered(b, f)
    BY <1>3 DEF AllRemembered, Alive
  <2>2. /\ row'[b][f] = row[b][f] /\ open'[b][f] = open[b][f]
        /\ version'[b][f] = version[b][f] /\ incoming'[b] = incoming[b]
    BY <1>6, <1>9, <1>13, <2>1
  <2>3. ClocksLeft(b, f)' \subseteq ClocksLeft(b, f) /\ Births(f) \subseteq Births(f)'
    BY <1>3, <1>13
  <2>4. Knows(Births(f)', applied'[b]) <=> Knows(Births(f), applied[b])
    <3>1. applied \in [Devices -> Clocks] /\ applied[b] \in Clocks
      BY <1>1 DEF LogsTyped
    <3>2. CASE b # d
      <4>1. applied'[b] = applied[b]
        BY <1>6, <3>1, <3>2
      <4>2. applied[b][d] <= Len(log[d])
        <5>1. /\ applied[b][d] <= clock[b][d] /\ clock[b][d] <= Len(log[d])
              /\ applied[b][d] \in Nat /\ clock[b][d] \in Nat /\ Len(log[d]) \in Nat
          BY <1>1, LogLengths DEF LogsTyped, Clocks
        <5> QED
          BY <5>1
      <4> QED
        BY <1>1, <3>1, <4>1, <4>2, KnowsAsBefore
    <3>3. CASE b = d
      <4>1. Births(f)' = Births(f)
        BY <1>3, <1>13, <3>3
      <4>2. /\ applied'[d][d] = Len(log[d]) + 1 /\ applied[d][d] = Len(log[d])
            /\ \A p \in Devices \ {d} : applied'[d][p] = applied[d][p]
        BY <1>6, <3>1, <3>3 DEF NInv, Frame, OwnIsApplied, Clocks
      <4>3. ASSUME NEW x \in Births(f)
            PROVE  applied'[d][x[1]] >= x[2] <=> applied[d][x[1]] >= x[2]
        <5>1. x \in Ids
          BY <1>1, BirthsArePairs
        <5>2. x[1] \in Devices /\ x[2] \in 1 .. Len(log[x[1]])
          BY <1>1, <5>1, IdIsPair
        <5>3. CASE x[1] = d
          <6>1. Len(log[d]) \in Nat
            BY <1>1, LogLengths
          <6> QED
            BY <4>2, <5>2, <5>3, <6>1
        <5>4. CASE x[1] # d
          BY <4>2, <5>2, <5>4
        <5> QED
          BY <5>3, <5>4
      <4> QED
        BY <3>3, <4>1, <4>3 DEF Knows
    <3> QED
      BY <3>2, <3>3
  <2> QED
    BY <1>1, <1>12, <2>1, <2>2, <2>3, <2>4, Unmoved
<1>14. ASSUME e \in Alive' PROVE Remembered(d, e)'
  <2>1. /\ e \in Alive /\ Remembered(d, e)
        /\ row'[d][e] # Gone
        /\ kind = "event" \/ row[d][e] # Gone
    BY <1>3, <1>14 DEF AllRemembered
  <2>2. ASSUME NEW h \in ClocksLeft(d, e)' PROVE Dominates(version'[d][e], h)
    <3>1. CASE h \in ClocksLeft(d, e)
      <4>1. kind # "event"
        <5>1. PICK j \in kept[d] : Rec(j).event = e
          BY <3>1 DEF ClocksLeft
        <5> QED
          BY <1>1, <5>1 DEF TablesTyped
      <4>2. version[d][e] # Unversioned /\ Dominates(version[d][e], h)
        BY <2>1, <3>1, <4>1 DEF Remembered, WhenShown
      <4>3. version[d][e] \in Clocks /\ h \in Clocks
        BY <1>1, <3>1, <4>2, ClocksLeftTyped DEF TablesTyped
      <4> QED
        BY <1>9, <4>2, <4>3, DominatesTransitively
    <3>2. CASE h = c
      BY <1>9, <3>2
    <3> QED
      BY <1>3, <1>7, <3>1, <3>2
  <2>3. version'[d][e] # Unversioned
    BY <1>9, UnversionedAssumption
  <2>4. WhenShown(d, e)'
    BY <1>10, <1>14, <2>2, <2>3 DEF WhenShown
  <2>5. WhenGone(d, e)'
    BY <2>1 DEF WhenGone
  <2>6. VersionKnows(d, e)'
    <3>1. Births(e)' \in SUBSET (Devices \X Nat)
      <4>1. i \in Devices \X Nat
        BY <1>1, <1>2, WriteGrows
      <4> QED
        BY <1>1, <1>3, <4>1, BirthsArePairs
    <3>2. PICK births \in SUBSET (Devices \X Nat) : births = Births(e)'
      BY <3>1
    <3>3. Knows(births, version'[d][e])
      BY <1>9, <1>10, <1>14, <3>2, KnowsMore
    <3> QED
      BY <3>2, <3>3 DEF VersionKnows
  <2>7. HistoryKnows(d, e)'
    BY <1>10, <1>14 DEF HistoryKnows
  <2>8. StreamKnows(d, e)'
    <3>1. Final(d)' = Final(d)
      BY <1>6 DEF Final
    <3>2. \A v : Knows(Births(e), v) => Knows(Births(e)', v)
      BY <1>3 DEF Knows
    <3> QED
      BY <1>6, <1>12, <1>14, <2>1, <3>1, <3>2 DEF Remembered, StreamKnows
  <2> QED
    BY <2>4, <2>5, <2>6, <2>7, <2>8 DEF Remembered
<1>15. \A b \in Devices, f \in Alive' : Remembered(b, f)'
  BY <1>13, <1>14
<1> QED
  BY <1>11, <1>15 DEF AllRemembered

LEMMA LocalChangesRemember ==
  ASSUME NInv, AllRemembered, NEW d \in Devices, NEW e \in Events,
         Create(d, e) \/ Edit(d, e) \/ Delete(d, e) \/ Resolve(d, e)
  PROVE  AllRemembered'
<1>1. LogsTyped /\ TablesTyped /\ RestTyped /\ RecordsAccurate
  BY Typed DEF NInv
<1>2. /\ row \in [Devices -> [Events -> Ids \cup {Gone}]]
      /\ open \in [Devices -> [Events -> SUBSET Ids]]
  BY <1>1 DEF TablesTyped
<1>3. <<d, Len(log[d]) + 1>> # Gone
  <2>1. Len(log[d]) + 1 \in Nat
    BY <1>1, LogLengths
  <2>2. <<d, Len(log[d]) + 1>> \in Devices \X Nat
    BY <2>1
  <2> QED
    BY <2>2, GoneAssumption
<1>4. CASE Create(d, e)
  <2>1. /\ "event" \in Kinds /\ Write(d, e, "event") /\ open' = open
        /\ row' = [row EXCEPT ![d][e] = <<d, Len(log[d]) + 1>>]
        /\ \A j \in Ids : Rec(j).event # e
    BY <1>4 DEF Create, Kinds
  <2>2. row'[d][e] # Gone
    BY <1>2, <1>3, <2>1
  <2>3. \A b \in Devices, f \in Events :
          <<b, f>> # <<d, e>> => row'[b][f] = row[b][f] /\ open'[b][f] = open[b][f]
    BY <1>2, <2>1
  <2> QED
    BY <2>1, <2>2, <2>3, WriteRemembers
<1>5. CASE Edit(d, e)
  <2>1. /\ "field" \in Kinds /\ Write(d, e, "field") /\ open' = open
        /\ row' = [row EXCEPT ![d][e] = <<d, Len(log[d]) + 1>>]
        /\ row[d][e] # Gone
    BY <1>5 DEF Edit, Kinds
  <2>2. row'[d][e] # Gone
    BY <1>2, <1>3, <2>1
  <2>3. \A b \in Devices, f \in Events :
          <<b, f>> # <<d, e>> => row'[b][f] = row[b][f] /\ open'[b][f] = open[b][f]
    BY <1>2, <2>1
  <2> QED
    BY <2>1, <2>2, <2>3, WriteRemembers
<1>6. CASE Delete(d, e)
  <2>1. /\ "*" \in Kinds /\ Write(d, e, "*") /\ open' = open
        /\ row' = [row EXCEPT ![d][e] = Gone]
    BY <1>6 DEF Delete, Kinds
  <2>2. e \notin Alive'
    BY <1>1, <2>1, WriteHistory
  <2>3. \A b \in Devices, f \in Events :
          <<b, f>> # <<d, e>> => row'[b][f] = row[b][f] /\ open'[b][f] = open[b][f]
    BY <1>2, <2>1
  <2> QED
    BY <2>1, <2>2, <2>3, WriteRemembers
<1>7. CASE Resolve(d, e)
  <2>1. /\ "field" \in Kinds /\ Write(d, e, "field") /\ row' = row
        /\ open' = [open EXCEPT ![d][e] = {}]
        /\ open[d][e] # {}
    BY <1>7 DEF Resolve, Kinds
  <2>2. e \in Alive' => row[d][e] # Gone /\ row'[d][e] # Gone
    <3>1. Alive' \subseteq Alive
      BY <1>1, <2>1, WriteHistory
    <3> QED
      BY <2>1, <3>1 DEF AllRemembered, Remembered, WhenGone
  <2>3. \A b \in Devices, f \in Events :
          <<b, f>> # <<d, e>> => row'[b][f] = row[b][f] /\ open'[b][f] = open[b][f]
    BY <1>2, <2>1
  <2> QED
    BY <2>1, <2>2, <2>3, WriteRemembers
<1> QED
  BY <1>4, <1>5, <1>6, <1>7

-----------------------------------------------------------------------------
(* Pulling a record.                                                       *)

\* The creation of an event comes to a device that has nothing of it.
LEMMA CreationArrives ==
  ASSUME NInv, AllRemembered, NEW d \in Devices, NEW s \in Devices, NEW p \in Devices,
         Pull(d, s, p), NEW i, i = <<p, applied[d][p] + 1>>,
         NEW e \in Alive, Rec(i).event = e, Rec(i).kind = "event"
  PROVE  /\ row'[d][e] # Gone
         /\ ClocksLeft(d, e) = {}
         /\ version[d][e] = Unversioned
<1>1. LogsTyped /\ TablesTyped /\ RestTyped /\ RecordsAccurate
  BY Typed DEF NInv
<1>2. i \in Ids /\ e \in Events
  BY <1>1 DEF Pull, TablesTyped, Alive
<1>3. i[1] = p /\ i[2] = applied[d][p] + 1 /\ applied[d][p] \in Nat
  BY <1>1 DEF LogsTyped, Clocks
<1>4. i \in Births(e) /\ \A j \in Births(e) : j = i
  BY <1>2 DEF Births, NInv, Frame, BornOnce
<1>5. ~ Knows(Births(e), applied[d])
  BY <1>3, <1>4 DEF Knows
<1>6. Remembered(d, e)
  BY DEF AllRemembered
<1>7. /\ row[d][e] = Gone
      /\ ClocksLeft(d, e) = {}
      /\ version[d][e] = Unversioned
  BY <1>5, <1>6 DEF Remembered, WhenShown, WhenGone, HistoryKnows
<1>8. Locals(d, i) = {}
  BY <1>7 DEF Locals, ClocksLeft
<1>9. ~ Stale(d, i) /\ Conflicting(d, i) = {}
  BY <1>8 DEF Stale, Conflicting
<1>10. row' = [row EXCEPT ![d][e] = Mutated(d, i)]
  BY <1>9 DEF Pull
<1>11. row'[d][e] = i
  BY <1>1, <1>2, <1>10 DEF TablesTyped, Mutated
<1>12. i # Gone
  BY <1>1, <1>2, IdIsPair, GoneAssumption
<1> QED
  BY <1>7, <1>11, <1>12

LEMMA PullRemembers ==
  ASSUME NInv, AllRemembered, NEW d \in Devices, NEW s \in Devices, NEW p \in Devices,
         Pull(d, s, p)
  PROVE  AllRemembered'
<1>1. LogsTyped /\ TablesTyped /\ RestTyped /\ RecordsAccurate
  BY Typed DEF NInv
<1>2. PICK i : i = <<p, applied[d][p] + 1>>
  OBVIOUS
<1>3. i \in Ids /\ i[1] = p /\ i[2] = applied[d][p] + 1
  BY <1>1, <1>2 DEF Pull, TablesTyped
<1>4. PICK e \in Events : e = Rec(i).event
  BY <1>1, <1>3, RecType
<1>5. PICK c \in Clocks : c = Rec(i).clock
  BY <1>1, <1>3, RecType
<1>6. /\ applied' = [applied EXCEPT ![d][p] = i[2]]
      /\ kept' = [kept EXCEPT ![d] = @ \cup {i}]
      /\ version' = Versioned(d, e, c)
      /\ early' = IF Rec(i).kind = "field" /\ row[d][e] = Gone THEN early \cup {e} ELSE early
      /\ row' = row \/ row' = [row EXCEPT ![d][e] = Mutated(d, i)]
      /\ \A b \in Devices, f \in Events :
           <<b, f>> # <<d, e>> => row'[b][f] = row[b][f] /\ open'[b][f] = open[b][f]
      /\ log' = log /\ incoming' = incoming
  <2>1. /\ row' = row \/ row' = [row EXCEPT ![d][e] = Mutated(d, i)]
        /\ \/ open' = open
           \/ open' = [open EXCEPT ![d][e] = @ \cup Conflicting(d, i) \cup {i}]
    BY <1>2, <1>4 DEF Pull
  <2>2. \A b \in Devices, f \in Events :
          <<b, f>> # <<d, e>> => row'[b][f] = row[b][f] /\ open'[b][f] = open[b][f]
    BY <1>1, <2>1 DEF TablesTyped
  <2> QED
    BY <1>2, <1>4, <1>5, <2>1, <2>2 DEF Pull, counters
<1>7. Ids' = Ids /\ \A j : Rec(j)' = Rec(j)
  BY <1>6 DEF Ids, Rec
<1>8. \A f : Births(f)' = Births(f)
  BY <1>7 DEF Births
<1>9. Alive' \subseteq Alive
  BY <1>6, <1>7 DEF Alive
<1>10. RecordsKnow'
  BY <1>7, <1>8, <1>9 DEF AllRemembered, RecordsKnow
<1>11. /\ kept \in [Devices -> SUBSET Ids] /\ applied \in [Devices -> Clocks]
       /\ applied[d] \in Clocks /\ applied[d][p] \in Nat
  BY <1>1 DEF TablesTyped, LogsTyped, Clocks
<1>12. /\ applied'[d][p] = applied[d][p] + 1
       /\ \A q \in Devices \ {p} : applied'[d][q] = applied[d][q]
       /\ \A b \in Devices \ {d} : applied'[b] = applied[b]
       /\ kept'[d] = kept[d] \cup {i}
       /\ \A b \in Devices \ {d} : kept'[b] = kept[b]
  BY <1>3, <1>6, <1>11 DEF Clocks
<1>13. /\ version'[d][e] \in Clocks
       /\ Dominates(version'[d][e], c)
       /\ version[d][e] # Unversioned => Dominates(version'[d][e], version[d][e])
       /\ \A b \in Devices, f \in Events :
            <<b, f>> # <<d, e>> => version'[b][f] = version[b][f]
  BY <1>1, <1>6, VersionedCovers DEF Dominates
<1>14. ASSUME NEW b \in Devices, NEW f \in Alive', <<b, f>> # <<d, e>>
       PROVE  Remembered(b, f)'
  <2>1. f \in Alive /\ f \in Events /\ Remembered(b, f)
    BY <1>9 DEF AllRemembered, Alive
  <2>2. /\ row'[b][f] = row[b][f] /\ open'[b][f] = open[b][f]
        /\ version'[b][f] = version[b][f] /\ incoming'[b] = incoming[b]
    BY <1>6, <1>13, <1>14, <2>1
  <2>3. ClocksLeft(b, f)' \subseteq ClocksLeft(b, f)
    <3>1. {j \in kept'[b] : Rec(j).event = f} = {j \in kept[b] : Rec(j).event = f}
      BY <1>4, <1>12, <1>14
    <3> QED
      BY <1>7, <3>1 DEF ClocksLeft
  <2>4. Knows(Births(f)', applied'[b]) <=> Knows(Births(f), applied[b])
    <3>1. CASE b # d
      BY <1>8, <1>12, <3>1
    <3>2. CASE b = d
      <4>1. ASSUME NEW x \in Births(f)
            PROVE  applied'[d][x[1]] >= x[2] <=> applied[d][x[1]] >= x[2]
        <5>1. x \in Ids /\ x # i
          BY <1>4, <1>14, <3>2 DEF Births
        <5>2. x = <<x[1], x[2]>> /\ x[1] \in Devices /\ x[2] \in Nat
          BY <1>1, <5>1, IdIsPair
        <5>3. CASE x[1] = p
          <6>1. x[2] # applied[d][p] + 1
            BY <1>2, <5>1, <5>2, <5>3
          <6> QED
            BY <1>11, <1>12, <5>2, <5>3, <6>1
        <5>4. CASE x[1] # p
          BY <1>12, <5>2, <5>4
        <5> QED
          BY <5>3, <5>4
      <4> QED
        BY <1>8, <3>2, <4>1 DEF Knows
    <3> QED
      BY <3>1, <3>2
  <2>5. /\ Births(f) \subseteq Births(f)'
        /\ Knows(Births(f)', Final(b).clock) <=> Knows(Births(f), Final(b).clock)
    BY <1>8
  <2> QED
    BY <1>1, <2>1, <2>2, <2>3, <2>4, <2>5, Unmoved
<1>15. ASSUME e \in Alive' PROVE Remembered(d, e)'
  <2>1. e \in Alive /\ Remembered(d, e)
    BY <1>9, <1>15 DEF AllRemembered
  <2>2. Rec(i).kind = "event" \/ row[d][e] # Gone
    <3>1. Rec(i).kind \in {"event", "field", "*"}
      BY <1>1, <1>3, RecType DEF Kinds
    <3>2. Rec(i).kind # "*"
      BY <1>3, <1>4, <2>1 DEF Alive
    <3>3. Rec(i).kind = "field" => row[d][e] # Gone
      BY <1>6, <1>15 DEF Alive
    <3> QED
      BY <3>1, <3>2, <3>3
  <2>3. Knows(Births(e), applied'[d])
    <3>1. CASE Rec(i).kind = "event"
      <4>1. i \in Births(e)
        BY <1>3, <1>4, <3>1 DEF Births
      <4>2. applied'[d][i[1]] >= i[2]
        BY <1>3, <1>11, <1>12
      <4> QED
        BY <4>1, <4>2 DEF Knows
    <3>2. CASE row[d][e] # Gone
      <4>1. PICK x \in Births(e) : applied[d][x[1]] >= x[2]
        BY <2>1, <3>2 DEF Remembered, WhenShown, Knows
      <4>2. x[1] \in Devices /\ x[2] \in Nat
        BY <1>1, BirthsArePairs
      <4>3. applied'[d][x[1]] >= x[2]
        BY <1>11, <1>12, <4>1, <4>2
      <4> QED
        BY <4>3 DEF Knows
    <3> QED
      BY <2>2, <3>1, <3>2
  <2>4. row'[d][e] # Gone
    <3>1. CASE Rec(i).kind = "event"
      BY <1>2, <1>4, <2>1, <3>1, CreationArrives
    <3>2. CASE Rec(i).kind # "event"
      <4>1. row[d][e] # Gone /\ Rec(i).kind # "*"
        BY <1>3, <1>4, <2>1, <2>2, <3>2 DEF Alive
      <4>2. Mutated(d, i) = i /\ i # Gone
        BY <1>1, <1>3, <1>4, <3>2, <4>1, IdIsPair, GoneAssumption DEF Mutated
      <4>3. row'[d][e] = row[d][e] \/ row'[d][e] = Mutated(d, i)
        BY <1>1, <1>6 DEF TablesTyped
      <4> QED
        BY <4>1, <4>2, <4>3
    <3> QED
      BY <3>1, <3>2
  <2>5. ClocksLeft(d, e)' = ClocksLeft(d, e) \cup {c}
    <3>1. {j \in kept'[d] : Rec(j).event = e} = {j \in kept[d] : Rec(j).event = e} \cup {i}
      BY <1>4, <1>12
    <3> QED
      BY <1>5, <1>7, <3>1 DEF ClocksLeft
  <2>6. ASSUME NEW h \in ClocksLeft(d, e)' PROVE Dominates(version'[d][e], h)
    <3>1. CASE h \in ClocksLeft(d, e)
      <4>1. Rec(i).kind # "event"
        BY <1>2, <1>4, <2>1, <3>1, CreationArrives
      <4>2. version[d][e] # Unversioned /\ Dominates(version[d][e], h)
        BY <2>1, <2>2, <3>1, <4>1 DEF Remembered, WhenShown
      <4>3. version[d][e] \in Clocks /\ h \in Clocks
        BY <1>1, <3>1, <4>2, ClocksLeftTyped DEF TablesTyped
      <4> QED
        BY <1>13, <4>2, <4>3, DominatesTransitively
    <3>2. CASE h = c
      BY <1>13, <3>2
    <3> QED
      BY <2>5, <3>1, <3>2
  <2>7. version'[d][e] # Unversioned
    BY <1>13, UnversionedAssumption
  <2>8. WhenShown(d, e)'
    BY <1>8, <2>3, <2>6, <2>7 DEF WhenShown
  <2>9. WhenGone(d, e)'
    BY <2>4 DEF WhenGone
  <2>10. VersionKnows(d, e)'
    <3>1. Knows(Births(e), c)
      BY <1>3, <1>4, <1>5, <2>1 DEF AllRemembered, RecordsKnow
    <3>2. Knows(Births(e), version'[d][e])
      BY <1>1, <1>13, <3>1, BirthsArePairs, KnowsMore
    <3> QED
      BY <1>8, <3>2 DEF VersionKnows
  <2>11. HistoryKnows(d, e)'
    BY <1>8, <2>3 DEF HistoryKnows
  <2>12. StreamKnows(d, e)'
    <3>1. Final(d)' = Final(d)
      BY <1>6 DEF Final
    <3> QED
      BY <1>6, <1>8, <2>1, <3>1 DEF Remembered, StreamKnows
  <2> QED
    BY <2>8, <2>9, <2>10, <2>11, <2>12 DEF Remembered
<1>16. \A b \in Devices, f \in Alive' : Remembered(b, f)'
  BY <1>14, <1>15
<1> QED
  BY <1>10, <1>16 DEF AllRemembered

-----------------------------------------------------------------------------
(* Streams and histories in every case.                                    *)

\* What a step does to the messages under way to a device.
LEMMA StreamMoves ==
  ASSUME RestTyped, [Next]_vars, NEW d \in Devices
  PROVE  \/ incoming'[d] = incoming[d] /\ built' \in {built, built + 1}
         \/ incoming'[d] = <<>> /\ built' = built
         \/ incoming[d] # <<>> /\ incoming'[d] = Tail(incoming[d]) /\ built' = built
         \/ \E s \in Devices : \E live \in Listings(s) :
              incoming'[d] = ChunksOf(s, live) /\ built' = built + 1
<1>1. incoming \in [Devices -> Seq(Chunk)]
  BY DEF RestTyped
<1>2. ASSUME NEW b \in Devices, Migrate(b) \/ Sweep(b)
      PROVE  incoming' = incoming /\ built' = built
  BY <1>2 DEF Migrate, Sweep
<1>3. ASSUME NEW b \in Devices, ApplyChunk(b)
      PROVE  /\ built' = built
             /\ \/ incoming'[d] = incoming[d]
                \/ incoming[d] # <<>> /\ incoming'[d] = Tail(incoming[d])
  <2>1. /\ incoming[b] # <<>> /\ incoming' = [incoming EXCEPT ![b] = Tail(@)]
        /\ built' = built
    BY <1>3 DEF ApplyChunk, counters
  <2> QED
    BY <1>1, <2>1
<1>4. ASSUME NEW b \in Devices, Cut(b)
      PROVE  built' = built /\ (incoming'[d] = incoming[d] \/ incoming'[d] = <<>>)
  <2>1. incoming' = [incoming EXCEPT ![b] = <<>>] /\ built' = built
    BY <1>4 DEF Cut
  <2> QED
    BY <1>1, <2>1
<1>5. ASSUME NEW b \in Devices, NEW e \in Events,
             Create(b, e) \/ Edit(b, e) \/ Delete(b, e) \/ Resolve(b, e)
      PROVE  incoming' = incoming /\ built' = built
  BY <1>5 DEF Create, Edit, Delete, Resolve, Write, counters
<1>6. ASSUME NEW b \in Devices, NEW s \in Devices, NEW p \in Devices, Pull(b, s, p)
      PROVE  incoming' = incoming /\ built' = built
  BY <1>6 DEF Pull, counters
<1>7. ASSUME NEW r \in Devices, NEW s \in Devices, BeginSnapshot(r, s)
      PROVE  /\ built' = built + 1
             /\ \/ incoming'[d] = incoming[d]
                \/ \E live \in Listings(s) : incoming'[d] = ChunksOf(s, live)
  <2>1. PICK live \in Listings(s) :
          incoming' = [incoming EXCEPT ![r] = ChunksOf(s, live)]
    BY <1>7 DEF BeginSnapshot
  <2>2. built' = built + 1
    BY <1>7 DEF BeginSnapshot
  <2>3. incoming'[d] = incoming[d] \/ incoming'[d] = ChunksOf(s, live)
    BY <1>1, <2>1
  <2> QED
    BY <2>2, <2>3
<1>8. CASE UNCHANGED vars
  BY <1>8 DEF vars
<1>9. CASE \E b \in Devices : Migrate(b) \/ Sweep(b) \/ ApplyChunk(b) \/ Cut(b)
  <2>1. PICK b \in Devices : Migrate(b) \/ Sweep(b) \/ ApplyChunk(b) \/ Cut(b)
    BY <1>9
  <2> QED
    BY <1>2, <1>3, <1>4, <2>1
<1>10. CASE \E r, s \in Devices : BeginSnapshot(r, s)
  <2>1. PICK r \in Devices, s \in Devices : BeginSnapshot(r, s)
    BY <1>10
  <2> QED
    BY <1>7, <2>1
<1> QED
  BY <1>5, <1>6, <1>8, <1>9, <1>10 DEF Next

LEMMA StreamsKeepAgreeing ==
  ASSUME IInv, StreamsAgree, [Next]_vars
  PROVE  StreamsAgree'
<1>1. RestTyped
  BY TypesSplit DEF IInv
<1>2. incoming \in [Devices -> Seq(Chunk)]
  BY <1>1 DEF RestTyped
<1> DEFINE Agree(cs) == \A j \in 1 .. Len(cs) :
             /\ cs[j].clock = cs[Len(cs)].clock
             /\ cs[j].rows = cs[Len(cs)].rows
             /\ \A k \in DOMAIN cs[j].entries : cs[j].entries[k].row # Gone
<1>3. StreamsAgree <=> \A d \in Devices : Agree(incoming[d])
  BY DEF StreamsAgree, Final
<1>4. StreamsAgree' <=> \A d \in Devices : Agree(incoming'[d])
  BY DEF StreamsAgree, Final
<1>5. Agree(<<>>)
  OBVIOUS
<1>6. ASSUME NEW cs \in Seq(Chunk), cs # <<>>, Agree(cs) PROVE Agree(Tail(cs))
  <2>1. /\ \A j \in 1 .. Len(Tail(cs)) : j + 1 \in 1 .. Len(cs) /\ Tail(cs)[j] = cs[j + 1]
        /\ Tail(cs) # <<>> => Tail(cs)[Len(Tail(cs))] = cs[Len(cs)]
    BY <1>6, RestOfStream
  <2>2. PICK t : t = Tail(cs)
    OBVIOUS
  <2>3. CASE t = <<>>
    BY <1>5, <2>2, <2>3
  <2>4. CASE t # <<>>
    <3>1. ASSUME NEW j \in 1 .. Len(t)
          PROVE  /\ t[j].clock = t[Len(t)].clock
                 /\ t[j].rows = t[Len(t)].rows
                 /\ \A k \in DOMAIN t[j].entries : t[j].entries[k].row # Gone
      <4>1. PICK i \in 1 .. Len(cs) : t[j] = cs[i]
        BY <2>1, <2>2
      <4>2. t[Len(t)] = cs[Len(cs)]
        BY <2>1, <2>2, <2>4
      <4> QED
        BY <1>6, <4>1, <4>2
    <3> QED
      BY <2>2, <3>1
  <2> QED
    BY <2>3, <2>4
<1>7. ASSUME NEW s \in Devices, NEW live \in Listings(s) PROVE Agree(ChunksOf(s, live))
  <2>1. PICK cs : cs = ChunksOf(s, live)
    OBVIOUS
  <2>2. cs \in Seq(FineChunks(s)) /\ cs # <<>>
    BY <2>1, ChunksAreFine
  <2>3. Len(cs) \in 1 .. Len(cs) /\ \A j \in 1 .. Len(cs) : cs[j] \in FineChunks(s)
    BY <2>2
  <2>4. Agree(cs)
    BY <2>3 DEF FineChunks, FineEntries
  <2> QED
    BY <2>1, <2>4
<1> HIDE DEF Agree
<1>8. ASSUME NEW d \in Devices PROVE Agree(incoming'[d])
  <2>1. Agree(incoming[d]) /\ incoming[d] \in Seq(Chunk)
    BY <1>2, <1>3
  <2>2. incoming[d] # <<>> => Agree(Tail(incoming[d]))
    BY <1>6, <2>1
  <2>3. \/ incoming'[d] = incoming[d]
        \/ incoming'[d] = <<>>
        \/ incoming[d] # <<>> /\ incoming'[d] = Tail(incoming[d])
        \/ \E s \in Devices : \E live \in Listings(s) : incoming'[d] = ChunksOf(s, live)
    BY <1>1, StreamMoves
  <2> QED
    BY <1>5, <1>7, <2>1, <2>2, <2>3
<1> QED
  BY <1>4, <1>8

LEMMA SnapshotsStayCounted ==
  ASSUME RestTyped, IdleBeforeSnapshots, [Next]_vars
  PROVE  IdleBeforeSnapshots'
<1>1. built \in Nat
  BY BoundsAssumption DEF RestTyped
<1> SUFFICES ASSUME built' = 0, NEW d \in Devices PROVE incoming'[d] = <<>>
  BY DEF IdleBeforeSnapshots
<1>2. built' # built + 1
  BY <1>1
<1>3. \/ incoming'[d] = incoming[d] /\ built' = built
      \/ incoming'[d] = <<>>
      \/ incoming[d] # <<>> /\ built' = built
  BY <1>2, StreamMoves
<1>4. built' = built => incoming[d] = <<>>
  BY DEF IdleBeforeSnapshots
<1> QED
  BY <1>3, <1>4

\* What a step does to the logs.
LEMMA LogMoves ==
  ASSUME [Next]_vars
  PROVE  \/ log' = log
         \/ \E d \in Devices, e \in Events, kind \in Kinds :
              /\ Write(d, e, kind)
              /\ kind = "event" => \A i \in Ids : Rec(i).event # e
<1>1. ASSUME NEW b \in Devices, Migrate(b) \/ Sweep(b) \/ ApplyChunk(b) \/ Cut(b)
      PROVE  log' = log
  BY <1>1 DEF Migrate, Sweep, ApplyChunk, Cut, tables
<1>2. ASSUME NEW d \in Devices, NEW e \in Events,
             Create(d, e) \/ Edit(d, e) \/ Delete(d, e) \/ Resolve(d, e)
      PROVE  \E kind \in Kinds :
               /\ Write(d, e, kind)
               /\ kind = "event" => \A i \in Ids : Rec(i).event # e
  <2>1. {"event", "field", "*"} = Kinds /\ "field" # "event" /\ "*" # "event"
    BY DEF Kinds
  <2>2. CASE Create(d, e)
    BY <2>1, <2>2 DEF Create
  <2>3. CASE Edit(d, e) \/ Resolve(d, e)
    BY <2>1, <2>3 DEF Edit, Resolve
  <2>4. CASE Delete(d, e)
    BY <2>1, <2>4 DEF Delete
  <2> QED
    BY <1>2, <2>2, <2>3, <2>4
<1>3. ASSUME NEW b \in Devices, NEW s \in Devices, NEW p \in Devices, Pull(b, s, p)
      PROVE  log' = log
  BY <1>3 DEF Pull
<1>4. ASSUME NEW r \in Devices, NEW s \in Devices, BeginSnapshot(r, s)
      PROVE  log' = log
  BY <1>4 DEF BeginSnapshot, tables
<1>5. CASE UNCHANGED vars
  BY <1>5 DEF vars
<1> QED
  BY <1>1, <1>2, <1>3, <1>4, <1>5 DEF Next

LEMMA BornOnlyOnce ==
  ASSUME IInv, BornOnce, [Next]_vars
  PROVE  BornOnce'
<1>1. LogsTyped /\ TablesTyped
  BY TypesSplit DEF IInv
<1>2. CASE log' = log
  <2>1. Ids' = Ids /\ \A i : Rec(i)' = Rec(i)
    BY <1>2 DEF Ids, Rec
  <2>2. \A e : Births(e)' = Births(e)
    BY <2>1 DEF Births
  <2> QED
    BY <2>2 DEF BornOnce
<1>3. ASSUME NEW d \in Devices, NEW e \in Events, NEW kind \in Kinds, Write(d, e, kind),
             kind = "event" => \A i \in Ids : Rec(i).event # e
      PROVE  BornOnce'
  <2>1. PICK i : i = <<d, Len(log[d]) + 1>>
    OBVIOUS
  <2>2. /\ \A f : Births(f)' \subseteq Births(f) \cup {i}
        /\ kind # "event" => \A f : Births(f)' = Births(f)
        /\ \A f : f # e => Births(f)' = Births(f)
    BY <1>1, <1>3, <2>1, WriteHistory
  <2>3. kind = "event" => Births(e) = {}
    BY <1>3 DEF Births
  <2>4. ASSUME NEW f \in Events PROVE \A j, k \in Births(f)' : j = k
    BY <2>2, <2>3 DEF BornOnce
  <2> QED
    BY <2>4 DEF BornOnce
<1> QED
  BY <1>2, <1>3, LogMoves

LEMMA OwnStaysApplied ==
  ASSUME IInv, OwnIsApplied, [Next]_vars
  PROVE  OwnIsApplied'
<1>1. LogsTyped /\ TablesTyped /\ RestTyped
  BY TypesSplit DEF IInv
<1>2. applied \in [Devices -> Clocks] /\ \A d \in Devices : applied[d] \in [Devices -> Nat]
  BY <1>1 DEF LogsTyped, Clocks
<1>3. CASE UNCHANGED <<log, applied>>
  BY <1>3 DEF OwnIsApplied
<1>4. ASSUME NEW d \in Devices, NEW e \in Events, NEW kind \in Kinds, Write(d, e, kind)
      PROVE  OwnIsApplied'
  <2>1. Len(log'[d]) = Len(log[d]) + 1 /\ \A p \in Devices \ {d} : log'[p] = log[p]
    BY <1>1, <1>4, WriteGrows
  <2>2. applied' = [applied EXCEPT ![d][d] = Len(log[d]) + 1]
    BY <1>4 DEF Write
  <2>3. ASSUME NEW p \in Devices PROVE applied'[p][p] = Len(log'[p])
    BY <1>2, <2>1, <2>2 DEF OwnIsApplied
  <2> QED
    BY <2>3 DEF OwnIsApplied
<1>5. ASSUME NEW d \in Devices, NEW s \in Devices, NEW p \in Devices, Pull(d, s, p)
      PROVE  OwnIsApplied'
  <2>1. /\ p # d /\ log' = log
        /\ applied' = [applied EXCEPT ![d][p] = <<p, applied[d][p] + 1>>[2]]
    BY <1>5 DEF Pull
  <2>2. ASSUME NEW q \in Devices PROVE applied'[q][q] = applied[q][q]
    BY <1>2, <2>1
  <2> QED
    BY <2>1, <2>2 DEF OwnIsApplied
<1>6. ASSUME NEW d \in Devices, ApplyChunk(d) PROVE OwnIsApplied'
  <2>1. PICK c : c = Head(incoming[d])
    OBVIOUS
  <2>2. /\ incoming[d] # <<>> /\ log' = log
        /\ applied' = [applied EXCEPT ![d] = Merge(@, c.clock)]
    BY <1>6, <2>1 DEF ApplyChunk, TakeClock
  <2>3. c \in Chunk /\ ChunkFine(c)
    BY <1>1, <2>1, <2>2, HeadIsFine DEF IInv
  <2>4. c.clock \in Clocks /\ c.clock[d] <= Len(log[d])
    BY <2>3 DEF Chunk, ChunkFine
  <2>5. Merge(applied[d], c.clock)[d] = applied[d][d]
    <3>1. /\ Merge(applied[d], c.clock)[d] >= applied[d][d]
          /\ Merge(applied[d], c.clock)[d] \in {applied[d][d], c.clock[d]}
      BY <1>2, <2>4, MergeIsUpper
    <3>2. applied[d][d] = Len(log[d]) /\ Len(log[d]) \in Nat /\ c.clock[d] \in Nat
      BY <1>1, <2>4, LogLengths DEF OwnIsApplied, Clocks
    <3> QED
      BY <2>4, <3>1, <3>2
  <2>6. ASSUME NEW q \in Devices PROVE applied'[q][q] = applied[q][q]
    BY <1>2, <2>2, <2>5
  <2> QED
    BY <2>2, <2>6 DEF OwnIsApplied
<1>7. ASSUME NEW b \in Devices, Migrate(b) \/ Sweep(b) \/ Cut(b) PROVE UNCHANGED <<log, applied>>
  BY <1>7 DEF Migrate, Sweep, Cut, tables
<1>8. ASSUME NEW b \in Devices, NEW e \in Events,
             Create(b, e) \/ Edit(b, e) \/ Delete(b, e) \/ Resolve(b, e)
      PROVE  \E kind \in Kinds : Write(b, e, kind)
  BY <1>8 DEF Create, Edit, Delete, Resolve, Kinds
<1>9. ASSUME NEW r \in Devices, NEW s \in Devices, BeginSnapshot(r, s)
      PROVE  UNCHANGED <<log, applied>>
  BY <1>9 DEF BeginSnapshot, tables
<1>10. CASE UNCHANGED vars
  BY <1>10 DEF vars, OwnIsApplied
<1>11. CASE \E b \in Devices : Migrate(b) \/ Sweep(b) \/ ApplyChunk(b) \/ Cut(b)
  BY <1>3, <1>6, <1>7, <1>11
<1>12. CASE \E b \in Devices, e \in Events :
              Create(b, e) \/ Edit(b, e) \/ Delete(b, e) \/ Resolve(b, e)
  BY <1>4, <1>8, <1>12
<1>13. CASE \E d, s, p \in Devices : Pull(d, s, p)
  BY <1>5, <1>13
<1>14. CASE \E r, s \in Devices : BeginSnapshot(r, s)
  BY <1>3, <1>9, <1>14
<1> QED
  BY <1>10, <1>11, <1>12, <1>13, <1>14 DEF Next

LEMMA FrameHolds ==
  ASSUME IInv, Frame, [Next]_vars
  PROVE  Frame'
<1>1. RestTyped
  BY TypesSplit DEF IInv
<1> QED
  BY <1>1, BornOnlyOnce, OwnStaysApplied, StreamsKeepAgreeing, SnapshotsStayCounted DEF Frame

-----------------------------------------------------------------------------
(* The invariant.                                                          *)

LEMMA StepsRemember ==
  ASSUME NInv, AllRemembered, [Next]_vars, honest', cuts' = 0
  PROVE  AllRemembered'
<1>1. RestTyped
  BY Typed DEF NInv
<1>2. CASE \E d \in Devices : Migrate(d) \/ Sweep(d) \/ ApplyChunk(d) \/ Cut(d)
  <2>1. PICK d \in Devices : Migrate(d) \/ Sweep(d) \/ ApplyChunk(d) \/ Cut(d)
    BY <1>2
  <2>2. ~ Cut(d)
    <3>1. cuts \in Nat
      BY <1>1, BoundsAssumption DEF RestTyped
    <3>2. cuts + 1 # 0
      BY <3>1
    <3> QED
      BY <3>2 DEF Cut
  <2> QED
    BY <2>1, <2>2, MigrateRemembers, SweepRemembers, ApplyChunkRemembers
<1>3. CASE \E d \in Devices, e \in Events :
             Create(d, e) \/ Edit(d, e) \/ Delete(d, e) \/ Resolve(d, e)
  BY <1>3, LocalChangesRemember
<1>4. CASE \E d, s, p \in Devices : Pull(d, s, p)
  BY <1>4, PullRemembers
<1>5. CASE \E r, s \in Devices : BeginSnapshot(r, s)
  BY <1>5, BeginSnapshotRemembers
<1>6. CASE UNCHANGED vars
  <2>1. /\ log' = log /\ early' = early /\ kept' = kept /\ applied' = applied
        /\ row' = row /\ version' = version /\ open' = open /\ incoming' = incoming
    BY <1>6 DEF vars
  <2>2. LogsTyped
    BY Typed DEF NInv
  <2>3. /\ \A f : Births(f)' = Births(f)
        /\ Alive' = Alive
        /\ RecordsKnow'
        /\ \A b, f : ClocksLeft(b, f)' = ClocksLeft(b, f)
    BY <2>1, HistoryStays DEF AllRemembered
  <2>4. ASSUME NEW b \in Devices, NEW f \in Alive PROVE Remembered(b, f)'
    <3>1. Remembered(b, f) /\ f \in Events
      BY DEF AllRemembered, Alive
    <3>2. /\ Births(f) \subseteq Births(f)' /\ ClocksLeft(b, f)' \subseteq ClocksLeft(b, f)
          /\ Knows(Births(f)', applied'[b]) <=> Knows(Births(f), applied[b])
          /\ Knows(Births(f)', Final(b).clock) <=> Knows(Births(f), Final(b).clock)
      BY <2>1, <2>3
    <3> QED
      BY <2>1, <2>2, <3>1, <3>2, Unmoved
  <2> QED
    BY <2>3, <2>4 DEF AllRemembered
<1> QED
  BY <1>2, <1>3, <1>4, <1>5, <1>6 DEF Next

\* Whoever was honest so far was honest before.
LEMMA HonestBefore ==
  ASSUME RestTyped, [Next]_vars, honest', cuts' = 0
  PROVE  honest /\ cuts = 0
<1>1. cuts \in Nat
  BY BoundsAssumption DEF RestTyped
<1>2. cuts + 1 # 0
  BY <1>1
<1>3. ASSUME NEW b \in Devices, Migrate(b) \/ Sweep(b) \/ ApplyChunk(b) \/ Cut(b)
      PROVE  honest /\ cuts = 0
  BY <1>2, <1>3 DEF Migrate, Sweep, ApplyChunk, Cut, counters
<1>4. ASSUME NEW b \in Devices, NEW e \in Events,
             Create(b, e) \/ Edit(b, e) \/ Delete(b, e) \/ Resolve(b, e)
      PROVE  honest /\ cuts = 0
  BY <1>4 DEF Create, Edit, Delete, Resolve, Write, counters
<1>5. ASSUME NEW b \in Devices, NEW s \in Devices, NEW p \in Devices, Pull(b, s, p)
      PROVE  honest /\ cuts = 0
  BY <1>5 DEF Pull, counters
<1>6. ASSUME NEW r \in Devices, NEW s \in Devices, BeginSnapshot(r, s)
      PROVE  honest /\ cuts = 0
  BY <1>6 DEF BeginSnapshot
<1>7. CASE UNCHANGED vars
  BY <1>7 DEF vars
<1> QED
  BY <1>3, <1>4, <1>5, <1>6, <1>7 DEF Next

LEMMA NInvStarts == Init => NInv
<1> SUFFICES ASSUME Init PROVE NInv
  OBVIOUS
<1>1. /\ log = [d \in Devices |-> <<>>]
      /\ kept = [d \in Devices |-> {}]
      /\ applied = [d \in Devices |-> NoClock]
      /\ row = [d \in Devices |-> [e \in Events |-> Gone]]
      /\ version = [d \in Devices |-> [e \in Events |-> Unversioned]]
      /\ open = [d \in Devices |-> [e \in Events |-> {}]]
      /\ incoming = [d \in Devices |-> <<>>]
  BY DEF Init
<1>2. IInv
  BY InitEstablishes
<1>3. Ids = {}
  BY <1>1 DEF Ids
<1>4. \A f : Births(f) = {}
  BY <1>3 DEF Births
<1>5. \A d \in Devices : \A f : ClocksLeft(d, f) = {}
  BY <1>1 DEF ClocksLeft
<1>6. LastIsWhole /\ StreamsAgree /\ IdleBeforeSnapshots
  <2>1. \A d \in Devices : incoming[d] = <<>> /\ 1 .. Len(incoming[d]) = {}
    BY <1>1
  <2> QED
    BY <2>1 DEF LastIsWhole, StreamsAgree, IdleBeforeSnapshots
<1>7. BornOnce
  BY <1>4 DEF BornOnce
<1>8. OwnIsApplied
  <2>1. \A d \in Devices : Len(log[d]) = 0 /\ applied[d][d] = 0
    BY <1>1 DEF NoClock
  <2> QED
    BY <2>1 DEF OwnIsApplied
<1>9. RecordsKnow
  BY <1>3 DEF RecordsKnow
<1>10. ASSUME NEW d \in Devices, NEW f \in Alive PROVE Remembered(d, f)
  <2>1. f \in Events
    BY DEF Alive
  <2>2. /\ row[d][f] = Gone /\ version[d][f] = Unversioned /\ open[d][f] = {}
        /\ incoming[d] = <<>> /\ 1 .. Len(incoming[d]) = {}
    BY <1>1, <2>1
  <2>3. ~ Knows(Births(f), applied[d])
    BY <1>4 DEF Knows
  <2> QED
    BY <1>5, <2>2, <2>3
       DEF Remembered, WhenShown, WhenGone, VersionKnows, HistoryKnows, StreamKnows
<1> QED
  BY <1>2, <1>6, <1>7, <1>8, <1>9, <1>10 DEF NInv, Frame, AllRemembered

LEMMA NInvHolds ==
  ASSUME Cardinality(Events) < ChunkSize, NInv, [Next]_vars
  PROVE  NInv'
<1>1. IInv /\ LastIsWhole /\ Frame /\ RestTyped
  BY Typed DEF NInv
<1>2. IInv'
  BY <1>1, NextPreserves
<1>3. LastIsWhole'
  BY <1>1, LastStaysWhole
<1>4. Frame'
  BY <1>1, FrameHolds
<1>5. ASSUME honest', cuts' = 0 PROVE AllRemembered'
  <2>1. honest /\ cuts = 0
    BY <1>1, <1>5, HonestBefore
  <2>2. AllRemembered
    BY <2>1 DEF NInv
  <2> QED
    BY <1>5, <2>2, StepsRemember
<1> QED
  BY <1>2, <1>3, <1>4, <1>5 DEF NInv

\* An event whose creation a device counts as applied, and of which nobody
\* asked for less, is in its calendar, as long as every sender of a snapshot
\* had applied what its clock counts and was not itself inside a stream, no
\* stream broke off, and the calendar fits one message (applySnapshot).
THEOREM EventsAreKept ==
  ASSUME Cardinality(Events) < ChunkSize
  PROVE  Spec => []NothingVanishes
<1>1. NInv /\ [Next]_vars => NInv'
  BY NInvHolds
<1>2. NInv => NothingVanishes
  <2> SUFFICES ASSUME NInv, honest, cuts = 0, NEW d \in Devices, NEW i \in Ids,
                      Rec(i).event \notin early,
                      Rec(i).kind = "event", i[2] <= applied[d][i[1]],
                      incoming[d] = <<>>,
                      \A j \in Ids : Rec(j).event = Rec(i).event => Rec(j).kind # "*"
               PROVE  row[d][Rec(i).event] # Gone
    BY DEF NothingVanishes
  <2>1. LogsTyped
    BY Typed DEF NInv
  <2>2. PICK e \in Events : e = Rec(i).event
    BY <2>1, RecType
  <2>3. e \in Alive
    BY <2>2 DEF Alive
  <2>4. WhenGone(d, e)
    BY <2>3 DEF NInv, AllRemembered, Remembered
  <2>5. i \in Births(e)
    BY <2>2 DEF Births
  <2>6. applied[d][i[1]] >= i[2]
    <3>1. i[1] \in Devices /\ i[2] \in Nat
      BY <2>1, IdIsPair
    <3>2. applied[d][i[1]] \in Nat
      BY <2>1, <3>1 DEF LogsTyped, Clocks
    <3> QED
      BY <3>1, <3>2
  <2>7. Knows(Births(e), applied[d])
    BY <2>5, <2>6 DEF Knows
  <2> QED
    BY <2>2, <2>4, <2>7 DEF WhenGone
<1> QED
  BY <1>1, <1>2, NInvStarts, PTL DEF Spec
=============================================================================
