---------------------------- MODULE Device_proofs ----------------------------
(***************************************************************************)
(* The locks, the cap and the recorded endpoints of the sync scheduler, for*)
(* every number of peers and every setting.  What makes the invariant      *)
(* inductive is that a session in the engine talks to the peer that was    *)
(* dialled, and that a decision admits at most as many peers as there are  *)
(* free slots: the last one admitted has fewer in front of it.             *)
(*                                                                         *)
(* The occurrences of the calendar, for every rule, every window, every    *)
(* file and every user.  A walk through the window emits the first days of *)
(* those it visits within the bound of the rule; from this follow both the *)
(* recurrence set and what is left of a series that is ended.  What is     *)
(* inductive is that tables, records and files hold what their readers     *)
(* expect of them, whichever operation is in progress and wherever it is   *)
(* cut off; what the last save has kept is then a matter of one step.      *)
(***************************************************************************)
EXTENDS Scheduler, CalendarApp, FiniteSetTheorems, SequenceTheorems, NaturalsInduction,
        WellFoundedInduction, TLAPS

\* Whoever the engine runs with is the peer that was dialled.
EngineIsExpected ==
  \A p \in Peers : session[p].phase = "engine" => session[p].with = p

IInv == TypeOK /\ SessionsAreLocked /\ EngineIsExpected

-----------------------------------------------------------------------------
(* The least element of a set of numbers, and the greatest peer of a set.   *)

Less == {ss \in Nat \X Nat : ss[1] < ss[2]}

LEMMA LessIsWellFounded == IsWellFoundedOn(Less, Nat)
BY NatLessThanWellFounded DEF OpToRel, Less

LEMMA LeastExists ==
  ASSUME NEW T \in SUBSET Nat, T # {}
  PROVE  \E x \in T : \A y \in T : x <= y
<1>1. PICK x \in T : \A y \in T : <<y, x>> \notin Less
  BY LessIsWellFounded, WFMin
<1>2. ASSUME NEW y \in T PROVE x <= y
  <2>1. x \in Nat /\ y \in Nat /\ <<y, x>> \notin Less
    BY <1>1
  <2> QED  BY <2>1 DEF Less
<1> QED  BY <1>2

LEMMA LastExists ==
  ASSUME NEW T \in SUBSET Peers, T # {}
  PROVE  \E x \in T : \A y \in T : y <= x
<1>1. N \in Nat /\ Peers = 1..N
  BY PeersAssumption
<1> DEFINE Left == {N - p : p \in T}
<1>2. Left \in SUBSET Nat /\ Left # {}
  <2>1. \A p \in T : N - p \in Nat
    BY <1>1
  <2> QED  BY <2>1
<1>3. PICK n \in Left : \A k \in Left : n <= k
  <2> HIDE DEF Left
  <2> QED  BY <1>2, LeastExists
<1>4. PICK x \in T : n = N - x
  BY <1>3
<1>5. ASSUME NEW y \in T PROVE y <= x
  <2>1. N - x <= N - y
    BY <1>3, <1>4
  <2>2. x \in 1..N /\ y \in 1..N
    BY <1>1
  <2> QED  BY <1>1, <2>1, <2>2
<1> QED  BY <1>5

LEMMA PeersAreFinite ==
  ASSUME NEW S \in SUBSET Peers
  PROVE  IsFiniteSet(S) /\ Cardinality(S) \in Nat
<1>1. IsFiniteSet(Peers)
  BY PeersAssumption, FS_Interval
<1>2. IsFiniteSet(S)
  BY <1>1, FS_Subset
<1> QED  BY <1>2, FS_CardinalityType

\* What one decision admits fits into the free slots.
LEMMA AdmittedFit ==
  ASSUME NEW wanted \in SUBSET Peers, active \in SUBSET Peers, FreeSlots >= 0
  PROVE  /\ Admitted(wanted) \subseteq wanted
         /\ Cardinality(Admitted(wanted)) <= FreeSlots
<1> DEFINE A == Admitted(wanted)
<1>1. A \in SUBSET Peers /\ A \subseteq wanted
  BY DEF Admitted
<1>2. FreeSlots \in Int
  BY PeersAreFinite, ConcurrencyAssumption DEF FreeSlots
<1>3. CASE A = {}
  <2>1. Cardinality(A) = 0
    BY <1>3, FS_EmptySet
  <2> QED  BY <1>1, <1>2, <2>1
<1>4. CASE A # {}
  <2>1. PICK last \in A : \A q \in A : q <= last
    <3> HIDE DEF A
    <3> QED  BY <1>1, <1>4, LastExists
  <2> DEFINE Before == {q \in wanted : q < last}
  <2>2. Cardinality(Before) < FreeSlots
    BY <2>1 DEF Admitted
  <2>3. A \ {last} \subseteq Before
    <3>1. ASSUME NEW q \in A, q # last PROVE q \in Before
      <4>1. q \in 1..N /\ last \in 1..N /\ q <= last
        BY <1>1, <2>1, PeersAssumption
      <4>2. q < last
        BY <3>1, <4>1, PeersAssumption
      <4> QED  BY <4>2, <1>1
    <3> HIDE DEF A, Before
    <3> QED  BY <3>1
  <2>4. Before \in SUBSET Peers
    OBVIOUS
  <2> HIDE DEF A, Before
  <2>5. Cardinality(A \ {last}) <= Cardinality(Before)
    BY <2>3, <2>4, PeersAreFinite, FS_Subset
  <2>6. Cardinality(A \ {last}) = Cardinality(A) - 1
    BY <1>1, <2>1, PeersAreFinite, FS_RemoveElement
  <2>7. Cardinality(A) \in Nat /\ Cardinality(Before) \in Nat
    BY <1>1, <2>4, PeersAreFinite
  <2>8. Cardinality(A) <= FreeSlots
    BY <1>2, <2>2, <2>5, <2>6, <2>7
  <2> QED  BY <1>1, <2>8 DEF A
<1> QED  BY <1>3, <1>4

-----------------------------------------------------------------------------
(* The endpoint cache.                                                      *)

LEMMA ObservedType ==
  ASSUME NEW q \in Seq(Entry), NEW e \in Entry
  PROVE  Observed(q, e) \in Seq(Entry)
<1>1. [i \in DOMAIN q |-> IF SameInstance(q[i], e) THEN e ELSE q[i]] \in Seq(Entry)
  BY DEF SameInstance
<1>2. Append(q, e) \in Seq(Entry)
  OBVIOUS
<1> QED  BY <1>1, <1>2 DEF Observed

LEMMA AgedType ==
  ASSUME NEW q \in Seq(Entry)
  PROVE  Aged(q) \in Seq(Entry)
<1>1. \A e \in Entry : [e EXCEPT !.ttl = IF @ = 0 THEN 0 ELSE @ - 1] \in Entry
  BY DiscoveryAssumption DEF Entry
<1> DEFINE F(e) == [e EXCEPT !.ttl = IF @ = 0 THEN 0 ELSE @ - 1]
<1>2. \A i \in DOMAIN q : q[i] \in Entry
  OBVIOUS
<1>3. Aged(q) = [i \in 1..Len(q) |-> F(q[i])]
  BY DEF Aged
<1>4. \A i \in 1..Len(q) : F(q[i]) \in Entry
  BY <1>1, <1>2
<1> HIDE DEF F
<1> QED  BY <1>3, <1>4

LEMMA EndpointType ==
  ASSUME TypeOK, NEW p \in Peers
  PROVE  Endpoint(p) \in Addresses \cup {None}
<1> DEFINE q == cache[p]
<1>1. q \in Seq(Entry) /\ lastKnown[p] \in Addresses \cup {None}
  BY DEF TypeOK
<1>2. CASE Live(q) = {}
  BY <1>1, <1>2 DEF Endpoint, Resolve
<1>3. CASE Live(q) # {}
  <2>1. Live(q) \in SUBSET Nat
    BY <1>1 DEF Live
  <2>2. \E i \in Live(q) : \A j \in Live(q) : i <= j
    BY <1>3, <2>1, LeastExists
  <2> DEFINE i == CHOOSE i \in Live(q) : \A j \in Live(q) : i <= j
  <2>3. i \in Live(q)
    BY <2>2
  <2>4. q[i] \in Entry
    <3>1. i \in DOMAIN q
      BY <2>3 DEF Live
    <3> HIDE DEF q, i
    <3> QED  BY <1>1, <3>1
  <2> QED  BY <1>3, <2>4 DEF Endpoint, Resolve, Entry
<1> QED  BY <1>2, <1>3

-----------------------------------------------------------------------------
(* Every step preserves the invariant.                                      *)

LEMMA DelayType ==
  ASSUME NEW f \in 0..MaxFailures
  PROVE  Delay(f) \in 0..BackoffMax
<1>1. 2 ^ f \in Int /\ 2 ^ f >= 1 /\ BackoffMax \in Nat
  BY BackoffAssumption
<1> QED  BY <1>1 DEF Delay

LEMMA InitEstablishes == Init => IInv
<1> SUFFICES ASSUME Init PROVE IInv
  OBVIOUS
<1>1. TypeOK
  <2>1. 0 \in 0..MaxFailures /\ 0 \in 0..BackoffMax /\ 0 \in 0..MaxMoves /\ 0 \in 0..N
    BY BackoffAssumption, PlacesAssumption, PeersAssumption
  <2>2. session \in [Peers -> [phase : {"idle", "connecting", "engine"},
                               to : Addresses \cup {None}, with : 0..N]]
    BY <2>1 DEF Init, Idle
  <2>3. cache \in [Peers -> Seq(Entry)] /\ lastKnown \in [Peers -> Addresses \cup {None}]
    BY DEF Init
  <2> QED  BY <2>1, <2>2, <2>3 DEF Init, TypeOK
<1>2. Cardinality(active) = 0
  BY FS_EmptySet DEF Init
<1>3. SessionsAreLocked
  BY <1>2, ConcurrencyAssumption DEF Init, SessionsAreLocked, Idle
<1>4. EngineIsExpected
  BY DEF Init, EngineIsExpected, Idle
<1> QED  BY <1>1, <1>3, <1>4 DEF IInv

\* The sessions of one decision begin.
LEMMA AttemptPreserves ==
  ASSUME IInv, NEW wanted \in SUBSET Peers, wanted \cap active = {},
         Attempt(wanted), dirty' \in BOOLEAN, armed' \in BOOLEAN
  PROVE  IInv'
<1> DEFINE begun == Admitted(wanted)
<1>0. active \in SUBSET Peers /\ Cardinality(active) <= MaxConcurrent
  BY DEF IInv, TypeOK, SessionsAreLocked
<1>1. MaxConcurrent \in Nat /\ Cardinality(active) \in Nat /\ IsFiniteSet(active)
  BY <1>0, PeersAreFinite, ConcurrencyAssumption
<1>2. begun \in SUBSET Peers /\ begun \subseteq wanted /\ Cardinality(begun) <= FreeSlots
  <2>1. FreeSlots >= 0
    BY <1>0, <1>1 DEF FreeSlots
  <2> QED  BY <1>0, <2>1, AdmittedFit
<1> HIDE DEF begun
<1>3. /\ active' = active \cup begun
      /\ session' = [p \in Peers |-> IF p \in begun THEN Dialling(p) ELSE session[p]]
      /\ UNCHANGED <<backoff, lastKnown, cache, network>>
  BY DEF Attempt, begun
<1>4. \A p \in Peers : Dialling(p).phase = "connecting"
  BY DEF Dialling
<1>5. \A p \in Peers : Dialling(p) \in
        [phase : {"idle", "connecting", "engine"}, to : Addresses \cup {None}, with : 0..N]
  BY EndpointType, PeersAssumption DEF IInv, Dialling
<1>6. TypeOK'
  <2>1. session' \in [Peers -> [phase : {"idle", "connecting", "engine"},
                                to : Addresses \cup {None}, with : 0..N]]
    BY <1>3, <1>5 DEF IInv, TypeOK
  <2> QED  BY <1>2, <1>3, <2>1 DEF IInv, TypeOK, backoff, network
<1>7. Cardinality(active') <= MaxConcurrent
  <2>1. IsFiniteSet(begun) /\ Cardinality(begun) \in Nat
    BY <1>2, PeersAreFinite
  <2>2. /\ Cardinality(active \cup begun)
             = Cardinality(active) + Cardinality(begun) - Cardinality(active \cap begun)
        /\ Cardinality(active \cap begun) \in Nat
    BY <1>0, <1>1, <2>1, PeersAreFinite, FS_Union
  <2>3. Cardinality(begun) <= MaxConcurrent - Cardinality(active)
    BY <1>2 DEF FreeSlots
  <2>4. Cardinality(active \cup begun) <= MaxConcurrent
    BY <1>1, <2>1, <2>2, <2>3
  <2> QED  BY <1>3, <2>4
<1>8. active' = {p \in Peers : session'[p].phase # "idle"}
  BY <1>0, <1>2, <1>3, <1>4 DEF IInv, SessionsAreLocked
<1>9. EngineIsExpected'
  BY <1>3, <1>4 DEF IInv, EngineIsExpected
<1> QED  BY <1>6, <1>7, <1>8, <1>9 DEF IInv, SessionsAreLocked

\* Only the admissible peers are ever wanted.
LEMMA WantedAreFree ==
  ASSUME NEW manual \in BOOLEAN
  PROVE  /\ Admissible(manual) \in SUBSET Peers
         /\ Admissible(manual) \cap active = {}
BY DEF Admissible

LEMMA EndPreserves ==
  ASSUME IInv, NEW p \in Peers, NEW success \in BOOLEAN, EndSession(p, success),
         lastKnown' \in [Peers -> Addresses \cup {None}],
         UNCHANGED <<timers, cache, network>>
  PROVE  IInv'
<1>1. failures[p] \in 0..MaxFailures /\ MaxFailures \in Nat
  BY BackoffAssumption DEF IInv, TypeOK
<1>2. failures' \in [Peers -> 0..MaxFailures]
  BY <1>1 DEF EndSession, IInv, TypeOK
<1>3. wait' \in [Peers -> 0..BackoffMax]
  BY <1>1, DelayType, BackoffAssumption DEF EndSession, IInv, TypeOK
<1>4. TypeOK'
  BY <1>2, <1>3, PeersAssumption DEF EndSession, IInv, TypeOK, Idle, timers, network
<1>5. Cardinality(active') <= MaxConcurrent
  <2>1. active \in SUBSET Peers /\ Cardinality(active) <= MaxConcurrent
    BY DEF IInv, TypeOK, SessionsAreLocked
  <2>2. IsFiniteSet(active) /\ Cardinality(active) \in Nat /\ MaxConcurrent \in Nat
    BY <2>1, PeersAreFinite, ConcurrencyAssumption
  <2>3. active' = active \ {p}
    BY DEF EndSession
  <2>4. Cardinality(active') <= Cardinality(active) /\ Cardinality(active') \in Nat
    BY <2>1, <2>2, <2>3, FS_Subset, PeersAreFinite
  <2> QED  BY <2>1, <2>2, <2>4
<1>6. active' = {q \in Peers : session'[q].phase # "idle"}
  BY DEF EndSession, IInv, TypeOK, SessionsAreLocked, Idle
<1>7. EngineIsExpected'
  BY DEF EndSession, IInv, TypeOK, EngineIsExpected, Idle
<1> QED  BY <1>4, <1>5, <1>6, <1>7 DEF IInv, SessionsAreLocked

LEMMA SessionPreserves ==
  ASSUME IInv, NEW p \in Peers,
         \/ Connects(p) \/ IdentityMismatch(p) \/ ConnectFails(p)
         \/ SessionSucceeds(p) \/ SessionBreaks(p)
  PROVE  IInv'
<1>1. CASE Connects(p)
  <2>1. PICK q \in Peers :
          /\ session[p].phase = "connecting" /\ q = p
          /\ session' = [session EXCEPT ![p].phase = "engine", ![p].with = q]
          /\ UNCHANGED <<timers, active, backoff, lastKnown, cache, network>>
    BY <1>1 DEF Connects, At, IsExpected
  <2>2. TypeOK'
    <3>1. q \in 0..N
      BY PeersAssumption
    <3>2. session' \in [Peers -> [phase : {"idle", "connecting", "engine"},
                                 to : Addresses \cup {None}, with : 0..N]]
      <4> DEFINE Sessions == [phase : {"idle", "connecting", "engine"},
                              to : Addresses \cup {None}, with : 0..N]
                 began == [session[p] EXCEPT !.phase = "engine", !.with = q]
      <4>1. session \in [Peers -> Sessions]
        BY DEF IInv, TypeOK
      <4>2. began \in Sessions
        BY <3>1, <4>1
      <4>3. session' = [session EXCEPT ![p] = began]
        BY <2>1
      <4> HIDE DEF began, Sessions
      <4>4. session' \in [Peers -> Sessions]
        BY <4>1, <4>2, <4>3
      <4> QED  BY <4>4 DEF Sessions
    <3> QED  BY <2>1, <3>2 DEF IInv, TypeOK, timers, backoff, network
  <2>3. SessionsAreLocked'
    BY <2>1 DEF IInv, TypeOK, SessionsAreLocked
  <2>4. EngineIsExpected'
    BY <2>1 DEF IInv, TypeOK, EngineIsExpected
  <2> QED  BY <2>2, <2>3, <2>4 DEF IInv
<1>2. CASE IdentityMismatch(p) \/ ConnectFails(p) \/ SessionBreaks(p)
  <2>1. Fails(p)
    BY <1>2 DEF IdentityMismatch, ConnectFails, SessionBreaks
  <2> QED  BY <2>1, EndPreserves DEF Fails, IInv, TypeOK
<1>3. CASE SessionSucceeds(p)
  BY <1>3, EndPreserves DEF SessionSucceeds, RecordPeerEndpoint, IInv, TypeOK
<1> QED  BY <1>1, <1>2, <1>3

\* Time and the network leave the sessions and their locks alone.
LEMMA EnvironmentPreserves ==
  ASSUME IInv,
         \/ LocalChange \/ UpdateSettings \/ Tick
         \/ \E p \in Peers : \/ Announce(p)
                             \/ \E a \in Places[p] \cup {None}, i \in Suffixes[p] : Moves(p, a, i)
  PROVE  IInv'
<1>1. UNCHANGED <<active, session>>
  BY DEF LocalChange, UpdateSettings, Tick, Announce, Moves
<1>2. SessionsAreLocked' /\ EngineIsExpected'
  BY <1>1 DEF IInv, SessionsAreLocked, EngineIsExpected
<1>3. CASE LocalChange \/ UpdateSettings
  BY <1>2, <1>3 DEF LocalChange, UpdateSettings, RuntimeRestarts, IInv, TypeOK, backoff, network
<1>4. CASE Tick
  <2>1. wait' \in [Peers -> 0..BackoffMax]
    BY <1>4, BackoffAssumption DEF Tick, IInv, TypeOK
  <2>2. cache' \in [Peers -> Seq(Entry)]
    BY <1>4, AgedType DEF Tick, IInv, TypeOK
  <2> QED  BY <1>2, <1>4, <2>1, <2>2 DEF Tick, IInv, TypeOK, timers, network
<1>5. ASSUME NEW p \in Peers, Announce(p)
      PROVE  IInv'
  <2>1. Notification(p) \in Entry
    BY <1>5, DiscoveryAssumption DEF Announce, Notification, Entry, IInv, TypeOK
  <2>2. cache' \in [Peers -> Seq(Entry)]
    BY <1>5, <2>1, ObservedType DEF Announce, MdnsEvent, IInv, TypeOK
  <2> QED  BY <1>2, <1>5, <2>2 DEF Announce, IInv, TypeOK, timers, backoff, network
<1>6. ASSUME NEW p \in Peers, NEW a \in Places[p] \cup {None}, NEW i \in Suffixes[p],
             Moves(p, a, i)
      PROVE  IInv'
  <2>1. a \in Addresses \cup {None} /\ i \in Names
    BY PlacesAssumption
  <2>2. moves' \in 0..MaxMoves
    BY <1>6, PlacesAssumption DEF Moves, IInv, TypeOK
  <2> QED  BY <1>2, <1>6, <2>1, <2>2 DEF Moves, IInv, TypeOK, timers, backoff
<1> QED  BY <1>3, <1>4, <1>5, <1>6

LEMMA NextPreserves == IInv /\ [Next]_vars => IInv'
<1> SUFFICES ASSUME IInv, [Next]_vars PROVE IInv'
  OBVIOUS
<1>1. CASE DebounceFires
  <2> DEFINE wanted == IF dirty THEN Admissible(FALSE) ELSE {}
  <2>1. wanted \in SUBSET Peers /\ wanted \cap active = {}
    BY WantedAreFree
  <2>2. Attempt(wanted) /\ dirty' \in BOOLEAN /\ armed' \in BOOLEAN
    BY <1>1 DEF DebounceFires
  <2> HIDE DEF wanted
  <2> QED  BY <2>1, <2>2, AttemptPreserves
<1>2. ASSUME NEW manual \in BOOLEAN, SyncAll(manual)
      PROVE  IInv'
  <2>1. Attempt(Admissible(manual)) /\ dirty' \in BOOLEAN /\ armed' \in BOOLEAN
    BY <1>2 DEF SyncAll, timers, IInv, TypeOK
  <2> QED  BY <2>1, WantedAreFree, AttemptPreserves
<1>3. CASE UNCHANGED vars
  BY <1>3 DEF vars, timers, backoff, network, IInv, TypeOK, SessionsAreLocked, EngineIsExpected
<1> QED  BY <1>1, <1>2, <1>3, SessionPreserves, EnvironmentPreserves DEF Next

LEMMA Invariance == Spec => []IInv
<1> QED  BY InitEstablishes, NextPreserves, PTL DEF Spec

\* Every state of the scheduler has its types, for every set of peers, every
\* setting and every backoff (scheduler.ts).
THEOREM TypeCorrect == Spec => []TypeOK
<1>1. IInv => TypeOK
  BY DEF IInv
<1> QED  BY <1>1, Invariance, PTL

\* At most max_concurrent_sessions run at a time, and exactly the peers that
\* have one are locked, whatever triggers coincide and whatever fails
\* (scheduler.ts tryBeginSession, endSession).
THEOREM LocksFollowSessions == Spec => []SessionsAreLocked
<1>1. IInv => SessionsAreLocked
  BY DEF IInv
<1> QED  BY <1>1, Invariance, PTL

\* A last-known endpoint is written only when the peer itself listens there,
\* whoever has taken over an address (scheduler_runtime.ts attempt).
THEOREM OnlyProvenEndpoints == Spec => EndpointsAreProven
<1> DEFINE Proven ==
      \A p \in Peers : lastKnown'[p] # lastKnown[p] => home[p] = lastKnown'[p]
<1>1. IInv /\ [Next]_vars => [Proven]_vars
  <2> SUFFICES ASSUME IInv, [Next]_vars, NEW p \in Peers, lastKnown'[p] # lastKnown[p]
               PROVE  home[p] = lastKnown'[p]
    OBVIOUS
  <2>1. PICK q \in Peers : SessionSucceeds(q)
    BY DEF Next, vars, LocalChange, DebounceFires, UpdateSettings, Tick, SyncAll, Attempt,
           Connects, IdentityMismatch, ConnectFails, SessionBreaks, Fails, Announce, Moves
  <2>2. session[q].with = q /\ home[q] = session[q].to
    BY <2>1 DEF SessionSucceeds, IInv, EngineIsExpected
  <2>3. lastKnown' = [lastKnown EXCEPT ![q] = session[q].to] /\ p = q
    BY <2>1 DEF SessionSucceeds, RecordPeerEndpoint, IInv, TypeOK
  <2> QED  BY <2>2, <2>3 DEF IInv, TypeOK
<1> QED  BY <1>1, Invariance, PTL DEF Spec, EndpointsAreProven

-----------------------------------------------------------------------------
(* Induction.                                                              *)

Below == {nm \in Nat \X Nat : nm[1] < nm[2]}

\* Induction, over a set of numbers in place of a predicate.
LEMMA Upwards ==
  ASSUME NEW Top \in Nat, NEW S, 0 \in S, \A n \in 0 .. Top - 1 : n \in S => n + 1 \in S
  PROVE  0 .. Top \subseteq S
<1> SUFFICES ASSUME (0 .. Top) \ S # {} PROVE FALSE
  OBVIOUS
<1> DEFINE T == (0 .. Top) \ S
<1>1. IsWellFoundedOn(Below, Nat)
  BY NatLessThanWellFounded DEF OpToRel, Below
<1>2. T \subseteq Nat /\ T # {}
  OBVIOUS
<1>3. PICK x \in T : \A y \in T : <<y, x>> \notin Below
  <2> HIDE DEF T
  <2> QED
    BY <1>1, <1>2, WFMin
<1>4. x \in 0 .. Top /\ x # 0 /\ x - 1 \in 0 .. Top - 1
  OBVIOUS
<1>5. x - 1 \notin T
  <2>1. x \in Nat /\ x - 1 \in Nat /\ x - 1 < x
    BY <1>4
  <2>2. <<x - 1, x>> \in Below
    BY <2>1 DEF Below
  <2> QED
    BY <1>3, <2>2
<1>6. x - 1 \in S /\ (x - 1) + 1 = x
  BY <1>4, <1>5
<1> QED
  BY <1>4, <1>6

-----------------------------------------------------------------------------
(* The walk of a branch.                                                   *)

Fresh(g) == [out |-> {}, generated |-> g, stop |-> FALSE]

\* f is the walk over the days up to n.
Walks(rule, C, g, f, n) ==
  f = [k \in -1 .. n |-> IF k = -1 THEN Fresh(g) ELSE Emit(rule, C, f[k - 1], k)]

LEMMA WalkExists ==
  ASSUME NEW rule, NEW C, NEW g
  PROVE  \E f : Walks(rule, C, g, f, Horizon)
<1> DEFINE S == {n \in Nat : \E f : Walks(rule, C, g, f, n - 1)}
<1>1. 0 \in S
  <2>1. Walks(rule, C, g, [k \in -1 .. -1 |-> Fresh(g)], 0 - 1)
    BY DEF Walks
  <2> QED
    BY <2>1
<1>2. ASSUME NEW n \in 0 .. (Horizon + 1) - 1, n \in S PROVE n + 1 \in S
  <2>0. n \in Nat
    BY HorizonAssumption
  <2>1. PICK f : Walks(rule, C, g, f, n - 1)
    BY <1>2
  <2> DEFINE h == [k \in -1 .. n |-> IF k = n THEN Emit(rule, C, f[n - 1], n) ELSE f[k]]
  <2>2. ASSUME NEW k \in -1 .. n
        PROVE  h[k] = IF k = -1 THEN Fresh(g) ELSE Emit(rule, C, h[k - 1], k)
    <3>1. CASE k = n
      <4>1. k - 1 \in -1 .. n /\ k - 1 # n /\ k # -1
        BY <2>0, <3>1
      <4> QED
        BY <3>1, <4>1
    <3>2. CASE k # n /\ k = -1
      <4>1. k \in -1 .. n - 1
        BY <2>0, <3>2
      <4> QED
        BY <2>1, <3>2, <4>1 DEF Walks
    <3>3. CASE k # n /\ k # -1
      <4>1. k \in -1 .. n - 1 /\ k - 1 \in -1 .. n /\ k - 1 # n
        BY <2>0, <3>3
      <4>2. f[k] = Emit(rule, C, f[k - 1], k)
        BY <2>1, <3>3, <4>1 DEF Walks
      <4> QED
        BY <3>3, <4>1, <4>2
    <3> QED
      BY <3>1, <3>2, <3>3
  <2>3. (n + 1) - 1 = n /\ n + 1 \in Nat
    BY <2>0
  <2>4. h = [k \in -1 .. n |-> IF k = -1 THEN Fresh(g) ELSE Emit(rule, C, h[k - 1], k)]
    BY <2>2
  <2>5. Walks(rule, C, g, h, (n + 1) - 1)
    BY <2>3, <2>4 DEF Walks
  <2> QED
    BY <2>3, <2>5
<1>3. 0 .. Horizon + 1 \subseteq S
  <2> HIDE DEF S
  <2> QED
    BY <1>1, <1>2, HorizonAssumption, Upwards
<1>4. Horizon + 1 \in 0 .. Horizon + 1 /\ (Horizon + 1) - 1 = Horizon
  BY HorizonAssumption
<1> QED
  BY <1>3, <1>4

\* The days of C that the bound lets through, up to n.
Within(rule, C, n) == {k \in C : k \in 0 .. n /\ k <= rule.until.day}

\* Each day is visited once, in its order.
LEMMA WalkSteps ==
  ASSUME NEW rule, NEW C, NEW g
  PROVE  \E f : /\ Walk(rule, C, g) = f[Horizon]
                /\ f[-1] = Fresh(g)
                /\ \A n \in Days : f[n] = Emit(rule, C, f[n - 1], n)
<1> DEFINE F == CHOOSE f : Walks(rule, C, g, f, Horizon)
<1>1. Walks(rule, C, g, F, Horizon)
  BY WalkExists
<1>2. Walk(rule, C, g) = F[Horizon]
  BY DEF Walk, Walks, Fresh
<1> HIDE DEF F
<1>3. -1 \in -1 .. Horizon /\ \A n \in Days : n \in -1 .. Horizon /\ n # -1
  BY HorizonAssumption DEF Days
<1>4. F[-1] = Fresh(g) /\ \A n \in Days : F[n] = Emit(rule, C, F[n - 1], n)
  BY <1>1, <1>3 DEF Walks
<1> QED
  BY <1>2, <1>4

-----------------------------------------------------------------------------
(* The first days of a set, and what a walk emits.                         *)

\* The first c days of S; all of them, where c is 0.
FirstOf(S, c) == {n \in S : c = 0 \/ Cardinality({k \in S : k <= n}) <= c}

LEMMA DaysAreFinite ==
  ASSUME NEW n \in Int, NEW S, S \subseteq 0 .. n
  PROVE  IsFiniteSet(S) /\ Cardinality(S) \in Nat
<1>1. IsFiniteSet(0 .. n)
  BY FS_Interval
<1>2. S \in SUBSET (0 .. n)
  OBVIOUS
<1>3. IsFiniteSet(S)
  BY <1>1, <1>2, FS_Subset
<1> QED
  BY <1>3, FS_CardinalityType

LEMMA OneMoreDay ==
  ASSUME NEW n \in Nat, NEW S, S \subseteq 0 .. n - 1, NEW c \in Nat
  PROVE  /\ Cardinality(S \cup {n}) = Cardinality(S) + 1
         /\ c = 0 \/ Cardinality(S) < c => FirstOf(S \cup {n}, c) = FirstOf(S, c) \cup {n}
         /\ c # 0 /\ Cardinality(S) >= c => FirstOf(S \cup {n}, c) = FirstOf(S, c)
<1>0. n - 1 \in Int /\ \A m \in S : m \in Int /\ m < n
  OBVIOUS
<1>a. n \notin S
  BY <1>0
<1>b. IsFiniteSet(S) /\ Cardinality(S) \in Nat
  BY <1>0, DaysAreFinite
<1>1. IsFiniteSet(S) /\ Cardinality(S) \in Nat /\ n \notin S
  BY <1>a, <1>b
<1>2. Cardinality(S \cup {n}) = Cardinality(S) + 1
  BY <1>1, FS_AddElement
<1>3. ASSUME NEW m \in S PROVE {k \in S \cup {n} : k <= m} = {k \in S : k <= m}
  BY <1>0
<1>4. {k \in S \cup {n} : k <= n} = S \cup {n}
  <2>1. \A k \in S \cup {n} : k <= n
    BY <1>0
  <2> QED
    BY <2>1
<1>5. Cardinality(S) < c => Cardinality({k \in S \cup {n} : k <= n}) <= c
  BY <1>1, <1>2, <1>4
<1>6. Cardinality(S) >= c => ~ (Cardinality({k \in S \cup {n} : k <= n}) <= c)
  BY <1>1, <1>2, <1>4
<1>7. \A m \in S : m \in FirstOf(S \cup {n}, c) <=> m \in FirstOf(S, c)
  BY <1>3 DEF FirstOf
<1>8. n \in FirstOf(S \cup {n}, c) <=> c = 0 \/ Cardinality({k \in S \cup {n} : k <= n}) <= c
  BY DEF FirstOf
<1>9. FirstOf(S \cup {n}, c) \subseteq S \cup {n} /\ FirstOf(S, c) \subseteq S
  BY DEF FirstOf
<1>10. ASSUME c = 0 \/ Cardinality(S) < c PROVE FirstOf(S \cup {n}, c) = FirstOf(S, c) \cup {n}
  BY <1>5, <1>7, <1>8, <1>9, <1>10
<1>11. ASSUME c # 0, Cardinality(S) >= c PROVE FirstOf(S \cup {n}, c) = FirstOf(S, c)
  BY <1>6, <1>7, <1>8, <1>9, <1>11
<1> QED
  BY <1>2, <1>10, <1>11

LEMMA WithinGrows ==
  ASSUME NEW rule, NEW C, NEW n \in Nat
  PROVE  /\ Within(rule, C, n - 1) \subseteq 0 .. n - 1
         /\ n \in C /\ n <= rule.until.day => Within(rule, C, n) = Within(rule, C, n - 1) \cup {n}
         /\ n \notin C \/ ~ (n <= rule.until.day) => Within(rule, C, n) = Within(rule, C, n - 1)
<1>1. 0 .. n = (0 .. n - 1) \cup {n} /\ n \notin 0 .. n - 1
  OBVIOUS
<1> QED
  BY <1>1 DEF Within

\* What a walk that begins with nothing has emitted by the day n.
Reached(rule, C, w, n) ==
  /\ w.stop \in BOOLEAN
  /\ w.out = FirstOf(Within(rule, C, n), rule.count)
  /\ w.generated = Cardinality(w.out)
  /\ ~ w.stop => /\ w.out = Within(rule, C, n)
                 /\ rule.count # 0 => Cardinality(w.out) < rule.count
  /\ w.stop => rule.count # 0 /\ Cardinality(w.out) >= rule.count

LEMMA EmitReaches ==
  ASSUME NEW rule, rule.count \in Nat, rule.until.day \in Int, NEW C, NEW n \in Nat,
         NEW w, Reached(rule, C, w, n - 1)
  PROVE  Reached(rule, C, Emit(rule, C, w, n), n)
<1> DEFINE S == Within(rule, C, n - 1)
           T == Within(rule, C, n)
           c == rule.count
<1>0. n - 1 \in Int /\ S \subseteq 0 .. n - 1
  BY WithinGrows
<1>1. IsFiniteSet(S) /\ Cardinality(S) \in Nat
  <2> HIDE DEF S
  <2> QED
    BY <1>0, DaysAreFinite
<1>2. w.out \subseteq S /\ w.out = FirstOf(S, c)
  BY DEF Reached, FirstOf
<1>3. Cardinality(w.out) \in Nat /\ Cardinality(w.out) <= Cardinality(S)
  BY <1>1, <1>2, FS_Subset, FS_CardinalityType
<1>4. CASE n \notin C \/ ~ (n <= rule.until.day)
  <2>1. T = S /\ Emit(rule, C, w, n) = w
    BY <1>4, WithinGrows DEF Emit
  <2> QED
    BY <2>1 DEF Reached
<1>5. CASE n \in C /\ n <= rule.until.day /\ w.stop
  <2>1. T = S \cup {n} /\ Emit(rule, C, w, n) = w
    BY <1>5, WithinGrows DEF Emit
  <2>2. c # 0 /\ Cardinality(w.out) >= c
    BY <1>5 DEF Reached
  <2>3. c # 0 /\ Cardinality(S) >= c
    BY <1>1, <1>3, <2>2
  <2>4. FirstOf(S \cup {n}, c) = FirstOf(S, c)
    <3> HIDE DEF S
    <3> QED
      BY <1>0, <2>3, OneMoreDay
  <2> QED
    BY <1>2, <1>5, <2>1, <2>4 DEF Reached
<1>6. CASE n \in C /\ n <= rule.until.day /\ ~ w.stop
  <2> DEFINE v == Emit(rule, C, w, n)
  <2>1. T = S \cup {n}
    BY <1>6, WithinGrows
  <2>2. /\ v.out = w.out \cup {n} /\ v.generated = w.generated + 1
        /\ v.stop = (c # 0 /\ w.generated + 1 >= c)
    BY <1>6 DEF Emit
  <2>3. /\ w.out = S /\ w.generated = Cardinality(S)
        /\ c # 0 => Cardinality(S) < c
    BY <1>6 DEF Reached
  <2>4. Cardinality(T) = Cardinality(S) + 1 /\ FirstOf(T, c) = FirstOf(S, c) \cup {n}
    <3>1. c = 0 \/ Cardinality(S) < c
      BY <2>3
    <3>2. /\ Cardinality(S \cup {n}) = Cardinality(S) + 1
          /\ FirstOf(S \cup {n}, c) = FirstOf(S, c) \cup {n}
      <4> HIDE DEF S
      <4> QED
        BY <1>0, <3>1, OneMoreDay
    <3> QED
      BY <2>1, <3>2
  <2>5. v.out = T /\ v.out = FirstOf(T, c) /\ v.generated = Cardinality(v.out)
    BY <1>2, <2>1, <2>2, <2>3, <2>4
  <2>6. v.stop = (c # 0 /\ Cardinality(v.out) >= c)
    BY <2>1, <2>2, <2>3, <2>4, <2>5
  <2>7. Cardinality(v.out) \in Nat
    BY <1>1, <2>4, <2>5
  <2> HIDE DEF v
  <2>8. /\ v.stop \in BOOLEAN
        /\ ~ v.stop => (c # 0 => Cardinality(v.out) < c)
        /\ v.stop => c # 0 /\ Cardinality(v.out) >= c
    <3>1. v.stop \in BOOLEAN
      BY <2>6
    <3>2. v.stop => c # 0 /\ Cardinality(v.out) >= c
      BY <2>6
    <3>3. c # 0 /\ ~ v.stop => ~ (Cardinality(v.out) >= c)
      BY <2>6
    <3>4. ~ (Cardinality(v.out) >= c) => Cardinality(v.out) < c
      BY <2>7
    <3> QED
      BY <3>1, <3>2, <3>3, <3>4
  <2>9. Reached(rule, C, v, n)
    <3> HIDE DEF T
    <3>1. T = Within(rule, C, n)
      BY DEF T
    <3> QED
      BY <2>5, <2>8, <3>1 DEF Reached
  <2> QED
    BY <2>9 DEF v
<1> QED
  BY <1>4, <1>5, <1>6 DEF Reached

\* A walk that begins with nothing emits the first days within the bound.
LEMMA WalkIsFirst ==
  ASSUME NEW rule, rule.count \in Nat, rule.until.day \in Int, NEW C
  PROVE  LET w == Walk(rule, C, 0)
             W == Within(rule, C, Horizon)
         IN  /\ w.out = FirstOf(W, rule.count)
             /\ w.generated = Cardinality(w.out)
             /\ rule.count = 0 \/ w.generated < rule.count => w.out = W
<1>1. PICK f : /\ Walk(rule, C, 0) = f[Horizon]
               /\ f[-1] = Fresh(0)
               /\ \A n \in Days : f[n] = Emit(rule, C, f[n - 1], n)
  BY WalkSteps
<1> DEFINE S == {n \in Nat : Reached(rule, C, f[n - 1], n - 1)}
<1>2. 0 \in S
  <2>1. Within(rule, C, -1) = {} /\ 0 - 1 = -1
    BY DEF Within
  <2>2. FirstOf({}, rule.count) = {} /\ Cardinality({}) = 0
    BY FS_EmptySet DEF FirstOf
  <2>3. Reached(rule, C, Fresh(0), -1)
    BY <2>1, <2>2 DEF Reached, Fresh
  <2> QED
    BY <1>1, <2>1, <2>3
<1>3. ASSUME NEW n \in 0 .. (Horizon + 1) - 1, n \in S PROVE n + 1 \in S
  <2>1. n \in Nat /\ n \in Days /\ (n + 1) - 1 = n /\ n + 1 \in Nat
    BY HorizonAssumption DEF Days
  <2>2. f[n] = Emit(rule, C, f[n - 1], n)
    BY <1>1, <2>1
  <2>3. Reached(rule, C, f[n], n)
    BY <1>3, <2>1, <2>2, EmitReaches
  <2> QED
    BY <2>1, <2>3
<1>4. 0 .. Horizon + 1 \subseteq S
  <2> HIDE DEF S
  <2> QED
    BY <1>2, <1>3, HorizonAssumption, Upwards
<1>5. Horizon + 1 \in 0 .. Horizon + 1 /\ (Horizon + 1) - 1 = Horizon
  BY HorizonAssumption
<1>6. Reached(rule, C, Walk(rule, C, 0), Horizon)
  BY <1>1, <1>4, <1>5
<1>7. IsFiniteSet(Within(rule, C, Horizon))
  BY HorizonAssumption, DaysAreFinite DEF Within
<1>8. Cardinality(Walk(rule, C, 0).out) \in Nat
  BY <1>6, <1>7, FS_Subset, FS_CardinalityType DEF Reached, FirstOf
<1> QED
  BY <1>6, <1>8 DEF Reached

-----------------------------------------------------------------------------
(* The recurrence set.                                                     *)

LEMMA Multiples ==
  ASSUME NEW H \in Nat, NEW a \in 0 .. H, NEW i \in Nat \ {0}
  PROVE  a % i = 0 <=> \E k \in 0 .. H : a = k * i
<1>1. a = i * (a \div i) + (a % i) /\ a \div i \in Nat
  OBVIOUS
<1>2. ASSUME a % i = 0 PROVE \E k \in 0 .. H : a = k * i
  <2>1. a = (a \div i) * i /\ a \div i \in Nat
    BY <1>1, <1>2
  <2>2. a \div i <= a
    BY <2>1
  <2>3. a \div i \in 0 .. H
    BY <2>1, <2>2
  <2> QED
    BY <2>1, <2>3
<1>3. ASSUME NEW k \in 0 .. H, a = k * i PROVE a % i = 0
  BY <1>3
<1> QED
  BY <1>2, <1>3

LEMMA RuleFacts ==
  ASSUME NEW rule \in RuleType
  PROVE  /\ rule.count \in Nat /\ rule.interval \in Nat \ {0}
         /\ rule.byday \subseteq 0 .. 6 /\ rule.until \in Bounds
         /\ rule.until.day \in Int
         /\ rule.freq \in Freqs
BY HorizonAssumption DEF RuleType, Bounds, Forever, Days

\* The days from the base that match, up to the bound.
Matching(rule, base) ==
  {n \in Days : n >= base /\ n <= rule.until.day /\ Matches(rule, base, n)}

LEMMA DailyMatch ==
  ASSUME NEW rule \in RuleType, rule.freq = "DAILY", NEW base \in Days
  PROVE  Within(rule, DailyCandidates(rule, base), Horizon) = Matching(rule, base)
<1>0. Horizon \in Nat /\ base \in 0 .. Horizon /\ rule.interval \in Nat \ {0}
  BY HorizonAssumption, RuleFacts DEF Days
<1>1. ASSUME NEW n \in Days
      PROVE  n \in DailyCandidates(rule, base) <=> n >= base /\ Matches(rule, base, n)
  <2>0. n \in 0 .. Horizon
    BY DEF Days
  <2>1. ASSUME n >= base
        PROVE  (n - base) % rule.interval = 0 <=> \E k \in 0 .. Horizon : n - base = k * rule.interval
    <3>1. n - base \in 0 .. Horizon
      BY <1>0, <2>0, <2>1
    <3> QED
      BY <1>0, <3>1, Multiples
  <2>2. ASSUME NEW k \in 0 .. Horizon
        PROVE  /\ k * rule.interval \in Nat
               /\ n = base + k * rule.interval <=> n - base = k * rule.interval
               /\ n = base + k * rule.interval => n >= base
    BY <1>0, <2>0
  <2>3. n \in DailyCandidates(rule, base) <=> \E k \in 0 .. Horizon : n = base + k * rule.interval
    BY DEF DailyCandidates
  <2>4. Matches(rule, base, n) <=> (n - base) % rule.interval = 0
    BY DEF Matches
  <2> QED
    BY <2>1, <2>2, <2>3, <2>4
<1> QED
  BY <1>1 DEF Within, Matching, Days

LEMMA Weeks ==
  ASSUME NEW n \in Nat, NEW b \in Nat, NEW q \in Nat, NEW offset \in 0 .. 6
  PROVE  n = (b - (b % 7)) + 7 * q + offset <=> n % 7 = offset /\ n \div 7 - b \div 7 = q
OBVIOUS

LEMMA WeeklyMatch ==
  ASSUME NEW rule \in RuleType, rule.freq = "WEEKLY", NEW base \in Days
  PROVE  Within(rule, WeeklyCandidates(rule, base), Horizon) = Matching(rule, base)
<1>0. Horizon \in Nat /\ base \in 0 .. Horizon /\ rule.interval \in Nat \ {0}
  BY HorizonAssumption, RuleFacts DEF Days
<1>a. ByDay(rule, base) \subseteq 0 .. 6
  <2>1. Weekday(base) \in 0 .. 6
    BY <1>0 DEF Weekday
  <2> QED
    BY <2>1, RuleFacts DEF ByDay
<1>1. ASSUME NEW n \in Days, n >= base
      PROVE  n \in WeeklyCandidates(rule, base) <=> Matches(rule, base, n)
  <2> DEFINE q == n \div 7 - base \div 7
  <2>0. n \in 0 .. Horizon
    BY DEF Days
  <2>1. q \in 0 .. Horizon
    BY <1>0, <1>1, <2>0
  <2>2. q % rule.interval = 0 <=> \E k \in 0 .. Horizon : q = k * rule.interval
    <3> HIDE DEF q
    <3> QED
      BY <1>0, <2>1, Multiples
  <2>3. ASSUME NEW k \in 0 .. Horizon, NEW offset \in ByDay(rule, base)
        PROVE  n = base - Weekday(base) + 7 * (k * rule.interval) + offset
                 <=> Weekday(n) = offset /\ q = k * rule.interval
    <3>1. k * rule.interval \in Nat /\ offset \in 0 .. 6 /\ n \in Nat /\ base \in Nat
      BY <1>0, <1>a, <2>0
    <3> DEFINE m == k * rule.interval
    <3>2. m \in Nat
      BY <3>1
    <3>3. n = (base - (base % 7)) + 7 * m + offset <=> n % 7 = offset /\ q = m
      <4> HIDE DEF m
      <4> QED
        BY <3>1, <3>2, Weeks
    <3> QED
      BY <3>3 DEF Weekday
  <2>4. n \in WeeklyCandidates(rule, base) <=>
          \E k \in 0 .. Horizon, offset \in ByDay(rule, base) :
             n = base - Weekday(base) + 7 * (k * rule.interval) + offset
    BY <1>1 DEF WeeklyCandidates
  <2>5. n \in WeeklyCandidates(rule, base) <=>
          Weekday(n) \in ByDay(rule, base) /\ \E k \in 0 .. Horizon : q = k * rule.interval
    BY <2>3, <2>4
  <2>6. Matches(rule, base, n) <=> Weekday(n) \in ByDay(rule, base) /\ q % rule.interval = 0
    BY DEF Matches
  <2> QED
    BY <2>2, <2>5, <2>6
<1>2. \A n \in WeeklyCandidates(rule, base) : n >= base
  BY DEF WeeklyCandidates
<1> QED
  BY <1>1, <1>2 DEF Within, Matching, Days

LEMMA MonthlyMatch ==
  ASSUME NEW rule \in RuleType, rule.freq = "MONTHLY", NEW base \in Days
  PROVE  Within(rule, MonthlyCandidates(rule, base), Horizon) = Matching(rule, base)
<1>1. ASSUME NEW n \in Days
      PROVE  n \in MonthlyCandidates(rule, base) <=> n >= base /\ Matches(rule, base, n)
  BY DEF MonthlyCandidates, Monthly, Matches
<1> QED
  BY <1>1 DEF Within, Matching, Days

LEMMA SetIsFirst ==
  ASSUME NEW rule \in RuleType, NEW base \in Days
  PROVE  RecurrenceSet(rule, base) = FirstOf(Matching(rule, base), rule.count)
<1>1. CASE rule.count = 0
  BY <1>1 DEF RecurrenceSet, Matching, FirstOf
<1>2. CASE rule.count # 0
  BY <1>2 DEF RecurrenceSet, Matching, FirstOf
<1> QED
  BY <1>1, <1>2

\* Stepping through a rule yields the recurrence set of RFC 5545, for every rule
\* that is not yearly, every day of its base and every window (expandOccurrences).
THEOREM ExpansionIsTheRecurrenceSet ==
  ASSUME NEW rule \in RuleType, rule.freq # "YEARLY", NEW base \in Days
  PROVE  Expand(rule, base) = RecurrenceSet(rule, base)
<1>0. rule.count \in Nat /\ rule.until.day \in Int
  BY RuleFacts
<1>1. rule.freq \in {"DAILY", "WEEKLY", "MONTHLY"}
  BY RuleFacts DEF Freqs
<1>2. CASE rule.freq = "DAILY"
  <2>1. Expand(rule, base) = Walk(rule, DailyCandidates(rule, base), 0).out
    BY <1>2 DEF Expand
  <2> QED
    BY <1>0, <1>2, <2>1, WalkIsFirst, DailyMatch, SetIsFirst
<1>3. CASE rule.freq = "WEEKLY"
  <2>1. Expand(rule, base) = Walk(rule, WeeklyCandidates(rule, base), 0).out
    BY <1>3 DEF Expand
  <2> QED
    BY <1>0, <1>3, <2>1, WalkIsFirst, WeeklyMatch, SetIsFirst
<1>4. CASE rule.freq = "MONTHLY"
  <2>1. Expand(rule, base) = Walk(rule, MonthlyCandidates(rule, base), 0).out
    BY <1>4 DEF Expand
  <2> QED
    BY <1>0, <1>4, <2>1, WalkIsFirst, MonthlyMatch, SetIsFirst
<1> QED
  BY <1>1, <1>2, <1>3, <1>4

-----------------------------------------------------------------------------
(* What every rule generates, and what an end cuts off.                    *)

\* The days that the first walk of a rule visits.
Visited(rule, base) ==
  CASE rule.freq = "DAILY"  -> DailyCandidates(rule, base)
    [] rule.freq = "WEEKLY" -> WeeklyCandidates(rule, base)
    [] OTHER                -> MonthlyCandidates(rule, base)

\* What a walk that begins with the count used up has emitted: a first day at most.
Late(rule, C, w, n) ==
  /\ w.stop \in BOOLEAN
  /\ w.out \subseteq Within(rule, C, n)
  /\ ~ w.stop => Within(rule, C, n) = {}
  /\ \A m \in w.out, k \in Within(rule, C, n) : m <= k

LEMMA EmitLate ==
  ASSUME NEW rule, rule.count \in Nat \ {0}, rule.until.day \in Int, NEW C, NEW n \in Nat,
         NEW w, Late(rule, C, w, n - 1), w.generated \in Nat, w.generated >= rule.count
  PROVE  LET v == Emit(rule, C, w, n)
         IN  Late(rule, C, v, n) /\ v.generated \in Nat /\ v.generated >= rule.count
<1> DEFINE S == Within(rule, C, n - 1)
           T == Within(rule, C, n)
           v == Emit(rule, C, w, n)
<1>0. /\ S \subseteq 0 .. n - 1
      /\ n \in C /\ n <= rule.until.day => T = S \cup {n}
      /\ n \notin C \/ ~ (n <= rule.until.day) => T = S
  BY WithinGrows
<1>1. CASE n \notin C \/ ~ (n <= rule.until.day)
  <2>a. T = S
    BY <1>0, <1>1
  <2>b. v = w
    BY <1>1 DEF Emit
  <2>1. T = S /\ v = w
    BY <2>a, <2>b
  <2>2. Late(rule, C, w, n)
    BY <2>1 DEF Late
  <2> QED
    BY <2>1, <2>2
<1>2. CASE n \in C /\ n <= rule.until.day /\ w.stop
  <2>1. T = S \cup {n} /\ v = w
    BY <1>0, <1>2 DEF Emit
  <2>2. ASSUME NEW m \in w.out, NEW k \in T PROVE m <= k
    <3>1. m \in S /\ m \in 0 .. n - 1
      BY <1>0 DEF Late
    <3>2. CASE k = n
      BY <3>1, <3>2
    <3>3. CASE k \in S
      BY <3>3 DEF Late
    <3> QED
      BY <2>1, <3>2, <3>3
  <2>3. Late(rule, C, w, n)
    BY <1>2, <2>1, <2>2 DEF Late
  <2> QED
    BY <2>1, <2>3
<1>3. CASE n \in C /\ n <= rule.until.day /\ ~ w.stop
  <2>1. T = {n} /\ w.out = {}
    BY <1>0, <1>3 DEF Late
  <2>2. v = [out |-> w.out \cup {n}, generated |-> w.generated + 1,
             stop |-> rule.count # 0 /\ w.generated + 1 >= rule.count]
    BY <1>3 DEF Emit
  <2>a. /\ v.out = w.out \cup {n} /\ v.generated = w.generated + 1
        /\ v.stop = (rule.count # 0 /\ w.generated + 1 >= rule.count)
    <3> HIDE DEF v
    <3> QED
      BY <2>2
  <2>b. rule.count # 0 /\ w.generated + 1 >= rule.count /\ w.generated + 1 \in Nat
    OBVIOUS
  <2>3. v.stop = TRUE /\ v.generated \in Nat /\ v.generated >= rule.count
    <3> HIDE DEF v
    <3> QED
      BY <2>a, <2>b
  <2>4. v.out = {n} /\ n <= n
    BY <2>1, <2>a
  <2>5. Late(rule, C, v, n)
    <3> HIDE DEF v
    <3> QED
      BY <2>1, <2>3, <2>4 DEF Late
  <2> QED
    BY <2>3, <2>5
<1> QED
  BY <1>1, <1>2, <1>3 DEF Late

LEMMA WalkIsLate ==
  ASSUME NEW rule, rule.count \in Nat \ {0}, rule.until.day \in Int, NEW C, NEW g \in Nat, g >= rule.count
  PROVE  Late(rule, C, Walk(rule, C, g), Horizon)
<1>1. PICK f : /\ Walk(rule, C, g) = f[Horizon]
               /\ f[-1] = Fresh(g)
               /\ \A n \in Days : f[n] = Emit(rule, C, f[n - 1], n)
  BY WalkSteps
<1> DEFINE S == {n \in Nat : /\ Late(rule, C, f[n - 1], n - 1)
                             /\ f[n - 1].generated \in Nat
                             /\ f[n - 1].generated >= rule.count}
<1>2. 0 \in S
  <2>1. Within(rule, C, -1) = {} /\ 0 - 1 = -1
    BY DEF Within
  <2>2. Late(rule, C, Fresh(g), -1) /\ Fresh(g).generated = g
    BY <2>1 DEF Late, Fresh
  <2> QED
    BY <1>1, <2>1, <2>2
<1>3. ASSUME NEW n \in 0 .. (Horizon + 1) - 1, n \in S PROVE n + 1 \in S
  <2>1. n \in Nat /\ n \in Days /\ (n + 1) - 1 = n /\ n + 1 \in Nat
    BY HorizonAssumption DEF Days
  <2>2. f[n] = Emit(rule, C, f[n - 1], n)
    BY <1>1, <2>1
  <2>3. Late(rule, C, f[n], n) /\ f[n].generated \in Nat /\ f[n].generated >= rule.count
    BY <1>3, <2>1, <2>2, EmitLate
  <2> QED
    BY <2>1, <2>3
<1>4. 0 .. Horizon + 1 \subseteq S
  <2> HIDE DEF S
  <2> QED
    BY <1>2, <1>3, HorizonAssumption, Upwards
<1>5. Horizon + 1 \in 0 .. Horizon + 1 /\ (Horizon + 1) - 1 = Horizon
  BY HorizonAssumption
<1> QED
  BY <1>1, <1>4, <1>5

\* A walk emits nothing but what it visits within the bound.
LEMMA WalkStaysWithin ==
  ASSUME NEW rule, rule.until.day \in Int, NEW C, NEW g
  PROVE  Walk(rule, C, g).out \subseteq Within(rule, C, Horizon)
<1>1. PICK f : /\ Walk(rule, C, g) = f[Horizon]
               /\ f[-1] = Fresh(g)
               /\ \A n \in Days : f[n] = Emit(rule, C, f[n - 1], n)
  BY WalkSteps
<1> DEFINE S == {n \in Nat : f[n - 1].out \subseteq Within(rule, C, n - 1)}
<1>2. 0 \in S
  BY <1>1 DEF Fresh
<1>3. ASSUME NEW n \in 0 .. (Horizon + 1) - 1, n \in S PROVE n + 1 \in S
  <2>1. n \in Nat /\ n \in Days /\ (n + 1) - 1 = n /\ n + 1 \in Nat
    BY HorizonAssumption DEF Days
  <2>2. f[n] = Emit(rule, C, f[n - 1], n)
    BY <1>1, <2>1
  <2>3. f[n].out \subseteq Within(rule, C, n)
    BY <1>3, <2>1, <2>2, WithinGrows DEF Emit
  <2> QED
    BY <2>1, <2>3
<1>4. 0 .. Horizon + 1 \subseteq S
  <2> HIDE DEF S
  <2> QED
    BY <1>2, <1>3, HorizonAssumption, Upwards
<1>5. Horizon + 1 \in 0 .. Horizon + 1 /\ (Horizon + 1) - 1 = Horizon
  BY HorizonAssumption
<1> QED
  BY <1>1, <1>4, <1>5

-----------------------------------------------------------------------------
(* The calendar.                                                           *)

IsDate(c) == c.y \in Nat /\ c.m \in 1 .. 12

\* f is the calendar of the days up to n.
Calendars(f, n) ==
  f = [k \in 0 .. n |-> IF k = 0 THEN [y |-> 0, m |-> 1, d |-> 1] ELSE NextDate(f[k - 1])]

LEMMA CalendarExists == \E f : Calendars(f, Horizon)
<1> DEFINE S == {n \in Nat : \E f : Calendars(f, n)}
<1>1. 0 \in S
  <2>1. Calendars([k \in 0 .. 0 |-> [y |-> 0, m |-> 1, d |-> 1]], 0)
    BY DEF Calendars
  <2> QED
    BY <2>1
<1>2. ASSUME NEW n \in 0 .. Horizon - 1, n \in S PROVE n + 1 \in S
  <2>0. n \in Nat /\ n + 1 \in Nat
    BY HorizonAssumption
  <2>1. PICK f : Calendars(f, n)
    BY <1>2
  <2> DEFINE h == [k \in 0 .. n + 1 |-> IF k = n + 1 THEN NextDate(f[n]) ELSE f[k]]
  <2>2. ASSUME NEW k \in 0 .. n + 1
        PROVE  h[k] = IF k = 0 THEN [y |-> 0, m |-> 1, d |-> 1] ELSE NextDate(h[k - 1])
    <3>1. CASE k = n + 1
      <4>1. k - 1 = n /\ k - 1 \in 0 .. n + 1 /\ k - 1 # n + 1 /\ k # 0
        BY <2>0, <3>1
      <4> QED
        BY <3>1, <4>1
    <3>2. CASE k # n + 1 /\ k = 0
      <4>1. k \in 0 .. n
        BY <2>0, <3>2
      <4> QED
        BY <2>1, <3>2, <4>1 DEF Calendars
    <3>3. CASE k # n + 1 /\ k # 0
      <4>1. k \in 0 .. n /\ k - 1 \in 0 .. n + 1 /\ k - 1 # n + 1
        BY <2>0, <3>3
      <4>2. f[k] = NextDate(f[k - 1])
        BY <2>1, <3>3, <4>1 DEF Calendars
      <4> QED
        BY <3>3, <4>1, <4>2
    <3> QED
      BY <3>1, <3>2, <3>3
  <2>3. h = [k \in 0 .. n + 1 |-> IF k = 0 THEN [y |-> 0, m |-> 1, d |-> 1] ELSE NextDate(h[k - 1])]
    BY <2>2
  <2>4. Calendars(h, n + 1)
    BY <2>3 DEF Calendars
  <2> QED
    BY <2>0, <2>4
<1>3. 0 .. Horizon \subseteq S
  <2> HIDE DEF S
  <2> QED
    BY <1>1, <1>2, HorizonAssumption, Upwards
<1> QED
  BY <1>3, HorizonAssumption

LEMMA NextDateIsADate ==
  ASSUME NEW c \in [y : Nat, m : 1 .. 12, d : Nat]
  PROVE  NextDate(c) \in [y : Nat, m : 1 .. 12, d : Nat]
<1>1. MonthLength(c.y, c.m) \in Nat
  BY DEF MonthLength
<1> DEFINE l == MonthLength(c.y, c.m)
<1> HIDE DEF l
<1>2. CASE c.d < l
  <2>1. NextDate(c) = [c EXCEPT !.d = @ + 1]
    <3>1. ~ (c.d >= l)
      BY <1>1, <1>2 DEF l
    <3> QED
      BY <1>2, <3>1 DEF NextDate, l
  <2> QED
    BY <2>1
<1>3. CASE ~ (c.d < l) /\ c.m < 12
  <2>1. c.d >= l
    BY <1>1, <1>3 DEF l
  <2>2. NextDate(c) = [c EXCEPT !.m = @ + 1, !.d = 1]
    BY <1>3, <2>1 DEF NextDate, l
  <2>3. c.m + 1 \in 1 .. 12
    BY <1>3
  <2>4. c = [y |-> c.y, m |-> c.m, d |-> c.d]
    OBVIOUS
  <2>5. NextDate(c) = [y |-> c.y, m |-> c.m + 1, d |-> 1]
    BY <2>2, <2>4
  <2> QED
    BY <2>3, <2>5
<1>4. CASE ~ (c.d < l) /\ ~ (c.m < 12)
  <2>1. NextDate(c) = [y |-> c.y + 1, m |-> 1, d |-> 1]
    BY <1>4 DEF NextDate, l
  <2> QED
    BY <2>1
<1> QED
  BY <1>2, <1>3, <1>4

LEMMA CivilIsADate ==
  ASSUME NEW n \in Days
  PROVE  MonthOf(n) \in Int
<1> DEFINE D == [y : Nat, m : 1 .. 12, d : Nat]
           F == CHOOSE f : Calendars(f, Horizon)
           S == {k \in Nat : F[k] \in D}
<1>1. Calendars(F, Horizon)
  BY CalendarExists
<1>2. F = Date
  BY DEF Date, Calendars, Days
<1> HIDE DEF F
<1>3. F[0] = [y |-> 0, m |-> 1, d |-> 1]
  BY <1>1, HorizonAssumption DEF Calendars
<1>4. 0 \in S
  BY <1>3
<1>5. ASSUME NEW k \in 0 .. Horizon - 1, k \in S PROVE k + 1 \in S
  <2>1. k + 1 \in 0 .. Horizon /\ k + 1 # 0 /\ (k + 1) - 1 = k /\ k + 1 \in Nat
    BY HorizonAssumption
  <2>2. F[k + 1] = NextDate(F[k])
    BY <1>1, <2>1 DEF Calendars
  <2> QED
    BY <1>5, <2>1, <2>2, NextDateIsADate
<1>6. 0 .. Horizon \subseteq S
  <2> HIDE DEF S
  <2> QED
    BY <1>4, <1>5, HorizonAssumption, Upwards
<1>7. Civil(n) \in D
  BY <1>2, <1>6 DEF Civil, Dates, Days
<1> HIDE DEF F, S
<1> QED
  BY <1>7 DEF MonthOf

LEMMA YearsAreMonths ==
  ASSUME NEW x \in Int, NEW i \in Nat \ {0}, x % (12 * i) = 0
  PROVE  x % i = 0
<1> DEFINE j == 12 * i
           q == x \div j
<1>1. j \in Nat \ {0}
  OBVIOUS
<1>2. q \in Int /\ x = j * q
  <2> HIDE DEF j
  <2>1. x % j = 0 => x = j * (x \div j) /\ x \div j \in Int
    BY <1>1
  <2> QED
    BY <2>1 DEF j
<1> HIDE DEF q
<1>3. x = i * (12 * q) /\ 12 * q \in Int
  BY <1>2
<1> DEFINE r == 12 * q
<1>4. x = i * r /\ r \in Int
  BY <1>3
<1> HIDE DEF r
<1>5. (i * r) % i = 0
  BY <1>4
<1> QED
  BY <1>4, <1>5

LEMMA MonthIsFirst ==
  ASSUME NEW rule \in RuleType, NEW base \in Days
  PROVE  /\ Monthly(base, 12 * rule.interval) \subseteq Monthly(base, rule.interval)
         /\ base \in Monthly(base, rule.interval)
         /\ base \in Monthly(base, 12 * rule.interval)
<1>0. rule.interval \in Nat \ {0} /\ 12 * rule.interval \in Nat \ {0}
  BY RuleFacts
<1>1. ASSUME NEW n \in Monthly(base, 12 * rule.interval)
      PROVE  n \in Monthly(base, rule.interval)
  <2>1. MonthOf(n) - MonthOf(base) \in Int
    BY CivilIsADate DEF Monthly
  <2> QED
    BY <1>0, <2>1, YearsAreMonths DEF Monthly
<1>2. ASSUME NEW step \in Nat \ {0} PROVE base \in Monthly(base, step)
  <2>1. MonthOf(base) - MonthOf(base) = 0
    BY CivilIsADate
  <2>2. 0 % step = 0 /\ base >= base
    BY DEF Days
  <2> QED
    BY <2>1, <2>2 DEF Monthly
<1> QED
  BY <1>0, <1>1, <1>2

\* The walk in years adds nothing to the walk in months before it.
LEMMA YearsAddNothing ==
  ASSUME NEW rule \in RuleType, NEW base \in Days
  PROVE  LET months == Walk(rule, MonthlyCandidates(rule, base), 0)
         IN  Walk(rule, YearlyCandidates(rule, base), months.generated).out \subseteq months.out
<1> DEFINE M == Within(rule, MonthlyCandidates(rule, base), Horizon)
           Y == Within(rule, YearlyCandidates(rule, base), Horizon)
           months == Walk(rule, MonthlyCandidates(rule, base), 0)
           years == Walk(rule, YearlyCandidates(rule, base), months.generated)
<1>0. rule.count \in Nat /\ rule.until.day \in Int
  BY RuleFacts
<1>1. Y \subseteq M
  BY MonthIsFirst DEF Within, MonthlyCandidates, YearlyCandidates
<1>2. years.out \subseteq Y
  <2>1. \A g : Walk(rule, YearlyCandidates(rule, base), g).out \subseteq Y
    BY <1>0, WalkStaysWithin
  <2> QED
    BY <2>1
<1>3. /\ months.out = FirstOf(M, rule.count)
      /\ months.generated = Cardinality(months.out)
      /\ rule.count = 0 \/ months.generated < rule.count => months.out = M
  BY <1>0, WalkIsFirst
<1>4. CASE rule.count = 0 \/ months.generated < rule.count
  BY <1>1, <1>2, <1>3, <1>4
<1>5. CASE ~ (rule.count = 0 \/ months.generated < rule.count)
  <2>1. IsFiniteSet(M) /\ months.out \in SUBSET M /\ M \subseteq 0 .. Horizon
    <3>1. M \subseteq 0 .. Horizon
      BY DEF Within
    <3>2. IsFiniteSet(M)
      <4>1. Horizon \in Int
        BY HorizonAssumption
      <4> HIDE DEF M
      <4> QED
        BY <3>1, <4>1, DaysAreFinite
    <3> QED
      BY <1>3, <3>1, <3>2 DEF FirstOf
  <2>2. months.generated \in Nat
    <3>1. IsFiniteSet(months.out)
      BY <2>1, FS_Subset
    <3> QED
      BY <1>3, <3>1, FS_CardinalityType
  <2>3. rule.count \in Nat \ {0} /\ months.generated >= rule.count
    BY <1>0, <1>5, <2>2
  <2>4. Late(rule, YearlyCandidates(rule, base), years, Horizon)
    BY <1>0, <2>2, <2>3, WalkIsLate
  <2>5. ASSUME NEW m \in years.out PROVE m \in months.out
    <3>1. m \in Y /\ \A k \in Y : m <= k
      BY <1>2, <2>4 DEF Late
    <3>2. m \in Days /\ m >= base /\ m <= rule.until.day
      BY <3>1 DEF Within, YearlyCandidates, Monthly
    <3>3. base \in Y
      BY <1>0, <3>2, MonthIsFirst DEF Within, YearlyCandidates, Days
    <3>4. m = base /\ base \in M
      BY <1>1, <3>1, <3>2, <3>3 DEF Days
    <3>5. {k \in M : k <= base} = {base}
      <4>1. \A k \in M : k >= base /\ k \in Int
        BY DEF Within, MonthlyCandidates, Monthly, Days
      <4>2. base \in Int
        BY DEF Days
      <4> HIDE DEF M
      <4>3. base <= base /\ \A k \in M : k <= base => k = base
        BY <4>1, <4>2
      <4> QED
        BY <3>4, <4>3
    <3>6. Cardinality({k \in M : k <= base}) = 1
      <4> HIDE DEF M
      <4> QED
        BY <3>5, FS_Singleton
    <3>7. 1 <= rule.count
      BY <2>3
    <3> HIDE DEF M
    <3> QED
      BY <1>3, <3>4, <3>6, <3>7 DEF FirstOf
  <2> QED
    BY <2>5
<1> QED
  BY <1>4, <1>5

\* Every rule generates the first days that it visits within its bound.
LEMMA ExpandIsFirst ==
  ASSUME NEW rule \in RuleType, NEW base \in Days
  PROVE  Expand(rule, base) = FirstOf(Within(rule, Visited(rule, base), Horizon), rule.count)
<1>0. rule.count \in Nat /\ rule.until.day \in Int
  BY RuleFacts
<1>1. CASE rule.freq # "YEARLY"
  <2>1. Expand(rule, base) = Walk(rule, Visited(rule, base), 0).out
    BY <1>1, RuleFacts DEF Expand, Visited, Freqs
  <2> QED
    BY <1>0, <2>1, WalkIsFirst
<1>2. CASE rule.freq = "YEARLY"
  <2>1. Visited(rule, base) = MonthlyCandidates(rule, base)
    BY <1>2 DEF Visited
  <2>2. Expand(rule, base) = Walk(rule, MonthlyCandidates(rule, base), 0).out
    BY <1>2, YearsAddNothing DEF Expand
  <2> QED
    BY <1>0, <2>1, <2>2, WalkIsFirst
<1> QED
  BY <1>1, <1>2

\* The days a series is drawn on, but for what its overrides say.
Occ(rule, base) == IF Expand(rule, base) = {} THEN {base} ELSE Expand(rule, base)

LEMMA WithinVisited ==
  ASSUME NEW rule \in RuleType, NEW base \in Days,
         NEW n \in Within(rule, Visited(rule, base), Horizon)
  PROVE  n \in Days /\ n \in Int /\ n >= base /\ n <= rule.until.day
<1>1. n \in Days /\ n \in Int /\ n <= rule.until.day /\ n \in Visited(rule, base)
  BY DEF Within, Days
<1>2. CASE rule.freq = "DAILY"
  <2>1. PICK k \in 0 .. Horizon : n = base + k * rule.interval
    BY <1>1, <1>2 DEF Visited, DailyCandidates
  <2>2. k * rule.interval \in Nat /\ base \in Int
    BY RuleFacts, HorizonAssumption DEF Days
  <2> DEFINE m == k * rule.interval
  <2>3. n = base + m /\ m \in Nat
    BY <2>1, <2>2
  <2> HIDE DEF m
  <2>4. n >= base
    BY <2>2, <2>3
  <2> QED
    BY <1>1, <2>4
<1>3. CASE rule.freq = "WEEKLY"
  BY <1>1, <1>3 DEF Visited, WeeklyCandidates
<1>4. CASE rule.freq # "DAILY" /\ rule.freq # "WEEKLY"
  <2>1. n \in MonthlyCandidates(rule, base)
    BY <1>1, <1>4 DEF Visited
  <2> QED
    BY <1>1, <2>1 DEF MonthlyCandidates, Monthly
<1> QED
  BY <1>2, <1>3, <1>4

LEMMA OccAreDays ==
  ASSUME NEW rule \in RuleType, NEW base \in Days
  PROVE  Occ(rule, base) \subseteq Days
<1>1. Expand(rule, base) \subseteq Within(rule, Visited(rule, base), Horizon)
  BY ExpandIsFirst DEF FirstOf
<1> QED
  BY <1>1, WithinVisited DEF Occ

LEMMA CutIsARule ==
  ASSUME NEW rule \in RuleType, NEW n \in Days
  PROVE  TerminateRuleAt(rule, n) \in RuleType
<1>1. UntilDay(n) \in Bounds
  BY HorizonAssumption DEF UntilDay, Bounds, Days
<1>2. [rule EXCEPT !.until = UntilDay(n)] \in RuleType
  BY <1>1 DEF RuleType
<1> QED
  BY <1>2 DEF TerminateRuleAt

\* A series that is ended at one of its occurrences has those up to it and no others.
LEMMA TerminateKeeps ==
  ASSUME NEW rule \in RuleType, NEW base \in Days, NEW rid \in Occ(rule, base)
  PROVE  Occ(TerminateRuleAt(rule, rid), base) = {n \in Occ(rule, base) : n <= rid}
<1> DEFINE T == TerminateRuleAt(rule, rid)
           W == Within(rule, Visited(rule, base), Horizon)
           V == Within(T, Visited(T, base), Horizon)
           c == rule.count
<1>0. rid \in Days /\ base \in Int /\ rid \in Int
  BY OccAreDays DEF Days
<1>1. T \in RuleType
  BY <1>0, CutIsARule
<1>2. Expand(rule, base) = FirstOf(W, c)
  BY ExpandIsFirst
<1>3. Expand(T, base) = FirstOf(V, T.count)
  BY <1>1, ExpandIsFirst
<1>4. CASE T = rule
  <2>1. rule.until.day < rid \/ rule.until = UntilDay(rid)
    <3>1. CASE rule.until.form = "date" /\ rule.until.day < rid
      BY <3>1
    <3>2. CASE ~ (rule.until.form = "date" /\ rule.until.day < rid)
      <4>1. T = [rule EXCEPT !.until = UntilDay(rid)]
        BY <3>2 DEF TerminateRuleAt
      <4>2. T.until = UntilDay(rid)
        <5> HIDE DEF T
        <5> QED
          BY <4>1 DEF RuleType
      <4> QED
        BY <1>4, <4>2
    <3> QED
      BY <3>1, <3>2
  <2>2. rule.until.day <= rid
    BY <1>0, <2>1, RuleFacts DEF UntilDay
  <2>3. ASSUME NEW n \in Occ(rule, base) PROVE n <= rid
    <3>1. CASE Expand(rule, base) = {}
      BY <1>0, <2>3, <3>1 DEF Occ
    <3>2. CASE Expand(rule, base) # {}
      <4>1. n \in W
        BY <1>2, <2>3, <3>2 DEF Occ, FirstOf
      <4>2. n \in Int /\ n <= rule.until.day
        <5> HIDE DEF W
        <5>1. n \in Within(rule, Visited(rule, base), Horizon)
          BY <4>1 DEF W
        <5> QED
          BY <5>1, WithinVisited
      <4> QED
        BY <1>0, <2>2, <4>2, RuleFacts
    <3> QED
      BY <3>1, <3>2
  <2> QED
    BY <1>4, <2>3
<1>5. CASE T # rule
  <2>1. T = [rule EXCEPT !.until = UntilDay(rid)]
    BY <1>5 DEF TerminateRuleAt
  <2>2. /\ T.freq = rule.freq /\ T.interval = rule.interval /\ T.byday = rule.byday
        /\ T.count = c /\ T.until.day = rid
    <3> HIDE DEF T
    <3> QED
      BY <2>1 DEF RuleType, UntilDay
  <2>3. Visited(T, base) = Visited(rule, base)
    <3> HIDE DEF T
    <3> QED
      BY <2>2 DEF Visited, DailyCandidates, WeeklyCandidates, MonthlyCandidates, ByDay
  <2>4. V = {k \in Visited(rule, base) : k \in 0 .. Horizon /\ k <= rid}
    <3> HIDE DEF T
    <3> QED
      BY <2>2, <2>3 DEF Within
  <2>5. CASE Expand(rule, base) = {}
    <3>1. rid = base /\ Occ(rule, base) = {base}
      BY <2>5 DEF Occ
    <3>2. ASSUME NEW n \in V PROVE n = base
      <4>1. n \in Within(T, Visited(T, base), Horizon) /\ n <= rid
        BY <2>4, <3>2
      <4>2. n \in Int /\ n >= base
        <5> HIDE DEF T, V
        <5> QED
          BY <1>1, <4>1, WithinVisited
      <4> QED
        BY <1>0, <3>1, <4>1, <4>2
    <3>3. Expand(T, base) \subseteq {base}
      <4>1. Expand(T, base) \subseteq V
        <5> HIDE DEF V
        <5> QED
          BY <1>3 DEF FirstOf
      <4> QED
        BY <3>2, <4>1
    <3>4. Occ(T, base) = {base}
      BY <3>3 DEF Occ
    <3>5. {n \in Occ(rule, base) : n <= rid} = {base}
      BY <1>0, <3>1
    <3> QED
      BY <3>4, <3>5
  <2>6. CASE Expand(rule, base) # {}
    <3>1. rid \in FirstOf(W, c) /\ Occ(rule, base) = FirstOf(W, c)
      BY <1>2, <2>6 DEF Occ
    <3>2. \A n \in W : n \in Int
      BY WithinVisited
    <3>3. rid \in W /\ rid <= rule.until.day
      <4>1. rid \in W
        BY <3>1 DEF FirstOf
      <4> QED
        BY <4>1, WithinVisited
    <3>4. V = {k \in W : k <= rid}
      <4>1. \A k \in 0 .. Horizon : k <= rid => k <= rule.until.day
        BY <1>0, <3>3, RuleFacts
      <4> QED
        BY <2>4, <4>1 DEF Within
    <3> HIDE DEF W, V, T
    <3>5. ASSUME NEW n \in V PROVE {k \in V : k <= n} = {k \in W : k <= n}
      <4>1. n \in W /\ n <= rid /\ n \in Int
        BY <3>2, <3>4
      <4>2. \A k \in W : k <= n => k <= rid
        BY <1>0, <3>2, <4>1
      <4> QED
        BY <3>4, <4>2
    <3>6. FirstOf(V, c) = {n \in FirstOf(W, c) : n <= rid}
      BY <3>4, <3>5 DEF FirstOf
    <3>7. Expand(T, base) = {n \in FirstOf(W, c) : n <= rid}
      BY <1>3, <2>2, <3>6
    <3>8. rid \in Expand(T, base)
      BY <1>0, <3>1, <3>7
    <3> QED
      BY <3>1, <3>7, <3>8 DEF Occ, T
  <2> QED
    BY <2>5, <2>6
<1> QED
  BY <1>4, <1>5

-----------------------------------------------------------------------------
(* The types of the tables, of the records and of the files.               *)

RowType   == [title : Titles, day : Days]
PatchType == [cancelled : BOOLEAN, title : Titles \cup {Gone},
              wall : [form : {"none", "stamp", "clock"}, day : Int]]
OverridesType == UNION {[R -> PatchType] : R \in SUBSET (Int \ {NoRid})}

TableType == [event    : [Events -> RowType \cup {Gone}],
              series   : [Events -> RuleType \cup {Gone}],
              override : [Events -> OverridesType],
              reminder : [Events -> BOOLEAN]]

\* No row without the one it refers to, and finitely many overrides.
Tied(t) ==
  \A e \in Events :
    /\ t.series[e] # Gone => t.event[e] # Gone
    /\ DOMAIN t.override[e] # {} => t.series[e] # Gone
    /\ IsFiniteSet(DOMAIN t.override[e])

TablesFine(t) == t \in TableType /\ Tied(t)

\* The record of a change to an event has a value of its field.
RecordFine(r) ==
  /\ r.event \in Events
  /\ r.type = "event" =>
       \/ r.path = "event" /\ r.value \in RowType
       \/ r.path = "title" /\ r.value \in Titles
       \/ r.path = "day" /\ r.value \in Days
       \/ r.path = "*" /\ r.value = Gone

LogFine(l) == \E S : l \in Seq(S) /\ \A r \in S : RecordFine(r)

FileFine(f) == IsFiniteSet(f) /\ OneEach(f) /\ \A v \in f : IsVEvent(v)

\* The log l begins with the records of k.
Continues(l, k) == Len(k) <= Len(l) /\ \A n \in 1 .. Len(k) : l[n] = k[n]

\* A device in the middle of an operation.
OperationFine(s) ==
  /\ s = [dev |-> s.dev, tables |-> s.tables, log |-> s.log, left |-> s.left, cut |-> s.cut]
  /\ s.cut \in BOOLEAN
  /\ TablesFine(s.tables) /\ LogFine(s.log)
  /\ LogFine(log[s.dev]) /\ Continues(s.log, log[s.dev])

\* What the operation has written so far removes nothing and is about nothing
\* that was removed.
Harmless(s, r) == r.type = "event" => r.value # Gone /\ ~ Tombstoned(s.dev, r.event)
Calm(s) ==
  \A n \in 1 .. Len(s.log) : n > Len(log[s.dev]) => Harmless(s, s.log[n])

DevicesFine ==
  /\ db = [d \in Devices |-> db[d]]
  /\ log = [d \in Devices |-> log[d]]
  /\ applied = [d \in Devices |-> [p \in Devices |-> applied[d][p]]]
  /\ cuts \in Nat
  /\ \A d \in Devices : TablesFine(db[d]) /\ LogFine(log[d]) /\ applied[d][d] = Len(log[d])
  /\ \A d, p \in Devices : applied[d][p] \in Nat /\ applied[d][p] <= Len(log[p])

\* The tables, records and files hold what their readers expect of them, and
\* what the last save must have kept is still there.
AppInv == DevicesFine /\ FileFine(file) /\ ThePastIsKept

-----------------------------------------------------------------------------
(* Tables, records and transactions.                                       *)

LEMMA NotGone ==
  /\ Gone \notin Titles /\ Gone \notin Days /\ Gone \notin RuleType /\ Gone \notin RowType
  /\ \A row \in RowType : row # Gone
  /\ \A rule \in RuleType : rule # Gone
BY CalendarAssumption DEF RowType

LEMMA LogGrows ==
  ASSUME NEW l, LogFine(l), NEW r, RecordFine(r)
  PROVE  LogFine(Append(l, r))
<1>1. PICK S : l \in Seq(S) /\ \A q \in S : RecordFine(q)
  BY DEF LogFine
<1>2. l \in Seq(S \cup {r}) /\ \A q \in S \cup {r} : RecordFine(q)
  BY <1>1
<1>3. Append(l, r) \in Seq(S \cup {r})
  BY <1>2
<1> QED
  BY <1>2, <1>3 DEF LogFine

LEMMA LogReads ==
  ASSUME NEW l, LogFine(l)
  PROVE  Len(l) \in Nat /\ \A n \in 1 .. Len(l) : RecordFine(l[n])
<1>1. PICK S : l \in Seq(S) /\ \A q \in S : RecordFine(q)
  BY DEF LogFine
<1>2. Len(l) \in Nat /\ \A n \in 1 .. Len(l) : l[n] \in S
  BY <1>1
<1> QED
  BY <1>1, <1>2

LEMMA LogContinues ==
  ASSUME NEW l, LogFine(l), NEW k, LogFine(k), Continues(l, k), NEW r
  PROVE  /\ Continues(Append(l, r), k)
         /\ Len(Append(l, r)) = Len(l) + 1
         /\ \A n \in 1 .. Len(l) : Append(l, r)[n] = l[n]
         /\ Append(l, r)[Len(l) + 1] = r
<1>1. PICK S : l \in Seq(S)
  BY DEF LogFine
<1>2. Len(k) \in Nat /\ Len(l) \in Nat
  BY LogReads
<1>3. /\ Len(Append(l, r)) = Len(l) + 1
      /\ \A n \in 1 .. Len(l) : Append(l, r)[n] = l[n]
      /\ Append(l, r)[Len(l) + 1] = r
  <2>1. l \in Seq(S \cup {r})
    BY <1>1
  <2> QED
    BY <2>1
<1>4. \A n \in 1 .. Len(k) : n \in 1 .. Len(l)
  BY <1>2 DEF Continues
<1>5. Continues(Append(l, r), k)
  BY <1>2, <1>3, <1>4 DEF Continues
<1> QED
  BY <1>3, <1>5

LEMMA EventRow ==
  ASSUME NEW t, TablesFine(t), NEW e \in Events, NEW row \in RowType
  PROVE  TablesFine([t EXCEPT !.event[e] = row])
<1> DEFINE u == [t EXCEPT !.event[e] = row]
<1>1. u \in TableType
  BY DEF TablesFine, TableType
<1>2. /\ u.event = [t.event EXCEPT ![e] = row]
      /\ u.series = t.series /\ u.override = t.override
  BY DEF TablesFine, TableType
<1>3. \A x \in Events : u.event[x] = IF x = e THEN row ELSE t.event[x]
  <2> HIDE DEF u
  <2> QED
    BY <1>2 DEF TablesFine, TableType
<1> HIDE DEF u
<1>4. Tied(u)
  BY <1>2, <1>3, NotGone DEF Tied, TablesFine
<1> QED
  BY <1>1, <1>4 DEF TablesFine, u

LEMMA RuleRow ==
  ASSUME NEW t, TablesFine(t), NEW e \in Events, NEW rule \in RuleType, t.event[e] # Gone
  PROVE  TablesFine([t EXCEPT !.series[e] = rule])
<1> DEFINE u == [t EXCEPT !.series[e] = rule]
<1>1. u \in TableType
  BY DEF TablesFine, TableType
<1>2. /\ u.series = [t.series EXCEPT ![e] = rule]
      /\ u.event = t.event /\ u.override = t.override
  BY DEF TablesFine, TableType
<1>3. \A x \in Events : u.series[x] = IF x = e THEN rule ELSE t.series[x]
  <2> HIDE DEF u
  <2> QED
    BY <1>2 DEF TablesFine, TableType
<1> HIDE DEF u
<1>4. Tied(u)
  BY <1>2, <1>3, NotGone DEF Tied, TablesFine
<1> QED
  BY <1>1, <1>4 DEF TablesFine, u

LEMMA OverrideRow ==
  ASSUME NEW t, TablesFine(t), NEW e \in Events, NEW rid \in Int, rid # NoRid,
         NEW row \in PatchType, t.series[e] # Gone
  PROVE  TablesFine([t EXCEPT !.override[e] = Put(@, rid, row)])
<1> DEFINE o == t.override[e]
           n == Put(o, rid, row)
           u == [t EXCEPT !.override[e] = Put(@, rid, row)]
<1>0. o \in OverridesType /\ IsFiniteSet(DOMAIN o)
  BY DEF TablesFine, TableType, Tied
<1>1. DOMAIN n = DOMAIN o \cup {rid} /\ n \in [DOMAIN o \cup {rid} -> PatchType]
      /\ DOMAIN o \cup {rid} \in SUBSET (Int \ {NoRid})
  <2>1. PICK R \in SUBSET (Int \ {NoRid}) : o \in [R -> PatchType]
    BY <1>0 DEF OverridesType
  <2> HIDE DEF o
  <2> QED
    BY <2>1 DEF Put
<1>2. n \in OverridesType
  <2> HIDE DEF n
  <2> QED
    BY <1>1 DEF OverridesType
<1>3. IsFiniteSet(DOMAIN n)
  <2>1. IsFiniteSet(DOMAIN o) /\ DOMAIN n = DOMAIN o \cup {rid}
    BY <1>0, <1>1
  <2> DEFINE D == DOMAIN o
  <2> HIDE DEF D
  <2>2. IsFiniteSet(D \cup {rid})
    BY <2>1, FS_AddElement DEF D
  <2> QED
    BY <2>1, <2>2 DEF D
<1>4. u \in TableType
  BY <1>2 DEF TablesFine, TableType
<1>5. /\ u.override = [t.override EXCEPT ![e] = n]
      /\ u.event = t.event /\ u.series = t.series
  BY DEF TablesFine, TableType
<1> HIDE DEF n
<1>6. \A x \in Events : u.override[x] = IF x = e THEN n ELSE t.override[x]
  <2> HIDE DEF u
  <2> QED
    BY <1>5 DEF TablesFine, TableType
<1> HIDE DEF u
<1>7. Tied(u)
  BY <1>3, <1>5, <1>6 DEF Tied, TablesFine
<1> QED
  BY <1>4, <1>7 DEF TablesFine, u

LEMMA ReminderRow ==
  ASSUME NEW t, TablesFine(t), NEW e \in Events, NEW on \in BOOLEAN
  PROVE  TablesFine([t EXCEPT !.reminder[e] = on])
<1> DEFINE u == [t EXCEPT !.reminder[e] = on]
<1>1. u \in TableType
  BY DEF TablesFine, TableType
<1>2. u.event = t.event /\ u.series = t.series /\ u.override = t.override
  BY DEF TablesFine, TableType
<1> HIDE DEF u
<1>3. Tied(u)
  BY <1>2 DEF Tied, TablesFine
<1> QED
  BY <1>1, <1>3 DEF TablesFine, u

LEMMA NoRows ==
  ASSUME NEW t, TablesFine(t), NEW e \in Events
  PROVE  TablesFine([t EXCEPT !.event[e] = Gone, !.series[e] = Gone, !.override[e] = NoOverrides])
<1> DEFINE u == [t EXCEPT !.event[e] = Gone, !.series[e] = Gone, !.override[e] = NoOverrides]
<1>0. NoOverrides \in OverridesType /\ DOMAIN NoOverrides = {}
  <2>1. NoOverrides \in [{} -> PatchType]
    BY DEF NoOverrides
  <2> QED
    BY <2>1 DEF OverridesType
<1>1. u \in TableType
  BY <1>0 DEF TablesFine, TableType
<1>2. /\ u.event = [t.event EXCEPT ![e] = Gone]
      /\ u.series = [t.series EXCEPT ![e] = Gone]
      /\ u.override = [t.override EXCEPT ![e] = NoOverrides]
  BY DEF TablesFine, TableType
<1> HIDE DEF u
<1>3. \A x \in Events : /\ u.event[x] = IF x = e THEN Gone ELSE t.event[x]
                        /\ u.series[x] = IF x = e THEN Gone ELSE t.series[x]
                        /\ u.override[x] = IF x = e THEN NoOverrides ELSE t.override[x]
  BY <1>2 DEF TablesFine, TableType
<1>4. Tied(u)
  BY <1>0, <1>3, FS_EmptySet DEF Tied, TablesFine
<1> QED
  BY <1>1, <1>4 DEF TablesFine, u

\* A transaction leaves the tables as they were or as it is given them.
LEMMA Transaction ==
  ASSUME NEW s, OperationFine(s), NEW r, RecordFine(r), NEW t, TablesFine(t)
  PROVE  LET v == T1(s, r, t)
         IN  /\ OperationFine(v) /\ v.dev = s.dev
             /\ v.tables \in {s.tables, t}
             /\ ~ v.cut => v.tables = t /\ ~ s.cut
             /\ Calm(s) /\ Harmless(s, r) => Calm(v)
<1> DEFINE v == T1(s, r, t)
<1>1. CASE s.left = 0
  <2>1. v = [s EXCEPT !.cut = TRUE]
    BY <1>1 DEF T1
  <2>2. /\ v = [dev |-> s.dev, tables |-> s.tables, log |-> s.log, left |-> s.left, cut |-> TRUE]
    BY <2>1 DEF OperationFine
  <2> HIDE DEF v
  <2>3. v.log = s.log /\ v.dev = s.dev
    BY <2>2
  <2>4. Calm(s) => Calm(v)
    BY <2>3 DEF Calm, Harmless
  <2>5. OperationFine(v) /\ v.tables = s.tables /\ v.cut
    BY <2>2 DEF OperationFine
  <2> QED
    BY <2>3, <2>4, <2>5 DEF v
<1>2. CASE s.left # 0
  <2>1. v = [s EXCEPT !.tables = t, !.log = Append(@, r), !.left = @ - 1]
    BY <1>2 DEF T1
  <2>2. v = [dev |-> s.dev, tables |-> t, log |-> Append(s.log, r), left |-> s.left - 1, cut |-> s.cut]
    BY <2>1 DEF OperationFine
  <2>3. LogFine(Append(s.log, r))
    BY LogGrows DEF OperationFine
  <2>4. /\ Continues(Append(s.log, r), log[s.dev])
        /\ Len(Append(s.log, r)) = Len(s.log) + 1
        /\ \A n \in 1 .. Len(s.log) : Append(s.log, r)[n] = s.log[n]
        /\ Append(s.log, r)[Len(s.log) + 1] = r
        /\ Len(s.log) \in Nat
    BY LogContinues, LogReads DEF OperationFine
  <2> HIDE DEF v
  <2>5. v.log = Append(s.log, r) /\ v.dev = s.dev /\ v.tables = t /\ v.cut = s.cut
    BY <2>2
  <2>6. OperationFine(v)
    BY <2>2, <2>3, <2>4, <2>5 DEF OperationFine
  <2>7. ASSUME Calm(s), Harmless(s, r), NEW n \in 1 .. Len(v.log), n > Len(log[v.dev])
        PROVE  Harmless(v, v.log[n])
    <3>1. n \in 1 .. Len(s.log) \/ n = Len(s.log) + 1
      BY <2>4, <2>5
    <3>2. Harmless(s, v.log[n])
      BY <2>4, <2>5, <2>7, <3>1 DEF Calm
    <3> QED
      BY <2>5, <3>2 DEF Harmless
  <2>8. Calm(s) /\ Harmless(s, r) => Calm(v)
    BY <2>7 DEF Calm
  <2> QED
    BY <2>5, <2>6, <2>8 DEF v
<1> QED
  BY <1>1, <1>2

-----------------------------------------------------------------------------
(* The operations of EventCore.  Each leaves a device fine, whether it is  *)
(* cut off or not, and touches only its own rows.                          *)

LEMMA RecordSays ==
  ASSUME NEW s, NEW type, NEW e, NEW path, NEW value
  PROVE  LET r == Record(s, type, e, path, value)
         IN  r.event = e /\ r.type = type /\ r.path = path /\ r.value = value
BY DEF Record

LEMMA RecordIsFine ==
  ASSUME NEW s, NEW type, NEW e \in Events, NEW path, NEW value,
         type = "event" => \/ path = "event" /\ value \in RowType
                           \/ path = "title" /\ value \in Titles
                           \/ path = "day" /\ value \in Days
                           \/ path = "*" /\ value = Gone
  PROVE  RecordFine(Record(s, type, e, path, value))
<1> DEFINE r == Record(s, type, e, path, value)
<1>1. r.event = e /\ r.type = type /\ r.path = path /\ r.value = value
  BY RecordSays
<1> HIDE DEF r
<1> QED
  BY <1>1 DEF RecordFine, r

\* What an update of the row of e may leave.
Updated(s, v, e, row) ==
  /\ OperationFine(v) /\ v.dev = s.dev
  /\ v.tables \in {s.tables, [s.tables EXCEPT !.event[e] = row]}
  /\ ~ v.cut => ~ s.cut
  /\ Calm(s) /\ ~ Tombstoned(s.dev, e) => Calm(v)

LEMMA UpdateGroup ==
  ASSUME NEW s, OperationFine(s), NEW e \in Events, NEW row \in RowType,
         NEW v, Updated(s, v, e, row), NEW field \in {"title", "day"}
  PROVE  LET w == T1(v, Record(v, "event", e, field, row[field]),
                     [v.tables EXCEPT !.event[e] = row])
         IN  /\ Updated(s, w, e, row)
             /\ ~ w.cut => w.tables = [s.tables EXCEPT !.event[e] = row]
<1> DEFINE r == Record(v, "event", e, field, row[field])
           t == [v.tables EXCEPT !.event[e] = row]
           w == T1(v, r, t)
<1>0. row.title \in Titles /\ row.day \in Days
  BY DEF RowType
<1>1. RecordFine(r)
  BY <1>0, RecordIsFine
<1>2. TablesFine(t)
  BY EventRow DEF Updated, OperationFine
<1>a. ~ Tombstoned(v.dev, e) => Harmless(v, r)
  <2>1. r.event = e /\ r.value = row[field]
    BY RecordSays
  <2> HIDE DEF r
  <2>2. row[field] # Gone
    BY <1>0, NotGone
  <2> QED
    BY <2>1, <2>2 DEF Harmless
<1>3. /\ OperationFine(w) /\ w.dev = v.dev /\ w.tables \in {v.tables, t}
      /\ ~ w.cut => w.tables = t /\ ~ v.cut
      /\ Calm(v) /\ Harmless(v, r) => Calm(w)
  <2> HIDE DEF r, t
  <2> QED
    BY <1>1, <1>2, Transaction DEF Updated
<1>4. t = [s.tables EXCEPT !.event[e] = row]
  <2>1. CASE v.tables = s.tables
    BY <2>1
  <2>2. CASE v.tables = [s.tables EXCEPT !.event[e] = row]
    <3>1. s.tables \in TableType
      BY DEF OperationFine, TablesFine
    <3>2. t = [[s.tables EXCEPT !.event[e] = row] EXCEPT !.event[e] = row]
      BY <2>2
    <3> QED
      BY <3>1, <3>2 DEF TableType
  <2> QED
    BY <2>1, <2>2 DEF Updated
<1> HIDE DEF r, t, w
<1>5. Updated(s, w, e, row)
  BY <1>3, <1>4, <1>a DEF Updated
<1> QED
  BY <1>3, <1>4, <1>5 DEF w, r, t

LEMMA UpdateEventFine ==
  ASSUME NEW s, OperationFine(s), NEW e \in Events, NEW row \in RowType
  PROVE  LET v == UpdateEvent(s, e, row)
         IN  /\ Updated(s, v, e, row)
             /\ ~ v.cut /\ s.tables.event[e] # Gone => v.tables.event[e] = row
<1> DEFINE old == s.tables.event[e]
           Group(t, field) ==
             IF old[field] = row[field] THEN t
             ELSE T1(t, Record(t, "event", e, field, row[field]), [t.tables EXCEPT !.event[e] = row])
           Exact(v) == ~ v.cut => v.tables = [s.tables EXCEPT !.event[e] = row]
           g == Group(s, "title")
           h == Group(g, "day")
<1>1. Updated(s, s, e, row)
  BY DEF Updated
<1>2. /\ Updated(s, g, e, row)
      /\ old.title # row.title => Exact(g)
      /\ old.title = row.title => g = s
  BY <1>1, UpdateGroup
<1>3. /\ Updated(s, h, e, row)
      /\ old.day # row.day => Exact(h)
      /\ old.day = row.day => h = g
  <2>1. Updated(s, g, e, row)
    BY <1>2
  <2> HIDE DEF g
  <2> QED
    BY <2>1, UpdateGroup
<1>4. UpdateEvent(s, e, row) = h
  BY DEF UpdateEvent
<1> HIDE DEF g, h
<1>5. ASSUME ~ h.cut, old # Gone PROVE h.tables.event[e] = row
  <2>1. s.tables \in TableType /\ old \in RowType
    BY <1>5 DEF OperationFine, TablesFine, TableType
  <2>2. CASE old.day # row.day \/ old.title # row.title
    <3>1. h.tables = [s.tables EXCEPT !.event[e] = row]
      BY <1>2, <1>3, <1>5, <2>2
    <3> QED
      BY <2>1, <3>1 DEF TableType
  <2>3. CASE old.day = row.day /\ old.title = row.title
    <3>1. old = row
      BY <2>1, <2>3 DEF RowType
    <3> QED
      BY <1>2, <1>3, <2>3, <3>1
  <2> QED
    BY <2>2, <2>3
<1> QED
  BY <1>3, <1>4, <1>5

LEMMA UpdatedRow ==
  ASSUME NEW s, OperationFine(s), NEW e \in Events, NEW row \in RowType,
         NEW v, Updated(s, v, e, row)
  PROVE  /\ v.tables.series = s.tables.series
         /\ v.tables.event[e] \in {s.tables.event[e], row}
         /\ s.tables.event[e] # Gone => v.tables.event[e] # Gone
         /\ \A x \in Events : x # e => v.tables.event[x] = s.tables.event[x]
<1>1. s.tables \in TableType
  BY DEF OperationFine, TablesFine
<1>2. CASE v.tables = s.tables
  BY <1>2
<1>3. CASE v.tables = [s.tables EXCEPT !.event[e] = row]
  <2>1. v.tables.event = [s.tables.event EXCEPT ![e] = row] /\ v.tables.series = s.tables.series
    BY <1>1, <1>3 DEF TableType
  <2>2. v.tables.event[e] = row /\ \A x \in Events : x # e => v.tables.event[x] = s.tables.event[x]
    BY <1>1, <2>1 DEF TableType
  <2> QED
    BY <2>1, <2>2, NotGone
<1> QED
  BY <1>2, <1>3 DEF Updated

LEMMA UpdateSeriesRuleFine ==
  ASSUME NEW s, OperationFine(s), NEW e \in Events, NEW rule \in RuleType
  PROVE  LET v == UpdateSeriesRule(s, e, rule)
         IN  /\ OperationFine(v) /\ v.dev = s.dev
             /\ v.tables.event = s.tables.event
             /\ v.tables.series[e] \in {s.tables.series[e], rule}
             /\ \A x \in Events : x # e => v.tables.series[x] = s.tables.series[x]
             /\ s.tables.series[e] # Gone /\ ~ v.cut => v.tables.series[e] = rule
             /\ ~ v.cut => ~ s.cut
             /\ Calm(s) => Calm(v)
<1> DEFINE r == Record(s, "series", e, "recurrence_rule", rule)
           t == [s.tables EXCEPT !.series[e] = rule]
           v == T1(s, r, t)
<1>1. CASE s.tables.series[e] \in {Gone, rule}
  <2>1. UpdateSeriesRule(s, e, rule) = s
    BY <1>1 DEF UpdateSeriesRule
  <2> QED
    BY <1>1, <2>1
<1>2. CASE s.tables.series[e] \notin {Gone, rule}
  <2>1. UpdateSeriesRule(s, e, rule) = v
    BY <1>2 DEF UpdateSeriesRule
  <2>2. RecordFine(r) /\ Harmless(s, r)
    <3>1. r.type = "series"
      BY RecordSays
    <3>2. RecordFine(r)
      BY RecordIsFine
    <3> HIDE DEF r
    <3> QED
      BY <3>1, <3>2 DEF Harmless
  <2>3. s.tables.event[e] # Gone
    BY <1>2 DEF OperationFine, TablesFine, Tied
  <2>4. TablesFine(t)
    BY <2>3, RuleRow DEF OperationFine
  <2>5. /\ t.event = s.tables.event /\ t.series[e] = rule
        /\ \A x \in Events : x # e => t.series[x] = s.tables.series[x]
    <3>1. t.event = s.tables.event /\ t.series = [s.tables.series EXCEPT ![e] = rule]
      BY DEF OperationFine, TablesFine, TableType
    <3> HIDE DEF t
    <3> QED
      BY <3>1 DEF OperationFine, TablesFine, TableType
  <2>6. /\ OperationFine(v) /\ v.dev = s.dev
        /\ v.tables \in {s.tables, t}
        /\ ~ v.cut => v.tables = t /\ ~ s.cut
        /\ Calm(s) => Calm(v)
    <3> HIDE DEF r, t
    <3> QED
      BY <2>2, <2>4, Transaction
  <2> HIDE DEF v, t
  <2>7. /\ v.tables.event = s.tables.event /\ v.tables.series[e] \in {s.tables.series[e], rule}
        /\ \A x \in Events : x # e => v.tables.series[x] = s.tables.series[x]
    BY <2>5, <2>6
  <2>8. ~ v.cut => v.tables.series[e] = rule
    BY <2>5, <2>6
  <2> QED
    BY <2>1, <2>6, <2>7, <2>8
<1> QED
  BY <1>1, <1>2

\* Another moment of the same operation, with the same bases and rules.
SameSeries(s, v) ==
  /\ OperationFine(v) /\ v.dev = s.dev
  /\ v.tables.event = s.tables.event /\ v.tables.series = s.tables.series
  /\ ~ v.cut => ~ s.cut
  /\ Calm(s) => Calm(v)

LEMMA PatchFine ==
  ASSUME NEW s, OperationFine(s), NEW e \in Events, NEW rid \in Int, rid # NoRid,
         NEW row \in PatchType, s.tables.series[e] # Gone,
         NEW v, SameSeries(s, v), NEW path, NEW value
  PROVE  LET t == [v.tables EXCEPT !.override[e] = Put(@, rid, row)]
             w == T1(v, Record(v, "occurrence_override", e, path, value), t)
         IN  /\ SameSeries(s, w)
             /\ w.tables \in {v.tables, t}
             /\ ~ w.cut => w.tables = t /\ ~ v.cut
<1> DEFINE r == Record(v, "occurrence_override", e, path, value)
           t == [v.tables EXCEPT !.override[e] = Put(@, rid, row)]
           w == T1(v, r, t)
<1>1. RecordFine(r) /\ Harmless(v, r)
  <2>1. r.type = "occurrence_override"
    BY RecordSays
  <2>2. RecordFine(r)
    BY RecordIsFine
  <2> HIDE DEF r
  <2> QED
    BY <2>1, <2>2 DEF Harmless
<1>2. TablesFine(t)
  BY OverrideRow DEF SameSeries, OperationFine
<1>3. t.event = v.tables.event /\ t.series = v.tables.series
  BY DEF SameSeries, OperationFine, TablesFine, TableType
<1>4. /\ OperationFine(w) /\ w.dev = v.dev /\ w.tables \in {v.tables, t}
      /\ ~ w.cut => w.tables = t /\ ~ v.cut
      /\ Calm(v) => Calm(w)
  <2> HIDE DEF r, t
  <2> QED
    BY <1>1, <1>2, Transaction DEF SameSeries
<1> HIDE DEF r, t, w
<1>5. SameSeries(s, w)
  BY <1>3, <1>4 DEF SameSeries
<1> QED
  BY <1>4, <1>5 DEF w, r, t

LEMMA OverrideOfFine ==
  ASSUME NEW t, TablesFine(t), NEW e \in Events, NEW rid
  PROVE  OverrideOf(t, e, rid) \in PatchType
<1>1. NoPatch \in PatchType
  BY DEF NoPatch, PatchType, NoWall
<1>2. PICK R \in SUBSET (Int \ {NoRid}) : t.override[e] \in [R -> PatchType]
  BY DEF TablesFine, TableType, OverridesType
<1> QED
  BY <1>1, <1>2 DEF OverrideOf

LEMMA MergedFine ==
  ASSUME NEW old \in PatchType, NEW patch \in PatchType, NEW wanted
  PROVE  [f \in DOMAIN old |-> IF f \in wanted THEN patch[f] ELSE old[f]] \in PatchType
<1> DEFINE merged == [f \in DOMAIN old |-> IF f \in wanted THEN patch[f] ELSE old[f]]
<1>1. DOMAIN old = {"cancelled", "title", "wall"}
  BY DEF PatchType
<1>2. /\ merged = [cancelled |-> merged.cancelled, title |-> merged.title, wall |-> merged.wall]
  BY <1>1
<1>3. /\ merged.cancelled \in {old.cancelled, patch.cancelled}
      /\ merged.title \in {old.title, patch.title}
      /\ merged.wall \in {old.wall, patch.wall}
  BY <1>1
<1> HIDE DEF merged
<1>4. /\ merged.cancelled \in BOOLEAN /\ merged.title \in Titles \cup {Gone}
      /\ merged.wall \in [form : {"none", "stamp", "clock"}, day : Int]
  BY <1>3 DEF PatchType
<1>5. merged \in PatchType
  BY <1>2, <1>4 DEF PatchType
<1> QED
  BY <1>5 DEF merged

LEMMA UpdateOccurrenceFine ==
  ASSUME NEW s, OperationFine(s), NEW e \in Events, NEW rid \in Int, rid # NoRid,
         NEW patch \in PatchType
  PROVE  SameSeries(s, UpdateOccurrence(s, e, rid, patch))
<1> DEFINE old    == OverrideOf(s.tables, e, rid)
           wanted == Wanted(old, patch)
           merged == [f \in DOMAIN old |-> IF f \in wanted THEN patch[f] ELSE old[f]]
           Field(t, f) ==
             IF f \notin wanted THEN t
             ELSE T1(t, Record(t, "occurrence_override", e, <<rid, f>>, patch[f]),
                     [t.tables EXCEPT !.override[e] = Put(@, rid, merged)])
<1>1. SameSeries(s, s)
  BY DEF SameSeries
<1>2. CASE s.tables.series[e] = Gone
  <2>1. UpdateOccurrence(s, e, rid, patch) = s
    BY <1>2 DEF UpdateOccurrence
  <2> QED
    BY <1>1, <2>1
<1>3. CASE s.tables.series[e] # Gone
  <2>1. merged \in PatchType
    BY OverrideOfFine, MergedFine DEF OperationFine
  <2>2. UpdateOccurrence(s, e, rid, patch) = Field(Field(Field(s, "cancelled"), "title"), "wall")
    BY <1>3 DEF UpdateOccurrence
  <2> HIDE DEF merged, wanted
  <2>3. ASSUME NEW v, SameSeries(s, v), NEW f PROVE SameSeries(s, Field(v, f))
    BY <1>3, <2>1, <2>3, PatchFine
  <2> HIDE DEF Field
  <2> QED
    BY <1>1, <2>2, <2>3
<1> QED
  BY <1>2, <1>3

LEMMA RemindFine ==
  ASSUME NEW s, OperationFine(s), NEW e \in Events, NEW on
  PROVE  SameSeries(s, Remind(s, e, on))
<1>1. SameSeries(s, s)
  BY DEF SameSeries
<1>2. ASSUME NEW b \in BOOLEAN, NEW value
      PROVE  SameSeries(s, T1(s, Record(s, "reminder", e, "reminders", value),
                           [s.tables EXCEPT !.reminder[e] = b]))
  <2> DEFINE r == Record(s, "reminder", e, "reminders", value)
             t == [s.tables EXCEPT !.reminder[e] = b]
             w == T1(s, r, t)
  <2>1. RecordFine(r) /\ Harmless(s, r)
    <3>1. r.type = "reminder"
      BY RecordSays
    <3>2. RecordFine(r)
      BY RecordIsFine
    <3> HIDE DEF r
    <3> QED
      BY <3>1, <3>2 DEF Harmless
  <2>2. TablesFine(t)
    BY ReminderRow DEF OperationFine
  <2>3. t.event = s.tables.event /\ t.series = s.tables.series
    BY DEF OperationFine, TablesFine, TableType
  <2>4. /\ OperationFine(w) /\ w.dev = s.dev /\ w.tables \in {s.tables, t}
        /\ ~ w.cut => ~ s.cut
        /\ Calm(s) => Calm(w)
    <3> HIDE DEF r, t
    <3> QED
      BY <2>1, <2>2, Transaction
  <2> HIDE DEF r, t, w
  <2>5. SameSeries(s, w)
    BY <2>3, <2>4 DEF SameSeries
  <2> QED
    BY <2>5 DEF w, r, t
<1>3. SameSeries(s, SetReminder(s, e))
  BY <1>1, <1>2 DEF SetReminder
<1>4. SameSeries(s, ClearReminder(s, e))
  BY <1>1, <1>2 DEF ClearReminder
<1> QED
  BY <1>3, <1>4 DEF Remind

LEMMA CreateEventFine ==
  ASSUME NEW s, OperationFine(s), NEW e \in Events, NEW row \in RowType,
         NEW rule \in RuleType \cup {Gone}
  PROVE  LET v == CreateEvent(s, e, row, rule)
         IN  /\ OperationFine(v) /\ v.dev = s.dev
             /\ \A x \in Events : x # e => /\ v.tables.event[x] = s.tables.event[x]
                                           /\ v.tables.series[x] = s.tables.series[x]
             /\ ~ v.cut => /\ ~ s.cut /\ v.tables.event[e] = row
                           /\ v.tables.series[e] = IF rule = Gone THEN s.tables.series[e] ELSE rule
             /\ Calm(s) /\ ~ Tombstoned(s.dev, e) => Calm(v)
<1> DEFINE r == Record(s, "event", e, "event", row)
           t == [s.tables EXCEPT !.event[e] = row]
           made == T1(s, r, t)
           q == Record(made, "series", e, "recurrence_rule", rule)
           u == [made.tables EXCEPT !.series[e] = rule]
           v == T1(made, q, u)
<1>1. /\ RecordFine(r) /\ RecordFine(q) /\ Harmless(made, q)
      /\ ~ Tombstoned(s.dev, e) => Harmless(s, r)
  <2>1. RecordFine(r)
    BY RecordIsFine
  <2>2. r.event = e /\ r.value = row
    BY RecordSays
  <2> HIDE DEF made, r
  <2>3. RecordFine(q)
    BY RecordIsFine
  <2>4. q.type = "series"
    BY RecordSays
  <2> HIDE DEF q
  <2> QED
    BY <2>1, <2>2, <2>3, <2>4, NotGone DEF Harmless
<1>2. TablesFine(t)
  BY EventRow DEF OperationFine
<1>3. /\ t.event[e] = row /\ t.series = s.tables.series
      /\ \A x \in Events : x # e => t.event[x] = s.tables.event[x]
  <2>1. t.event = [s.tables.event EXCEPT ![e] = row] /\ t.series = s.tables.series
    BY DEF OperationFine, TablesFine, TableType
  <2> HIDE DEF t
  <2> QED
    BY <2>1 DEF OperationFine, TablesFine, TableType
<1>4. /\ OperationFine(made) /\ made.dev = s.dev /\ made.tables \in {s.tables, t}
      /\ ~ made.cut => made.tables = t /\ ~ s.cut
      /\ Calm(s) /\ ~ Tombstoned(s.dev, e) => Calm(made)
  <2> HIDE DEF r, t
  <2> QED
    BY <1>1, <1>2, Transaction
<1>5. CASE rule = Gone
  <2>1. CreateEvent(s, e, row, rule) = made
    BY <1>5 DEF CreateEvent
  <2> HIDE DEF made, t
  <2>2. \A x \in Events : x # e => /\ made.tables.event[x] = s.tables.event[x]
                                   /\ made.tables.series[x] = s.tables.series[x]
    BY <1>3, <1>4
  <2>3. ~ made.cut => made.tables.event[e] = row /\ made.tables.series[e] = s.tables.series[e]
    BY <1>3, <1>4
  <2> QED
    BY <1>4, <1>5, <2>1, <2>2, <2>3
<1>6. CASE rule # Gone
  <2>1. CreateEvent(s, e, row, rule) = v
    BY <1>6 DEF CreateEvent
  <2>2. CASE made.left = 0
    <3> HIDE DEF made, q, u, t
    <3>1. v = [made EXCEPT !.cut = TRUE]
      BY <2>2 DEF T1
    <3>2. v = [dev |-> made.dev, tables |-> made.tables, log |-> made.log,
               left |-> made.left, cut |-> TRUE]
      BY <1>4, <3>1 DEF OperationFine
    <3> HIDE DEF v
    <3>3. v.dev = made.dev /\ v.log = made.log /\ v.tables = made.tables /\ v.cut
      BY <3>2
    <3>4. OperationFine(v)
      BY <1>4, <3>2, <3>3 DEF OperationFine
    <3>5. Calm(made) => Calm(v)
      BY <3>3 DEF Calm, Harmless
    <3>6. \A x \in Events : x # e => /\ v.tables.event[x] = s.tables.event[x]
                                     /\ v.tables.series[x] = s.tables.series[x]
      BY <1>3, <1>4, <3>3
    <3> QED
      BY <1>4, <2>1, <3>3, <3>4, <3>5, <3>6
  <2>3. CASE made.left # 0
    <3>1. made.tables = t
      <4>1. CASE made.tables # t
        <5>1. s.left = 0
          BY <4>1 DEF T1, OperationFine
        <5>2. made.left = s.left
          BY <5>1 DEF T1, OperationFine
        <5> QED
          BY <2>3, <5>1, <5>2
      <4> QED
        BY <4>1
    <3> HIDE DEF made, t
    <3>2. TablesFine(u)
      <4>1. made.tables.event[e] # Gone
        BY <1>3, <3>1, NotGone
      <4> QED
        BY <1>4, <1>6, <4>1, RuleRow DEF OperationFine
    <3>3. /\ u.event = made.tables.event /\ u.series[e] = rule
          /\ \A x \in Events : x # e => u.series[x] = made.tables.series[x]
      <4>1. u.event = made.tables.event /\ u.series = [made.tables.series EXCEPT ![e] = rule]
        BY <1>4 DEF OperationFine, TablesFine, TableType
      <4> HIDE DEF u
      <4> QED
        BY <1>4, <4>1 DEF OperationFine, TablesFine, TableType
    <3> HIDE DEF q, u
    <3>4. /\ OperationFine(v) /\ v.dev = made.dev /\ v.tables \in {made.tables, u}
          /\ ~ v.cut => v.tables = u /\ ~ made.cut
          /\ Calm(made) => Calm(v)
      BY <1>1, <1>4, <3>2, Transaction
    <3> HIDE DEF v
    <3>5. \A x \in Events : x # e => /\ v.tables.event[x] = s.tables.event[x]
                                     /\ v.tables.series[x] = s.tables.series[x]
      BY <1>3, <3>1, <3>3, <3>4
    <3>6. ~ v.cut => v.tables.event[e] = row /\ v.tables.series[e] = rule
      BY <1>3, <3>1, <3>3, <3>4
    <3> QED
      BY <1>4, <1>6, <2>1, <3>4, <3>5, <3>6
  <2> QED
    BY <2>2, <2>3
<1> QED
  BY <1>5, <1>6

LEMMA DeleteEventFine ==
  ASSUME NEW s, OperationFine(s), NEW e \in Events
  PROVE  OperationFine(DeleteEvent(s, e)) /\ DeleteEvent(s, e).dev = s.dev
<1> DEFINE r == Record(s, "event", e, "*", Gone)
           t == [s.tables EXCEPT !.event[e] = Gone, !.series[e] = Gone, !.override[e] = NoOverrides]
           gone == T1(s, r, t)
           q == Record(gone, "series", e, "*", Gone)
<1>1. RecordFine(r)
  BY RecordIsFine
<1>2. TablesFine(t)
  BY NoRows DEF OperationFine
<1>3. OperationFine(gone) /\ gone.dev = s.dev
  <2> HIDE DEF r, t
  <2> QED
    BY <1>1, <1>2, Transaction
<1>4. DeleteEvent(s, e) \in {s, gone, T1(gone, q, gone.tables)}
  BY DEF DeleteEvent
<1> HIDE DEF gone
<1>5. RecordFine(q) /\ TablesFine(gone.tables)
  BY <1>3, RecordIsFine DEF OperationFine
<1> HIDE DEF q
<1>6. OperationFine(T1(gone, q, gone.tables)) /\ T1(gone, q, gone.tables).dev = s.dev
  BY <1>3, <1>5, Transaction
<1> QED
  BY <1>3, <1>4, <1>6

LEMMA BeginFine ==
  ASSUME DevicesFine, NEW d \in Devices, NEW left
  PROVE  LET s == Begin(d, left)
         IN  /\ OperationFine(s) /\ s.dev = d /\ s.tables = db[d] /\ s.log = log[d] /\ ~ s.cut
             /\ Calm(s)
<1> DEFINE s == Begin(d, left)
<1>1. /\ s = [dev |-> s.dev, tables |-> s.tables, log |-> s.log, left |-> s.left, cut |-> s.cut]
      /\ s.dev = d /\ s.tables = db[d] /\ s.log = log[d] /\ s.cut = FALSE
  BY DEF Begin
<1> HIDE DEF s
<1>2. TablesFine(db[d]) /\ LogFine(log[d]) /\ Len(log[d]) \in Nat
  BY LogReads DEF DevicesFine
<1>3. Continues(log[d], log[d])
  BY <1>2 DEF Continues
<1>4. OperationFine(s)
  BY <1>1, <1>2, <1>3 DEF OperationFine
<1>5. Calm(s)
  BY <1>1, <1>2 DEF Calm
<1> QED
  BY <1>1, <1>4, <1>5 DEF s

\* A step of one device leaves the others alone and takes nothing from a log.
Local(d) ==
  /\ \A x \in Devices \ {d} : db'[x] = db[x] /\ applied'[x] = applied[x]
  /\ \A p \in Devices : Continues(log'[p], log[p])

LEMMA CommitFine ==
  ASSUME DevicesFine, NEW d \in Devices, NEW s, OperationFine(s), s.dev = d, Commit(d, s)
  PROVE  /\ DevicesFine' /\ Local(d)
         /\ db'[d] = s.tables
         /\ cuts' = cuts => ~ s.cut
<1>1. /\ db' = [db EXCEPT ![d] = s.tables]
      /\ log' = [log EXCEPT ![d] = s.log]
      /\ applied' = [applied EXCEPT ![d][d] = Len(s.log)]
      /\ cuts' = IF s.cut THEN cuts + 1 ELSE cuts
  BY DEF Commit
<1>2. TablesFine(s.tables) /\ LogFine(s.log) /\ s.cut \in BOOLEAN /\ Len(s.log) \in Nat
  BY LogReads DEF OperationFine
<1>3. /\ db' = [x \in Devices |-> IF x = d THEN s.tables ELSE db[x]]
      /\ log' = [x \in Devices |-> IF x = d THEN s.log ELSE log[x]]
      /\ applied' = [x \in Devices |-> [p \in Devices |->
                       IF x = d /\ p = d THEN Len(s.log) ELSE applied[x][p]]]
  <2>1. db' = [x \in Devices |-> IF x = d THEN s.tables ELSE db[x]]
    BY <1>1 DEF DevicesFine
  <2>2. log' = [x \in Devices |-> IF x = d THEN s.log ELSE log[x]]
    BY <1>1 DEF DevicesFine
  <2>3. applied' = [x \in Devices |-> [p \in Devices |->
                      IF x = d /\ p = d THEN Len(s.log) ELSE applied[x][p]]]
    <3>1. applied' = [x \in Devices |-> IF x = d THEN [applied[d] EXCEPT ![d] = Len(s.log)] ELSE applied[x]]
      BY <1>1 DEF DevicesFine
    <3>2. \A x \in Devices : applied[x] = [p \in Devices |-> applied[x][p]]
      BY DEF DevicesFine
    <3>3. [applied[d] EXCEPT ![d] = Len(s.log)]
            = [p \in Devices |-> IF p = d THEN Len(s.log) ELSE applied[d][p]]
      BY <3>2
    <3>4. \A x \in Devices : applied'[x]
            = [p \in Devices |-> IF x = d /\ p = d THEN Len(s.log) ELSE applied[x][p]]
      BY <3>1, <3>2, <3>3
    <3>5. applied' = [x \in Devices |-> applied'[x]]
      BY <3>1
    <3> QED
      BY <3>4, <3>5
  <2> QED
    BY <2>1, <2>2, <2>3
<1>4. \A x \in Devices : TablesFine(db'[x]) /\ LogFine(log'[x]) /\ applied'[x][x] = Len(log'[x])
  BY <1>2, <1>3 DEF DevicesFine
<1>a. \A p \in Devices : Continues(log'[p], log[p])
  <2>1. Continues(s.log, log[d])
    BY DEF OperationFine
  <2>2. \A p \in Devices : Continues(log[p], log[p])
    BY LogReads DEF DevicesFine, Continues
  <2> QED
    BY <1>3, <2>1, <2>2
<1>b. \A x \in Devices \ {d} : db'[x] = db[x] /\ applied'[x] = applied[x]
  <2>1. \A x \in Devices : applied[x] = [p \in Devices |-> applied[x][p]]
    BY DEF DevicesFine
  <2> QED
    BY <1>3, <2>1
<1>5. \A x, p \in Devices : applied'[x][p] \in Nat /\ applied'[x][p] <= Len(log'[p])
  <2>1. \A p \in Devices : Len(log[p]) \in Nat /\ Len(log'[p]) \in Nat /\ Len(log[p]) <= Len(log'[p])
    BY <1>4, <1>a, LogReads DEF DevicesFine, Continues
  <2>2. ASSUME NEW x \in Devices, NEW p \in Devices
        PROVE  applied'[x][p] \in Nat /\ applied'[x][p] <= Len(log'[p])
    <3>1. CASE x = d /\ p = d
      BY <1>2, <1>3, <3>1
    <3>2. CASE ~ (x = d /\ p = d)
      <4>1. applied'[x][p] = applied[x][p] /\ applied[x][p] \in Nat /\ applied[x][p] <= Len(log[p])
        BY <1>3, <3>2 DEF DevicesFine
      <4> QED
        BY <2>1, <4>1
    <3> QED
      BY <3>1, <3>2
  <2> QED
    BY <2>2
<1>6. cuts' \in Nat /\ (cuts' = cuts => ~ s.cut)
  BY <1>1, <1>2 DEF DevicesFine
<1>7. DevicesFine'
  BY <1>3, <1>4, <1>5, <1>6 DEF DevicesFine
<1>8. db'[d] = s.tables
  BY <1>3
<1>9. Local(d)
  BY <1>a, <1>b DEF Local
<1> QED
  BY <1>6, <1>7, <1>8, <1>9

-----------------------------------------------------------------------------
(* The scopes of the dialog.                                               *)

LEMMA SeriesFacts ==
  ASSUME NEW t, TablesFine(t), NEW e \in Events, IsSeries(t, e)
  PROVE  /\ t.event[e] \in RowType /\ t.event[e].day \in Days /\ t.event[e].title \in Titles
         /\ t.series[e] \in RuleType
         /\ Occurrences(t, e) = Occ(t.series[e], t.event[e].day)
         /\ Occurrences(t, e) \subseteq Days
<1>1. t.event[e] \in RowType /\ t.series[e] \in RuleType
  BY DEF IsSeries, ListSeries, TablesFine, TableType
<1>2. t.event[e].day \in Days /\ t.event[e].title \in Titles
  BY <1>1 DEF RowType
<1>3. Occurrences(t, e) = Occ(t.series[e], t.event[e].day)
  BY DEF Occurrences, Occ, Rids
<1> QED
  BY <1>1, <1>2, <1>3, OccAreDays

LEMMA ChipFacts ==
  ASSUME NEW t, TablesFine(t), NEW e \in Events, IsSeries(t, e), NEW rid \in Chips(t, e)
  PROVE  rid \in Occurrences(t, e) /\ rid \in Days /\ rid \in Int /\ rid # NoRid
<1>1. rid \in Occurrences(t, e)
  BY DEF Chips
<1>2. rid \in Days
  BY <1>1, SeriesFacts
<1> QED
  BY <1>1, <1>2 DEF Days, NoRid

LEMMA TitleFine ==
  ASSUME NEW t, TablesFine(t), NEW e \in Events, t.event[e] # Gone, NEW rid
  PROVE  Title(t, e, rid) \in Titles
<1>1. OverrideOf(t, e, rid).title \in Titles \cup {Gone}
  BY OverrideOfFine DEF PatchType
<1>2. t.event[e].title \in Titles
  BY DEF TablesFine, TableType, RowType
<1> QED
  BY <1>1, <1>2 DEF Title

LEMMA RowFine ==
  ASSUME NEW title \in Titles, NEW n \in Days
  PROVE  Row(title, n) \in RowType /\ Row(title, n).day = n
BY DEF Row, RowType

\* A save of the whole series leaves the base and its rule, or what it makes of them.
LEMMA EditSeriesFine ==
  ASSUME NEW s, OperationFine(s), NEW e \in Events, IsSeries(s.tables, e), NEW rid,
         NEW title \in Titles, NEW delta, s.tables.event[e].day + delta \in Days,
         NEW rule \in RuleType
  PROVE  LET v == EditSeries(s, e, rid, title, delta, rule)
         IN  /\ OperationFine(v) /\ v.dev = s.dev
             /\ v.tables.event[e] \in {s.tables.event[e], Row(title, s.tables.event[e].day + delta)}
             /\ v.tables.series[e] \in {s.tables.series[e], rule}
<1> DEFINE row == Row(title, s.tables.event[e].day + delta)
           u == UpdateEvent(s, e, row)
           v == UpdateSeriesRule(u, e, rule)
<1>1. row \in RowType
  BY RowFine
<1> HIDE DEF row
<1>2. Updated(s, u, e, row)
  BY <1>1, UpdateEventFine
<1> HIDE DEF u
<1>3. /\ OperationFine(u) /\ u.dev = s.dev
      /\ u.tables.series = s.tables.series
      /\ u.tables.event[e] \in {s.tables.event[e], row}
  BY <1>1, <1>2, UpdatedRow DEF Updated
<1>4. /\ OperationFine(v) /\ v.dev = u.dev /\ v.tables.event = u.tables.event
      /\ v.tables.series[e] \in {u.tables.series[e], rule}
  BY <1>3, UpdateSeriesRuleFine
<1>5. EditSeries(s, e, rid, title, delta, rule) = v
  BY DEF EditSeries, u, row
<1> HIDE DEF v
<1>6. v.tables.event[e] \in {s.tables.event[e], row} /\ v.tables.series[e] \in {s.tables.series[e], rule}
  BY <1>3, <1>4
<1> QED
  BY <1>3, <1>4, <1>5, <1>6 DEF row

\* An end leaves the day of the base, and the rule or its end; if it was not cut off, its end.
LEMMA EndSeriesFine ==
  ASSUME NEW s, OperationFine(s), NEW e \in Events, IsSeries(s.tables, e),
         NEW rid \in Days, NEW title \in Titles, NEW delta \in Int,
         ChipDay(s.tables, e, rid) \in Days
  PROVE  LET v == EndSeries(s, e, rid, title, delta)
             cut == TerminateRuleAt(s.tables.series[e], rid)
         IN  /\ OperationFine(v) /\ v.dev = s.dev
             /\ v.tables.event[e].day = s.tables.event[e].day
             /\ v.tables.series[e] \in {s.tables.series[e], cut}
             /\ ~ v.cut => v.tables.series[e] = cut
<1> DEFINE day == s.tables.event[e].day
           row == Row(title, day)
           cut == TerminateRuleAt(s.tables.series[e], rid)
           named == UpdateEvent(s, e, row)
           patch == [NoPatch EXCEPT !.wall = Stamp(ChipDay(s.tables, e, rid) + delta)]
           moved == IF delta = 0 THEN named ELSE UpdateOccurrence(named, e, rid, patch)
           v == UpdateSeriesRule(moved, e, cut)
<1>0. TablesFine(s.tables) /\ rid \in Int /\ rid # NoRid
  BY DEF OperationFine, Days, NoRid
<1>1. row \in RowType /\ row.day = day /\ cut \in RuleType /\ day \in Days
  BY <1>0, SeriesFacts, RowFine, CutIsARule
<1>2. patch \in PatchType
  <2>1. ChipDay(s.tables, e, rid) + delta \in Int
    BY DEF Days
  <2>2. Stamp(ChipDay(s.tables, e, rid) + delta) \in [form : {"none", "stamp", "clock"}, day : Int]
    BY <2>1 DEF Stamp
  <2>3. NoPatch \in PatchType
    BY DEF NoPatch, PatchType, NoWall
  <2> QED
    BY <2>2, <2>3 DEF PatchType
<1>a. s.tables.series[e] # Gone
  BY DEF IsSeries, ListSeries
<1>b. EndSeries(s, e, rid, title, delta) = v
  BY DEF EndSeries
<1> HIDE DEF patch, cut, row
<1>3. Updated(s, named, e, row)
  BY <1>1, UpdateEventFine
<1> HIDE DEF named
<1>4. /\ OperationFine(named) /\ named.dev = s.dev
      /\ named.tables.series = s.tables.series
      /\ named.tables.event[e].day = day
  BY <1>1, <1>3, UpdatedRow DEF Updated
<1>5. SameSeries(named, moved)
  <2>1. SameSeries(named, UpdateOccurrence(named, e, rid, patch))
    BY <1>0, <1>2, <1>4, UpdateOccurrenceFine
  <2>2. SameSeries(named, named)
    BY <1>4 DEF SameSeries
  <2> QED
    BY <2>1, <2>2
<1> HIDE DEF moved
<1>6. /\ OperationFine(moved) /\ moved.dev = s.dev
      /\ moved.tables.series = s.tables.series
      /\ moved.tables.event[e].day = day
  BY <1>4, <1>5 DEF SameSeries
<1>7. /\ OperationFine(v) /\ v.dev = moved.dev /\ v.tables.event = moved.tables.event
      /\ v.tables.series[e] \in {moved.tables.series[e], cut}
      /\ ~ v.cut => v.tables.series[e] = cut
  BY <1>1, <1>6, <1>a, UpdateSeriesRuleFine
<1> HIDE DEF v
<1>8. /\ v.dev = s.dev /\ v.tables.event[e].day = day
      /\ v.tables.series[e] \in {s.tables.series[e], cut}
  BY <1>6, <1>7
<1> QED
  BY <1>7, <1>8, <1>b DEF cut

LEMMA EditOccurrenceFine ==
  ASSUME NEW s, OperationFine(s), NEW e \in Events, IsSeries(s.tables, e),
         NEW rid \in Days, NEW title \in Titles, NEW delta \in Int,
         ChipDay(s.tables, e, rid) \in Days
  PROVE  SameSeries(s, EditOccurrence(s, e, rid, title, delta))
<1> DEFINE patch == [cancelled |-> FALSE,
                     title |-> IF title = Title(s.tables, e, rid) THEN Gone ELSE title,
                     wall  |-> IF delta = 0 THEN NoWall
                               ELSE Stamp(ChipDay(s.tables, e, rid) + delta)]
<1>1. rid \in Int /\ rid # NoRid
  BY DEF Days, NoRid
<1>2. ChipDay(s.tables, e, rid) + delta \in Int
  BY DEF Days
<1>3. patch \in PatchType
  BY <1>2 DEF PatchType, NoWall, Stamp
<1>4. EditOccurrence(s, e, rid, title, delta) = UpdateOccurrence(s, e, rid, patch)
  BY DEF EditOccurrence
<1> HIDE DEF patch
<1> QED
  BY <1>1, <1>3, <1>4, UpdateOccurrenceFine

-----------------------------------------------------------------------------
(* A save.                                                                 *)

LEMMA NothingIsKept ==
  ASSUME Forget
  PROVE  ThePastIsKept'
BY DEF Forget, ThePastIsKept

LEMMA WhatIsKept ==
  ASSUME NEW d, NEW e, NEW upto, NEW rids, Keep(d, e, upto, rids),
         Upto(Occurrences(db'[d], e), upto) = rids,
         cuts' = cuts => Occurrences(db'[d], e) = rids
  PROVE  ThePastIsKept'
<1>1. /\ kept'.dev = d /\ kept'.event = e /\ kept'.upto = upto /\ kept'.rids = rids
      /\ kept'.whole = (cuts' = cuts)
  BY DEF Keep
<1> QED
  BY <1>1 DEF ThePastIsKept

\* The days of a window are all before its end.
LEMMA AllOfThem ==
  ASSUME NEW S \in SUBSET Days
  PROVE  Upto(S, Horizon) = S
<1>1. \A n \in S : n <= Horizon
  BY HorizonAssumption DEF Days
<1> QED
  BY <1>1 DEF Upto

LEMMA UserSavesFine ==
  ASSUME DevicesFine, FileFine(file), NEW d \in Devices, UserSaves(d)
  PROVE  AppInv' /\ Local(d)
<1>0. FileFine(file') /\ TablesFine(db[d])
  BY DEF UserSaves, Stir, DevicesFine
<1>1. PICK e \in Series(d) :
        \E left \in Lives, rid \in Drawn(d, e), title \in Titles, delta \in Deltas :
          /\ Inside(d, e, Drawn(d, e), delta)
          /\ \/ \E rule \in Rules \cup {db[d].series[e]}, on \in BOOLEAN :
                  SaveSeries(d, left, e, Occurrences(db[d], e), rid, title, delta, rule, on)
             \/ \E on \in BOOLEAN :
                  SaveOccurrence(d, left, e, Occurrences(db[d], e), rid, title, delta, on)
             \/ UncheckRepeat(d, left, e, Occurrences(db[d], e), rid, title, delta)
  BY DEF UserSaves
<1>2. PICK left \in Lives, rid \in Drawn(d, e), title \in Titles, delta \in Deltas :
          /\ Inside(d, e, Drawn(d, e), delta)
          /\ \/ \E rule \in Rules \cup {db[d].series[e]}, on \in BOOLEAN :
                  SaveSeries(d, left, e, Occurrences(db[d], e), rid, title, delta, rule, on)
             \/ \E on \in BOOLEAN :
                  SaveOccurrence(d, left, e, Occurrences(db[d], e), rid, title, delta, on)
             \/ UncheckRepeat(d, left, e, Occurrences(db[d], e), rid, title, delta)
  BY <1>1
<1> DEFINE s == Begin(d, left)
           O == Occurrences(db[d], e)
           day == db[d].event[e].day
           rule0 == db[d].series[e]
<1>3. e \in Events /\ IsSeries(db[d], e)
  BY DEF Series
<1>4. OperationFine(s) /\ s.dev = d /\ s.tables = db[d]
  BY BeginFine
<1>5. /\ day \in Days /\ day \in Int /\ rule0 \in RuleType
      /\ O = Occ(rule0, day) /\ O \in SUBSET Days
      /\ O = {n \in O : n \in Int}
  BY <1>0, <1>3, SeriesFacts DEF Days
<1>6. rid \in Chips(db[d], e) /\ ChipDay(db[d], e, rid) \in Days
  BY DEF Drawn
<1>7. rid \in O /\ rid \in Days /\ rid \in Int
  BY <1>0, <1>3, <1>6, ChipFacts
<1>8. day + delta \in Days /\ delta \in Int
  BY <1>2, AppAssumption DEF Inside
<1>9. ASSUME NEW rule \in Rules \cup {rule0}, NEW on \in BOOLEAN,
             SaveSeries(d, left, e, O, rid, title, delta, rule, on)
      PROVE  AppInv' /\ Local(d)
  <2> DEFINE v == EditSeries(s, e, rid, title, delta, rule)
             w == Remind(v, e, on)
  <2>1. rule \in RuleType
    BY <1>5, CalendarAssumption
  <2>2. /\ OperationFine(v) /\ v.dev = d
        /\ v.tables.event[e] \in {db[d].event[e], Row(title, day + delta)}
        /\ v.tables.series[e] \in {rule0, rule}
    <3> HIDE DEF s, v
    <3>1. /\ OperationFine(v) /\ v.dev = s.dev
          /\ v.tables.event[e] \in {s.tables.event[e], Row(title, s.tables.event[e].day + delta)}
          /\ v.tables.series[e] \in {s.tables.series[e], rule}
      BY <1>3, <1>4, <1>8, <2>1, EditSeriesFine DEF v
    <3> QED
      BY <1>4, <3>1
  <2>3. Commit(d, w)
    BY <1>9 DEF SaveSeries
  <2>4. IF delta = 0 /\ rule = rule0 THEN Keep(d, e, Horizon, O) ELSE Forget
    BY <1>9 DEF SaveSeries
  <2> HIDE DEF v
  <2>5. SameSeries(v, w)
    BY <1>3, <2>2, RemindFine
  <2> HIDE DEF w
  <2>6. DevicesFine' /\ Local(d) /\ db'[d] = w.tables
    BY <2>2, <2>3, <2>5, CommitFine DEF SameSeries
  <2>7. CASE delta = 0 /\ rule = rule0
    <3>1. db'[d].series[e] = rule0
      BY <2>2, <2>5, <2>6, <2>7 DEF SameSeries
    <3>2. db'[d].event[e].day = day
      <4>1. Row(title, day + delta).day = day
        BY <1>5, <2>7 DEF Row
      <4> QED
        BY <2>2, <2>5, <2>6, <4>1 DEF SameSeries
    <3>3. Occurrences(db'[d], e) = O
      BY <3>1, <3>2 DEF Occurrences, Rids
    <3>4. Upto(O, Horizon) = O
      BY <1>5, AllOfThem
    <3>5. ThePastIsKept'
      <4> HIDE DEF O
      <4> QED
        BY <2>4, <2>7, <3>3, <3>4, WhatIsKept
    <3> QED
      BY <1>0, <2>6, <3>5 DEF AppInv
  <2>8. CASE ~ (delta = 0 /\ rule = rule0)
    <3>1. ThePastIsKept'
      BY <2>4, <2>8, NothingIsKept
    <3> QED
      BY <1>0, <2>6, <3>1 DEF AppInv
  <2> QED
    BY <2>7, <2>8
<1>10. ASSUME NEW on \in BOOLEAN, SaveOccurrence(d, left, e, O, rid, title, delta, on)
       PROVE  AppInv' /\ Local(d)
  <2> DEFINE v == EditOccurrence(s, e, rid, title, delta)
             w == Remind(v, e, on)
  <2>1. SameSeries(s, v)
    <3> HIDE DEF s
    <3> QED
      BY <1>3, <1>4, <1>6, <1>7, <1>8, EditOccurrenceFine
  <2>2. Commit(d, w) /\ Keep(d, e, Horizon, O)
    BY <1>10 DEF SaveOccurrence
  <2> HIDE DEF v
  <2>3. SameSeries(v, w)
    BY <1>3, <2>1, RemindFine DEF SameSeries
  <2> HIDE DEF w, s
  <2>4. DevicesFine' /\ Local(d) /\ db'[d] = w.tables
    BY <1>4, <2>1, <2>2, <2>3, CommitFine DEF SameSeries
  <2>5. db'[d].series = db[d].series /\ db'[d].event = db[d].event
    BY <1>4, <2>1, <2>3, <2>4 DEF SameSeries
  <2>6. Occurrences(db'[d], e) = O
    BY <2>5 DEF Occurrences, Rids
  <2>7. Upto(O, Horizon) = O
    BY <1>5, AllOfThem
  <2>8. ThePastIsKept'
    <3> HIDE DEF O
    <3> QED
      BY <2>2, <2>6, <2>7, WhatIsKept
  <2> QED
    BY <1>0, <2>4, <2>8 DEF AppInv
<1>11. ASSUME UncheckRepeat(d, left, e, O, rid, title, delta)
       PROVE  AppInv' /\ Local(d)
  <2> DEFINE v == EndSeries(s, e, rid, title, delta)
             T == TerminateRuleAt(rule0, rid)
             U == Upto(O, rid)
  <2>1. Commit(d, v) /\ Keep(d, e, rid, U)
    BY <1>11 DEF UncheckRepeat
  <2>2. /\ OperationFine(v) /\ v.dev = d
        /\ v.tables.event[e].day = day
        /\ v.tables.series[e] \in {rule0, T}
        /\ ~ v.cut => v.tables.series[e] = T
    <3> HIDE DEF s, v
    <3>1. /\ OperationFine(v) /\ v.dev = s.dev
          /\ v.tables.event[e].day = s.tables.event[e].day
          /\ v.tables.series[e] \in {s.tables.series[e], TerminateRuleAt(s.tables.series[e], rid)}
          /\ ~ v.cut => v.tables.series[e] = TerminateRuleAt(s.tables.series[e], rid)
      BY <1>3, <1>4, <1>6, <1>7, <1>8, EndSeriesFine DEF v
    <3> QED
      BY <1>4, <3>1
  <2> HIDE DEF v
  <2>3. DevicesFine' /\ Local(d) /\ db'[d] = v.tables /\ (cuts' = cuts => ~ v.cut)
    BY <2>1, <2>2, CommitFine
  <2>4. Occ(T, day) = U
    <3>1. rid \in Occ(rule0, day)
      BY <1>5, <1>7
    <3>2. Occ(T, day) = {n \in Occ(rule0, day) : n <= rid}
      BY <1>5, <3>1, TerminateKeeps
    <3> QED
      BY <1>5, <3>2 DEF Upto
  <2>5. Occurrences(db'[d], e) = Occ(v.tables.series[e], day)
    BY <2>2, <2>3 DEF Occurrences, Occ, Rids
  <2>6. Upto(U, rid) = U
    BY DEF Upto
  <2>7. Upto(Occurrences(db'[d], e), rid) = U
    <3>1. CASE v.tables.series[e] = T
      BY <2>4, <2>5, <2>6, <3>1
    <3>2. CASE v.tables.series[e] = rule0
      BY <1>5, <2>5, <3>2
    <3> QED
      BY <2>2, <3>1, <3>2
  <2>8. cuts' = cuts => Occurrences(db'[d], e) = U
    BY <2>2, <2>3, <2>4, <2>5
  <2>9. ThePastIsKept'
    <3> HIDE DEF U
    <3> QED
      BY <2>1, <2>7, <2>8, WhatIsKept
  <2> QED
    BY <1>0, <2>3, <2>9 DEF AppInv
<1> QED
  BY <1>2, <1>9, <1>10, <1>11

-----------------------------------------------------------------------------
(* The other actions of a user.                                            *)

LEMMA UserCreateFine ==
  ASSUME DevicesFine, FileFine(file), NEW d \in Devices, UserCreate(d)
  PROVE  AppInv' /\ Local(d)
<1>1. PICK left \in Lives, e \in Events \ Used, t \in Titles, n \in Starts,
           rule \in Rules \cup {Gone}, on \in BOOLEAN :
        /\ Commit(d, Remind(CreateEvent(Begin(d, left), e, Row(t, n), rule), e, on))
        /\ Stir(d) /\ Forget
  BY DEF UserCreate
<1> DEFINE s == Begin(d, left)
           v == CreateEvent(s, e, Row(t, n), rule)
           w == Remind(v, e, on)
<1>2. Row(t, n) \in RowType /\ rule \in RuleType \cup {Gone}
  BY RowFine, AppAssumption, CalendarAssumption
<1>3. OperationFine(v) /\ v.dev = d
  <2>1. OperationFine(s) /\ s.dev = d
    BY BeginFine
  <2> HIDE DEF s
  <2> QED
    BY <1>2, <2>1, CreateEventFine
<1>4. Commit(d, w) /\ Stir(d) /\ Forget
  BY <1>1
<1> HIDE DEF v
<1>5. OperationFine(w) /\ w.dev = d
  BY <1>3, RemindFine DEF SameSeries
<1> HIDE DEF w
<1>6. DevicesFine' /\ Local(d)
  BY <1>4, <1>5, CommitFine
<1> QED
  BY <1>4, <1>6, NothingIsKept DEF AppInv, Stir

LEMMA UserCancelsFine ==
  ASSUME DevicesFine, FileFine(file), NEW d \in Devices, UserCancels(d)
  PROVE  AppInv' /\ Local(d)
<1>0. PICK e \in Series(d) : \E rid \in Drawn(d, e) :
        \E left \in Lives : Commit(d, CancelOccurrence(Begin(d, left), e, rid))
  BY DEF UserCancels
<1>1. PICK rid \in Drawn(d, e), left \in Lives :
        Commit(d, CancelOccurrence(Begin(d, left), e, rid))
  BY <1>0
<1> DEFINE s == Begin(d, left)
           patch == [NoPatch EXCEPT !.cancelled = TRUE]
           v == UpdateOccurrence(s, e, rid, patch)
<1>2. e \in Events /\ IsSeries(db[d], e) /\ rid \in Chips(db[d], e) /\ TablesFine(db[d])
  BY DEF Series, Drawn, DevicesFine
<1>3. rid \in Int /\ rid # NoRid
  BY <1>2, ChipFacts
<1>4. patch \in PatchType
  <2>1. NoPatch \in PatchType
    BY DEF NoPatch, PatchType, NoWall
  <2> QED
    BY <2>1 DEF PatchType
<1>5. Commit(d, v)
  BY <1>1 DEF CancelOccurrence
<1> HIDE DEF patch
<1>6. OperationFine(v) /\ v.dev = d
  <2>1. OperationFine(s) /\ s.dev = d
    BY BeginFine
  <2> HIDE DEF s
  <2> QED
    BY <1>2, <1>3, <1>4, <2>1, UpdateOccurrenceFine DEF SameSeries
<1> HIDE DEF v
<1>7. DevicesFine' /\ Local(d)
  BY <1>5, <1>6, CommitFine
<1>8. Stir(d) /\ Forget
  BY DEF UserCancels
<1> QED
  BY <1>7, <1>8, NothingIsKept DEF AppInv, Stir

LEMMA UserUpdatesFine ==
  ASSUME DevicesFine, FileFine(file), NEW d \in Devices, UserUpdates(d)
  PROVE  AppInv' /\ Local(d)
<1>1. PICK left \in Lives, e \in Events, title \in Titles, delta \in Deltas, on \in BOOLEAN :
        /\ db[d].event[e].day + delta \in Days
        /\ LET row == Row(title, db[d].event[e].day + delta)
           IN  Commit(d, Remind(UpdateEvent(Begin(d, left), e, row), e, on))
        /\ Stir(d) /\ Forget
  BY DEF UserUpdates
<1> DEFINE s == Begin(d, left)
           row == Row(title, db[d].event[e].day + delta)
           v == UpdateEvent(s, e, row)
           w == Remind(v, e, on)
<1>2. row \in RowType
  BY <1>1, RowFine
<1>3. Commit(d, w) /\ Stir(d) /\ Forget
  BY <1>1
<1> HIDE DEF row
<1>4. OperationFine(v) /\ v.dev = d
  <2>1. OperationFine(s) /\ s.dev = d
    BY BeginFine
  <2> HIDE DEF s
  <2> QED
    BY <1>2, <2>1, UpdateEventFine DEF Updated
<1> HIDE DEF v
<1>5. OperationFine(w) /\ w.dev = d
  BY <1>4, RemindFine DEF SameSeries
<1> HIDE DEF w
<1>6. DevicesFine' /\ Local(d)
  BY <1>3, <1>5, CommitFine
<1> QED
  BY <1>3, <1>6, NothingIsKept DEF AppInv, Stir

LEMMA UserDragsFine ==
  ASSUME DevicesFine, FileFine(file), NEW d \in Devices, UserDrags(d)
  PROVE  AppInv' /\ Local(d)
<1>1. PICK left \in Lives, e \in Events, delta \in Deltas \ {0} :
        /\ db[d].event[e] # Gone
        /\ \E rid \in IF IsSeries(db[d], e) THEN Drawn(d, e) ELSE {db[d].event[e].day} :
             /\ ChipDay(db[d], e, rid) + delta \in Days
             /\ Commit(d, MoveEvent(Begin(d, left), e, rid, delta))
        /\ Stir(d) /\ Forget
  BY DEF UserDrags
<1>2. PICK rid : /\ ChipDay(db[d], e, rid) + delta \in Days
                 /\ Commit(d, MoveEvent(Begin(d, left), e, rid, delta))
  BY <1>1
<1> DEFINE s == Begin(d, left)
           row == Row(Title(s.tables, e, rid), ChipDay(s.tables, e, rid) + delta)
           v == UpdateEvent(s, e, row)
<1>3. OperationFine(s) /\ s.dev = d /\ s.tables = db[d]
  BY BeginFine
<1>4. Commit(d, v)
  BY <1>2 DEF MoveEvent
<1>5. row \in RowType
  <2>1. Title(db[d], e, rid) \in Titles
    BY <1>1, TitleFine DEF DevicesFine
  <2> HIDE DEF s
  <2> QED
    BY <1>2, <1>3, <2>1, RowFine
<1> HIDE DEF row, s
<1>6. OperationFine(v) /\ v.dev = d
  BY <1>3, <1>5, UpdateEventFine DEF Updated
<1> HIDE DEF v
<1>7. DevicesFine' /\ Local(d)
  BY <1>4, <1>6, CommitFine
<1> QED
  BY <1>1, <1>7, NothingIsKept DEF AppInv, Stir

LEMMA UserDeletesFine ==
  ASSUME DevicesFine, FileFine(file), NEW d \in Devices, UserDeletes(d)
  PROVE  AppInv' /\ Local(d)
<1>1. PICK left \in Lives, e \in Events : /\ Commit(d, DeleteEvent(Begin(d, left), e))
                                          /\ Stir(d) /\ Forget
  BY DEF UserDeletes
<1> DEFINE s == Begin(d, left)
           v == DeleteEvent(s, e)
<1>2. OperationFine(v) /\ v.dev = d
  <2>1. OperationFine(s) /\ s.dev = d
    BY BeginFine
  <2> HIDE DEF s
  <2> QED
    BY <2>1, DeleteEventFine
<1>3. Commit(d, v)
  BY <1>1
<1> HIDE DEF v
<1>4. DevicesFine' /\ Local(d)
  BY <1>2, <1>3, CommitFine
<1> QED
  BY <1>1, <1>4, NothingIsKept DEF AppInv, Stir

-----------------------------------------------------------------------------
(* A record of another device.                                             *)

LEMMA MutatedFine ==
  ASSUME NEW old \in RowType \cup {Gone}, NEW r, RecordFine(r), r.type = "event"
  PROVE  /\ Mutated(old, r) \in RowType \cup {Gone}
         /\ old # Gone /\ Mutated(old, r) = Gone => r.value = Gone
<1>1. CASE r.path = "event" /\ r.value \in RowType
  <2>1. Mutated(old, r) = r.value
    BY <1>1 DEF Mutated
  <2> QED
    BY <1>1, <2>1
<1>2. CASE r.path = "title" /\ r.value \in Titles
  <2>1. CASE old # Gone
    <3>1. r.path # "event" /\ r.path \in {"title", "day"}
      BY <1>2
    <3>a. r.value # Gone
      BY <1>2, NotGone
    <3>2. Mutated(old, r) = [old EXCEPT ![r.path] = r.value]
      BY <2>1, <3>1, <3>a DEF Mutated
    <3>3. Mutated(old, r) \in RowType
      BY <1>2, <2>1, <3>2 DEF RowType
    <3> QED
      BY <3>3, NotGone
  <2>2. CASE old = Gone
    <3>1. r.value # Gone
      BY <1>2, NotGone
    <3>2. Mutated(old, r) = old
      BY <1>2, <2>2, <3>1 DEF Mutated
    <3> QED
      BY <2>2, <3>2
  <2> QED
    BY <2>1, <2>2
<1>3. CASE r.path = "day" /\ r.value \in Days
  <2>1. CASE old # Gone
    <3>1. r.path # "event" /\ r.path \in {"title", "day"}
      BY <1>3
    <3>a. r.value # Gone
      BY <1>3, NotGone
    <3>2. Mutated(old, r) = [old EXCEPT ![r.path] = r.value]
      BY <2>1, <3>1, <3>a DEF Mutated
    <3>3. Mutated(old, r) \in RowType
      BY <1>3, <2>1, <3>2 DEF RowType
    <3> QED
      BY <3>3, NotGone
  <2>2. CASE old = Gone
    <3>1. Mutated(old, r) \in {Gone, old}
      BY <1>3, <2>2 DEF Mutated
    <3> QED
      BY <2>2, <3>1
  <2> QED
    BY <2>1, <2>2
<1>4. CASE r.path = "*" /\ r.value = Gone
  <2>1. Mutated(old, r) = Gone
    BY <1>4 DEF Mutated
  <2> QED
    BY <1>4, <2>1
<1> QED
  BY <1>1, <1>2, <1>3, <1>4 DEF RecordFine

LEMMA MutatedTables ==
  ASSUME NEW t, TablesFine(t), NEW e \in Events, NEW row \in RowType \cup {Gone},
         row = Gone => t.series[e] = Gone \/ t.event[e] = Gone
  PROVE  TablesFine([t EXCEPT !.event[e] = row])
<1>1. CASE row \in RowType
  BY <1>1, EventRow
<1>2. CASE row = Gone
  <2> DEFINE u == [t EXCEPT !.event[e] = Gone]
  <2>1. u \in TableType
    BY DEF TablesFine, TableType
  <2>2. /\ u.event = [t.event EXCEPT ![e] = Gone]
        /\ u.series = t.series /\ u.override = t.override
    BY DEF TablesFine, TableType
  <2> HIDE DEF u
  <2>3. \A x \in Events : u.event[x] = IF x = e THEN Gone ELSE t.event[x]
    BY <2>2 DEF TablesFine, TableType
  <2>4. t.series[e] = Gone
    BY <1>2 DEF TablesFine, Tied
  <2>5. Tied(u)
    BY <2>2, <2>3, <2>4 DEF Tied, TablesFine
  <2>6. TablesFine(u)
    BY <2>1, <2>5 DEF TablesFine
  <2> QED
    BY <1>2, <2>6 DEF u
<1> QED
  BY <1>1, <1>2

LEMMA DeliverFine ==
  ASSUME DevicesFine, FileFine(file), NEW d \in Devices, NEW p \in Devices,
         Deliver(d, p), Stir(d), Forget
  PROVE  AppInv' /\ Local(d)
<1> DEFINE n == applied[d][p] + 1
           r == log[p][n]
           e == r.event
           row == Mutated(db[d].event[e], r)
           t == [db[d] EXCEPT !.event[e] = row]
<1>1. /\ p # d /\ applied[d][p] < Len(log[p])
      /\ ~ Refused(d, r)
      /\ db' = IF Mutates(d, r) THEN [db EXCEPT ![d].event[r.event] = Mutated(@, r)] ELSE db
      /\ applied' = [applied EXCEPT ![d][p] = @ + 1]
      /\ UNCHANGED <<log, cuts>>
  BY DEF Deliver
<1>2. RecordFine(r)
  <2>1. LogFine(log[p]) /\ applied[d][p] \in Nat
    BY DEF DevicesFine
  <2>2. Len(log[p]) \in Nat
    BY <2>1, LogReads
  <2>3. n \in 1 .. Len(log[p])
    BY <1>1, <2>1, <2>2
  <2> QED
    BY <2>1, <2>3, LogReads
<1>3. e \in Events
  BY <1>2 DEF RecordFine
<1>4. TablesFine(db[d]) /\ db[d].event[e] \in RowType \cup {Gone}
  <2>1. TablesFine(db[d])
    BY DEF DevicesFine
  <2> QED
    BY <1>3, <2>1 DEF TablesFine, TableType
<1> HIDE DEF r, e
<1>5. ASSUME Mutates(d, r) PROVE TablesFine(t)
  <2>1. r.type = "event"
    BY <1>5 DEF Mutates
  <2>2. /\ row \in RowType \cup {Gone}
        /\ db[d].event[e] # Gone /\ row = Gone => r.value = Gone
    BY <1>2, <1>4, <2>1, MutatedFine
  <2>3. r.value = Gone => db[d].series[e] = Gone
    BY <1>1, <1>5 DEF Refused, e
  <2> HIDE DEF row
  <2> QED
    BY <1>3, <1>4, <2>2, <2>3, MutatedTables
<1>6. db' = [x \in Devices |-> IF x = d /\ Mutates(d, r) THEN t ELSE db[x]]
  <2>0. db = [x \in Devices |-> db[x]]
    BY DEF DevicesFine
  <2>1. CASE Mutates(d, r)
    <3>1. db' = [db EXCEPT ![d].event[e] = Mutated(@, r)]
      BY <1>1, <2>1 DEF e
    <3>2. db' = [db EXCEPT ![d] = t]
      BY <3>1
    <3> HIDE DEF t
    <3>3. db' = [x \in Devices |-> IF x = d THEN t ELSE db[x]]
      BY <2>0, <3>2
    <3> QED
      BY <2>1, <3>3
  <2>2. CASE ~ Mutates(d, r)
    BY <1>1, <2>0, <2>2
  <2> QED
    BY <2>1, <2>2
<1> HIDE DEF t
<1>7. \A x \in Devices : TablesFine(db'[x])
  BY <1>5, <1>6 DEF DevicesFine
<1>8. applied' = [x \in Devices |-> [q \in Devices |->
                    IF x = d /\ q = p THEN applied[x][q] + 1 ELSE applied[x][q]]]
  <2>1. applied' = [x \in Devices |-> IF x = d THEN [applied[d] EXCEPT ![p] = @ + 1] ELSE applied[x]]
    BY <1>1 DEF DevicesFine
  <2>2. \A x \in Devices : applied[x] = [q \in Devices |-> applied[x][q]]
    BY DEF DevicesFine
  <2>3. [applied[d] EXCEPT ![p] = @ + 1]
          = [q \in Devices |-> IF q = p THEN applied[d][q] + 1 ELSE applied[d][q]]
    BY <2>2
  <2>4. \A x \in Devices : applied'[x]
          = [q \in Devices |-> IF x = d /\ q = p THEN applied[x][q] + 1 ELSE applied[x][q]]
    BY <2>1, <2>2, <2>3
  <2>5. applied' = [x \in Devices |-> applied'[x]]
    BY <2>1
  <2> QED
    BY <2>4, <2>5
<1>9. \A x \in Devices : applied'[x][x] = Len(log'[x])
  BY <1>1, <1>8 DEF DevicesFine
<1>10. \A x, q \in Devices : applied'[x][q] \in Nat /\ applied'[x][q] <= Len(log'[q])
  <2>1. \A q \in Devices : Len(log[q]) \in Nat
    BY LogReads DEF DevicesFine
  <2>2. applied[d][p] + 1 <= Len(log[p])
    BY <1>1, <2>1 DEF DevicesFine
  <2> QED
    BY <1>1, <1>8, <2>1, <2>2 DEF DevicesFine
<1>11. DevicesFine'
  <2>1. db' = [x \in Devices |-> db'[x]]
    BY <1>6
  <2>2. applied' = [x \in Devices |-> [q \in Devices |-> applied'[x][q]]]
    BY <1>8
  <2>3. log' = log /\ cuts' = cuts
    BY <1>1
  <2> QED
    BY <1>7, <1>9, <1>10, <2>1, <2>2, <2>3 DEF DevicesFine
<1>12. Local(d)
  <2>1. \A q \in Devices : Continues(log'[q], log[q])
    BY <1>1, LogReads DEF DevicesFine, Continues
  <2>2. \A x \in Devices \ {d} : db'[x] = db[x] /\ applied'[x] = applied[x]
    <3>1. \A x \in Devices : applied[x] = [q \in Devices |-> applied[x][q]]
      BY DEF DevicesFine
    <3> QED
      BY <1>6, <1>8, <3>1
  <2> QED
    BY <2>1, <2>2 DEF Local
<1> QED
  BY <1>11, <1>12, NothingIsKept DEF AppInv, Stir

-----------------------------------------------------------------------------
(* Export.                                                                 *)

LEMMA ImageIsFinite ==
  ASSUME NEW S, IsFiniteSet(S), NEW f
  PROVE  IsFiniteSet({f[x] : x \in S})
<1> DEFINE T == {f[x] : x \in S}
           g == [x \in S |-> f[x]]
<1>1. g \in Surjection(S, T)
  BY DEF Surjection
<1> HIDE DEF T, g
<1>2. IsFiniteSet(T)
  BY <1>1, FS_Surjection
<1> QED
  BY <1>2 DEF T

LEMMA OverrideEventsFine ==
  ASSUME NEW t, TablesFine(t), NEW e \in Events, t.event[e] # Gone
  PROVE  /\ FileFine(OverrideEvents(t, e))
         /\ \A v \in OverrideEvents(t, e) : v.uid = e /\ v.rid # NoRid
<1> DEFINE R == {r \in DOMAIN t.override[e] :
                   t.override[e][r].cancelled \/ t.override[e][r].wall.form # "stamp"}
           f == [rid \in R |->
                   [uid |-> e, rid |-> rid, title |-> Title(t, e, rid), day |-> rid, rule |-> Gone,
                    cancelled |-> t.override[e][rid].cancelled]]
           V == OverrideEvents(t, e)
<1>1. V = {f[rid] : rid \in R}
  BY DEF OverrideEvents
<1>2. IsFiniteSet(R)
  <2>1. IsFiniteSet(DOMAIN t.override[e])
    BY DEF TablesFine, Tied
  <2>2. R \in SUBSET (DOMAIN t.override[e])
    OBVIOUS
  <2> HIDE DEF R
  <2> QED
    BY <2>1, <2>2, FS_Subset
<1>3. IsFiniteSet(V)
  <2> HIDE DEF R, f, V
  <2> QED
    BY <1>1, <1>2, ImageIsFinite
<1>a. \A rid \in R : f[rid].rid = rid
  OBVIOUS
<1>b. OneEach(V)
  <2> HIDE DEF R, f, V
  <2> QED
    BY <1>1, <1>a DEF OneEach
<1>4. ASSUME NEW rid \in R PROVE IsVEvent(f[rid]) /\ f[rid].uid = e /\ f[rid].rid # NoRid
  <2>0. t.override[e] \in OverridesType
    BY DEF TablesFine, TableType
  <2>1. PICK D \in SUBSET (Int \ {NoRid}) : t.override[e] \in [D -> PatchType]
    BY <2>0 DEF OverridesType
  <2>2. rid \in D
    BY <2>1
  <2>3. rid \in Int /\ rid # NoRid /\ t.override[e][rid].cancelled \in BOOLEAN
    BY <2>1, <2>2 DEF PatchType
  <2>4. Title(t, e, rid) \in Titles
    BY TitleFine
  <2> DEFINE v == f[rid]
  <2>5. /\ v.title = Title(t, e, rid) /\ v.cancelled = t.override[e][rid].cancelled /\ v.rid = rid
        /\ v.uid = e
    OBVIOUS
  <2> HIDE DEF v
  <2>6. IsVEvent(v) /\ v.uid = e /\ v.rid # NoRid
    BY <2>3, <2>4, <2>5 DEF IsVEvent
  <2> QED
    BY <2>6 DEF v
<1> HIDE DEF R, f
<1> QED
  BY <1>1, <1>3, <1>4, <1>b DEF FileFine

LEMMA ExportFine ==
  ASSUME NEW t, TablesFine(t)
  PROVE  FileFine(ExportToIcs(t))
<1> DEFINE live == ExportInput(t)
           series == {x \in live : t.series[x] # Gone}
           f == [e \in live |-> Base(e, t.event[e].title, t.event[e].day, ConformRRule(t.series[e]))]
           g == [e \in series |-> OverrideEvents(t, e)]
           bases == {f[e] : e \in live}
           overrides == UNION {g[e] : e \in series}
<1>1. ExportToIcs(t) = bases \cup overrides
  BY DEF ExportToIcs
<1>2. \A e \in live : e \in Events /\ t.event[e] # Gone
  BY DEF ExportInput
<1>3. IsFiniteSet(live) /\ IsFiniteSet(series)
  <2>1. IsFiniteSet(Events) /\ live \in SUBSET Events /\ series \in SUBSET Events
    BY <1>2, CalendarAssumption
  <2> HIDE DEF live, series
  <2> QED
    BY <2>1, FS_Subset
<1>4. IsFiniteSet(bases)
  <2> HIDE DEF live, f
  <2> QED
    BY <1>3, ImageIsFinite
<1>5. ASSUME NEW e \in live PROVE IsVEvent(f[e]) /\ f[e].uid = e /\ f[e].rid = NoRid
  <2>1. t.event[e] \in RowType
    BY <1>2 DEF TablesFine, TableType
  <2>2. t.event[e].title \in Titles /\ t.event[e].day \in Days
    BY <2>1 DEF RowType
  <2> DEFINE v == f[e]
  <2>3. /\ v.title = t.event[e].title /\ v.cancelled = FALSE /\ v.rid = NoRid /\ v.day = t.event[e].day
        /\ v.uid = e
    BY DEF Base
  <2> HIDE DEF v
  <2>a. NoRid \in Int
    BY DEF NoRid
  <2>4. IsVEvent(v) /\ v.uid = e /\ v.rid = NoRid
    BY <2>2, <2>3, <2>a DEF IsVEvent
  <2> QED
    BY <2>4 DEF v
<1>6. \A e \in series : FileFine(g[e]) /\ \A v \in g[e] : v.uid = e /\ v.rid # NoRid
  BY <1>2, OverrideEventsFine
<1>7. FileFine(overrides) /\ \A v \in overrides : v.rid # NoRid
  <2>1. IsFiniteSet({g[e] : e \in series})
    <3> HIDE DEF series, g
    <3> QED
      BY <1>3, ImageIsFinite
  <2> HIDE DEF series, g
  <2>2. \A T \in {g[e] : e \in series} : IsFiniteSet(T) /\ \A v \in T : IsVEvent(v)
    BY <1>6 DEF FileFine
  <2>3. IsFiniteSet(overrides)
    BY <2>1, <2>2, FS_UNION
  <2>4. OneEach(overrides) /\ \A v \in overrides : v.rid # NoRid
    <3>1. \A v \in overrides : \E e \in series : v \in g[e]
      OBVIOUS
    <3> HIDE DEF overrides
    <3>2. ASSUME NEW v \in overrides, NEW w \in overrides, v.uid = w.uid, v.rid = w.rid
          PROVE  v = w
      <4>1. PICK e \in series : v \in g[e]
        BY <3>1
      <4>2. PICK x \in series : w \in g[x]
        BY <3>1
      <4>3. x = e
        BY <1>6, <3>2, <4>1, <4>2
      <4> QED
        BY <1>6, <3>2, <4>1, <4>2, <4>3 DEF FileFine, OneEach
    <3> QED
      BY <1>6, <3>1, <3>2 DEF OneEach
  <2> QED
    BY <2>2, <2>3, <2>4 DEF FileFine
<1> HIDE DEF live, f, overrides
<1>8. IsFiniteSet(bases \cup overrides)
  BY <1>4, <1>7, FS_Union DEF FileFine
<1>9. OneEach(bases \cup overrides)
  <2>1. \A v \in bases : v.rid = NoRid /\ v = f[v.uid]
    BY <1>5
  <2> HIDE DEF bases
  <2>2. ASSUME NEW v \in bases \cup overrides, NEW w \in bases \cup overrides,
               v.uid = w.uid, v.rid = w.rid
        PROVE  v = w
    <3>1. CASE v \in bases /\ w \in bases
      BY <2>1, <2>2, <3>1
    <3>2. CASE v \in overrides /\ w \in overrides
      BY <1>7, <2>2, <3>2 DEF FileFine, OneEach
    <3> QED
      BY <1>7, <2>1, <2>2, <3>1, <3>2
  <2> QED
    BY <2>2 DEF OneEach
<1> QED
  BY <1>1, <1>5, <1>7, <1>8, <1>9 DEF FileFine

-----------------------------------------------------------------------------
(* Import.                                                                 *)

\* The event of v has an id here.
HasId(v, new) == IdOf(v.uid, new) \in Events

ImportVEvent(t, v, new) ==
  IF v.rid = NoRid THEN ImportBase(t, v, new) ELSE ImportOverride(t, v, new)

SameDevice(s, t) == OperationFine(t) /\ t.dev = s.dev

LEMMA ImportBaseFine ==
  ASSUME NEW s, OperationFine(s), NEW v, IsVEvent(v), v.rid = NoRid, NEW new, HasId(v, new)
  PROVE  SameDevice(s, ImportBase(s, v, new))
<1> DEFINE e == IdOf(v.uid, new)
           row == Row(v.title, v.day)
           rule == PlannedRule(v)
           updated == UpdateEvent(s, e, row)
           ruled == UpdateSeriesRule(updated, e, rule)
           created == CreateEvent(s, e, row, rule)
<1>1. e \in Events /\ row \in RowType /\ rule \in RuleType \cup {Gone}
  BY RowFine DEF HasId, IsVEvent, PlannedRule
<1>2. ImportBase(s, v, new) \in {s, IF rule = Gone THEN updated ELSE ruled, created}
  BY DEF ImportBase
<1> HIDE DEF e, row, rule
<1>3. SameDevice(s, created)
  BY <1>1, CreateEventFine DEF SameDevice
<1>4. SameDevice(s, updated)
  BY <1>1, UpdateEventFine DEF SameDevice, Updated
<1> HIDE DEF updated
<1>5. rule # Gone => SameDevice(s, ruled)
  BY <1>1, <1>4, UpdateSeriesRuleFine DEF SameDevice
<1>6. SameDevice(s, s)
  BY DEF SameDevice
<1> HIDE DEF ruled, created
<1> QED
  BY <1>2, <1>3, <1>4, <1>5, <1>6

LEMMA ImportVEventFine ==
  ASSUME NEW s, OperationFine(s), NEW v, IsVEvent(v), NEW new, HasId(v, new)
  PROVE  SameDevice(s, ImportVEvent(s, v, new))
<1>1. CASE v.rid = NoRid
  BY <1>1, ImportBaseFine DEF ImportVEvent
<1>2. CASE v.rid # NoRid
  <2> DEFINE e == IdOf(v.uid, new)
             patch == [cancelled |-> v.cancelled, title |-> v.title, wall |-> ClockWall]
  <2>1. e \in Events /\ v.rid \in Int /\ patch \in PatchType
    BY DEF HasId, IsVEvent, PatchType, ClockWall
  <2>2. ImportVEvent(s, v, new) = UpdateOccurrence(s, e, v.rid, patch)
    BY <1>2 DEF ImportVEvent, ImportOverride, PlannedPatch
  <2> HIDE DEF e, patch
  <2>3. SameSeries(s, UpdateOccurrence(s, e, v.rid, patch))
    BY <1>2, <2>1, UpdateOccurrenceFine
  <2> QED
    BY <2>2, <2>3 DEF SameSeries, SameDevice
<1> QED
  BY <1>1, <1>2

One(T) == CHOOSE x \in T : TRUE

\* f is the import of the subsets of V with up to n elements.
Imports(s, V, new, f, n) ==
  f = [T \in {T \in SUBSET V : Cardinality(T) <= n} |->
         IF T = {} THEN s ELSE ImportVEvent(f[T \ {One(T)}], One(T), new)]

LEMMA OneLess ==
  ASSUME NEW V, IsFiniteSet(V), NEW T \in SUBSET V, T # {}
  PROVE  /\ One(T) \in T /\ T \ {One(T)} \in SUBSET V
         /\ Cardinality(T) \in Nat /\ Cardinality(T) # 0
         /\ Cardinality(T \ {One(T)}) = Cardinality(T) - 1
<1>1. One(T) \in T
  BY DEF One
<1>2. IsFiniteSet(T)
  BY FS_Subset
<1> QED
  BY <1>1, <1>2, FS_RemoveElement, FS_CardinalityType, FS_EmptySet

LEMMA ImportsExist ==
  ASSUME NEW s, NEW V, IsFiniteSet(V), NEW new
  PROVE  \E f : Imports(s, V, new, f, Cardinality(V))
<1> DEFINE S == {n \in Nat : \E f : Imports(s, V, new, f, n)}
           size == Cardinality(V)
<1>0. size \in Nat
  BY FS_CardinalityType
<1>1. 0 \in S
  <2> DEFINE h == [T \in {T \in SUBSET V : Cardinality(T) <= 0} |-> s]
  <2>1. \A T \in SUBSET V : Cardinality(T) <= 0 => T = {}
    <3>1. ASSUME NEW T \in SUBSET V, T # {} PROVE ~ (Cardinality(T) <= 0)
      <4>1. Cardinality(T) \in Nat /\ Cardinality(T) # 0
        BY <3>1, OneLess
      <4> QED
        BY <4>1
    <3> QED
      BY <3>1
  <2>2. Imports(s, V, new, h, 0)
    BY <2>1 DEF Imports
  <2> QED
    BY <2>2
<1>2. ASSUME NEW n \in 0 .. size - 1, n \in S PROVE n + 1 \in S
  <2>0. n \in Nat /\ n + 1 \in Nat
    BY <1>0
  <2>1. PICK f : Imports(s, V, new, f, n)
    BY <1>2
  <2> DEFINE A == {T \in SUBSET V : Cardinality(T) <= n}
             B == {T \in SUBSET V : Cardinality(T) <= n + 1}
             Def(g, T) == IF T = {} THEN s ELSE ImportVEvent(g[T \ {One(T)}], One(T), new)
             h == [T \in B |-> Def(f, T)]
  <2>2. f = [T \in A |-> Def(f, T)]
    BY <2>1 DEF Imports
  <2>3. A \subseteq B
    <3>1. ASSUME NEW T \in SUBSET V, Cardinality(T) <= n PROVE Cardinality(T) <= n + 1
      <4>1. Cardinality(T) \in Nat
        BY FS_Subset, FS_CardinalityType
      <4> QED
        BY <2>0, <3>1, <4>1
    <3> QED
      BY <3>1
  <2>4. ASSUME NEW T \in B, T # {} PROVE T \ {One(T)} \in A
    <3>1. /\ T \ {One(T)} \in SUBSET V /\ Cardinality(T) \in Nat
          /\ Cardinality(T \ {One(T)}) = Cardinality(T) - 1
      BY <2>4, OneLess
    <3>2. Cardinality(T) - 1 <= n
      BY <2>0, <3>1
    <3> QED
      BY <3>1, <3>2
  <2> HIDE DEF A, B
  <2>5. \A T \in A : h[T] = f[T]
    <3> HIDE DEF Def
    <3> QED
      BY <2>2, <2>3
  <2>6. ASSUME NEW T \in B PROVE Def(f, T) = Def(h, T)
    <3>1. CASE T = {}
      BY <3>1
    <3>2. CASE T # {}
      <4>1. h[T \ {One(T)}] = f[T \ {One(T)}]
        <5> HIDE DEF h
        <5> QED
          BY <2>4, <2>5, <3>2
      <4> HIDE DEF h
      <4> QED
        BY <3>2, <4>1
    <3> QED
      BY <3>1, <3>2
  <2>7. h = [T \in B |-> Def(h, T)]
    <3> HIDE DEF Def
    <3> QED
      BY <2>6
  <2>8. Imports(s, V, new, h, n + 1)
    <3> HIDE DEF h
    <3> QED
      BY <2>7 DEF Imports, B
  <2> QED
    BY <2>0, <2>8
<1>3. 0 .. size \subseteq S
  <2> HIDE DEF S, size
  <2> QED
    BY <1>0, <1>1, <1>2, Upwards
<1>4. size \in 0 .. size
  BY <1>0
<1> QED
  BY <1>3, <1>4

\* What holds of no VEVENT, and of any with one more, holds of all of them.
LEMMA OneByOne ==
  ASSUME NEW V, IsFiniteSet(V), NEW Z, {} \in Z,
         \A T \in SUBSET V : T # {} => \E v \in T : T \ {v} \in Z => T \in Z
  PROVE  V \in Z
<1> DEFINE size == Cardinality(V)
           S == {n \in Nat : \A T \in SUBSET V : Cardinality(T) <= n => T \in Z}
<1>0. size \in Nat
  BY FS_CardinalityType
<1>1. 0 \in S
  <2>1. ASSUME NEW T \in SUBSET V, Cardinality(T) <= 0 PROVE T = {}
    <3>1. SUFFICES ASSUME T # {} PROVE FALSE
      OBVIOUS
    <3>2. Cardinality(T) \in Nat /\ Cardinality(T) # 0
      BY <3>1, OneLess
    <3> QED
      BY <2>1, <3>2
  <2> QED
    BY <2>1
<1>2. ASSUME NEW n \in 0 .. size - 1, n \in S PROVE n + 1 \in S
  <2>0. n \in Nat /\ n + 1 \in Nat
    BY <1>0
  <2>1. ASSUME NEW T \in SUBSET V, Cardinality(T) <= n + 1 PROVE T \in Z
    <3>1. CASE T = {}
      BY <3>1
    <3>2. CASE T # {}
      <4>1. PICK v \in T : T \ {v} \in Z => T \in Z
        BY <3>2
      <4>2. IsFiniteSet(T)
        BY FS_Subset
      <4>3. Cardinality(T) \in Nat /\ Cardinality(T \ {v}) = Cardinality(T) - 1
        BY <4>2, FS_CardinalityType, FS_RemoveElement
      <4>4. Cardinality(T \ {v}) <= n /\ T \ {v} \in SUBSET V
        BY <2>0, <2>1, <4>3
      <4> QED
        BY <1>2, <4>1, <4>4
    <3> QED
      BY <3>1, <3>2
  <2> QED
    BY <2>0, <2>1
<1>3. 0 .. size \subseteq S
  <2> HIDE DEF S, size
  <2> QED
    BY <1>0, <1>1, <1>2, Upwards
<1> QED
  BY <1>0, <1>3

\* F[T] is what the operation has come to after the VEVENTs of T.
Progress(F, s, V, new) ==
  /\ F[{}] = s
  /\ \A T \in SUBSET V : T # {} => \E v \in T : F[T] = ImportVEvent(F[T \ {v}], v, new)

LEMMA ImportAllProgresses ==
  ASSUME NEW s, NEW V, IsFiniteSet(V), NEW new
  PROVE  \E F : Progress(F, s, V, new) /\ ImportAll(s, V, new) = F[V]
<1> DEFINE size == Cardinality(V)
           Def(g, T) == IF T = {} THEN s ELSE ImportVEvent(g[T \ {One(T)}], One(T), new)
           F == CHOOSE f : f = [T \in SUBSET V |-> Def(f, T)]
<1>0. size \in Nat
  BY FS_CardinalityType
<1>1. ImportAll(s, V, new) = F[V]
  BY DEF ImportAll, FoldSet, MapThenFoldSet, ImportVEvent, One
<1>2. F = [T \in SUBSET V |-> Def(F, T)]
  <2>1. PICK f : Imports(s, V, new, f, size)
    BY ImportsExist
  <2>2. {T \in SUBSET V : Cardinality(T) <= size} = SUBSET V
    BY FS_Subset
  <2>3. f = [T \in SUBSET V |-> Def(f, T)]
    BY <2>1, <2>2 DEF Imports
  <2> HIDE DEF Def
  <2> QED
    BY <2>3
<1> HIDE DEF F
<1>3. F[{}] = s
  BY <1>2
<1>4. ASSUME NEW T \in SUBSET V, T # {}
      PROVE  \E v \in T : F[T] = ImportVEvent(F[T \ {v}], v, new)
  <2>1. One(T) \in T
    BY <1>4, OneLess
  <2>2. F[T] = ImportVEvent(F[T \ {One(T)}], One(T), new)
    BY <1>2, <1>4
  <2> QED
    BY <2>1, <2>2
<1>5. Progress(F, s, V, new)
  BY <1>3, <1>4 DEF Progress
<1> QED
  BY <1>1, <1>5

LEMMA ImportAllFine ==
  ASSUME NEW s, OperationFine(s), NEW V, IsFiniteSet(V), NEW new,
         \A v \in V : IsVEvent(v) /\ HasId(v, new)
  PROVE  SameDevice(s, ImportAll(s, V, new))
<1>1. PICK F : Progress(F, s, V, new) /\ ImportAll(s, V, new) = F[V]
  BY ImportAllProgresses
<1> DEFINE Z == {T \in SUBSET V : SameDevice(s, F[T])}
<1>2. {} \in Z
  BY <1>1 DEF Progress, SameDevice
<1>3. ASSUME NEW T \in SUBSET V, T # {} PROVE \E v \in T : T \ {v} \in Z => T \in Z
  <2>1. PICK v \in T : F[T] = ImportVEvent(F[T \ {v}], v, new)
    BY <1>1, <1>3 DEF Progress
  <2>2. ASSUME SameDevice(s, F[T \ {v}]) PROVE SameDevice(s, F[T])
    <3>1. SameDevice(F[T \ {v}], F[T])
      BY <2>1, <2>2, ImportVEventFine DEF SameDevice
    <3> QED
      BY <2>2, <3>1 DEF SameDevice
  <2> QED
    BY <2>2
<1>4. V \in Z
  <2> HIDE DEF Z
  <2> QED
    BY <1>2, <1>3, OneByOne
<1> QED
  BY <1>1, <1>4

LEMMA ImportFine ==
  ASSUME DevicesFine, FileFine(file), NEW d \in Devices, Import(d)
  PROVE  AppInv' /\ Local(d)
<1>1. PICK left \in Lives, new \in IF OwnIds THEN {Gone} ELSE Events \ Used :
        /\ Commit(d, ImportIcs(Begin(d, left), new))
        /\ Forget
        /\ UNCHANGED file
  BY DEF Import
<1> DEFINE s == Begin(d, left)
           bases == {v \in file : v.rid = NoRid}
           first == ImportAll(s, bases, new)
           overrides == {v \in file : v.rid # NoRid /\ HasBase(s.dev, v)}
           w == ImportAll(first, overrides, new)
<1>2. \A v \in file : IsVEvent(v) /\ HasId(v, new)
  <2>1. CASE OwnIds
    BY <2>1 DEF OwnIds, HasId, IdOf, FileFine
  <2>2. CASE ~ OwnIds
    <3>1. new \in Events
      BY <2>2
    <3> QED
      BY <3>1 DEF HasId, IdOf, FileFine
  <2> QED
    BY <2>1, <2>2
<1>3. IsFiniteSet(bases) /\ IsFiniteSet(overrides)
  <2>1. IsFiniteSet(file) /\ bases \in SUBSET file /\ overrides \in SUBSET file
    BY DEF FileFine
  <2> HIDE DEF bases, overrides
  <2> QED
    BY <2>1, FS_Subset
<1>4. /\ \A v \in bases : IsVEvent(v) /\ HasId(v, new)
      /\ \A v \in overrides : IsVEvent(v) /\ HasId(v, new)
  BY <1>2
<1>5. OperationFine(s) /\ s.dev = d
  BY BeginFine
<1>6. Commit(d, w)
  BY <1>1 DEF ImportIcs
<1> HIDE DEF s, bases, overrides
<1>7. SameDevice(s, first)
  BY <1>3, <1>4, <1>5, ImportAllFine
<1> HIDE DEF first
<1>8. SameDevice(first, w)
  BY <1>3, <1>4, <1>7, ImportAllFine DEF SameDevice
<1> HIDE DEF w
<1>9. DevicesFine' /\ Local(d)
  BY <1>5, <1>6, <1>7, <1>8, CommitFine DEF SameDevice
<1> QED
  BY <1>1, <1>9, NothingIsKept DEF AppInv

-----------------------------------------------------------------------------
(* A second import.  What a whole import leaves is what the next one finds: *)
(* every event of the file is removed, or the dialog's business, or as the  *)
(* file says.                                                               *)

\* The records d has, counted off.
Has(d, r) == \E p \in Devices : \E n \in 1 .. applied[d][p] : r = log[p][n]

\* What is history of an event.
HistoryRead ==
  \A d \in Devices : \A e : \A r :
    r \in EventHistory(d, e) <=> Has(d, r) /\ r.type = "event" /\ r.event = e

LEMMA HistoryIs == DevicesFine => HistoryRead
<1> SUFFICES ASSUME DevicesFine, NEW d \in Devices, NEW e, NEW r
             PROVE  r \in EventHistory(d, e) <=> Has(d, r) /\ r.type = "event" /\ r.event = e
  BY DEF HistoryRead
<1>1. \A p \in Devices : /\ DOMAIN log[p] = 1 .. Len(log[p]) /\ Len(log[p]) \in Nat
                         /\ applied[d][p] \in Nat /\ applied[d][p] <= Len(log[p])
  <2>1. ASSUME NEW p \in Devices PROVE DOMAIN log[p] = 1 .. Len(log[p]) /\ Len(log[p]) \in Nat
    <3>1. PICK S : log[p] \in Seq(S)
      BY DEF DevicesFine, LogFine
    <3> QED
      BY <3>1
  <2> QED
    BY <2>1 DEF DevicesFine
<1>2. \A i : i \in AllRecords <=> \E p \in Devices : \E n \in DOMAIN log[p] : i = <<p, n>>
  BY DEF AllRecords
<1>3. \A i : i \in History(d) <=>
        \E p \in Devices : \E n \in 1 .. applied[d][p] : i = <<p, n>>
  BY <1>1, <1>2 DEF History
<1>4. \A p, n : Rec(<<p, n>>) = log[p][n]
  BY DEF Rec
<1>5. (\E i \in History(d) : r = Rec(i)) <=> Has(d, r)
  <2>1. ASSUME NEW i \in History(d), r = Rec(i) PROVE Has(d, r)
    <3>1. PICK p \in Devices : \E n \in 1 .. applied[d][p] : i = <<p, n>>
      BY <1>3
    <3>2. PICK n \in 1 .. applied[d][p] : i = <<p, n>>
      BY <3>1
    <3>3. r = log[p][n]
      BY <1>4, <2>1, <3>2
    <3> QED
      BY <3>3 DEF Has
  <2>2. ASSUME Has(d, r) PROVE \E i \in History(d) : r = Rec(i)
    <3>1. PICK p \in Devices : \E n \in 1 .. applied[d][p] : r = log[p][n]
      BY <2>2 DEF Has
    <3>2. PICK n \in 1 .. applied[d][p] : r = log[p][n]
      BY <3>1
    <3>3. <<p, n>> \in History(d) /\ r = Rec(<<p, n>>)
      BY <1>3, <1>4, <3>2
    <3> QED
      BY <3>3
  <2> QED
    BY <2>1, <2>2
<1>6. r \in EventHistory(d, e) <=> (\E i \in History(d) : r = Rec(i)) /\ r.type = "event" /\ r.event = e
  BY DEF EventHistory
<1> QED
  BY <1>5, <1>6

LEMMA HistoryIsThen == DevicesFine' => HistoryRead'
BY HistoryIs, PTL

\* What a device has applied does not change when the logs grow.
LEMMA RemovalsStay ==
  ASSUME DevicesFine, DevicesFine', NEW d \in Devices, applied'[d] = applied[d],
         \A p \in Devices : Continues(log'[p], log[p]), NEW e
  PROVE  Tombstoned(d, e)' <=> Tombstoned(d, e)
<1>1. \A p \in Devices : \A n \in 1 .. applied[d][p] : log'[p][n] = log[p][n]
  <2>1. ASSUME NEW p \in Devices, NEW n \in 1 .. applied[d][p] PROVE n \in 1 .. Len(log[p])
    <3>1. Len(log[p]) \in Nat /\ applied[d][p] \in Nat /\ applied[d][p] <= Len(log[p])
      BY LogReads DEF DevicesFine
    <3> QED
      BY <3>1
  <2> QED
    BY <2>1 DEF Continues
<1>2. \A r : r \in EventHistory(d, e)' <=> r \in EventHistory(d, e)
  BY <1>1, HistoryIs, HistoryIsThen DEF HistoryRead, Has
<1> QED
  BY <1>2 DEF Tombstoned

\* An operation that removes nothing, and writes nothing about what was removed,
\* leaves the same events removed.
LEMMA RemovalsStayHere ==
  ASSUME DevicesFine, DevicesFine', NEW d \in Devices, NEW s, OperationFine(s), s.dev = d, Calm(s),
         Commit(d, s), NEW e
  PROVE  Tombstoned(d, e)' <=> Tombstoned(d, e)
<1>1. /\ log'[d] = s.log /\ \A p \in Devices \ {d} : log'[p] = log[p]
      /\ applied'[d][d] = Len(s.log) /\ \A p \in Devices \ {d} : applied'[d][p] = applied[d][p]
  <2>1. log' = [log EXCEPT ![d] = s.log] /\ applied' = [applied EXCEPT ![d][d] = Len(s.log)]
    BY DEF Commit
  <2>2. DOMAIN log = Devices /\ DOMAIN applied = Devices /\ DOMAIN applied[d] = Devices
    BY DEF DevicesFine
  <2> QED
    BY <2>1, <2>2
<1>2. /\ applied[d][d] = Len(log[d]) /\ Len(log[d]) \in Nat /\ Len(s.log) \in Nat
      /\ Len(log[d]) <= Len(s.log) /\ \A n \in 1 .. Len(log[d]) : s.log[n] = log[d][n]
  BY LogReads DEF DevicesFine, OperationFine, Continues
<1> DEFINE New(r) == \E n \in 1 .. Len(s.log) : n > Len(log[d]) /\ r = s.log[n]
<1>3. ASSUME NEW r
      PROVE  (\E p \in Devices : \E n \in 1 .. applied'[d][p] : r = log'[p][n])
               <=> (\E p \in Devices : \E n \in 1 .. applied[d][p] : r = log[p][n]) \/ New(r)
  <2>1. ASSUME NEW p \in Devices, NEW n \in 1 .. applied'[d][p], r = log'[p][n]
        PROVE  (\E q \in Devices : \E m \in 1 .. applied[d][q] : r = log[q][m]) \/ New(r)
    <3>1. CASE p # d
      BY <1>1, <2>1, <3>1
    <3>2. CASE p = d
      <4>1. n \in 1 .. Len(s.log) /\ r = s.log[n]
        BY <1>1, <2>1, <3>2
      <4>2. CASE n > Len(log[d])
        BY <4>1, <4>2
      <4>3. CASE ~ (n > Len(log[d]))
        <5>1. n \in 1 .. applied[d][d] /\ r = log[d][n]
          BY <1>2, <4>1, <4>3
        <5> QED
          BY <5>1
      <4> QED
        BY <4>2, <4>3
    <3> QED
      BY <3>1, <3>2
  <2>2. ASSUME NEW p \in Devices, NEW n \in 1 .. applied[d][p], r = log[p][n]
        PROVE  \E q \in Devices : \E m \in 1 .. applied'[d][q] : r = log'[q][m]
    <3>1. CASE p # d
      BY <1>1, <2>2, <3>1
    <3>2. CASE p = d
      <4>1. n \in 1 .. applied'[d][d] /\ r = log'[d][n]
        BY <1>1, <1>2, <2>2, <3>2
      <4> QED
        BY <4>1
    <3> QED
      BY <3>1, <3>2
  <2>3. New(r) => \E q \in Devices : \E m \in 1 .. applied'[d][q] : r = log'[q][m]
    BY <1>1
  <2> QED
    BY <2>1, <2>2, <2>3
<1>4. \A r : r \in EventHistory(d, e)' <=>
               r \in EventHistory(d, e) \/ (New(r) /\ r.type = "event" /\ r.event = e)
  <2> HIDE DEF New
  <2> QED
    BY <1>3, HistoryIs, HistoryIsThen DEF HistoryRead, Has
<1>5. \A r : New(r) /\ r.type = "event" => r.value # Gone /\ ~ Tombstoned(d, r.event)
  BY DEF Calm, Harmless
<1> HIDE DEF New
<1>6. ASSUME Tombstoned(d, e) PROVE Tombstoned(d, e)'
  <2>1. \A r : r \in EventHistory(d, e)' <=> r \in EventHistory(d, e)
    BY <1>4, <1>5, <1>6
  <2> QED
    BY <1>6, <2>1 DEF Tombstoned
<1>7. ASSUME Tombstoned(d, e)' PROVE Tombstoned(d, e)
  <2>1. PICK r \in EventHistory(d, e)' :
          r.value = Gone /\ \A q \in EventHistory(d, e)' : q.hlc <= r.hlc
    BY <1>7 DEF Tombstoned
  <2>2. r \in EventHistory(d, e)
    BY <1>4, <1>5, <2>1
  <2> QED
    BY <1>4, <2>1, <2>2 DEF Tombstoned
<1> QED
  BY <1>6, <1>7

-----------------------------------------------------------------------------
(* What each VEVENT of the file makes of the tables.                       *)

\* The tables t with that override of e.
WithOverride(t, e, rid, row) == [t EXCEPT !.override[e] = Put(@, rid, row)]

LEMMA PutOverride ==
  ASSUME NEW t, TablesFine(t), NEW e \in Events, NEW rid, NEW row
  PROVE  LET u == WithOverride(t, e, rid, row)
         IN  /\ OverrideOf(u, e, rid) = row
             /\ \A x \in Events : \A r \in Int :
                  x # e \/ r # rid => OverrideOf(u, x, r) = OverrideOf(t, x, r)
<1> DEFINE o == t.override[e]
           n == Put(o, rid, row)
           u == [t EXCEPT !.override[e] = Put(@, rid, row)]
<1>1. u.override = [t.override EXCEPT ![e] = n]
  BY DEF TablesFine, TableType
<1>2. DOMAIN n = DOMAIN o \cup {rid} /\ \A q \in DOMAIN n : n[q] = IF q = rid THEN row ELSE o[q]
  BY DEF Put
<1> HIDE DEF n, u
<1>3. \A x \in Events : u.override[x] = IF x = e THEN n ELSE t.override[x]
  BY <1>1 DEF TablesFine, TableType
<1>4. OverrideOf(u, e, rid) = row
  BY <1>2, <1>3 DEF OverrideOf
<1>5. ASSUME NEW x \in Events, NEW r \in Int, x # e \/ r # rid
      PROVE  OverrideOf(u, x, r) = OverrideOf(t, x, r)
  <2>1. CASE x = e
    <3>1. u.override[x] = n /\ t.override[x] = o /\ r # rid
      BY <1>3, <1>5, <2>1
    <3> HIDE DEF o
    <3> QED
      BY <1>2, <3>1 DEF OverrideOf
  <2>2. CASE x # e
    BY <1>3, <2>2 DEF OverrideOf
  <2> QED
    BY <2>1, <2>2
<1> QED
  BY <1>4, <1>5 DEF u, WithOverride

LEMMA PutAgain ==
  ASSUME NEW t, TablesFine(t), NEW e \in Events, NEW rid, NEW row
  PROVE  LET u == WithOverride(t, e, rid, row)
         IN  WithOverride(u, e, rid, row) = u
<1> DEFINE o == t.override[e]
           n == Put(o, rid, row)
           u == [t EXCEPT !.override[e] = Put(@, rid, row)]
<1>1. t = [event |-> t.event, series |-> t.series, override |-> t.override, reminder |-> t.reminder]
  BY DEF TablesFine, TableType
<1>2. Put(n, rid, row) = n
  BY DEF Put
<1>3. u = [event |-> t.event, series |-> t.series, override |-> [t.override EXCEPT ![e] = n],
           reminder |-> t.reminder]
  BY <1>1
<1> HIDE DEF n, u
<1>4. u.override = [t.override EXCEPT ![e] = n] /\ u.override[e] = n
  BY <1>3 DEF TablesFine, TableType
<1>5. [u EXCEPT !.override[e] = Put(@, rid, row)] = [u EXCEPT !.override = [u.override EXCEPT ![e] = n]]
  BY <1>2, <1>3, <1>4
<1>6. [u.override EXCEPT ![e] = n] = u.override
  BY <1>4 DEF TablesFine, TableType
<1>7. [u EXCEPT !.override = u.override] = u
  BY <1>3
<1> QED
  BY <1>5, <1>6, <1>7 DEF u, WithOverride

\* After the merged row is written nothing of the patch is wanted any more.
LEMMA MergedWantsNothing ==
  ASSUME NEW old \in PatchType, NEW patch \in PatchType
  PROVE  LET wanted == Wanted(old, patch)
         IN  Wanted([f \in DOMAIN old |-> IF f \in wanted THEN patch[f] ELSE old[f]], patch) = {}
BY DEF Wanted, PatchType

LEMMA UpdateOccurrenceTakes ==
  ASSUME NEW s, OperationFine(s), NEW e \in Events, NEW rid \in Int, rid # NoRid,
         NEW patch \in PatchType
  PROVE  LET v == UpdateOccurrence(s, e, rid, patch)
         IN  /\ \A x \in Events : \A r \in Int :
                  x # e \/ r # rid => OverrideOf(v.tables, x, r) = OverrideOf(s.tables, x, r)
             /\ ~ v.cut => \/ s.tables.series[e] = Gone
                           \/ Wanted(OverrideOf(v.tables, e, rid), patch) = {}
<1> DEFINE old    == OverrideOf(s.tables, e, rid)
           wanted == Wanted(old, patch)
           merged == [f \in DOMAIN old |-> IF f \in wanted THEN patch[f] ELSE old[f]]
           u      == WithOverride(s.tables, e, rid, merged)
           Field(t, f) ==
             IF f \notin wanted THEN t
             ELSE T1(t, Record(t, "occurrence_override", e, <<rid, f>>, patch[f]),
                     [t.tables EXCEPT !.override[e] = Put(@, rid, merged)])
           Half(t)  == SameSeries(s, t) /\ t.tables \in {s.tables, u}
           Exact(t) == ~ t.cut => t.tables = u
           a == Field(s, "cancelled")
           b == Field(a, "title")
           c == Field(b, "wall")
<1>1. CASE s.tables.series[e] = Gone
  <2>1. UpdateOccurrence(s, e, rid, patch) = s
    BY <1>1 DEF UpdateOccurrence
  <2> QED
    BY <1>1, <2>1
<1>2. CASE s.tables.series[e] # Gone
  <2>1. UpdateOccurrence(s, e, rid, patch) = c
    BY <1>2 DEF UpdateOccurrence
  <2>2. old \in PatchType /\ merged \in PatchType
    BY OverrideOfFine, MergedFine DEF OperationFine
  <2>3. Wanted(merged, patch) = {}
    BY <2>2, MergedWantsNothing
  <2>0. TablesFine(s.tables)
    BY DEF OperationFine
  <2>4. WithOverride(u, e, rid, merged) = u
    <3> HIDE DEF merged
    <3> QED
      BY <2>0, PutAgain
  <2>5. wanted = {} => OverrideOf(s.tables, e, rid) = old /\ Wanted(old, patch) = {}
    OBVIOUS
  <2>6. wanted \subseteq {"cancelled", "title", "wall"}
    BY DEF Wanted, PatchType
  <2> HIDE DEF merged
  <2>7. /\ OverrideOf(u, e, rid) = merged
        /\ \A x \in Events : \A r \in Int :
             x # e \/ r # rid => OverrideOf(u, x, r) = OverrideOf(s.tables, x, r)
    BY <2>0, PutOverride
  <2> HIDE DEF wanted, old, u
  <2>8. ASSUME NEW t, Half(t), NEW f
        PROVE  /\ Half(Field(t, f))
               /\ f \in wanted => Exact(Field(t, f))
               /\ f \notin wanted => Field(t, f) = t
    <3>1. CASE f \notin wanted
      BY <2>8, <3>1
    <3>2. CASE f \in wanted
      <4> DEFINE n == [t.tables EXCEPT !.override[e] = Put(@, rid, merged)]
                 w == T1(t, Record(t, "occurrence_override", e, <<rid, f>>, patch[f]), n)
      <4>1. n = u
        BY <2>4, <2>8 DEF u, WithOverride
      <4>2. SameSeries(s, w) /\ w.tables \in {t.tables, n} /\ (~ w.cut => w.tables = n)
        BY <1>2, <2>2, <2>8, PatchFine
      <4>3. Field(t, f) = w
        BY <3>2
      <4> HIDE DEF n, w, Field
      <4>4. Half(w) /\ Exact(w)
        BY <2>8, <4>1, <4>2
      <4> QED
        BY <3>2, <4>3, <4>4
    <3> QED
      BY <3>1, <3>2
  <2> HIDE DEF Field
  <2>9. Half(s)
    BY DEF SameSeries
  <2>10. /\ Half(a)
         /\ "cancelled" \in wanted => Exact(a)
         /\ "cancelled" \notin wanted => a = s
    BY <2>8, <2>9
  <2> HIDE DEF a
  <2>11. /\ Half(b)
         /\ "title" \in wanted => Exact(b)
         /\ "title" \notin wanted => b = a
    BY <2>8, <2>10
  <2> HIDE DEF b
  <2>12. /\ Half(c)
         /\ "wall" \in wanted => Exact(c)
         /\ "wall" \notin wanted => c = b
    BY <2>8, <2>11
  <2> HIDE DEF c
  <2>13. wanted # {} => Exact(c)
    BY <2>6, <2>10, <2>11, <2>12
  <2>14. wanted = {} => c = s
    BY <2>10, <2>11, <2>12
  <2>15. ~ c.cut => Wanted(OverrideOf(c.tables, e, rid), patch) = {}
    BY <2>3, <2>5, <2>7, <2>13, <2>14
  <2> QED
    BY <2>1, <2>7, <2>12, <2>15
<1> QED
  BY <1>1, <1>2

\* The tables t and u agree on the event and the rule of e.
SameRows(t, u, e) == t.event[e] = u.event[e] /\ t.series[e] = u.series[e]

\* An import leaves alone what the device removed, and a single event that the
\* file has as a series.
Skipped(d, v) ==
  \/ Tombstoned(d, v.uid)
  \/ LiveId(d, v.uid) /\ db[d].series[v.uid] = Gone /\ PlannedRule(v) # Gone

\* The tables t have of the base v what an import at d makes of it.
Taken(d, t, v) ==
  IF Skipped(d, v) THEN SameRows(t, db[d], v.uid)
  ELSE /\ t.event[v.uid] = Row(v.title, v.day)
       /\ t.series[v.uid] = IF PlannedRule(v) = Gone THEN db[d].series[v.uid] ELSE PlannedRule(v)

LEMMA ImportBaseTakes ==
  ASSUME DevicesFine, NEW d \in Devices, NEW s, OperationFine(s), s.dev = d,
         NEW v, IsVEvent(v), v.rid = NoRid, v.uid \in Events, SameRows(s.tables, db[d], v.uid)
  PROVE  LET w == ImportBase(s, v, Gone)
         IN  /\ OperationFine(w) /\ w.dev = d
             /\ Calm(s) => Calm(w)
             /\ ~ w.cut => ~ s.cut /\ Taken(d, w.tables, v)
             /\ \A x \in Events : x # v.uid => SameRows(w.tables, s.tables, x)
<1> DEFINE e == v.uid
           row == Row(v.title, v.day)
           rule == PlannedRule(v)
           series == db[d].series[e] # Gone
           updated == UpdateEvent(s, e, row)
           ruled == UpdateSeriesRule(updated, e, rule)
           created == CreateEvent(s, e, row, rule)
           w == ImportBase(s, v, Gone)
           Takes(t) == /\ OperationFine(t) /\ t.dev = d
                       /\ Calm(s) => Calm(t)
                       /\ ~ t.cut => ~ s.cut /\ Taken(d, t.tables, v)
                       /\ \A x \in Events : x # v.uid => SameRows(t.tables, s.tables, x)
<1>0. IdOf(v.uid, Gone) = e /\ s.dev = d
  BY DEF IdOf
<1>1. e \in Events /\ row \in RowType /\ rule \in RuleType \cup {Gone}
  BY RowFine DEF IsVEvent, PlannedRule
<1>2. SameRows(s.tables, db[d], e) /\ TablesFine(db[d])
  BY DEF DevicesFine
<1>3. CASE Skipped(d, v)
  <2>1. w = s
    <3>1. CASE Tombstoned(d, e)
      BY <1>0, <3>1 DEF ImportBase, LiveId
    <3>2. CASE ~ Tombstoned(d, e)
      BY <1>0, <1>3, <3>2 DEF ImportBase, Skipped
    <3> QED
      BY <3>1, <3>2
  <2>2. Takes(s)
    BY <1>2, <1>3 DEF Taken, SameRows
  <2> QED
    BY <2>1, <2>2
<1>4. CASE ~ Skipped(d, v) /\ LiveId(d, e)
  <2>0. ~ Tombstoned(d, e) /\ (series \/ rule = Gone) /\ db[d].event[e] # Gone
    BY <1>4 DEF Skipped, LiveId
  <2>1. w = IF rule = Gone THEN updated ELSE ruled
    BY <1>0, <1>4, <2>0 DEF ImportBase
  <2>2. /\ Updated(s, updated, e, row)
        /\ ~ updated.cut => updated.tables.event[e] = row
    BY <1>1, <1>2, <2>0, UpdateEventFine DEF SameRows
  <2> HIDE DEF updated, row, rule
  <2>3. /\ updated.tables.series = s.tables.series
        /\ \A x \in Events : x # e => updated.tables.event[x] = s.tables.event[x]
    BY <1>1, <2>2, UpdatedRow
  <2>4. OperationFine(updated) /\ updated.dev = d /\ (~ updated.cut => ~ s.cut)
        /\ (Calm(s) => Calm(updated))
    BY <2>0, <2>2 DEF Updated
  <2>5. CASE rule = Gone
    <3>1. ~ updated.cut => Taken(d, updated.tables, v)
      BY <1>2, <1>4, <2>2, <2>3, <2>5 DEF Taken, SameRows, row, rule
    <3>2. Takes(updated)
      BY <2>3, <2>4, <3>1 DEF SameRows
    <3> QED
      BY <2>1, <2>5, <3>2
  <2>6. CASE rule # Gone
    <3>1. /\ OperationFine(ruled) /\ ruled.dev = updated.dev
          /\ ruled.tables.event = updated.tables.event
          /\ \A x \in Events : x # e => ruled.tables.series[x] = updated.tables.series[x]
          /\ updated.tables.series[e] # Gone /\ ~ ruled.cut => ruled.tables.series[e] = rule
          /\ ~ ruled.cut => ~ updated.cut
          /\ Calm(updated) => Calm(ruled)
      BY <1>1, <2>4, <2>6, UpdateSeriesRuleFine
    <3> HIDE DEF ruled
    <3>2. updated.tables.series[e] # Gone
      BY <1>2, <2>0, <2>3, <2>6 DEF SameRows
    <3>3. ~ ruled.cut => Taken(d, ruled.tables, v)
      BY <1>4, <2>2, <2>6, <3>1, <3>2 DEF Taken, row, rule
    <3>4. Takes(ruled)
      BY <2>3, <2>4, <3>1, <3>3 DEF SameRows
    <3> QED
      BY <2>1, <2>6, <3>4
  <2> QED
    BY <2>5, <2>6
<1>5. CASE ~ Skipped(d, v) /\ ~ LiveId(d, e)
  <2>0. ~ Tombstoned(d, e) /\ db[d].event[e] = Gone
    BY <1>5 DEF Skipped, LiveId
  <2>1. w = created
    BY <1>0, <1>5, <2>0 DEF ImportBase
  <2>2. /\ OperationFine(created) /\ created.dev = s.dev
        /\ \A x \in Events : x # e => /\ created.tables.event[x] = s.tables.event[x]
                                      /\ created.tables.series[x] = s.tables.series[x]
        /\ ~ created.cut => /\ ~ s.cut /\ created.tables.event[e] = row
                            /\ created.tables.series[e] = IF rule = Gone THEN s.tables.series[e] ELSE rule
        /\ Calm(s) => Calm(created)
    BY <1>1, <2>0, CreateEventFine
  <2> HIDE DEF created
  <2>3. ~ created.cut => Taken(d, created.tables, v)
    BY <1>2, <1>5, <2>2 DEF Taken, SameRows
  <2>4. Takes(created)
    BY <2>2, <2>3 DEF SameRows
  <2> QED
    BY <2>1, <2>4
<1> QED
  BY <1>3, <1>4, <1>5

\* The bases of the file, one by one.
LEMMA BasesAreTaken ==
  ASSUME DevicesFine, NEW d \in Devices, NEW s, OperationFine(s), s.dev = d, s.tables = db[d],
         Calm(s), NEW V, IsFiniteSet(V), OneEach(V),
         \A v \in V : IsVEvent(v) /\ v.rid = NoRid /\ v.uid \in Events
  PROVE  LET w == ImportAll(s, V, Gone)
         IN  /\ OperationFine(w) /\ w.dev = d /\ Calm(w)
             /\ ~ w.cut => \A v \in V : Taken(d, w.tables, v)
             /\ \A x \in Events : (\A v \in V : v.uid # x) => SameRows(w.tables, db[d], x)
<1>1. PICK F : Progress(F, s, V, Gone) /\ ImportAll(s, V, Gone) = F[V]
  BY ImportAllProgresses
<1> DEFINE Done(T) ==
             /\ OperationFine(F[T]) /\ F[T].dev = d /\ Calm(F[T])
             /\ ~ F[T].cut => \A v \in T : Taken(d, F[T].tables, v)
             /\ \A x \in Events : (\A v \in T : v.uid # x) => SameRows(F[T].tables, db[d], x)
           Z == {T \in SUBSET V : Done(T)}
<1>2. {} \in Z
  BY <1>1 DEF Progress, SameRows
<1>3. ASSUME NEW T \in SUBSET V, T # {} PROVE \E v \in T : T \ {v} \in Z => T \in Z
  <2>1. PICK v \in T : F[T] = ImportVEvent(F[T \ {v}], v, Gone)
    BY <1>1, <1>3 DEF Progress
  <2>2. ASSUME Done(T \ {v}) PROVE Done(T)
    <3> DEFINE t == F[T \ {v}]
               w == F[T]
    <3>1. w = ImportBase(t, v, Gone)
      BY <2>1 DEF ImportVEvent
    <3>2. \A x \in T \ {v} : x.uid # v.uid
      BY DEF OneEach
    <3>3. OperationFine(t) /\ t.dev = d /\ Calm(t) /\ SameRows(t.tables, db[d], v.uid)
      BY <2>2, <3>2
    <3>4. IsVEvent(v) /\ v.rid = NoRid /\ v.uid \in Events
      OBVIOUS
    <3>5. /\ OperationFine(w) /\ w.dev = d /\ Calm(w)
          /\ ~ w.cut => ~ t.cut /\ Taken(d, w.tables, v)
          /\ \A x \in Events : x # v.uid => SameRows(w.tables, t.tables, x)
      <4> HIDE DEF t, w
      <4> QED
        BY <3>1, <3>3, <3>4, ImportBaseTakes
    <3>6. ASSUME ~ w.cut, NEW x \in T PROVE Taken(d, w.tables, x)
      <4>1. CASE x = v
        BY <3>5, <3>6, <4>1
      <4>2. CASE x # v
        <5>1. Taken(d, t.tables, x) /\ x.uid # v.uid /\ x.uid \in Events
          BY <2>2, <3>2, <3>5, <3>6, <4>2
        <5>2. SameRows(w.tables, t.tables, x.uid)
          BY <3>5, <5>1
        <5> HIDE DEF t, w
        <5> QED
          BY <5>1, <5>2 DEF Taken, SameRows
      <4> QED
        BY <4>1, <4>2
    <3>7. ASSUME NEW x \in Events, \A y \in T : y.uid # x PROVE SameRows(w.tables, db[d], x)
      <4>1. SameRows(t.tables, db[d], x) /\ SameRows(w.tables, t.tables, x)
        BY <2>2, <3>5, <3>7
      <4> QED
        BY <4>1 DEF SameRows
    <3> QED
      BY <3>5, <3>6, <3>7
  <2> QED
    BY <2>2
<1>4. V \in Z
  <2> HIDE DEF Z
  <2> QED
    BY <1>2, <1>3, OneByOne
<1> QED
  BY <1>1, <1>4

\* There is nothing in the override v that the tables t do not say.
PatchIsDone(t, v) ==
  t.series[v.uid] = Gone \/ Wanted(OverrideOf(t, v.uid, v.rid), PlannedPatch(v)) = {}

\* The overrides of the file, one by one.
LEMMA OverridesAreTaken ==
  ASSUME NEW s, OperationFine(s), NEW V, IsFiniteSet(V), OneEach(V),
         \A v \in V : IsVEvent(v) /\ v.rid # NoRid /\ v.uid \in Events
  PROVE  LET w == ImportAll(s, V, Gone)
         IN  SameSeries(s, w) /\ (~ w.cut => \A v \in V : PatchIsDone(w.tables, v))
<1>1. PICK F : Progress(F, s, V, Gone) /\ ImportAll(s, V, Gone) = F[V]
  BY ImportAllProgresses
<1> DEFINE Done(T) == SameSeries(s, F[T]) /\ (~ F[T].cut => \A v \in T : PatchIsDone(F[T].tables, v))
           Z == {T \in SUBSET V : Done(T)}
<1>2. {} \in Z
  BY <1>1 DEF Progress, SameSeries
<1>3. ASSUME NEW T \in SUBSET V, T # {} PROVE \E v \in T : T \ {v} \in Z => T \in Z
  <2>1. PICK v \in T : F[T] = ImportVEvent(F[T \ {v}], v, Gone)
    BY <1>1, <1>3 DEF Progress
  <2>2. ASSUME Done(T \ {v}) PROVE Done(T)
    <3> DEFINE t == F[T \ {v}]
               w == F[T]
               patch == PlannedPatch(v)
    <3>1. w = UpdateOccurrence(t, v.uid, v.rid, patch)
      BY <2>1 DEF ImportVEvent, ImportOverride, IdOf
    <3>2. v.uid \in Events /\ v.rid \in Int /\ v.rid # NoRid /\ patch \in PatchType
      BY DEF IsVEvent, PlannedPatch, PatchType, ClockWall
    <3>3. SameSeries(s, t) /\ OperationFine(t)
      BY <2>2 DEF SameSeries
    <3>4. /\ SameSeries(t, w)
          /\ \A x \in Events : \A r \in Int :
               x # v.uid \/ r # v.rid => OverrideOf(w.tables, x, r) = OverrideOf(t.tables, x, r)
          /\ ~ w.cut => \/ t.tables.series[v.uid] = Gone
                        \/ Wanted(OverrideOf(w.tables, v.uid, v.rid), patch) = {}
      <4> HIDE DEF t, w, patch
      <4> QED
        BY <3>1, <3>2, <3>3, UpdateOccurrenceFine, UpdateOccurrenceTakes
    <3>5. SameSeries(s, w)
      BY <3>3, <3>4 DEF SameSeries
    <3>6. ASSUME ~ w.cut, NEW x \in T PROVE PatchIsDone(w.tables, x)
      <4>1. CASE x = v
        BY <3>4, <3>6, <4>1 DEF PatchIsDone, SameSeries
      <4>2. CASE x # v
        <5>1. x.uid \in Events /\ x.rid \in Int /\ (x.uid # v.uid \/ x.rid # v.rid)
          BY <4>2 DEF OneEach, IsVEvent
        <5>2. PatchIsDone(t.tables, x)
          BY <2>2, <3>4, <3>6, <4>2 DEF SameSeries
        <5> HIDE DEF t, w
        <5> QED
          BY <3>4, <5>1, <5>2 DEF PatchIsDone, SameSeries
      <4> QED
        BY <4>1, <4>2
    <3> QED
      BY <3>5, <3>6
  <2> QED
    BY <2>2
<1>4. V \in Z
  <2> HIDE DEF Z
  <2> QED
    BY <1>2, <1>3, OneByOne
<1> QED
  BY <1>1, <1>4

-----------------------------------------------------------------------------
(* A whole import settles the device, and an import at a settled device does *)
(* nothing.                                                                  *)

\* An event of the file is as an import leaves it.
BaseSettled(d, v) ==
  \/ Tombstoned(d, v.uid)
  \/ /\ LiveId(d, v.uid)
     /\ \/ db[d].series[v.uid] = Gone /\ PlannedRule(v) # Gone
        \/ /\ db[d].event[v.uid] = Row(v.title, v.day)
           /\ PlannedRule(v) \in {Gone, db[d].series[v.uid]}

Settled(d) ==
  \A v \in file : IF v.rid = NoRid THEN BaseSettled(d, v)
                  ELSE HasBase(d, v) => PatchIsDone(db[d], v)

\* What an import that is not cut off leaves.
LEMMA ImportSettles ==
  ASSUME DevicesFine, FileFine(file), OwnIds, NEW d \in Devices, Import(d), cuts' = cuts
  PROVE  Settled(d)'
<1>1. PICK left \in Lives :
        /\ Commit(d, ImportIcs(Begin(d, left), Gone))
        /\ UNCHANGED file
  BY DEF Import
<1> DEFINE s == Begin(d, left)
           bases == {v \in file : v.rid = NoRid}
           first == ImportAll(s, bases, Gone)
           overrides == {v \in file : v.rid # NoRid /\ HasBase(d, v)}
           w == ImportAll(first, overrides, Gone)
<1>2. OperationFine(s) /\ s.dev = d /\ s.tables = db[d] /\ Calm(s)
  BY BeginFine
<1>3. Commit(d, w)
  BY <1>1, <1>2 DEF ImportIcs
<1> HIDE DEF s
<1>4. /\ IsFiniteSet(bases) /\ OneEach(bases)
      /\ IsFiniteSet(overrides) /\ OneEach(overrides)
  <2>1. bases \in SUBSET file /\ overrides \in SUBSET file
    OBVIOUS
  <2> HIDE DEF bases, overrides
  <2>2. IsFiniteSet(bases) /\ IsFiniteSet(overrides)
    BY <2>1, FS_Subset DEF FileFine
  <2>3. OneEach(bases) /\ OneEach(overrides)
    BY <2>1 DEF FileFine, OneEach
  <2> QED
    BY <2>2, <2>3
<1>5. /\ \A v \in bases : IsVEvent(v) /\ v.rid = NoRid /\ v.uid \in Events
      /\ \A v \in overrides : IsVEvent(v) /\ v.rid # NoRid /\ v.uid \in Events
  BY DEF FileFine, OwnIds
<1>6. /\ OperationFine(first) /\ first.dev = d /\ Calm(first)
      /\ ~ first.cut => \A v \in bases : Taken(d, first.tables, v)
      /\ \A x \in Events : (\A v \in bases : v.uid # x) => SameRows(first.tables, db[d], x)
  <2> HIDE DEF bases
  <2> QED
    BY <1>2, <1>4, <1>5, BasesAreTaken
<1> HIDE DEF first
<1>7. SameSeries(first, w) /\ (~ w.cut => \A v \in overrides : PatchIsDone(w.tables, v))
  <2> HIDE DEF overrides
  <2> QED
    BY <1>4, <1>5, <1>6, OverridesAreTaken
<1> HIDE DEF w
<1>8. OperationFine(w) /\ w.dev = d /\ Calm(w) /\ (~ w.cut => ~ first.cut)
      /\ w.tables.event = first.tables.event /\ w.tables.series = first.tables.series
  BY <1>6, <1>7 DEF SameSeries
<1>9. DevicesFine' /\ db'[d] = w.tables /\ ~ w.cut
  BY <1>3, <1>8, CommitFine
<1>10. \A e : Tombstoned(d, e)' <=> Tombstoned(d, e)
  BY <1>3, <1>8, <1>9, RemovalsStayHere
<1>11. \A e \in Events : LiveId(d, e)' <=> w.tables.event[e] # Gone /\ ~ Tombstoned(d, e)
  BY <1>9, <1>10 DEF LiveId
<1>12. ASSUME NEW v \in bases PROVE BaseSettled(d, v)'
  <2>1. Taken(d, w.tables, v) /\ v.uid \in Events /\ IsVEvent(v)
    BY <1>5, <1>6, <1>8, <1>9 DEF Taken, SameRows
  <2>2. CASE Tombstoned(d, v.uid)
    BY <1>10, <2>2 DEF BaseSettled
  <2>3. CASE ~ Tombstoned(d, v.uid) /\ Skipped(d, v)
    BY <1>9, <1>11, <2>1, <2>3 DEF BaseSettled, Skipped, Taken, SameRows, LiveId
  <2>4. CASE ~ Tombstoned(d, v.uid) /\ ~ Skipped(d, v)
    <3>1. w.tables.event[v.uid] # Gone
      BY <2>1, <2>4, NotGone, RowFine DEF Taken, IsVEvent
    <3> QED
      BY <1>9, <1>11, <2>1, <2>4, <3>1 DEF BaseSettled, Taken
  <2> QED
    BY <2>2, <2>3, <2>4
<1>13. ASSUME NEW v \in file, v.rid # NoRid, ~ HasBase(d, v), HasBase(d, v)'
       PROVE  db'[d].series[v.uid] = Gone
  <2>0. v.uid \in Events
    BY DEF OwnIds
  <2>1. LiveId(d, v.uid)'
    BY <1>1, <1>10, <1>13 DEF HasBase
  <2>2. w.tables.event[v.uid] # Gone /\ ~ Tombstoned(d, v.uid) /\ db[d].event[v.uid] = Gone
    BY <1>11, <1>13, <2>0, <2>1 DEF HasBase, LiveId
  <2>3. PICK b \in bases : b.uid = v.uid
    BY <1>6, <1>8, <2>0, <2>2 DEF SameRows
  <2>4. PlannedRule(b) = Gone
    BY <1>13, <2>2, <2>3 DEF HasBase
  <2>5. db[d].series[v.uid] = Gone
    BY <2>0, <2>2 DEF DevicesFine, TablesFine, Tied
  <2>6. first.tables.series[v.uid] = Gone
    BY <1>6, <1>8, <1>9, <2>3, <2>4, <2>5 DEF Taken, SameRows
  <2> QED
    BY <1>8, <1>9, <2>6
<1>14. ASSUME NEW v \in file, v.rid # NoRid, HasBase(d, v)' PROVE PatchIsDone(db'[d], v)
  <2>1. CASE HasBase(d, v)
    BY <1>7, <1>9, <1>14, <2>1
  <2>2. CASE ~ HasBase(d, v)
    BY <1>13, <1>14, <2>2 DEF PatchIsDone
  <2> QED
    BY <2>1, <2>2
<1> QED
  BY <1>1, <1>12, <1>14 DEF Settled, PatchIsDone

\* A device that no step touches stays settled.
LEMMA SettledStays ==
  ASSUME DevicesFine, DevicesFine', NEW d \in Devices, Settled(d), UNCHANGED file,
         db'[d] = db[d], applied'[d] = applied[d],
         \A p \in Devices : Continues(log'[p], log[p])
  PROVE  Settled(d)'
<1>1. \A e : Tombstoned(d, e)' <=> Tombstoned(d, e)
  BY RemovalsStay
<1>2. \A e : LiveId(d, e)' <=> LiveId(d, e)
  BY <1>1 DEF LiveId
<1>3. \A v : BaseSettled(d, v)' <=> BaseSettled(d, v)
  BY <1>1, <1>2 DEF BaseSettled
<1>4. \A v : HasBase(d, v)' <=> HasBase(d, v)
  BY <1>1, <1>2 DEF HasBase
<1>5. \A v : PatchIsDone(db[d], v)' <=> PatchIsDone(db[d], v)
  BY DEF PatchIsDone
<1> QED
  BY <1>3, <1>4, <1>5 DEF Settled

\* A settled device has nothing to take from the file.
LEMMA BaseIsQuiet ==
  ASSUME DevicesFine, NEW d \in Devices, NEW s, s.dev = d, s.tables = db[d],
         NEW v, v.uid \in Events, BaseSettled(d, v)
  PROVE  ImportBase(s, v, Gone) = s
<1> DEFINE e == v.uid
           rule == PlannedRule(v)
<1>0. IdOf(v.uid, Gone) = e
  BY DEF IdOf
<1>1. CASE Tombstoned(d, e) \/ (LiveId(d, e) /\ db[d].series[e] = Gone /\ rule # Gone)
  BY <1>0, <1>1 DEF ImportBase, LiveId
<1>2. CASE /\ ~ Tombstoned(d, e) /\ LiveId(d, e)
           /\ db[d].event[e] = Row(v.title, v.day) /\ rule \in {Gone, db[d].series[e]}
  <2>1. UpdateEvent(s, e, Row(v.title, v.day)) = s
    BY <1>2 DEF UpdateEvent
  <2>2. UpdateSeriesRule(s, e, db[d].series[e]) = s
    BY DEF UpdateSeriesRule
  <2> QED
    BY <1>0, <1>2, <2>1, <2>2 DEF ImportBase
<1> QED
  BY <1>1, <1>2 DEF BaseSettled

LEMMA OverrideIsQuiet ==
  ASSUME NEW d \in Devices, NEW s, s.tables = db[d],
         NEW v, v.uid \in Events, PatchIsDone(db[d], v)
  PROVE  ImportOverride(s, v, Gone) = s
<1>1. ImportOverride(s, v, Gone) = UpdateOccurrence(s, v.uid, v.rid, PlannedPatch(v))
  BY DEF ImportOverride, IdOf
<1>2. CASE s.tables.series[v.uid] = Gone
  BY <1>1, <1>2 DEF UpdateOccurrence
<1>3. CASE Wanted(OverrideOf(s.tables, v.uid, v.rid), PlannedPatch(v)) = {}
  BY <1>1, <1>3 DEF UpdateOccurrence
<1> QED
  BY <1>2, <1>3 DEF PatchIsDone

LEMMA QuietOneByOne ==
  ASSUME NEW s, NEW V, IsFiniteSet(V), \A v \in V : ImportVEvent(s, v, Gone) = s
  PROVE  ImportAll(s, V, Gone) = s
<1>1. PICK F : Progress(F, s, V, Gone) /\ ImportAll(s, V, Gone) = F[V]
  BY ImportAllProgresses
<1> DEFINE Z == {T \in SUBSET V : F[T] = s}
<1>2. {} \in Z
  BY <1>1 DEF Progress
<1>3. ASSUME NEW T \in SUBSET V, T # {} PROVE \E v \in T : T \ {v} \in Z => T \in Z
  <2>1. PICK v \in T : F[T] = ImportVEvent(F[T \ {v}], v, Gone)
    BY <1>1, <1>3 DEF Progress
  <2> QED
    BY <2>1
<1>4. V \in Z
  <2> HIDE DEF Z
  <2> QED
    BY <1>2, <1>3, OneByOne
<1> QED
  BY <1>1, <1>4

LEMMA SettledImport ==
  ASSUME DevicesFine, FileFine(file), OwnIds, NEW d \in Devices, Settled(d), NEW left
  PROVE  ImportIcs(Begin(d, left), Gone) = Begin(d, left)
<1> DEFINE s == Begin(d, left)
           bases == {v \in file : v.rid = NoRid}
           overrides == {v \in file : v.rid # NoRid /\ HasBase(d, v)}
<1>1. s.dev = d /\ s.tables = db[d]
  BY DEF Begin
<1>2. IsFiniteSet(bases) /\ IsFiniteSet(overrides)
  <2>1. IsFiniteSet(file) /\ bases \in SUBSET file /\ overrides \in SUBSET file
    BY DEF FileFine
  <2> HIDE DEF bases, overrides
  <2> QED
    BY <2>1, FS_Subset
<1>3. ImportIcs(s, Gone) = ImportAll(ImportAll(s, bases, Gone), overrides, Gone)
  BY <1>1 DEF ImportIcs
<1> HIDE DEF s
<1>4. ASSUME NEW v \in bases PROVE ImportVEvent(s, v, Gone) = s
  BY <1>1, BaseIsQuiet DEF Settled, OwnIds, ImportVEvent
<1>5. ASSUME NEW v \in overrides PROVE ImportVEvent(s, v, Gone) = s
  BY <1>1, OverrideIsQuiet DEF Settled, OwnIds, ImportVEvent
<1> HIDE DEF bases, overrides
<1>6. ImportAll(s, bases, Gone) = s /\ ImportAll(s, overrides, Gone) = s
  BY <1>2, <1>4, <1>5, QuietOneByOne
<1> QED
  BY <1>3, <1>6 DEF s

-----------------------------------------------------------------------------
(* The invariant, and what follows from it.                                *)

LEMMA AppStarts == AppInit => AppInv
<1> SUFFICES ASSUME AppInit PROVE AppInv
  OBVIOUS
<1>1. TablesFine(NoTables)
  <2>1. NoOverrides \in OverridesType /\ DOMAIN NoOverrides = {}
    <3>1. NoOverrides \in [{} -> PatchType]
      BY DEF NoOverrides
    <3> QED
      BY <3>1 DEF OverridesType
  <2>2. NoTables \in TableType
    BY <2>1 DEF NoTables, TableType
  <2>3. \A e \in Events : NoTables.series[e] = Gone /\ NoTables.override[e] = NoOverrides
    BY DEF NoTables
  <2>4. Tied(NoTables)
    BY <2>1, <2>3, FS_EmptySet DEF Tied
  <2> QED
    BY <2>2, <2>4 DEF TablesFine
<1>2. LogFine(<<>>) /\ Len(<<>>) = 0
  <2>1. \E S : <<>> \in Seq(S) /\ \A r \in S : RecordFine(r)
    <3> DEFINE Z == {}
    <3>1. <<>> \in Seq(Z) /\ \A r \in Z : RecordFine(r)
      OBVIOUS
    <3> HIDE DEF Z
    <3> QED
      BY <3>1
  <2>2. LogFine(<<>>)
    BY <2>1 DEF LogFine
  <2> QED
    BY <2>2
<1>3. DevicesFine
  BY <1>1, <1>2 DEF AppInit, CalInit, DevicesFine
<1>4. FileFine(file)
  BY AppAssumption DEF AppInit, FileFine
<1>5. ThePastIsKept
  BY DEF AppInit, ThePastIsKept
<1> QED
  BY <1>3, <1>4, <1>5 DEF AppInv

LEMMA AppStep == AppInv /\ [AppNext]_appVars => AppInv'
<1> SUFFICES ASSUME AppInv, [AppNext]_appVars PROVE AppInv'
  OBVIOUS
<1> USE DEF AppInv
<1>1. ASSUME NEW d \in Editors,
             UserCreate(d) \/ UserSaves(d) \/ UserCancels(d) \/ UserUpdates(d)
               \/ UserDrags(d) \/ Export(d) \/ Import(d)
      PROVE  AppInv'
  <2>0. d \in Devices
    BY AppAssumption
  <2>1. CASE UserCreate(d)
    BY <2>0, <2>1, UserCreateFine
  <2>2. CASE UserSaves(d)
    BY <2>0, <2>2, UserSavesFine
  <2>3. CASE UserCancels(d)
    BY <2>0, <2>3, UserCancelsFine
  <2>4. CASE UserUpdates(d)
    BY <2>0, <2>4, UserUpdatesFine
  <2>5. CASE UserDrags(d)
    BY <2>0, <2>5, UserDragsFine
  <2>6. CASE Export(d)
    <3>1. DevicesFine'
      BY <2>6 DEF Export, cal, DevicesFine
    <3>2. FileFine(file')
      BY <2>0, <2>6, ExportFine DEF Export, DevicesFine
    <3>3. ThePastIsKept'
      BY <2>6, NothingIsKept DEF Export
    <3> QED
      BY <3>1, <3>2, <3>3
  <2>7. CASE Import(d)
    BY <2>0, <2>7, ImportFine
  <2> QED
    BY <1>1, <2>1, <2>2, <2>3, <2>4, <2>5, <2>6, <2>7
<1>2. ASSUME NEW d \in Devices, UserDeletes(d) PROVE AppInv'
  BY <1>2, UserDeletesFine
<1>3. ASSUME NEW d \in Devices, NEW p \in Devices, Deliver(d, p), Stir(d), Forget PROVE AppInv'
  BY <1>3, DeliverFine
<1>4. CASE UNCHANGED appVars
  BY <1>4 DEF appVars, DevicesFine, ThePastIsKept
<1> QED
  BY <1>1, <1>2, <1>3, <1>4 DEF AppNext

LEMMA AppInvariant == AppSpec => []AppInv
BY AppStarts, AppStep, PTL DEF AppSpec

\* A device that has imported the file at hand, and has not changed since, is
\* settled.
Reimports ==
  /\ fresh = [d \in Devices |-> fresh[d]] /\ \A d \in Devices : fresh[d] \in BOOLEAN
  /\ \A d \in Devices : fresh[d] /\ OwnIds => Settled(d)

\* Only a device that changes nothing stays as fresh as it was.
LEMMA FreshStays ==
  ASSUME DevicesFine, DevicesFine', Reimports, NEW d \in Devices, Local(d), UNCHANGED file,
         NEW now \in BOOLEAN, fresh' = [fresh EXCEPT ![d] = now],
         now /\ OwnIds => Settled(d)'
  PROVE  Reimports'
<1>1. /\ fresh' = [x \in Devices |-> fresh'[x]] /\ fresh'[d] = now
      /\ \A x \in Devices \ {d} : fresh'[x] = fresh[x]
      /\ \A x \in Devices : fresh'[x] \in BOOLEAN
  BY DEF Reimports
<1>2. OwnIds' <=> OwnIds
  BY DEF OwnIds
<1>3. ASSUME NEW x \in Devices, fresh'[x], OwnIds' PROVE Settled(x)'
  <2>1. CASE x = d
    BY <1>1, <1>2, <1>3, <2>1
  <2>2. CASE x # d
    <3>1. Settled(x)
      BY <1>1, <1>2, <1>3, <2>2 DEF Reimports
    <3>2. db'[x] = db[x] /\ applied'[x] = applied[x] /\ \A p \in Devices : Continues(log'[p], log[p])
      BY <2>2 DEF Local
    <3> QED
      BY <3>1, <3>2, SettledStays
  <2> QED
    BY <2>1, <2>2
<1> QED
  BY <1>1, <1>3 DEF Reimports

LEMMA StirStays ==
  ASSUME DevicesFine, Reimports, NEW d \in Devices, Stir(d), AppInv', Local(d)
  PROVE  Reimports'
<1>1. fresh' = [fresh EXCEPT ![d] = FALSE] /\ UNCHANGED file
  BY DEF Stir
<1> QED
  BY <1>1, FreshStays DEF AppInv

LEMMA ReimportsStarts == AppInit => Reimports
BY DEF AppInit, Reimports

LEMMA ReimportsStep == AppInv /\ Reimports /\ [AppNext]_appVars => Reimports'
<1> SUFFICES ASSUME AppInv, Reimports, [AppNext]_appVars PROVE Reimports'
  OBVIOUS
<1> USE DEF AppInv
<1>1. ASSUME NEW d \in Editors,
             UserCreate(d) \/ UserSaves(d) \/ UserCancels(d) \/ UserUpdates(d)
               \/ UserDrags(d) \/ Export(d) \/ Import(d)
      PROVE  Reimports'
  <2>0. d \in Devices
    BY AppAssumption
  <2>1. CASE UserCreate(d)
    BY <2>0, <2>1, UserCreateFine, StirStays DEF UserCreate
  <2>2. CASE UserSaves(d)
    BY <2>0, <2>2, UserSavesFine, StirStays DEF UserSaves
  <2>3. CASE UserCancels(d)
    BY <2>0, <2>3, UserCancelsFine, StirStays DEF UserCancels
  <2>4. CASE UserUpdates(d)
    BY <2>0, <2>4, UserUpdatesFine, StirStays DEF UserUpdates
  <2>5. CASE UserDrags(d)
    BY <2>0, <2>5, UserDragsFine, StirStays DEF UserDrags
  <2>6. CASE Export(d)
    BY <2>6 DEF Export, Reimports
  <2>7. CASE Import(d)
    <3>1. AppInv' /\ Local(d)
      BY <2>0, <2>7, ImportFine
    <3>2. fresh' = [fresh EXCEPT ![d] = (cuts' = cuts)] /\ UNCHANGED file
      BY <2>7 DEF Import
    <3>3. (cuts' = cuts) /\ OwnIds => Settled(d)'
      BY <2>0, <2>7, ImportSettles
    <3> QED
      BY <2>0, <3>1, <3>2, <3>3, FreshStays
  <2> QED
    BY <1>1, <2>1, <2>2, <2>3, <2>4, <2>5, <2>6, <2>7
<1>2. ASSUME NEW d \in Devices, UserDeletes(d) PROVE Reimports'
  BY <1>2, UserDeletesFine, StirStays DEF UserDeletes
<1>3. ASSUME NEW d \in Devices, NEW p \in Devices, Deliver(d, p), Stir(d), Forget PROVE Reimports'
  BY <1>3, DeliverFine, StirStays
<1>4. CASE UNCHANGED appVars
  <2>1. \A d \in Devices : Settled(d)' <=> Settled(d)
    BY <1>4 DEF appVars, Settled, BaseSettled, HasBase, PatchIsDone, LiveId, Tombstoned,
                EventHistory, History, AllRecords, Rec
  <2> QED
    BY <1>4, <2>1 DEF appVars, Reimports, OwnIds
<1> QED
  BY <1>1, <1>2, <1>3, <1>4 DEF AppNext

\* Whatever users do and other devices send, and wherever an operation is cut
\* off, the tables hold rows of their kind, and no rule is without its event, no
\* override without its rule (EventCore, makeEntityMutator, applyImportPlan).
THEOREM RowsReferToRows == AppSpec => []AppTypeOK
<1>1. AppInv => AppTypeOK
  <2> SUFFICES ASSUME AppInv PROVE AppTypeOK
    OBVIOUS
  <2>1. ASSUME NEW d \in Devices, NEW e \in Events
        PROVE  /\ db[d].series[e] # Gone => db[d].event[e] # Gone /\ db[d].series[e] \in RuleType
               /\ DOMAIN db[d].override[e] # {} => db[d].series[e] # Gone
               /\ db[d].event[e] # Gone => db[d].event[e].day \in Days /\ db[d].event[e].title \in Titles
    <3>1. db[d] \in TableType /\ Tied(db[d])
      BY DEF AppInv, DevicesFine, TablesFine
    <3> QED
      BY <3>1 DEF Tied, TableType, RowType
  <2> QED
    BY <2>1 DEF AppInv, DevicesFine, AppTypeOK
<1> QED
  BY <1>1, AppInvariant, PTL

\* Every rule that creation, editing, ending, dragging, export and import leave
\* behind generates its recurrence set (expandOccurrences).
THEOREM EveryRuleIsFollowed == AppSpec => []ExpansionFollowsTheRule
<1>1. AppInv => ExpansionFollowsTheRule
  <2> SUFFICES ASSUME AppInv, NEW d \in Devices, NEW e \in Events,
                      IsSeries(db[d], e), db[d].series[e].freq # "YEARLY"
               PROVE  Rids(db[d], e) = RecurrenceSet(db[d].series[e], db[d].event[e].day)
    BY DEF ExpansionFollowsTheRule
  <2>1. db[d].event[e].day \in Days /\ db[d].series[e] \in RuleType
    BY SeriesFacts DEF AppInv, DevicesFine
  <2> QED
    BY <2>1, ExpansionIsTheRecurrenceSet DEF Rids
<1> QED
  BY <1>1, AppInvariant, PTL

\* No scope of the dialog moves or drops an occurrence it was not asked to
\* (dialog.ts, "Pkg8 review F1").
THEOREM NothingOfThePastIsLost == AppSpec => []ThePastIsKept
<1>1. AppInv => ThePastIsKept
  BY DEF AppInv
<1> QED
  BY <1>1, AppInvariant, PTL

\* A second import of a file of the calendar's own, with nothing between, leaves
\* no record, whatever the first met: removed events, series and single events of
\* the same id, overrides without a base (ics_import.ts, cases A to D).
THEOREM ASecondImportIsQuiet == AppSpec => ReimportIsQuiet
<1>1. ASSUME AppInv, Reimports, NEW d \in Devices, fresh[d], Import(d), OwnIds
      PROVE  log' = log
  <2>1. Settled(d)
    BY <1>1 DEF Reimports
  <2>2. PICK left \in Lives : Commit(d, ImportIcs(Begin(d, left), Gone))
    BY <1>1 DEF Import
  <2>3. Commit(d, Begin(d, left)) /\ Begin(d, left).log = log[d]
    BY <1>1, <2>1, <2>2, SettledImport DEF AppInv, Begin
  <2>4. log' = [log EXCEPT ![d] = log[d]]
    BY <2>3 DEF Commit
  <2> QED
    BY <1>1, <2>4 DEF AppInv, DevicesFine
<1>2. AppInv /\ Reimports =>
        \A d \in Devices : (fresh[d] /\ Import(d) /\ OwnIds) => log' = log
  BY <1>1
<1> QED
  BY <1>2, AppInvariant, ReimportsStarts, ReimportsStep, PTL DEF AppSpec, ReimportIsQuiet
=============================================================================
