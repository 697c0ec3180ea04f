------------------------------ MODULE Scheduler -----------------------------
(***************************************************************************)
(* The sync scheduler of one device and its runtime: a local change arms   *)
(* the debounce, which on firing pushes to every available peer; one       *)
(* session per peer, a cap on the sessions at a time, exponential backoff  *)
(* after a failure; the endpoints come from discovery or from the last     *)
(* session that succeeded, and whoever answers must prove to be the peer   *)
(* that was dialled.                                                       *)
(*                                                                         *)
(* Peers are numbered in the order of listTrustedPeers.  A tick is the     *)
(* base delay of the backoff, a minute; the debounce, which is shorter, is *)
(* armed or not.  Deadlines count down.  Where the other devices listen    *)
(* and under which name they announce themselves is the environment.       *)
(* sync_now and inbound sessions do not pass through the scheduler and     *)
(* change none of its state.                                               *)
(***************************************************************************)
EXTENDS Integers, FiniteSets, Discovery

CONSTANTS
  N,              \* the number of paired peers
  MaxConcurrent,  \* the setting max_concurrent_sessions
  BackoffMax,     \* the longest delay, in ticks
  MaxFailures,    \* bound: failures are counted up to where the delay is longest
  Places,         \* bound: Places[p], the addresses device p is seen at
  Suffixes,       \* bound: Suffixes[p], the names it registers under
  MaxMoves        \* bound: how often a device comes, goes or moves

ASSUME PeersAssumption == N \in Nat /\ Peers = 1..N
ASSUME ConcurrencyAssumption == MaxConcurrent \in 1..10
ASSUME BackoffAssumption ==
  /\ BackoffMax \in Nat \ {0}
  /\ MaxFailures \in Nat
  /\ 2 ^ MaxFailures >= BackoffMax
  /\ \A f \in 0..MaxFailures : 2 ^ f >= 1  \* arithmetic: the provers know no powers

ASSUME PlacesAssumption ==
  /\ Places \in [Peers -> SUBSET Addresses]
  /\ Suffixes \in [Peers -> SUBSET Names]
  /\ MaxMoves \in Nat

VARIABLES
  dirty,      \* a local change waits for the debounce
  armed,      \* the runtime's debounce timer
  active,     \* activePeers: the session locks
  failures,   \* consecutiveFailures
  wait,       \* what is left until nextAttemptAt
  session,    \* session[p]: where attempt() awaits, and what it dialled
  lastKnown,  \* the endpoint columns of the peers table
  cache,      \* cache[p]: the entries of p in the endpoint cache
  home,       \* home[p]: where device p listens
  name,       \* name[p]: the instance name it announces
  moves       \* how often they moved

timers  == <<dirty, armed>>
backoff == <<failures, wait>>
network == <<home, name, moves>>
vars    == <<timers, active, backoff, session, lastKnown, cache, network>>

Idle == [phase |-> "idle", to |-> None, with |-> 0]

Init ==
  /\ dirty = FALSE /\ armed = FALSE
  /\ active = {}
  /\ failures = [p \in Peers |-> 0] /\ wait = [p \in Peers |-> 0]
  /\ session = [p \in Peers |-> Idle]
  /\ lastKnown = [p \in Peers |-> None]
  /\ cache = [p \in Peers |-> <<>>]
  /\ moves = 0
  /\ home \in {f \in [Peers -> Addresses \cup {None}] :
       /\ \A p \in Peers : f[p] \in Places[p] \cup {None}
       /\ \A p, q \in Peers : f[p] = f[q] /\ p # q => f[p] = None}
  /\ name \in {f \in [Peers -> Names] : \A p \in Peers : f[p] \in Suffixes[p]}

Endpoint(p) == Resolve(cache[p], lastKnown[p])

Dialling(p) == [phase |-> "connecting", to |-> Endpoint(p), with |-> 0]

-----------------------------------------------------------------------------
(* tryBeginSession: the lock, the backoff unless the user asked, the cap.   *)
(* The peers of one decision are tried in their order, without a break, so  *)
(* the first ones take the free slots.                                      *)

Admissible(manual) ==
  {p \in Peers : /\ Endpoint(p) # None
                 /\ p \notin active
                 /\ manual \/ wait[p] = 0}

FreeSlots == MaxConcurrent - Cardinality(active)

\* Seeded fault: the cap is compared after the session was counted out.
AdmittedBeyondCap(wanted) ==
  {p \in wanted : Cardinality({q \in wanted : q < p}) <= FreeSlots}

Admitted(wanted) ==
  {p \in wanted : Cardinality({q \in wanted : q < p}) < FreeSlots}

Attempt(wanted) ==
  LET begun == Admitted(wanted)
  IN /\ active' = active \cup begun
     /\ session' = [p \in Peers |-> IF p \in begun THEN Dialling(p) ELSE session[p]]
     /\ UNCHANGED <<backoff, lastKnown, cache, network>>

-----------------------------------------------------------------------------
(* Triggers.                                                                *)

LocalChange ==
  /\ dirty' = TRUE /\ armed' = TRUE
  /\ UNCHANGED <<active, backoff, session, lastKnown, cache, network>>

\* The debounce fires: the mark is cleared, whoever cannot be tried now is
\* left out.
DebounceFires ==
  /\ armed
  /\ armed' = FALSE /\ dirty' = FALSE
  /\ Attempt(IF dirty THEN Admissible(FALSE) ELSE {})

\* immediate-sync: at startup, on a network change, or by hand.
SyncAll(manual) ==
  /\ Attempt(Admissible(manual))
  /\ UNCHANGED timers

\* stop() clears the timers; start() arms those of the sweep only.
RuntimeRestarts == armed' = FALSE

\* update_settings stops and restarts the runtime.
UpdateSettings ==
  /\ armed
  /\ RuntimeRestarts
  /\ UNCHANGED <<dirty, active, backoff, session, lastKnown, cache, network>>

-----------------------------------------------------------------------------
(* One attempt: connect and shake hands, check who answered, run the engine.*)

Delay(f) == IF 2 ^ f < BackoffMax THEN 2 ^ f ELSE BackoffMax

\* Seeded fault: the lock outlives a session that failed.
EndSessionLocked(p, success) ==
  /\ active' = IF success THEN active \ {p} ELSE active
  /\ session' = [session EXCEPT ![p] = Idle]
  /\ failures' = [failures EXCEPT ![p] =
       IF success THEN 0 ELSE IF @ < MaxFailures THEN @ + 1 ELSE @]
  /\ wait' = [wait EXCEPT ![p] = IF success THEN 0 ELSE Delay(failures[p])]

\* endSession: the lock is released; a success forgets the failures.
EndSession(p, success) ==
  /\ active' = active \ {p}
  /\ session' = [session EXCEPT ![p] = Idle]
  /\ failures' = [failures EXCEPT ![p] =
       IF success THEN 0 ELSE IF @ < MaxFailures THEN @ + 1 ELSE @]
  /\ wait' = [wait EXCEPT ![p] = IF success THEN 0 ELSE Delay(failures[p])]

Fails(p) ==
  /\ EndSession(p, FALSE)
  /\ UNCHANGED <<timers, lastKnown, cache, network>>

At(a) == {q \in Peers : home[q] = a}

\* Seeded fault: the key of any trusted peer will do.
IsTrusted(p, q) == {p, q} \subseteq Peers

\* The key that answered is the key of the trusted peer that was dialled.
IsExpected(p, q) == q = p

\* The handshake completes with whoever listens there.
Connects(p) ==
  \E q \in At(session[p].to) :
    /\ session[p].phase = "connecting"
    /\ IsExpected(p, q)
    /\ session' = [session EXCEPT ![p].phase = "engine", ![p].with = q]
    /\ UNCHANGED <<timers, active, backoff, lastKnown, cache, network>>

\* It is not the peer: nothing is exchanged, nothing recorded.
IdentityMismatch(p) ==
  \E q \in At(session[p].to) :
    /\ session[p].phase = "connecting"
    /\ ~IsExpected(p, q)
    /\ Fails(p)

\* The connection is refused, or not made within the connect timeout.
ConnectFails(p) ==
  /\ session[p].phase = "connecting"
  /\ Fails(p)

RecordPeerEndpoint(p, a) == lastKnown' = [lastKnown EXCEPT ![p] = a]

\* The engine ran to its end; only now is the endpoint worth remembering.
SessionSucceeds(p) ==
  /\ session[p].phase = "engine"
  /\ home[session[p].with] = session[p].to
  /\ EndSession(p, TRUE)
  /\ RecordPeerEndpoint(p, session[p].to)
  /\ UNCHANGED <<timers, cache, network>>

SessionBreaks(p) ==
  /\ session[p].phase = "engine"
  /\ Fails(p)

-----------------------------------------------------------------------------
(* Time and the network.                                                    *)

Tick ==
  /\ wait' = [p \in Peers |-> IF wait[p] = 0 THEN 0 ELSE wait[p] - 1]
  /\ cache' = [p \in Peers |-> Aged(cache[p])]
  /\ UNCHANGED <<timers, active, failures, session, lastKnown, network>>

\* What the shell tells the sidecar of device p.
Notification(p) == [name |-> name[p], at |-> home[p], ttl |-> TTL]

\* mdns_event: of what is announced only a paired peer's gets into the cache.
MdnsEvent(p, e) == cache' = [cache EXCEPT ![p] = Observed(@, e)]

\* A device is announced under its current name where it listens now.
Announce(p) ==
  /\ home[p] # None
  /\ MdnsEvent(p, Notification(p))
  /\ UNCHANGED <<timers, active, backoff, session, lastKnown, network>>

\* It goes, or it comes back, perhaps elsewhere and under another name.
Moves(p, a, i) ==
  /\ moves < MaxMoves /\ moves' = moves + 1
  /\ a = None \/ At(a) = {}
  /\ home' = [home EXCEPT ![p] = a]
  /\ name' = [name EXCEPT ![p] = i]
  /\ UNCHANGED <<timers, active, backoff, session, lastKnown, cache>>

Next ==
  \/ LocalChange \/ DebounceFires \/ UpdateSettings \/ Tick
  \/ \E manual \in BOOLEAN : SyncAll(manual)
  \/ \E p \in Peers : \/ Connects(p) \/ IdentityMismatch(p) \/ ConnectFails(p)
                       \/ SessionSucceeds(p) \/ SessionBreaks(p)
                       \/ Announce(p)
                       \/ \E a \in Places[p] \cup {None}, i \in Suffixes[p] : Moves(p, a, i)

Spec == Init /\ [][Next]_vars

\* Time passes, an attempt connects or times out, and a session in the engine
\* ends (SyncSession!SessionEnds).  Nothing is assumed of the user, of the
\* debounce or of the other devices.
FairSpec ==
  /\ Spec
  /\ WF_vars(Tick)
  /\ \A p \in Peers :
       /\ WF_vars(Connects(p) \/ IdentityMismatch(p) \/ ConnectFails(p))
       /\ WF_vars(SessionSucceeds(p) \/ SessionBreaks(p))

-----------------------------------------------------------------------------
TypeOK ==
  /\ dirty \in BOOLEAN /\ armed \in BOOLEAN
  /\ active \subseteq Peers
  /\ failures \in [Peers -> 0..MaxFailures]
  /\ wait \in [Peers -> 0..BackoffMax]
  /\ session \in [Peers -> [phase : {"idle", "connecting", "engine"},
                           to : Addresses \cup {None}, with : 0..N]]
  /\ lastKnown \in [Peers -> Addresses \cup {None}]
  /\ cache \in [Peers -> Seq(Entry)]
  /\ home \in [Peers -> Addresses \cup {None}]
  /\ name \in [Peers -> Names]
  /\ moves \in 0..MaxMoves

\* The sessions that the runtime has open never exceed the setting, whatever
\* triggers coincide, and each holds the lock of its peer: a lock without a
\* session would shut the peer out for ever, a session without a lock lets a
\* second one begin (scheduler.ts tryBeginSession, scheduler_runtime.ts attempt).
SessionsAreLocked ==
  /\ active = {p \in Peers : session[p].phase # "idle"}
  /\ Cardinality(active) <= MaxConcurrent

\* The last-known endpoint of a peer is written only when that peer itself
\* answers there, whoever took over an address in the meantime.
EndpointsAreProven ==
  [][\A p \in Peers : lastKnown'[p] # lastKnown[p] => home[p] = lastKnown'[p]]_vars

Reachable(p) == Endpoint(p) # None /\ home[p] = Endpoint(p)

Served(p) ==
  (/\ []<><<DebounceFires>>_vars
   /\ <>[]Reachable(p)
   /\ <>[][~(ConnectFails(p) \/ SessionBreaks(p))]_vars)
  => []<><<SessionSucceeds(p)>>_vars

\* As long as changes are made and pushed, a peer that has become reachable is
\* synchronised again and again, whatever failures, moves and reused addresses
\* came before: locks, backoff and stale endpoints do not shut it out.  Shown
\* for the peers that the cap admits from the front of the list.
FirstPeersAreServed == \A p \in Peers : p <= MaxConcurrent => Served(p)

\* The same for every peer, also the ones at the end of the list.
EveryPeerIsServed == \A p \in Peers : Served(p)
=============================================================================
