------------------------------ MODULE Discovery -----------------------------
(***************************************************************************)
(* The endpoint cache that the sidecar fills from mDNS observations and    *)
(* the resolution of a peer's endpoint for the scheduler.  The cache is a  *)
(* JavaScript Map keyed by instance name, of which only one peer's part is *)
(* ever looked at: a refreshed name keeps its place, a new one goes to the *)
(* end, and a lookup returns the first entry of the peer that has not      *)
(* expired.  A time to live counts down.                                   *)
(***************************************************************************)
EXTENDS Naturals, Sequences

CONSTANTS
  Peers,      \* the paired devices
  Addresses,  \* host and port pairs
  Names,      \* the suffixes of the instance names
  None,       \* no endpoint
  TTL         \* how long an observation lasts, in ticks

ASSUME DiscoveryAssumption == TTL \in Nat \ {0} /\ None \notin Addresses

Entry == [name : Names, at : Addresses, ttl : 0..TTL]

SameInstance(e, f) == e.name = f.name

\* applyEvent: an observation (the shell reports no other event) refreshes its instance in place, or is added.
Observed(cache, e) ==
  IF \E i \in DOMAIN cache : SameInstance(cache[i], e)
  THEN [i \in DOMAIN cache |-> IF SameInstance(cache[i], e) THEN e ELSE cache[i]]
  ELSE Append(cache, e)

Aged(cache) ==
  [i \in DOMAIN cache |-> [cache[i] EXCEPT !.ttl = IF @ = 0 THEN 0 ELSE @ - 1]]

\* getForDevice: the places of the entries that have not expired.
Live(cache) == {i \in DOMAIN cache : cache[i].ttl > 0}

\* resolveEndpoint: a live entry, else the last-known endpoint, else none.
Resolve(cache, last) ==
  IF Live(cache) = {} THEN last
  ELSE cache[CHOOSE i \in Live(cache) : \A j \in Live(cache) : i <= j].at
=============================================================================
