SPECIFICATION FairSpec
CONSTANTS
  N = 2
  Peers <- ThePeers
  a1 = a1
  a2 = a2
  i1 = i1
  i2 = i2
  none = none
  Addresses = {a1, a2}
  Names = {i1, i2}
  Places <- ThePlaces
  Suffixes <- TheSuffixes
  None = none
  TTL = 1
  MaxConcurrent = 1
  BackoffMax = 2
  MaxFailures = 1
  MaxMoves = 2
INVARIANTS
  SessionsAreLocked
PROPERTIES
  EndpointsAreProven
  FirstPeersAreServed
CHECK_DEADLOCK FALSE
