\* Two devices that both show and scan, two offers, two scans.
SPECIFICATION FairSpec
CONSTANTS
  laptop = laptop
  desktop = desktop
  tablet = tablet
  None = None
  Devices <- TwoDevices
  MaxOffers = 2
  MaxScans = 2
  MaxSilent = 1
INVARIANTS
  OneSidedTrustIsTheScanners
  AcceptedIsMutual
  ListenersAreTracked
PROPERTY
  CeremoniesEnd
CHECK_DEADLOCK FALSE
