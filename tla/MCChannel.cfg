\* Two messages each way, the responder's second above MAX_FRAME, one fault.
SPECIFICATION ChannelFairSpec
CONSTANTS
  a = a
  b = b
  Initiator = a
  Responder = b
  MaxSent = 2
  Oversized <- SecondTooLong
  MaxFaults = 1
PROPERTIES
  ImplementsLink
  NoReceiveIsStranded
  EndIsHeard
CHECK_DEADLOCK FALSE
