SPECIFICATION FairSpec
CONSTANTS
  still = still
  mover = mover
  a1 = a1
  b1 = b1
  b2 = b2
  None = None
  Peer <- MCPeer
  Addr <- MCAddr
  Owner <- MCOwner
  Home <- MCHome
  Mute <- MCMute
  MaxPeerReflexive = 4
  MaxTroubles = 1
  MaxFrames = 1
INVARIANT VerifiedMeansAnswered
INVARIANT EchoEndsExchange
PROPERTY BothReachable
PROPERTY BothVerify
CHECK_DEADLOCK FALSE
