SPECIFICATION Spec
CONSTANTS
  a4 = a4
  c6 = c6
  p4 = p4
  Addr = {a4, c6}
  Ipv4 <- MCIpv4
  Usable <- MCUsable
  RemoteToken = {t1}
  None = None
  WgAddr = {w}
  AddrLists <- MCFamilies
  MaxProbePaths = 1
  MaxPeerReflexive = 1
  MaxRemote = 1
  MaxAge = 0
  MaxSkew = 0
INVARIANT Ipv4OnlySends
