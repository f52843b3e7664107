SPECIFICATION FairSpec
CONSTANTS
  Ipv6 = {v6}
  StunAddr = {same, other}
  MapAddr = map
  SameIp = {same}
  RetryDelay = 5
  RefreshDelay = 20
  PublishInterval = 20
  MaxLookup = 1
  MaxPut = 2
INVARIANT PublicationCatchesUp
INVARIANT DeadMappingWithdrawn
PROPERTY NoBusyLookup
PROPERTY StopTogether
