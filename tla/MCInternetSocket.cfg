SPECIFICATION FairSpec
CONSTANTS
  MaxPublic = 2
  Routes <- MCRoutes
  Wild <- MCWild
  Capacity = 1
  Deadline = 1
  RetryDelay = 1
  MaxLookups = 2
  MaxOthers = 0
  MaxArrivals = 1
INVARIANT AddressIsCurrent
INVARIANT StrayNeverEndsLookup
INVARIANT SentInOrder
PROPERTY LookupEnds
PROPERTY HeldDatagramsLeave
