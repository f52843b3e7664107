SPECIFICATION FairSpec
CONSTANTS
  Addr = {a1, a2}
  Home = a1
  None = None
  MaxAge = 2
  MaxSkew = 1
  Refresh = 1
  ClockErrors = {0, 2}
  MaxRuns = 2
  MaxListens = 2
  MaxTroubles = 1
PROPERTY EventuallyCurrent
PROPERTY RunsNeverGoBack
