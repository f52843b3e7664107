SPECIFICATION MappingFairSpec
CONSTANTS
  Granted = {3, 4, 5, 20, 60}
  RenewalMinimum = 2
  Lifetime = 240
INVARIANT ActiveMeansLeased
PROPERTY DroppedMappingExpires
