SPECIFICATION MappingSpec
CONSTANTS
  Granted = {1, 2, 20}
  RenewalMinimum = 2
  Lifetime = 240
INVARIANT ActiveMeansLeased
