CONSTANTS
  c1 = c1
  c2 = c2
  c3 = c3
  k1 = k1
  k2 = k2
  None = None
  Contents <- MCSmall
  TooLarge = {c2}
  Cleaners <- MCCleaners
  MaxAttempts = 2
  MaxFaults = 2
SPECIFICATION FairSpec
PROPERTIES ResultIsRemoved
