SPECIFICATION FairSpec
CONSTANTS
  None = None
  MaxWire = 2
  MaxMishaps = 1
  Mishaps = {"loss"}
PROPERTIES
  Recovers
