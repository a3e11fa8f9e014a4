SPECIFICATION FairSpec
CONSTANTS
  None = None
  MaxWire = 2
  MaxMishaps = 2
  Mishaps = {"loss", "encode", "respawn"}
INVARIANTS
  TypeOK
  LatestWins
  KeyframeKept
PROPERTIES
  PipelineStops
  KeyframesRequested
  RecoversWhileChanging
