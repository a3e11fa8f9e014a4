SPECIFICATION FairSpec
CONSTANTS
  a1 = a1
  a2 = a2
  None = None
  Apps <- TwoApps
  Iconic = {}
  Windows = {1, 2}
  IdBound = 3
  Owner <- TwoAppOwner
  Titles = {"t"}
  Sizes = {"small", "large"}
  Mappings = {"identity"}
  Identity = "identity"
  MaxMeta = 1
  MaxInput = 0
  AxFails = FALSE
  Faults = {"open", "restart", "reappear"}
  Traffic = {"unsubscribe"}
INVARIANTS
  TypeOK
  ClientInformed
  RuntimesAgree
  SinkFollows
PROPERTIES
  DroppedForGood
  KeepsToStream
  UnsubscribeCarriedOut
