SPECIFICATION FairSpec
CONSTANTS
  a1 = a1
  a2 = a2
  None = None
  Apps <- OneApp
  Iconic = {}
  Windows = {1}
  IdBound = 2
  Owner <- OneAppOwner
  Titles = {"t"}
  Sizes = {"s"}
  Mappings = {"identity", "letterbox"}
  Identity = "identity"
  MaxMeta = 1
  MaxInput = 2
  AxFails = TRUE
  Faults = {"open", "setup"}
  Traffic = {"frames", "input", "end"}
INVARIANTS
  MappingFollows
  ButtonReleased
PROPERTIES
  SessionEnds
\* The session may be over or abandoned.
CHECK_DEADLOCK FALSE
