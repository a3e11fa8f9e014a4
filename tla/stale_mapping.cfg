SPECIFICATION Spec
CONSTANTS
  a1 = a1
  a2 = a2
  None = None
  Apps <- OneApp
  Iconic = {}
  Windows = {1}
  IdBound = 2
  Owner <- OneAppOwner
  Titles = {"t"}
  Sizes = {"s"}
  Mappings = {"identity", "letterbox"}
  Identity = "identity"
  MaxMeta = 1
  MaxInput = 1
  AxFails = FALSE
  Faults = {"reappear"}
  Traffic = {"frames"}
INVARIANTS
  MappingFollows
