SPECIFICATION Spec
CONSTANTS
  a1 = a1
  a2 = a2
  None = None
  Apps <- TwoApps
  Iconic = {}
  Windows = {1, 2}
  IdBound = 3
  Owner <- TwoAppOwner
  Titles = {"t"}
  Sizes = {"s"}
  Mappings = {"identity"}
  Identity = "identity"
  MaxMeta = 1
  MaxInput = 3
  AxFails = FALSE
  Faults = {}
  Traffic = {"input"}
INVARIANTS
  TypingLandsRight
