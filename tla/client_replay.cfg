SPECIFICATION Spec
CONSTANTS
  a1 = a1
  a2 = a2
  None = None
  Apps <- OneApp
  Iconic <- OneApp
  Windows = {1}
  IdBound = 2
  Owner <- OneAppOwner
  Titles = {"t"}
  Sizes = {"small", "large"}
  Mappings = {"identity", "letterbox"}
  Identity = "identity"
  Pids = {p1, p2}
  Faults = {"crash", "decoder", "open"}
  MaxUp = 1
  MaxDown = 2
  MaxToHost = 1
  Traffic = {"update", "mapping", "video", "input", "quit"}
INVARIANTS
  ReplayFidelity
  IconOnce
  NoOrphanFrames
SYMMETRY PidSymmetry
\* The session may be over, with every helper gone.
CHECK_DEADLOCK FALSE
