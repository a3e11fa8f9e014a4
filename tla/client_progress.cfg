SPECIFICATION FairSpec
CONSTANTS
  a1 = a1
  a2 = a2
  None = None
  Apps <- OneApp
  Iconic <- OneApp
  Windows = {1}
  IdBound = 2
  Owner <- OneAppOwner
  Titles = {"t"}
  Sizes = {"s"}
  Mappings = {"identity"}
  Identity = "identity"
  Pids = {p1, p2}
  Faults = {"crash"}
  MaxUp = 1
  MaxDown = 4
  MaxToHost = 1
  Traffic = {"quit", "end"}
PROPERTIES
  EveryWindowShown
  EmptiedHelpersLeave
  HelpersFollow
\* The session may be over, with every helper gone.
CHECK_DEADLOCK FALSE
