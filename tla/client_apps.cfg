SPECIFICATION Spec
CONSTANTS
  a1 = a1
  a2 = a2
  None = None
  Apps <- TwoApps
  Iconic <- OneApp
  Windows = {1, 2, 3}
  IdBound = 4
  Owner <- TwoAppOwner
  Titles = {"t"}
  Sizes = {"s"}
  Mappings = {"identity"}
  Identity = "identity"
  Pids = {p1, p2, p3}
  Faults = {"crash", "bundle", "create", "spawn"}
  MaxUp = 1
  MaxDown = 1
  MaxToHost = 1
  Traffic = {"quit"}
INVARIANTS
  TypeOK
  ClientInv
  HelperOwnership
  RouteOwnership
  UnsubscribeOnce
PROPERTIES
  StaysGivenUp
  ImplementsLifecycle
SYMMETRY PidSymmetry
VIEW ReuseView
\* The session may be over, with every helper gone.
CHECK_DEADLOCK FALSE
