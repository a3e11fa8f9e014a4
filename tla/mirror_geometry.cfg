SPECIFICATION FairSpec
CONSTANTS
  Sizes = {2, 4}
  Sheets = {4}
  None = None
  Faults = {"refuse", "reconfigure"}
  MaxMeta = 1
  MaxDown = 2
  MaxUp = 1
  MaxEvents = 2
INVARIANTS
  Agreed
  ClicksLand
PROPERTIES
  OnlyOverlapsEcho
  Settles
