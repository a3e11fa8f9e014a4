SPECIFICATION FairSpec
CONSTANTS
  None = None
  MaxOffers = 2
  MaxMids = 3
  MaxWire = 2
  Faults = {"timeout", "refuse", "break"}
INVARIANTS
  TypeOK
  NoDeadEntry
  AnswerFindsCaller
PROPERTIES
  Reassembly
  AppliedMatches
  RenegotiationEnds
