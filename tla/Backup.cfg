SPECIFICATION FairSpec
CONSTANTS
  None = None
  Redacted = Redacted
  MaxFaults = 2
INVARIANTS ArchiveTruth RestoreBringsBack EndpointVerifies
PROPERTIES KeysKept ServeComesUp
CHECK_DEADLOCK FALSE
