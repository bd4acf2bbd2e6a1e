SPECIFICATION FairSpec
CONSTANTS
  NumVersions = 3
  Statements <- MCStatements
  Repeatable = {2, 3}
  Rescale = 2
  Life = 3
  RenewBefore = 1
  None = None
  Torn = Torn
  MaxTime = 5
  MaxFaults = 3
INVARIANTS
  ServesFullSchema
  StuckOnlyByInterruption
  ServesCached
PROPERTIES
  CertificateRenewed
CHECK_DEADLOCK FALSE
