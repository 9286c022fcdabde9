SPECIFICATION FairSpec
CONSTANTS
  Hosts = {h1, h2}
  MaxHosts = 2
  Commands <- AllCommands
  Resolutions <- SomeResolutions
CHECK_DEADLOCK FALSE
INVARIANTS
  TypeOK
  ExitCodeTruthful
  FailuresSuppressed
  EverySuccessPrinted
PROPERTY
  CommandEnds
