SPECIFICATION FairSpec
CONSTANTS
  Size = 3
  Base = 4
  Default <- MCDefault
  MaxPolls = 3
  MaxFailures = 3
INVARIANTS TypeOK KnownConfig
PROPERTIES ForcesDefault ComesUp
CHECK_DEADLOCK FALSE
