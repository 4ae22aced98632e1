SPECIFICATION FairSpec
CONSTANTS
  NULL = NULL
  Clients = {c1, c2}
  MayDie = {c1, c2}
  Unresolvable = {c1, c2}
  Inputs <- MCInputs
  MAXLINE = 4
  RIO_BUFSIZE = 2
INVARIANTS
  FaithfulEcho
  WaitsForRest
  OnlyKillsHurt
PROPERTY EveryoneServed
CHECK_DEADLOCK FALSE
