SPECIFICATION Spec
CONSTANTS
  p1 = p1
  p2 = p2
  s1 = s1
  s2 = s2
  ghost = ghost
  NULL = NULL
  NONE = NONE
  STDIN = STDIN
  THREAD_ID = THREAD_ID
  TORN = TORN
  Clients = {p1, s1, s2}
  Name <- MCName
  Sus <- ChainSus
  Wanted <- WantFirst
  Short = {}
  TOPICS_NUMBER = 2
  LIMIT_CONN_CLIENTS = 2
  StdinEOF = TRUE
  MayStop = FALSE
  MayExit = {p1, s1, s2}
  MaxMsgs = 1
  MaxBacklog = 1
INVARIANTS
  TypeOK
  MutualExclusion
  RowsComplete
  ForwardAfterTwo
  ControlBalance
CHECK_DEADLOCK FALSE
