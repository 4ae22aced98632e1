SPECIFICATION Spec
CONSTANTS
  p1 = p1
  p2 = p2
  s1 = s1
  s2 = s2
  ghost = ghost
  NULL = NULL
  NONE = NONE
  STDIN = STDIN
  THREAD_ID = THREAD_ID
  TORN = TORN
  Clients = {p1, s1, s2}
  Name <- MCName
  Sus <- MCSus
  Wanted <- WantAll
  Short = {}
  TOPICS_NUMBER = 2
  LIMIT_CONN_CLIENTS = 3
  StdinEOF = FALSE
  MayStop = FALSE
  MayExit = {}
  MaxMsgs = 1
  MaxBacklog = 1
INVARIANT FaithfulFields
CHECK_DEADLOCK FALSE
