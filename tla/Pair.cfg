SPECIFICATION FairSpec
CONSTANTS
  p1 = p1
  p2 = p2
  s1 = s1
  s2 = s2
  ghost = ghost
  NULL = NULL
  NONE = NONE
  STDIN = STDIN
  THREAD_ID = THREAD_ID
  TORN = TORN
  Clients = {p1, s1}
  Name <- MCName
  Sus <- MCSus
  Wanted <- WantTwoOfThree
  Short = {}
  TOPICS_NUMBER = 3
  LIMIT_CONN_CLIENTS = 3
  StdinEOF = FALSE
  MayStop = TRUE
  MayExit = {p1, s1}
  MaxMsgs = 2
  MaxBacklog = 2
INVARIANTS
  WholeMessagesInOrder
  OnlyWantedTopics
  FaithfulFields
  CrashNeedsDeparture
PROPERTIES
  ProvidesService
  HeadIsPrinted
  ClientsFollow
CHECK_DEADLOCK FALSE
