SPECIFICATION FairSpec
CONSTANTS
  earlier = earlier
  NULL = NULL
  Brokers = {b1, b2}
  Addresses = 2
  Failing = {"sem_open", "getaddrinfo", "socket"}
  MaxClients = 2
INVARIANTS
  FreshSemaphores
  OneSocket
PROPERTY RestartSucceeds
CHECK_DEADLOCK FALSE
