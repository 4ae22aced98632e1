SPECIFICATION Spec
CONSTANTS
  NULL = NULL
  Pubs = {a}
  Loads = {"normal", "idle", "busy"}
  ForkFails = {"update", "exec_top", "filter", "exec_grep"}
  ExecFails = {"exec_top", "top", "exec_grep", "grep"}
  RowWords = {}
  MaxRows = 0
  MaxProcs = 2
  MaxMsgs = 2
  MaxFaults = 0
INVARIANTS
  FieldsMatchTopics
CHECK_DEADLOCK FALSE
