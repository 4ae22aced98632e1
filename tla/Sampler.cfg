SPECIFICATION Spec
CONSTANTS
  NULL = NULL
  Pubs = {a, b}
  Loads = {"idle"}
  ForkFails = {"update", "exec_top", "filter", "exec_grep"}
  ExecFails = {"exec_top", "top", "exec_grep", "grep"}
  RowWords = {{"Cpu", "Tasks"}, {"Mem"}}
  MaxRows = 1
  MaxProcs = 2
  MaxMsgs = 1
  MaxFaults = 1
INVARIANTS
  OneRunner
  UndisturbedIsWhole
CHECK_DEADLOCK FALSE
