SPECIFICATION Spec
CONSTANTS
  NumNodes = 2
  NumServers = 1
  kMaxThreadsPerNode = 6
  kMaxBgThreadsPerNode = 3
  kWorkerHelperThreadId = 1
  Allocs <- FittingAllocs
  MaxTasks = 2
INVARIANT TasksRun
CHECK_DEADLOCK FALSE
