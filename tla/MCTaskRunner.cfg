SPECIFICATION Spec
CONSTANTS
  NumNodes = 2
  NumServers = 1
  kMaxThreadsPerNode = 6
  kMaxBgThreadsPerNode = 3
  kWorkerHelperThreadId = 1
  Allocs <- AnyAllocs
  MaxTasks = 2
INVARIANTS TypeOK RepliesRouted IdsFreed IdsOfNode WorkersRunOnce ResetBeforeRun
CHECK_DEADLOCK FALSE
