SPECIFICATION Spec
CONSTANTS
  Node = {n1, n2}
  NumBarriers = 1
  MaxData = 1
  Request = {"kGet", "kResetWorkerInModel"}
INVARIANTS BarrierSafe TableCreated NothingLost
PROPERTY Terminates
CHECK_DEADLOCK FALSE
