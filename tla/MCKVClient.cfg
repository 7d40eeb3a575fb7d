SPECIFICATION Spec
CONSTANTS
  s1 = s1  s2 = s2
  Thread = {t1, t2}
  First = t1
  server_thread_ids <- Servers
  ranges <- Ranges
  Key = {0, 1, 2}
  Asked <- KeyVectors
  Updates <- UpdateVectors
  MaxGets <- Gets
  MaxPushes <- Pushes
  MaxOther = 1
INVARIANTS HandlerFrameLive CompleteOnReturn ReadsOwnWrites
PROPERTY GetReturns
CHECK_DEADLOCK FALSE
