SPECIFICATION Spec
CONSTANTS
  Tid = {w1, w2}
  Key = {k1}
  Garbage <- GarbageClocks
  MaxClock = 2
  MaxGets = 1
  MaxAdds = 1
  MaxResets = 1
INVARIANT GetsAnswered
CHECK_DEADLOCK FALSE
