SPECIFICATION Spec
CONSTANTS
  Tid = {w1, w2}
  Key = {k1, k2}
  Garbage <- GarbageClocks
  MaxClock = 1
  MaxGets = 1
  MaxAdds = 1
  MaxResets = 2
SYMMETRY Symmetry
INVARIANTS RepliesOneHistory
PROPERTY ImplementsService
CHECK_DEADLOCK FALSE
