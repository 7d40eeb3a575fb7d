SPECIFICATION Spec
CONSTANTS
  Tid = {w1, w2}
  Key = {k1}
  Garbage <- GarbageClocks
  MaxClock = 2
  MaxGets = 1
  MaxAdds = 2
  MaxResets = 2
SYMMETRY Symmetry
INVARIANTS UpdatesConserved
PROPERTY IterationSnapshot
CHECK_DEADLOCK FALSE
