SPECIFICATION Spec
CONSTANTS
  Tid = {w1, w2}
  Key = {k1}
  Staleness = 1
  Garbage <- GarbageClocks
  MaxClock = 3
  MaxGets = 2
  MaxAdds = 1
  MaxResets = 2
SYMMETRY Symmetry
INVARIANT MinClockIsSlowest
INVARIANT PendingAhead
INVARIANT SSPInv
PROPERTIES BoundedStaleness ImplementsService
CHECK_DEADLOCK FALSE
