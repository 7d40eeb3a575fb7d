SPECIFICATION Spec
CONSTANTS
  l1 = l1  l2 = l2  l3 = l3  h1 = h1  h2 = h2
  Loader = {l1, l2, l3}
  Host = {h1, h2}
  HostOf <- SharedHost
  Block = {b1}
PROPERTY AssignerEnds
CHECK_DEADLOCK FALSE
