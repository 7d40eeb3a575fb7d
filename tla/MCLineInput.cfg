SPECIFICATION LoadSpec
CONSTANTS
  l1 = l1  l2 = l2  h1 = h1  h2 = h2
  f1 = f1  NL = NL  Other = Other
  Loader = {l1, l2}
  Host = {h1, h2}
  HostOf <- OwnHosts
  File = {f1}
  Byte = {NL, Other}
  BlockSize = 2
  MaxLength = 5
  Block <- FileBlocks
  Contents <- SmallFiles
INVARIANTS TypeOK BlockGivenOnce NoneLeftOut NotStoppedEarly LinesReadOnce NoLineLost
PROPERTY AssignerEnds
CHECK_DEADLOCK FALSE
