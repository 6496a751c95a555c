SPECIFICATION Spec
CONSTANTS
  p1 = p1
  p2 = p2
  p3 = p3
  d1 = d1
  d2 = d2
  d3 = d3
  d4 = d4
  f1 = f1
  f2 = f2
  NULL = NULL
  Facilities = {"process", "inode", "freelist"}
  PrProcs = {d1, d2, d3, d4}
  PrRoot = d1
  PrSetters = {d2}
  PrTraced = {d3}
  PrKilled = {d2, d3}
  PrDebuggers = {d2}
  PrNone = NULL
  InProcs = {p1, p2, p3}
  InSlots = {1, 2}
  InInos = {1, 2, 3}
  InOpens <- MCOpens
  InCreats <- MCCreats
  InUnlinks <- MCUnlinks
  InDir <- MCDir
  NICINOD = 2
  InListed <- MCListed
  InNone = NULL
  FlFiles = {f1, f2}
  FlFirst = 4
  FlEnd = 9
  NICFREE = 3
  NBN = 2
  t_sortblocks = TRUE
SYMMETRY MCSymmetry
INVARIANTS
  PrFamily
  PrServed
  InExact
  FlSound
PROPERTIES
  FlImplementsSet
CHECK_DEADLOCK FALSE
