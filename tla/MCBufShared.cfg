SPECIFICATION Spec
CONSTANTS
  p1 = p1
  p2 = p2
  p3 = p3
  Procs = {p1, p2}
  NBUF = 2
  Blocks = {1}
  Uses <- MCShared
  Ops = {"read", "write", "claim", "super", "sync", "flush"}
  IOErrors = {"BREAD"}
  MaxVer = 2
  Intr = Intr
  None = None
INVARIANTS
  NoLeakedLock
  Coherent
CHECK_DEADLOCK FALSE
