SPECIFICATION Spec
CONSTANTS
  p1 = p1
  p2 = p2
  p3 = p3
  Procs = {p1, p2}
  NBUF = 2
  Blocks = {1, 2, 3}
  Uses <- MCShared
  Ops = {"read", "write", "claim"}
  IOErrors = {}
  MaxVer = 1
  Intr = Intr
  None = None
INVARIANTS
  NoAlias
CHECK_DEADLOCK FALSE
