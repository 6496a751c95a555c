SPECIFICATION Spec
CONSTANTS
  p1 = p1
  p2 = p2
  p3 = p3
  Procs = {p1, p2}
  NBUF = 2
  Blocks = {1, 2, 3}
  Uses <- MCPrivate
  Ops = {"read", "write", "ahead", "sync"}
  IOErrors = {}
  MaxVer = 1
  Intr = Intr
  None = None
INVARIANTS
  NoAlias
  NoLostUpdate
  BufsyncExact
PROPERTIES
  SyncDurable
CHECK_DEADLOCK FALSE
