SPECIFICATION Spec
CONSTANTS
  p1 = p1
  p2 = p2
  r1 = r1
  r2 = r2
  r3 = r3
  f1 = f1
  s1 = s1
  s2 = s2
  NULL = NULL
  SemProcs = {p1, p2}
  SemSets = {1}
  NSEMS = 2
  SEMVMX = 2
  SemOps <- MCSemOps
  SemVals = {0, 1}
  SemReaders = {p1, p2}
  SemAlterers = {p1, p2}
  SemFresh = {0}
  SemFull = {FALSE}
  SemCtl = {"SETVAL", "SETALL", "IPC_RMID"}
  MaxSets = 1
  MaxCalls = 2
  MsgProcs = {p1, p2}
  NMSQID = 1
  NMSG = 2
  NMSQB = 3
  MsgTypes = {1, 2}
  MsgSizes = {1, 2}
  MsgWants <- MCWants
  MsgRooms = {1}
  MsgSupers = {}
  MsgMaps = {{}, {1}}
  MsgSetSizes = {2}
  MaxSent = 3
  MaxRemoved = 1
  ShmProcs = {p1, p2}
  ShmSegs = {s1, s2}
  SHMMNI = 2
  NSHMSEG = 2
  ShmFresh = {0}
  ShmNull = {1}
  NoSeg = NULL
  MaxGets = 3
  RlProcs = {r1, r2, r3}
  RlFiles = {f1}
  RLOCKS = 5
  RlLast = 2
  RlRanges <- MCRanges
SYMMETRY MCSymmetry
INVARIANTS
  SemExact
  SemUndoBalance
  MsgAccounting
  MsgNoLostWakeup
  ShmExact
  RlSound
PROPERTIES
  MsgOrder
  RlImplementsBytes
CHECK_DEADLOCK FALSE
