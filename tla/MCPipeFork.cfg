SPECIFICATION Spec
CONSTANTS
  p1 = p1
  p2 = p2
  p3 = p3
  r1 = r1
  r2 = r2
  w1 = w1
  w2 = w2
  rw = rw
  Procs = {p1, p2, p3}
  Files = {r1, w1}
  Mode <- MCPipeMode
  PIPE_MAX = 1
  Named = FALSE
  Forking = TRUE
  MaySignal = {p1}
  Pollers = {}
  MayFault = {}
  Flags = {"block"}
  Sizes = {1, 2}
  MaxBytes = 2
  NoProc = NoProc
  NoFile = NoFile
SYMMETRY Symm
INVARIANTS
  NoReaderWriterDeadlock
  NoPanic
CHECK_DEADLOCK FALSE
