SPECIFICATION Spec
CONSTANTS
  p1 = p1
  p2 = p2
  p3 = p3
  r1 = r1
  r2 = r2
  w1 = w1
  w2 = w2
  rw = rw
  Procs = {p1, p2, p3}
  Files = {r1, w1, rw}
  Mode <- MCRwMode
  PIPE_MAX = 2
  Named = TRUE
  Forking = FALSE
  MaySignal = {}
  Pollers = {p1}
  MayFault = {p1}
  Flags = {"block", "ndelay"}
  Sizes = {1, 3}
  MaxBytes = 3
  NoProc = NoProc
  NoFile = NoFile
SYMMETRY Symm
INVARIANTS
  NoLostWakeup
PROPERTIES
  ImplementsChannel
CHECK_DEADLOCK FALSE
