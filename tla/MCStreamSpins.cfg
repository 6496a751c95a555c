SPECIFICATION Spec
CONSTANTS
  p1 = p1
  p2 = p2
  p3 = p3
  c1 = c1
  c2 = c2
  c3 = c3
  u1 = u1
  u2 = u2
  r1 = r1
  r2 = r2
  w1 = w1
  s1 = s1
  s2 = s2
  m1 = m1
  NULL = NULL
  Facilities = {"stream"}
  KsProcs = {p1, p2, p3}
  KsPri <- MCPri
  KsCatch = {p3}
  KsIntr = intr
  KsNone = NULL
  MaxItems = 2
  TdCpus = {k1}
  TdCells = {c1, c2, c3}
  TdLocked = {c1}
  TdTicks = {0, 2}
  TdCallers = {u1, u2}
  TdNone = NULL
  MaxTick = 2
  MaxTicket = 3
  Tims = {t1, t2, t3}
  IntrTims = {t3}
  TimDelays = {1, 2, 3}
  TmNull = NULL
  NTIMQ = 2
  MaxLbolt = 5
  DfMax = 3
  DEFLIM = 2
  MaxDeferred = 7
  PlProcs = {p1, p2}
  PlChans = {ch1, ch2}
  PlNew = {ch2}
  PlNone = NULL
  PlGarbage = {NULL}
  SmReaders = {r1, r2}
  SmWriters = {w1}
  SmSizes = {1, 2}
  SmHiwat = 2
  SmLowat = 1
  SmNone = NULL
  SmMaxSent = 5
  TtSlaves = {s1, s2}
  TtReaders = {s1}
  TtWriters = {s2}
  TtMasters = {m1}
  TtLeaders = {s1}
  TtModes <- MCModes
  TtModesNow <- MCModesNow
  TtVeof = 2
  TtSizes = {1, 3}
  TtInputs <- MCInputs
  IHILIM = 2
  ILOLIM = 1
  OHILIM = 1
  OLOLIM = 0
  NCIB = 3
  TtNone = NULL
  TtMaxCalls = 2
INVARIANTS
  SmBlockedRests
CHECK_DEADLOCK FALSE
