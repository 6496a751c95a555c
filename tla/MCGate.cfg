SPECIFICATION FairSpec
CONSTANTS
  p1 = p1
  p2 = p2
  p3 = p3
  inode = inode
  buffer = buffer
  Procs <- MCProcs
  Gates <- MCGates
  Counted <- MCCounted
  IntrGates <- MCIntrGates
  Rank <- MCRank
  Procq = Procq
  Nobody = Nobody
INVARIANTS
  TypeOK
  MutualExclusion
  NoLostWakeup
  LockCountExact
PROPERTIES
  SleeperWakes
