CONSTANTS
  k1 = k1
  Disks <- MCDisks
  Procs = {p1, p2}
  Bufs = {b1, b2}
  Blocks = {k1, k2, m}
  Inner = {m}
  Absent = {}
  Vals = {v0, v1}
  Zero = v0
  NoBlock = NoBlock
  NoProc = NoProc
  NoVal = NoVal
  ReadErrors = FALSE
  MaxOps = 2
  MaxSpurious = 1
SPECIFICATION FairSpec
INVARIANTS BuffersSound
PROPERTIES ImplementsStore CallsReturn
CHECK_DEADLOCK FALSE
