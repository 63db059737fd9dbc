CONSTANTS
  p1 = p1
  p2 = p2
  NoProc = NoProc
  Procs = {p1, p2}
  Ends <- MCEnds
  Vals = {x, y}
  PIPESIZE = 2
  WRAP = 4
  MaxN = 3
  Killable = {p2}
SPECIFICATION FairSpec
PROPERTIES ImplementsFifo ShortRead CallsReturn
INVARIANTS PipeSound
CHECK_DEADLOCK FALSE
