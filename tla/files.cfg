CONSTANTS
  p1 = p1
  p2 = p2
  NoProc = NoProc
  ip = ip
  o1 = o1
  f1 = f1
  f2 = f2
SPECIFICATION Spec
INVARIANTS FilesSound NoPieceTwice ReadsBack BlocksSound
PROPERTIES Durable
CHECK_DEADLOCK FALSE
