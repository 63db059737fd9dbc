CONSTANTS
  p1 = p1
  p2 = p2
  Procs = {p1, p2}
  NINODES = 5
  NINODE = 5
  Names = {"a", "b"}
  Scenes <- MCScenes
SPECIFICATION FairSpec
INVARIANTS NoPanic CrashSafe InodesSound
PROPERTIES CallsReturn
CHECK_DEADLOCK FALSE
