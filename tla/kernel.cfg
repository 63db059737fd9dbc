CONSTANTS
  CPUs = {c1, c2}
  NoCpu = NoCpu
  Locks = {1, 2}
  NoLock = 0
  MaxCli = 1
  Procs = {p1, p2}
  initproc = p1
SPECIFICATION MCSpec
INVARIANTS CriticalSection MemorySound BootSound KeyMeaning ProbeFinds
