CONSTANTS
  CPU = {c0}
  CPU0 = c0
  NPROC = 2
  MaxPid = 3
  KillPids = {0}
  SleepTicks = {}
  Programs = {}
  BootName = initcode
  TICKS = TICKS
  NONE = NONE
SPECIFICATION Spec
PROPERTY BornAlive
