CONSTANTS
  Scenes = {"orphan", "sleep"}
  CPU = {c0}
  CPU0 = c0
  NPROC = 3
  MaxPid = 3
  KillPids = {2}
  SleepTicks = {1}
  Programs = {}
  BootName = initcode
  TICKS = TICKS
  NONE = NONE
SPECIFICATION SceneFairSpec
PROPERTIES NobodyStuck KilledDies ZombieReaped
