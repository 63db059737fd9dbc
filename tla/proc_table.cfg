CONSTANTS
  Scenes = {"family", "kill", "sleep"}
  CPU = {c0, c1}
  CPU0 = c0
  NPROC = 3
  MaxPid = 3
  KillPids = {1, 2, 3}
  SleepTicks = {1}
  Programs = {sh}
  BootName = initcode
  TICKS = TICKS
  NONE = NONE
SPECIFICATION SceneSpec
INVARIANTS OneCpuPerStack SlotsSound NoLostWakeup NoPanic
