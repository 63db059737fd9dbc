------------------------------- MODULE MCProc -------------------------------
(***************************************************************************)
(* Instances of Proc for TLC. All calls at once on two CPUs are too much   *)
(* for TLC, so a behaviour is one of four scenes, which differ in what     *)
(* user code asks for and, for kill, in the CPUs that run. The kernel is   *)
(* the same in all of them.                                                *)
(***************************************************************************)
EXTENDS ProcProps

CONSTANT Scenes
VARIABLE scene

\* The calls of user code: a child with a child of its own, which exit and
\* wait in any order; a family with kills and faults, on one CPU; the same
\* chain in which only init waits; one child that sleeps, is killed and runs
\* programs. init exits when its fork has failed in any of them.
Chain(p) == p = InitProc <=> nextpid = 2
Asked(p, l) == (p = InitProc /\ initcall = "exit") \/
  CASE scene = "family" -> l \in {"exit", "wait"} \/ (l = "fork" /\ Chain(p))
    [] scene = "kill" -> l \in {"fork", "exit", "wait", "kill"}
    [] scene = "orphan" -> l = "exit" \/ (p = InitProc /\ l = "wait") \/ (l = "fork" /\ Chain(p))
    [] scene = "sleep" -> l \in {"sleep", "kill", "wait"} \/ (l = "exec" /\ (p = InitProc => nextpid = 2))
                          \/ (l = "fork" /\ nextpid = 2)
Runs(c) == scene = "kill" => c = CPU0

SceneInit == Init /\ scene \in Scenes
SceneNext ==
  /\ UNCHANGED scene
  /\ \E c \in CPU :
       /\ Runs(c)
       /\ \/ SchedulerStep(c)
          \/ TimerIntr(c)
          \/ HandlerStep(c)
          \/ \E p \in Slots : \/ KernelStep(c, p)
                              \/ scene # "family" /\ Fault(c, p)
                              \/ \E l \in Calls : Asked(p, l) /\ Syscall(c, p, l)
SceneSpec == SceneInit /\ [][SceneNext]_<<vars, scene>>
SceneFairSpec == SceneSpec /\ Fairness
=============================================================================
