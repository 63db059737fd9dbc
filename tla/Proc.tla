-------------------------------- MODULE Proc --------------------------------
(***************************************************************************)
(* The processes of the kernel: the process table and the context switch   *)
(* (proc.c), with the traps that drive it (trap.c), the sleep system call  *)
(* (sysproc.c) and the program name that exec leaves behind (exec.c).      *)
(***************************************************************************)
EXTENDS ProcSched, ProcFamily

(***************************************************************************)
(* sys_sleep() and the sleep(&ticks, &tickslock) in its loop.              *)
(***************************************************************************)
SleepStart(c, p) ==
  /\ At(c, p, "sleep")
  /\ tickslock = NONE
  /\ tickslock' = c
  /\ \E n \in SleepTicks : left' = [left EXCEPT ![p] = n]
  /\ Goto(p, "slp_loop")
  /\ UNCHANGED <<ptlock, state, chan, ptable, text, ret, np, percpu>>

SleepDone(c, p) ==
  /\ At(c, p, "slp_loop")
  /\ left[p] = 0 \/ killed[p]
  /\ left' = [left EXCEPT ![p] = 0]
  /\ tickslock' = NONE
  /\ Goto(p, "sysret")
  /\ UNCHANGED <<ptlock, state, chan, ptable, text, ret, np, percpu>>

\* Mutation of SleepCheck: lk is released before ptable.lock is taken.
SleepCheck_EarlyRelease(c, p) ==
  /\ At(c, p, "slp_loop")
  /\ left[p] > 0 /\ ~killed[p]
  /\ Goto(p, "slp_acq")
  /\ tickslock' = NONE
  /\ UNCHANGED <<ptlock, state, chan, ptable, text, frame, percpu>>

SleepCheck(c, p) ==
  /\ At(c, p, "slp_loop")
  /\ left[p] > 0 /\ ~killed[p]
  /\ Goto(p, "slp_acq")
  /\ UNCHANGED <<ptlock, tickslock, state, chan, ptable, text, frame, percpu>>

\* sleep(): ptable.lock is taken before lk is released.
SleepLock(c, p) ==
  /\ At(c, p, "slp_acq")
  /\ ptlock = NONE
  /\ ptlock' = c
  /\ Goto(p, "slp_rel")
  /\ UNCHANGED <<tickslock, state, chan, ptable, text, frame, percpu>>

\* Mutation of SleepUnlock: lk is not released.
SleepUnlock_KeepLock(c, p) ==
  /\ At(c, p, "slp_rel")
  /\ Goto(p, "slp_set")
  /\ UNCHANGED <<ptlock, tickslock, state, chan, ptable, text, frame, percpu>>

SleepUnlock(c, p) ==
  /\ At(c, p, "slp_rel")
  /\ tickslock' = NONE
  /\ Goto(p, "slp_set")
  /\ UNCHANGED <<ptlock, state, chan, ptable, text, frame, percpu>>

SleepSet(c, p) ==
  /\ At(c, p, "slp_set")
  /\ chan' = [chan EXCEPT ![p] = TICKS]
  /\ state' = [state EXCEPT ![p] = "SLEEPING"]
  /\ ret' = [ret EXCEPT ![p] = "slp_reacq"]
  /\ Goto(p, "sched")
  /\ UNCHANGED <<ptlock, tickslock, ptable, text, np, left, percpu>>

SleepRelock(c, p) ==
  /\ At(c, p, "slp_reacq")
  /\ tickslock = NONE
  /\ tickslock' = c
  /\ Goto(p, "slp_loop")
  /\ UNCHANGED <<ptlock, state, chan, ptable, text, frame, percpu>>

\* exec(): the name is saved and the image committed, or nothing changes.
exec(c, p) ==
  /\ At(c, p, "exec")
  /\ \/ ReturnsError(p) /\ UNCHANGED <<name, image>>
     \/ \E g \in Programs :
          /\ name' = [name EXCEPT ![p] = g]
          /\ image' = [image EXCEPT ![p] = g]
          /\ UNCHANGED initcall
  /\ Goto(p, "sysret")
  /\ UNCHANGED <<ptlock, tickslock, state, chan, ptable, frame, percpu>>

-----------------------------------------------------------------------------
SchedulerStep(c) ==
  \/ SchedAcquire(c) \/ SchedSkip(c) \/ SchedRun(c) \/ SchedBack(c) \/ SchedRelease(c)

HandlerStep(c) ==
  \/ TickCount(c) \/ TickWakeup(c) \/ TickRelease(c)

\* What a process does in the kernel.
KernelStep(c, p) ==
  \/ sched(c, p) \/ YieldReturn(c, p) \/ SleepReturn(c, p)
  \/ yield(c, p) \/ ReturnToUser(c, p)
  \/ allocproc(c, p) \/ ForkKstack(c, p) \/ ForkCopy(c, p) \/ ForkUndo(c, p)
  \/ ForkRun(c, p) \/ ForkName(c, p)
  \/ init_exit(c, p) \/ exit(c, p)
  \/ WaitAcquire(c, p) \/ WaitReap(c, p) \/ WaitFail(c, p) \/ WaitSleep(c, p)
  \/ kill(c, p)
  \/ SleepStart(c, p) \/ SleepDone(c, p) \/ SleepCheck(c, p) \/ SleepLock(c, p)
  \/ SleepUnlock(c, p) \/ SleepSet(c, p) \/ SleepRelock(c, p)
  \/ exec(c, p)

\* What user code makes the CPU do.
UserStep(c, p) == Fault(c, p) \/ \E l \in Calls : Syscall(c, p, l)

Next ==
  \E c \in CPU :
    \/ SchedulerStep(c)
    \/ TimerIntr(c)
    \/ HandlerStep(c)
    \/ \E p \in Slots : KernelStep(c, p) \/ UserStep(c, p)

Spec == Init /\ [][Next]_vars

=============================================================================
