----------------------------- MODULE ProcSched ------------------------------
(***************************************************************************)
(* The context switch of the kernel (proc.c) and the traps that drive it   *)
(* (trap.c). ptable.lock is held across swtch: the thread that switches in *)
(* releases the lock that the thread that switched out has taken.          *)
(***************************************************************************)
EXTENDS ProcTable

(***************************************************************************)
(* scheduler(): the loop of a CPU's scheduler thread.                      *)
(***************************************************************************)

NextSlot(i) == i + 1

SchedAcquire(c) ==
  /\ spc[c] = "idle" /\ irq[c] = "none"
  /\ ptlock = NONE
  /\ ptlock' = c
  /\ spc' = [spc EXCEPT ![c] = "scan"]
  /\ UNCHANGED <<tickslock, state, chan, ptable, text, pc, frame, proc, cr3, idx, irq>>

SchedSkip(c) ==
  /\ spc[c] = "scan" /\ idx[c] < NPROC
  /\ state[idx[c]] # "RUNNABLE"
  /\ idx' = [idx EXCEPT ![c] = NextSlot(@)]
  /\ UNCHANGED <<ptlock, tickslock, state, chan, ptable, text, pc, frame, proc, cr3, spc, irq>>

\* proc = p; switchuvm(p); p->state = RUNNING; swtch to p's saved context.
SchedRun(c) ==
  LET p == idx[c] IN
  /\ spc[c] = "scan" /\ p < NPROC
  /\ state[p] = "RUNNABLE"
  /\ proc' = [proc EXCEPT ![c] = p]
  /\ cr3' = [cr3 EXCEPT ![c] = p]
  /\ state' = [state EXCEPT ![p] = "RUNNING"]
  /\ spc' = [spc EXCEPT ![c] = "away"]
  /\ UNCHANGED <<ptlock, tickslock, chan, ptable, text, pc, frame, idx, irq>>

\* Mutation of SchedBack: the scan starts again at the first slot.
SchedBack_Restart(c) ==
  /\ spc[c] = "back"
  /\ cr3' = [cr3 EXCEPT ![c] = NONE]
  /\ proc' = [proc EXCEPT ![c] = NONE]
  /\ spc' = [spc EXCEPT ![c] = "scan"]
  /\ idx' = [idx EXCEPT ![c] = 0]
  /\ UNCHANGED <<ptlock, tickslock, state, chan, ptable, text, pc, frame, irq>>

\* Back from swtch: switchkvm(); proc = 0; next slot.
SchedBack(c) ==
  /\ spc[c] = "back"
  /\ cr3' = [cr3 EXCEPT ![c] = NONE]
  /\ proc' = [proc EXCEPT ![c] = NONE]
  /\ spc' = [spc EXCEPT ![c] = "scan"]
  /\ idx' = [idx EXCEPT ![c] = NextSlot(@)]
  /\ UNCHANGED <<ptlock, tickslock, state, chan, ptable, text, pc, frame, irq>>

SchedRelease(c) ==
  /\ spc[c] = "scan" /\ idx[c] = NPROC
  /\ ptlock' = NONE
  /\ spc' = [spc EXCEPT ![c] = "idle"]
  /\ idx' = [idx EXCEPT ![c] = 0]
  /\ UNCHANGED <<tickslock, state, chan, ptable, text, pc, frame, proc, cr3, irq>>

(***************************************************************************)
(* sched(): the checks, each a panic when it fails, then the switch to the *)
(* CPU's scheduler.  A CPU holds no lock but the two modelled ones, so     *)
(* ncli == 1 says that it holds only ptable.lock. Whether interrupts are   *)
(* enabled follows from the point the CPU is at, so there is no intena to  *)
(* save: that pushcli and popcli make it so is checked in Spinlock.        *)
(***************************************************************************)
SchedChecks(c, p) ==
  /\ ptlock = c
  /\ tickslock # c
  /\ state[p] # "RUNNING"
  /\ ~IntEnabled(c)

\* Mutation of sched: ptable.lock is released before the scheduler is back.
sched_Unlocked(c, p) ==
  /\ At(c, p, "sched")
  /\ SchedChecks(c, p)
  /\ Goto(p, "resumed")
  /\ spc' = [spc EXCEPT ![c] = "back"]
  /\ ptlock' = NONE
  /\ UNCHANGED <<tickslock, state, chan, ptable, text, frame, proc, cr3, idx, irq>>

sched(c, p) ==
  /\ At(c, p, "sched")
  /\ SchedChecks(c, p)
  /\ Goto(p, "resumed")
  /\ spc' = [spc EXCEPT ![c] = "back"]
  /\ UNCHANGED <<ptlock, tickslock, state, chan, ptable, text, frame, proc, cr3, idx, irq>>

\* sched() has returned into yield(), or a new process starts in forkret().
YieldReturn(c, p) ==
  /\ At(c, p, "resumed")
  /\ ret[p] \notin {"waitscan", "slp_reacq", "zombie"}
  /\ ptlock' = NONE
  /\ PopTo(p)
  /\ UNCHANGED <<tickslock, state, chan, ptable, text, np, left, percpu>>

\* sched() has returned into sleep(): proc->chan = 0, then either the lock
\* is ptable.lock itself, or ptable.lock is released and lk reacquired.
SleepReturn(c, p) ==
  /\ At(c, p, "resumed")
  /\ ret[p] \in {"waitscan", "slp_reacq"}
  /\ chan' = [chan EXCEPT ![p] = NONE]
  /\ ptlock' = IF ret[p] = "waitscan" THEN ptlock ELSE NONE
  /\ PopTo(p)
  /\ UNCHANGED <<tickslock, state, ptable, text, np, left, percpu>>

-----------------------------------------------------------------------------
(***************************************************************************)
(* trap(): timer interrupts.  The handler starts only with interrupts      *)
(* enabled, that is, outside every spinlock of the CPU.                    *)
(***************************************************************************)
\* Mutation of MustExit: killed is not tested.
MustExit_Never(p) == FALSE

\* proc->killed, as handle_syscall and trap test it at the border to user mode.
MustExit(p) == killed[p]

\* The tail of trap() after a timer interrupt: a killed process leaves user
\* mode for exit(), a RUNNING one yields, the scheduler thread just goes on.
TrapTail(c) ==
  LET p == proc[c] IN
  \/ p = NONE /\ UNCHANGED <<pc, ret>>
  \/ /\ p # NONE /\ pc[p] = "user" /\ MustExit(p)
     /\ Goto(p, "exit")
     /\ UNCHANGED ret
  \/ /\ p # NONE /\ ~(pc[p] = "user" /\ MustExit(p))
     /\ state[p] = "RUNNING"
     /\ ret' = [ret EXCEPT ![p] = IF pc[p] = "user" THEN "irqret" ELSE pc[p]]
     /\ Goto(p, "yield")

\* On CPU0 the handler goes on to count the tick, elsewhere it is done.
TimerIntr(c) ==
  /\ irq[c] = "none" /\ IntEnabled(c)
  /\ \/ /\ c = CPU0
        /\ irq' = [irq EXCEPT ![c] = "ticklock"]
        /\ UNCHANGED <<pc, ret>>
     \/ /\ c # CPU0
        /\ TrapTail(c)
        /\ UNCHANGED irq
  /\ UNCHANGED <<ptlock, tickslock, state, chan, ptable, text, np, left, proc, cr3, spc, idx>>

\* acquire(&tickslock); ticks++.
TickCount(c) ==
  /\ irq[c] = "ticklock"
  /\ tickslock = NONE
  /\ tickslock' = c
  /\ left' = [p \in Slots |-> IF left[p] = 0 THEN 0 ELSE left[p] - 1]
  /\ irq' = [irq EXCEPT ![c] = "tickwake"]
  /\ UNCHANGED <<ptlock, state, chan, ptable, text, pc, ret, np, proc, cr3, spc, idx>>

\* wakeup(&ticks), which takes and releases ptable.lock.
TickWakeup(c) ==
  /\ irq[c] = "tickwake"
  /\ ptlock = NONE
  /\ state' = wakeup1(state, TICKS)
  /\ irq' = [irq EXCEPT ![c] = "tickrel"]
  /\ UNCHANGED <<ptlock, tickslock, chan, ptable, text, pc, frame, proc, cr3, spc, idx>>

\* release(&tickslock), and the handler is done.
TickRelease(c) ==
  /\ irq[c] = "tickrel"
  /\ tickslock' = NONE
  /\ irq' = [irq EXCEPT ![c] = "none"]
  /\ TrapTail(c)
  /\ UNCHANGED <<ptlock, state, chan, ptable, text, np, left, proc, cr3, spc, idx>>

yield(c, p) ==
  /\ At(c, p, "yield")
  /\ ptlock = NONE
  /\ ptlock' = c
  /\ state' = [state EXCEPT ![p] = "RUNNABLE"]
  /\ Goto(p, "sched")
  /\ UNCHANGED <<tickslock, chan, ptable, text, frame, percpu>>

\* A fault in user mode: handle_unexpected_trap sets killed, trap() exits.
\* init does not fault.
Fault(c, p) ==
  /\ At(c, p, "user") /\ p # InitProc
  /\ killed' = [killed EXCEPT ![p] = TRUE]
  /\ Goto(p, "exit")
  /\ UNCHANGED <<ptlock, tickslock, state, chan, nextpid, pid, parent, kstack, pgdir, text,
                 frame, percpu>>

\* handle_syscall: the killed test on the way in, then the call l.  init
\* asks to exit when a fork or exec of its own has failed, and only then;
\* no fork is asked for once the pids of the model are used up.
Syscall(c, p, l) ==
  /\ At(c, p, "user")
  /\ p = InitProc => (l = "exit" <=> initcall = "exit")
  /\ l = "fork" => nextpid <= MaxPid
  /\ l = "exec" => Programs # {}
  /\ l = "kill" => KillPids # {}
  /\ l = "sleep" => SleepTicks # {}
  /\ Goto(p, IF MustExit(p) THEN "exit" ELSE l)
  /\ UNCHANGED <<ptlock, tickslock, state, chan, ptable, text, frame, percpu>>

\* The killed test on the way out, of a system call or of a timer interrupt.
ReturnToUser(c, p) ==
  /\ At(c, p, "sysret") \/ At(c, p, "irqret")
  /\ Goto(p, IF MustExit(p) THEN "exit" ELSE "user")
  /\ UNCHANGED <<ptlock, tickslock, state, chan, ptable, text, frame, percpu>>

=============================================================================
