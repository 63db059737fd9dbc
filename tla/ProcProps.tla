------------------------------ MODULE ProcProps ------------------------------
(***************************************************************************)
(* What the process table of Proc must guarantee, and the fairness under   *)
(* which its liveness properties are checked.                              *)
(***************************************************************************)
EXTENDS Proc

(***************************************************************************)
(* Fairness.  A CPU executes the code it is in.  The timer keeps           *)
(* interrupting, and an interrupt that arrives with interrupts disabled is *)
(* held by the local APIC until they are enabled.  The timer's period is   *)
(* longer than its handler: the interrupted code is not interrupted again  *)
(* and again before its next step, hence SF for the steps that a timer     *)
(* interrupt may precede.  init keeps calling wait (the loop of init.c),   *)
(* or calls exit when its fork has failed.                                 *)
(* With several CPUs, SF would also say that no CPU is starved spinning on *)
(* a lock, which xchg does not promise: the liveness runs have one CPU.    *)
(***************************************************************************)
Progress(c, p) == pc[p] \in Open /\ KernelStep(c, p)

Fairness ==
  \A c \in CPU :
    /\ SF_vars(SchedulerStep(c))
    /\ SF_vars(TimerIntr(c))
    /\ WF_vars(HandlerStep(c))
    /\ \A p \in Slots : WF_vars(KernelStep(c, p)) /\ SF_vars(Progress(c, p))
    /\ SF_vars(\E l \in {"wait", "exit"} : Syscall(c, InitProc, l))

FairSpec == Spec /\ Fairness

-----------------------------------------------------------------------------
\* No two CPUs execute on the kernel stack of one process: a process that
\* has set its state to RUNNABLE or ZOMBIE is not picked up or freed before
\* its CPU has switched away from its stack (scheduler, sched, yield).
OneCpuPerStack ==
  \A c, d \in CPU : c # d /\ proc[c] # NONE => proc[c] # proc[d]

\* A CPU never executes on a kernel stack, nor with a page directory, that
\* wait() or a failed fork() has freed.
NeverOnFreedMemory ==
  \A c \in CPU :
    /\ proc[c] # NONE => kstack[proc[c]]
    /\ cr3[c] # NONE => pgdir[cr3[c]]

\* None of the panics of sched() and sleep() is reachable, nor "zombie exit":
\* sched is entered holding ptable.lock and no other lock, with interrupts off
\* and in a state other than RUNNING, and a zombie is never resumed. "init
\* exiting" is reached only when kill(1) was called, or a fork or exec of init
\* has failed.
NoPanic ==
  \A c \in CPU, p \in Slots :
    /\ At(c, p, "sched") => SchedChecks(c, p)
    /\ ~(At(c, p, "resumed") /\ ret[p] = "zombie")
    /\ At(c, InitProc, "exit") \/ At(c, InitProc, "panic") => killed[InitProc] \/ initcall = "exit"

\* No wakeup is lost. A process asleep in sys_sleep whose time is up is about
\* to be woken by the handler that counted the tick. None is asleep in wait()
\* with a zombie child, its own or one that exit() has passed to init, nor
\* without a child that could wake it, nor killed: ptable.lock covers wait's
\* tests and its going to sleep.
NoLostWakeup ==
  \A p \in Slots : state[p] = "SLEEPING" =>
    /\ chan[p] = TICKS /\ left[p] = 0 => \E c \in CPU : irq[c] = "tickwake"
    /\ chan[p] = p => ZombieChildren(p) = {} /\ Children(p) # {} /\ ~killed[p]

\* The process table is a forest of the living: every process but init has a
\* parent that has not exited (exit passes the abandoned children to init).
ParentAlive ==
  \A p \in Slots :
    state[p] \notin {"UNUSED", "EMBRYO"} /\ p # InitProc
      => /\ parent[p] # NONE
         /\ state[parent[p]] \notin {"UNUSED", "EMBRYO", "ZOMBIE"}

\* Two processes never have the same pid, and none has pid 0.
PidsUnique ==
  \A p, q \in Slots :
    state[p] # "UNUSED" /\ state[q] # "UNUSED"
      => pid[p] # 0 /\ (pid[p] = pid[q] => p = q)

\* A slot that is given back owns no memory, whichever path gave it back.
NoLeak ==
  \A p \in Slots : state[p] = "UNUSED" => ~kstack[p] /\ ~pgdir[p]

\* What the slots of the table own is right at every step of fork, exit and
\* wait: memory is not freed under a CPU nor left in a slot given back, every
\* process has a parent that will wait for it, and a pid of its own.
SlotsSound == NeverOnFreedMemory /\ NoLeak /\ ParentAlive /\ PidsUnique

\* A process is born unkilled: only a kill() aimed at its pid, or a fault of
\* its own, marks it ("Kill the process with the given pid", kill).
BornAlive ==
  [][\A p \in Slots : state[p] = "UNUSED" /\ state'[p] = "EMBRYO" => ~killed'[p]]_vars

\* init is in panic(), with interrupts disabled on its CPU.
Panicked == pc[InitProc] = "panic"

\* Every process that can run gets a CPU: the scheduler's scan and the timer
\* keep any process from being passed over for ever, unless init panics.
RunnableRuns ==
  \A p \in Slots : state[p] = "RUNNABLE" ~> state[p] = "RUNNING" \/ Panicked

\* A zombie whose parent is init, by birth or by adoption in exit(), is
\* eventually freed by init's wait(), unless init panics.
ZombieReaped ==
  \A p \in Slots \ {InitProc} :
    state[p] = "ZOMBIE" /\ parent[p] = InitProc ~> state[p] = "UNUSED" \/ Panicked

\* A process asleep in sys_sleep gets out of it once its ticks have passed or
\* it has been killed, unless init panics.
SleepEnds ==
  \A p \in Slots : state[p] = "SLEEPING" /\ chan[p] = TICKS ~> pc[p] = "sysret" \/ Panicked

\* Whoever can go on does: a runnable process runs and a sleep ends, unless
\* init has panicked.
NobodyStuck == RunnableRuns /\ SleepEnds

\* A killed process, wherever it was when kill() marked it, eventually exits,
\* unless init panics.
KilledDies ==
  \A p \in Slots :
    killed[p] /\ state[p] # "UNUSED" ~> state[p] \in {"ZOMBIE", "UNUSED"} \/ Panicked

=============================================================================
