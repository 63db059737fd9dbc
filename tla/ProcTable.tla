----------------------------- MODULE ProcTable ------------------------------
(***************************************************************************)
(* The process table of the kernel (proc.c, proc.h) and what its CPUs      *)
(* execute: the state that the scheduler and the traps (ProcSched), fork,  *)
(* exit, wait and kill (ProcFamily) and the other system calls (Proc)      *)
(* change.                                                                 *)
(*                                                                         *)
(* A CPU executes either its scheduler thread, the kernel thread of one    *)
(* process, or a timer-interrupt handler on top of either. Every access to *)
(* the table that the code makes without ptable.lock is a step of its own. *)
(***************************************************************************)
EXTENDS Naturals

CONSTANTS
  CPU,         \* the processors
  CPU0,        \* the processor whose timer interrupt advances ticks (cpu->id == 0)
  NPROC,       \* slots of the process table
  MaxPid,      \* bound: pids handed out, fork is not requested beyond it
  KillPids,    \* arguments user programs pass to kill
  SleepTicks,  \* arguments user programs pass to sleep
  Programs,    \* names of the programs exec can load
  BootName,    \* "initcode", the name userinit gives the first process
  TICKS,       \* the sleep channel &ticks
  NONE         \* the null pointer: no process, no CPU, no channel

Slots == 0 .. NPROC - 1

\* initproc: userinit runs first and so gets the first slot.
InitProc == 0

ASSUME ProcAssumption ==
  /\ CPU0 \in CPU
  /\ NPROC \in Nat \ {0}
  /\ MaxPid \in Nat
  /\ KillPids \subseteq Nat
  /\ SleepTicks \subseteq Nat
  /\ NONE \notin CPU \cup Slots \cup {TICKS}
  /\ TICKS \notin Slots

VARIABLES
  ptlock,     \* the CPU that holds ptable.lock, or NONE
  tickslock,  \* the CPU that holds tickslock, or NONE
  nextpid,    \* the next pid to hand out
  state,      \* p->state
  pid,        \* p->pid
  parent,     \* p->parent
  chan,       \* p->chan
  killed,     \* p->killed
  kstack,     \* p owns a kernel stack page
  pgdir,      \* p owns a page directory
  name,       \* p->name
  image,      \* the program p executes
  initcall,   \* what init asks for next: only exit once a fork or exec of its own has failed
  pc,         \* where the kernel thread of p is
  ret,        \* where it goes on once sched() has returned
  np,         \* the child fork is building
  left,       \* n - (ticks - ticks0) of sys_sleep, 0 once that many ticks have passed
  proc,       \* cpu->proc
  cr3,        \* whose page directory the CPU has loaded, NONE for kpgdir
  spc,        \* where the scheduler thread of the CPU is
  idx,        \* its loop index
  irq         \* where the CPU's timer-interrupt handler is

ptable  == <<nextpid, pid, parent, killed, kstack, pgdir>>
text    == <<name, image, initcall>>
frame   == <<ret, np, left>>
percpu  == <<proc, cr3, spc, idx, irq>>
vars    == <<ptlock, tickslock, state, chan, ptable, text, pc, frame, percpu>>

States   == {"UNUSED", "EMBRYO", "SLEEPING", "RUNNABLE", "RUNNING", "ZOMBIE"}

\* Points of a process with interrupts enabled: user mode and the parts of
\* system calls outside any spinlock.
Calls    == {"fork", "exit", "wait", "kill", "sleep", "exec"}
Building == {"fork_kstack", "fork_copy", "fork_undo", "fork_run", "fork_name"}
Open     == {"user", "sysret", "slp_reacq"} \cup Calls \cup Building

Points   == Open \cup {"irqret", "yield", "waitscan", "slp_loop", "slp_acq", "slp_rel",
                       "slp_set", "sched", "resumed", "zombie", "panic"}

\* The variables hold what the fields of struct proc and struct cpu can hold.
TypeOK ==
  /\ ptlock \in CPU \cup {NONE}
  /\ tickslock \in CPU \cup {NONE}
  /\ nextpid \in Nat
  /\ state \in [Slots -> States]
  /\ pid \in [Slots -> Nat]
  /\ parent \in [Slots -> Slots \cup {NONE}]
  /\ chan \in [Slots -> Slots \cup {TICKS, NONE}]
  /\ killed \in [Slots -> BOOLEAN]
  /\ kstack \in [Slots -> BOOLEAN]
  /\ pgdir \in [Slots -> BOOLEAN]
  /\ name \in [Slots -> Programs \cup {BootName, NONE}]
  /\ image \in [Slots -> Programs \cup {BootName, NONE}]
  /\ initcall \in {"any", "exit"}
  /\ pc \in [Slots -> Points]
  /\ ret \in [Slots -> Points]
  /\ np \in [Slots -> Slots \cup {NONE}]
  /\ left \in [Slots -> Nat]
  /\ proc \in [CPU -> Slots \cup {NONE}]
  /\ cr3 \in [CPU -> Slots \cup {NONE}]
  /\ spc \in [CPU -> {"idle", "scan", "away", "back"}]
  /\ idx \in [CPU -> 0 .. NPROC]
  /\ irq \in [CPU -> {"none", "ticklock", "tickwake", "tickrel"}]

(***************************************************************************)
(* userinit has made the first process RUNNABLE; every CPU is entering     *)
(* scheduler().                                                            *)
(***************************************************************************)
Init ==
  /\ ptlock = NONE /\ tickslock = NONE
  /\ nextpid = 2
  /\ state = [p \in Slots |-> IF p = InitProc THEN "RUNNABLE" ELSE "UNUSED"]
  /\ pid = [p \in Slots |-> IF p = InitProc THEN 1 ELSE 0]
  /\ parent = [p \in Slots |-> NONE]
  /\ chan = [p \in Slots |-> NONE]
  /\ killed = [p \in Slots |-> FALSE]
  /\ kstack = [p \in Slots |-> p = InitProc]
  /\ pgdir = [p \in Slots |-> p = InitProc]
  /\ name = [p \in Slots |-> IF p = InitProc THEN BootName ELSE NONE]
  /\ image = name
  /\ initcall = "any"
  /\ pc = [p \in Slots |-> "resumed"]
  /\ ret = [p \in Slots |-> "user"]
  /\ np = [p \in Slots |-> NONE]
  /\ left = [p \in Slots |-> 0]
  /\ proc = [c \in CPU |-> NONE]
  /\ cr3 = [c \in CPU |-> NONE]
  /\ spc = [c \in CPU |-> "idle"]
  /\ idx = [c \in CPU |-> 0]
  /\ irq = [c \in CPU |-> "none"]

-----------------------------------------------------------------------------
(***************************************************************************)
(* Helpers.                                                                *)
(***************************************************************************)

\* CPU c executes the kernel thread (or the user code) of process p, at l.
At(c, p, l) ==
  /\ spc[c] = "away" /\ irq[c] = "none"
  /\ proc[c] = p
  /\ pc[p] = l

Goto(p, l) == pc' = [pc EXCEPT ![p] = l]

\* Return through the frame below sched's, which is then gone.
PopTo(p) ==
  /\ Goto(p, ret[p])
  /\ ret' = [ret EXCEPT ![p] = "user"]

\* The CPU takes timer interrupts: outside every spinlock, in the idle loop of
\* the scheduler or in a process.
IntEnabled(c) ==
  \/ spc[c] = "idle"
  \/ spc[c] = "away" /\ pc[proc[c]] \in Open

\* Mutation of wakeup1: nobody is woken.
wakeup1_None(st, ch) == st

\* The table's states after wakeup1(ch) on the states st.
wakeup1(st, ch) ==
  [p \in Slots |-> IF st[p] = "SLEEPING" /\ chan[p] = ch THEN "RUNNABLE" ELSE st[p]]

\* kfree(q->kstack); q->kstack = 0.
FreeStack(q) == kstack' = [kstack EXCEPT ![q] = FALSE]

Children(p) == {q \in Slots : parent[q] = p}

ZombieChildren(p) == {q \in Children(p) : state[q] = "ZOMBIE"}

\* fork or exec returns -1; init.c and initcode.S call exit then, other programs do as they like.
ReturnsError(p) ==
  \/ p = InitProc /\ initcall' = "exit"
  \/ p # InitProc /\ UNCHANGED initcall

First(S) == CHOOSE p \in S : \A q \in S : p <= q

=============================================================================
