------------------------------- MODULE ProcInv -------------------------------
(***************************************************************************)
(* The inductive invariant of the process table, what a step may do to the *)
(* table and to the CPUs without breaking it (ProcessStep, RunStep), and   *)
(* that the scheduler and the timer handler are made of such steps.        *)
(* LoopStep is about the scheduler's own loop, HandlerMove about the       *)
(* handler.                                                                *)
(***************************************************************************)
EXTENDS ProcSched, TLAPS

Live   == {"RUNNABLE", "RUNNING", "SLEEPING", "ZOMBIE"}

\* Points at which a process that is on a CPU holds ptable.lock, tickslock.
HoldPt    == {"sched", "resumed", "waitscan", "slp_rel", "slp_set"}
HoldTicks == {"slp_loop", "slp_acq", "slp_rel"}

\* Where p is in its own code, a preemption by the timer left aside.
Where == [p \in Slots |-> IF pc[p] \in {"yield", "sched", "resumed"} THEN ret[p] ELSE pc[p]]

\* No two CPUs execute on the kernel stack of one process.
StackInv ==
  \A c, d \in CPU : c # d /\ proc[c] # NONE => proc[c] # proc[d]

\* What a CPU executes, and which of the two locks it holds then.
CpuInv ==
  \A c \in CPU :
    /\ spc[c] \in {"idle", "scan"} => proc[c] = NONE /\ cr3[c] = NONE
    /\ spc[c] \in {"away", "back"} => proc[c] \in Slots /\ cr3[c] = proc[c] /\ idx[c] < NPROC
    /\ irq[c] # "none" => IntEnabled(c)
    /\ ptlock = c <=> \/ spc[c] \in {"scan", "back"}
                      \/ spc[c] = "away" /\ pc[proc[c]] \in HoldPt
    /\ tickslock = c <=> \/ irq[c] \in {"tickwake", "tickrel"}
                         \/ spc[c] = "away" /\ pc[proc[c]] \in HoldTicks

\* The state of the process a CPU is on.
OnCpuInv ==
  \A c \in CPU :
    /\ spc[c] = "away" /\ pc[proc[c]] # "sched" => state[proc[c]] = "RUNNING"
    /\ spc[c] = "away" /\ pc[proc[c]] = "sched" => state[proc[c]] \in Live \ {"RUNNING"}
    /\ spc[c] = "back" => pc[proc[c]] = "resumed" /\ state[proc[c]] \in Live \ {"RUNNING"}

\* Saved contexts.
ContextInv ==
  \A p \in Slots :
    /\ (\A c \in CPU : proc[c] # p) => pc[p] = "resumed"
    /\ ret[p] \in Open \cup {"irqret", "waitscan", "zombie"}
    /\ ret[p] = "zombie" <=> state[p] = "ZOMBIE"
    /\ pc[p] # "zombie"
    /\ state[p] \in {"UNUSED", "EMBRYO"} => ret[p] = "user"

\* The child a fork is building, which nobody else touches.
BuildInv ==
  /\ \A p \in Slots :
       Where[p] \in Building \ {"fork_name"} =>
         /\ np[p] \in Slots
         /\ state[np[p]] = "EMBRYO"
         /\ kstack[np[p]] <=> Where[p] \in {"fork_copy", "fork_run"}
         /\ pgdir[np[p]] <=> Where[p] = "fork_run"
         /\ parent[np[p]] = IF Where[p] = "fork_run" THEN p ELSE NONE
  /\ \A p, q \in Slots :
       /\ Where[p] \in Building \ {"fork_name"} /\ Where[q] \in Building \ {"fork_name"}
       /\ np[p] = np[q]
       => p = q
  /\ \A p \in Slots : Where[p] = "fork_name" => np[p] \in Slots

MemoryInv ==
  \A p \in Slots :
    /\ state[p] \in Live => kstack[p] /\ pgdir[p]
    /\ state[p] = "UNUSED" => ~kstack[p] /\ ~pgdir[p] /\ parent[p] = NONE

TickInv ==
  \A p \in Slots :
    /\ pc[p] \in {"slp_acq", "slp_rel"} => left[p] > 0
    /\ \/ pc[p] = "slp_set"
       \/ state[p] = "SLEEPING" /\ chan[p] = TICKS
       => left[p] > 0 \/ \E c \in CPU : irq[c] = "tickwake"

WaitInv ==
  \A p \in Slots :
    /\ chan[p] \in {p, TICKS, NONE}
    /\ state[p] = "SLEEPING" /\ chan[p] = p =>
         /\ \A q \in Slots : parent[q] = p => state[q] # "ZOMBIE"
         /\ \E q \in Slots : parent[q] = p
         /\ ~killed[p]

FamilyInv ==
  /\ state[InitProc] \in Live \ {"ZOMBIE"}
  /\ parent[InitProc] = NONE
  /\ \A p \in Slots : parent[p] # p
  /\ \A p \in Slots \ {InitProc} :
       state[p] \in Live => parent[p] \in Slots /\ state[parent[p]] \in Live \ {"ZOMBIE"}

PidInv ==
  /\ \A p \in Slots : state[p] # "UNUSED" => 0 < pid[p] /\ pid[p] < nextpid
  /\ \A p, q \in Slots :
       state[p] # "UNUSED" /\ state[q] # "UNUSED" /\ pid[p] = pid[q] => p = q
  /\ 0 < nextpid

IInv ==
  /\ TypeOK /\ CpuInv /\ StackInv /\ OnCpuInv /\ ContextInv /\ BuildInv
  /\ MemoryInv /\ TickInv /\ WaitInv /\ FamilyInv /\ PidInv

-----------------------------------------------------------------------------
\* The invariant holds when every CPU enters scheduler() after userinit.
LEMMA InitInv == Init => IInv
<1>. SUFFICES ASSUME Init PROVE IInv
  OBVIOUS
<1>. USE ProcAssumption DEF Init, Slots, InitProc
<1>1. TypeOK
  BY DEF TypeOK, States, Points, Open, Calls, Building
<1>2. CpuInv /\ StackInv /\ OnCpuInv
  BY DEF CpuInv, StackInv, OnCpuInv
<1>3. ContextInv /\ BuildInv /\ MemoryInv
  BY Zenon DEF ContextInv, BuildInv, MemoryInv, Where, Open, Building, Live
<1>4. TickInv /\ WaitInv /\ FamilyInv /\ PidInv
  BY DEF TickInv, WaitInv, FamilyInv, PidInv, Live
<1>. QED BY <1>1, <1>2, <1>3, <1>4 DEF IInv

\* init has a slot of the table (userinit).
LEMMA InitSlot == InitProc \in Slots
  BY ProcAssumption DEF InitProc, Slots

\* wakeup1 makes RUNNABLE exactly the processes that sleep on its channel.
LEMMA Wakeup1State ==
  ASSUME NEW st \in [Slots -> States], NEW ch
  PROVE  /\ wakeup1(st, ch) \in [Slots -> States]
         /\ \A q \in Slots :
              \/ st[q] = "SLEEPING" /\ chan[q] = ch /\ wakeup1(st, ch)[q] = "RUNNABLE"
              \/ (st[q] # "SLEEPING" \/ chan[q] # ch) /\ wakeup1(st, ch)[q] = st[q]
  BY DEF wakeup1, States

\* What an action leaves alone stays as it was.
\* CpuInv depends on these variables of the kernel only.
LEMMA CpuInvFrame ==
  ASSUME CpuInv, UNCHANGED <<ptlock, tickslock, pc, proc, cr3, spc, idx, irq>> PROVE CpuInv'
  BY DEF CpuInv, IntEnabled

\* StackInv depends on these variables of the kernel only.
LEMMA StackInvFrame ==
  ASSUME StackInv, UNCHANGED <<proc>> PROVE StackInv'
  BY DEF StackInv

\* OnCpuInv depends on these variables of the kernel only.
LEMMA OnCpuInvFrame ==
  ASSUME OnCpuInv, UNCHANGED <<state, pc, proc, spc>> PROVE OnCpuInv'
  BY DEF OnCpuInv

\* ContextInv depends on these variables of the kernel only.
LEMMA ContextInvFrame ==
  ASSUME ContextInv, UNCHANGED <<state, pc, ret, proc>> PROVE ContextInv'
  BY DEF ContextInv

\* BuildInv depends on these variables of the kernel only.
LEMMA BuildInvFrame ==
  ASSUME BuildInv, UNCHANGED <<state, parent, kstack, pgdir, pc, ret, np>> PROVE BuildInv'
  BY DEF BuildInv, Where

\* MemoryInv depends on these variables of the kernel only.
LEMMA MemoryInvFrame ==
  ASSUME MemoryInv, UNCHANGED <<state, parent, kstack, pgdir>> PROVE MemoryInv'
  BY DEF MemoryInv

\* TickInv depends on these variables of the kernel only.
LEMMA TickInvFrame ==
  ASSUME TickInv, UNCHANGED <<state, chan, pc, left, irq>> PROVE TickInv'
  BY DEF TickInv

\* WaitInv depends on these variables of the kernel only.
LEMMA WaitInvFrame ==
  ASSUME WaitInv, UNCHANGED <<state, parent, chan, killed>> PROVE WaitInv'
  BY DEF WaitInv

\* FamilyInv depends on these variables of the kernel only.
LEMMA FamilyInvFrame ==
  ASSUME FamilyInv, UNCHANGED <<state, parent>> PROVE FamilyInv'
  BY DEF FamilyInv

\* PidInv depends on these variables of the kernel only.
LEMMA PidInvFrame ==
  ASSUME PidInv, UNCHANGED <<nextpid, state, pid>> PROVE PidInv'
  BY DEF PidInv

\* A process goes on to a point where it holds ptable.lock, tickslock, both or
\* none, perhaps waking others; the other slots it writes are on no CPU.
LEMMA LockMove ==
  ASSUME IInv, NEW c \in CPU, NEW p \in Slots, spc[c] = "away" /\ irq[c] = "none" /\ proc[c] = p,
         pc'[p] # "sched" => state'[p] = "RUNNING",
         pc'[p] = "sched" => state'[p] \in Live \ {"RUNNING"},
         \A q \in Slots \ {p} : pc'[q] = pc[q] \/ \A d \in CPU : proc[d] # q,
         \A q \in Slots \ {p} : \/ state'[q] = state[q] \/ \A d \in CPU : proc[d] # q
                                \/ state[q] = "SLEEPING" /\ state'[q] = "RUNNABLE",
         UNCHANGED <<proc, cr3, spc, idx, irq>>,
         ptlock' = c <=> pc'[p] \in HoldPt, tickslock' = c <=> pc'[p] \in HoldTicks,
         \A d \in CPU \ {c} : (ptlock' = d <=> ptlock = d) /\ (tickslock' = d <=> tickslock = d)
  PROVE  CpuInv' /\ OnCpuInv'
<1>1. \A d \in CPU \ {c} : spc[d] \in {"away", "back"} => proc[d] \in Slots \ {p} /\ pc'[proc[d]] = pc[proc[d]]
  BY ProcAssumption DEF IInv, CpuInv, StackInv
<1>2. \A d \in CPU \ {c} : IntEnabled(d)' <=> IntEnabled(d)
  BY <1>1, Zenon DEF IntEnabled
<1>3. CpuInv'
  BY <1>1, <1>2 DEF IInv, CpuInv
<1>4. \A d \in CPU \ {c} : spc[d] \in {"away", "back"} =>
        \/ state'[proc[d]] = state[proc[d]]
        \/ state[proc[d]] = "SLEEPING" /\ state'[proc[d]] = "RUNNABLE"
  BY <1>1, Zenon
<1>5. OnCpuInv'
  BY <1>1, <1>4 DEF IInv, OnCpuInv, Live
<1>. QED BY <1>3, <1>5, Zenon

\* The contexts when p, which is on a CPU, goes on, others are woken, and
\* slots that nobody runs are written by a fork.
LEMMA ContextMove ==
  ASSUME ContextInv, NEW c \in CPU, NEW p \in Slots, proc[c] = p, UNCHANGED proc,
         \A q \in Slots \ {p} : pc'[q] = pc[q] \/ pc'[q] = "resumed",
         pc'[p] # "zombie",
         \A q \in Slots :
           \/ /\ ret'[q] = ret[q]
              /\ \/ state'[q] = state[q]
                 \/ state[q] # "ZOMBIE" /\ state'[q] \notin {"UNUSED", "EMBRYO", "ZOMBIE"}
                 \/ state[q] \in {"UNUSED", "EMBRYO"} /\ state'[q] \in {"UNUSED", "EMBRYO"}
           \/ ret'[q] \in Open \cup {"irqret", "waitscan"} /\ state'[q] \notin {"UNUSED", "EMBRYO", "ZOMBIE"}
           \/ ret'[q] = "user" /\ state'[q] # "ZOMBIE"
           \/ ret'[q] = "zombie" /\ state'[q] = "ZOMBIE"
  PROVE  ContextInv'
<1>1. "user" \in Open /\ "zombie" \notin Open
  BY Zenon DEF Open, Calls, Building
<1>. QED BY <1>1 DEF ContextInv

\* The forks in progress when no other starts and their children stay as
\* they are.
LEMMA BuildMove ==
  ASSUME BuildInv,
         \A q \in Slots : Where'[q] \in Building => Where'[q] = Where[q] /\ np'[q] = np[q],
         \A q \in Slots : state[q] = "EMBRYO" =>
           state'[q] = "EMBRYO" /\ kstack'[q] = kstack[q] /\ pgdir'[q] = pgdir[q] /\ parent'[q] = parent[q]
  PROVE  BuildInv'
<1>1. "fork_name" \in Building /\ {"fork_copy", "fork_run"} \subseteq Building
  BY Zenon DEF Building
<1>. QED BY <1>1 DEF BuildInv

\* The memory, the sleepers in wait(), the parents and the pids when processes
\* start and stop running, or go to sleep on the channel of the timer.
LEMMA LiveMove ==
  ASSUME MemoryInv, WaitInv, FamilyInv, PidInv,
         UNCHANGED <<nextpid, pid, parent, kstack, pgdir>>,
         \A q \in Slots :
           /\ \/ state'[q] = state[q]
              \/ state[q] \in Live /\ state'[q] \in Live \ {"ZOMBIE"}
           /\ chan'[q] \in {q, TICKS, NONE}
           /\ state'[q] = "SLEEPING" /\ chan'[q] = q =>
                \/ state[q] = "SLEEPING" /\ chan[q] = q /\ killed'[q] = killed[q]
                \/ /\ \A r \in Slots : parent[r] = q => state[r] # "ZOMBIE"
                   /\ \E r \in Slots : parent[r] = q
                   /\ ~killed'[q]
  PROVE  MemoryInv' /\ WaitInv' /\ FamilyInv' /\ PidInv'
<1>1. \A q \in Slots : (state'[q] \in Live <=> state[q] \in Live) /\ (state'[q] = "UNUSED" <=> state[q] = "UNUSED")
                       /\ (state'[q] = "ZOMBIE" => state[q] = "ZOMBIE")
  BY Zenon DEF Live
<1>2. MemoryInv'
  BY <1>1, Zenon DEF MemoryInv
<1>3. WaitInv'
  BY <1>1, Zenon DEF WaitInv
<1>4. FamilyInv'
  BY <1>1, InitSlot DEF FamilyInv
<1>5. PidInv'
  BY <1>1 DEF PidInv
<1>. QED BY <1>2, <1>3, <1>4, <1>5, Zenon

\* A process takes a step of its own, perhaps waking or killing others: it
\* gets or drops the locks, goes to sleep, yields or goes on running.
LEMMA ProcessStep ==
  ASSUME IInv, TypeOK', NEW c \in CPU, NEW p \in Slots,
         spc[c] = "away" /\ irq[c] = "none" /\ proc[c] = p /\ pc[p] # "sched",
         UNCHANGED <<nextpid, pid, parent, kstack, pgdir, percpu>>,
         ptlock' = c <=> pc'[p] \in HoldPt, tickslock' = c <=> pc'[p] \in HoldTicks,
         \A d \in CPU \ {c} : (ptlock' = d <=> ptlock = d) /\ (tickslock' = d <=> tickslock = d),
         \A q \in Slots \ {p} :
           /\ pc'[q] = pc[q] /\ ret'[q] = ret[q] /\ np'[q] = np[q] /\ left'[q] = left[q] /\ chan'[q] = chan[q]
           /\ state'[q] = state[q] \/ (state[q] = "SLEEPING" /\ state'[q] = "RUNNABLE")
           /\ killed'[q] = killed[q] \/ state'[q] # "SLEEPING",
         IF pc'[p] = "sched" THEN state'[p] \in {"RUNNABLE", "SLEEPING"} ELSE state'[p] = "RUNNING",
         pc'[p] # "zombie" /\ ret'[p] \in Open \cup {"irqret", "waitscan"},
         Where'[p] \in Building => Where'[p] = Where[p] /\ np'[p] = np[p],
         pc'[p] \in {"slp_acq", "slp_rel"} => left'[p] > 0,
         \/ pc'[p] = "slp_set"
         \/ state'[p] = "SLEEPING" /\ chan'[p] = TICKS
         => left'[p] > 0 \/ \E d \in CPU : irq[d] = "tickwake",
         chan'[p] \in {p, TICKS, NONE},
         state'[p] = "SLEEPING" /\ chan'[p] = p =>
           /\ \A r \in Slots : parent[r] = p => state[r] # "ZOMBIE"
           /\ \E r \in Slots : parent[r] = p
           /\ ~killed'[p]
  PROVE  IInv'
<1>1. /\ CpuInv /\ StackInv /\ OnCpuInv /\ ContextInv /\ BuildInv
      /\ MemoryInv /\ TickInv /\ WaitInv /\ FamilyInv /\ PidInv
      /\ UNCHANGED <<proc, cr3, spc, idx, irq>>
  BY Zenon DEF IInv, percpu
<1>2. state[p] = "RUNNING"
  BY <1>1, Zenon DEF OnCpuInv
<1>3. state'[p] \in Live \ {"ZOMBIE"} /\ state'[p] \notin {"UNUSED", "EMBRYO", "ZOMBIE"}
  BY Zenon DEF Live
<1>4. \A q \in Slots \ {p} : Where'[q] = Where[q]
  BY Zenon DEF Where
<1>. HIDE DEF IInv
<1>5. CpuInv' /\ OnCpuInv'
  <2>1. pc'[p] = "sched" => state'[p] \in Live \ {"RUNNING"}
    BY Zenon DEF Live
  <2>2. pc'[p] # "sched" => state'[p] = "RUNNING"
    BY Zenon
  <2>3. \A q \in Slots \ {p} : pc'[q] = pc[q] \/ \A d \in CPU : proc[d] # q
    OBVIOUS
  <2>4. \A q \in Slots \ {p} : \/ state'[q] = state[q] \/ \A d \in CPU : proc[d] # q
                               \/ state[q] = "SLEEPING" /\ state'[q] = "RUNNABLE"
    OBVIOUS
  <2>. QED BY <1>1, <2>1, <2>2, <2>3, <2>4, LockMove
<1>6. StackInv'
  BY <1>1, StackInvFrame
<1>7. ContextInv'
  <2>1. \A q \in Slots : \/ ret'[q] = ret[q] /\ (\/ state'[q] = state[q]
                                                 \/ state[q] # "ZOMBIE" /\ state'[q] \notin {"UNUSED", "EMBRYO", "ZOMBIE"})
                         \/ ret'[q] \in Open \cup {"irqret", "waitscan"} /\ state'[q] \notin {"UNUSED", "EMBRYO", "ZOMBIE"}
    BY <1>3, Zenon
  <2>. QED BY <1>1, <2>1, ContextMove
<1>8. BuildInv'
  <2>1. \A q \in Slots : Where'[q] \in Building => Where'[q] = Where[q] /\ np'[q] = np[q]
    BY <1>4, Zenon
  <2>2. \A q \in Slots : state[q] = "EMBRYO" => state'[q] = "EMBRYO"
    BY <1>2, Zenon
  <2>. QED BY <1>1, <2>1, <2>2, BuildMove, Zenon
<1>9. TickInv'
  <2>1. \A q \in Slots \ {p} : state'[q] = "SLEEPING" => state[q] = "SLEEPING"
    BY Zenon
  <2>. QED BY <1>1, <2>1 DEF TickInv
<1>10. MemoryInv' /\ WaitInv' /\ FamilyInv' /\ PidInv'
  <2>1. \A q \in Slots : state'[q] = state[q] \/ (state[q] \in Live /\ state'[q] \in Live \ {"ZOMBIE"})
    BY <1>2, <1>3 DEF Live
  <2>2. \A q \in Slots : chan'[q] \in {q, TICKS, NONE}
    BY <1>1, Zenon DEF WaitInv
  <2>3. \A q \in Slots : state'[q] = "SLEEPING" /\ chan'[q] = q =>
          \/ state[q] = "SLEEPING" /\ chan[q] = q /\ killed'[q] = killed[q]
          \/ /\ \A r \in Slots : parent[r] = q => state[r] # "ZOMBIE"
             /\ \E r \in Slots : parent[r] = q
             /\ ~killed'[q]
    OBVIOUS
  <2>. QED BY <1>1, <2>1, <2>2, <2>3, LiveMove, Zenon
<1>. QED BY <1>5, <1>6, <1>7, <1>8, <1>9, <1>10, Zenon DEF IInv

\* CPU c takes or releases the two locks so as to hold what point l requires.
LocksFor(c, l) ==
  /\ ptlock' = ptlock \/ (ptlock = NONE /\ ptlock' = c) \/ (ptlock = c /\ ptlock' = NONE)
  /\ tickslock' = tickslock \/ (tickslock = NONE /\ tickslock' = c)
     \/ (tickslock = c /\ tickslock' = NONE)
  /\ ptlock' = c <=> l \in HoldPt
  /\ tickslock' = c <=> l \in HoldTicks

\* Every process may be woken, and be marked when it is not left asleep.
Roused ==
  \A q \in Slots :
    /\ state'[q] = state[q] \/ (state[q] = "SLEEPING" /\ state'[q] = "RUNNABLE")
    /\ killed'[q] = killed[q] \/ state'[q] # "SLEEPING"

\* What the step of p leaves alone when p goes on running.
RunFrame(p) ==
  /\ UNCHANGED <<chan, nextpid, pid, parent, kstack, pgdir, ret, percpu>>
  /\ \A q \in Slots \ {p} : np'[q] = np[q] /\ left'[q] = left[q]

\* The steps of a process that goes on running: perhaps it takes or releases a
\* lock, marks or wakes others.
LEMMA RunStep ==
  ASSUME IInv, NEW c \in CPU, NEW p \in Slots, NEW k, At(c, p, k), k # "sched",
         NEW l \in Points \ (Building \cup {"yield", "sched", "resumed", "zombie"}), Goto(p, l),
         TypeOK', RunFrame(p), Roused, LocksFor(c, l),
         l \in {"slp_acq", "slp_rel", "slp_set"} => left'[p] > 0
  PROVE  IInv'
<1>1. TypeOK /\ OnCpuInv /\ ContextInv /\ WaitInv
  BY Zenon DEF IInv
<1>2. spc[c] = "away" /\ irq[c] = "none" /\ proc[c] = p /\ pc[p] # "sched"
  BY Zenon DEF At
<1>3. state[p] = "RUNNING" /\ state'[p] = "RUNNING"
  BY <1>1, <1>2, Zenon DEF OnCpuInv, Roused
<1>4. pc'[p] = l /\ \A q \in Slots \ {p} : pc'[q] = pc[q]
  <2>1. pc \in [Slots -> Points]
    BY <1>1, Zenon DEF TypeOK
  <2>. QED BY <2>1 DEF Goto
<1>6. \A d \in CPU \ {c} : (ptlock' = d <=> ptlock = d) /\ (tickslock' = d <=> tickslock = d)
  BY ProcAssumption DEF LocksFor
<1>7. ret'[p] \in Open \cup {"irqret", "waitscan"} /\ chan'[p] \in {p, TICKS, NONE}
  BY <1>1, <1>3, Zenon DEF ContextInv, WaitInv, RunFrame
<1>8. Where'[p] \notin Building
  BY <1>4, Zenon DEF Where
<1>9. l \in {"slp_acq", "slp_rel"} \/ l = "slp_set" => left'[p] > 0
  BY Zenon
<1>. QED BY <1>2, <1>3, <1>4, <1>6, <1>7, <1>8, <1>9, ProcessStep DEF RunFrame, Roused, LocksFor

\* The steps of a scheduler that stays in its own loop.
LEMMA LoopStep ==
  ASSUME IInv, TypeOK', NEW c \in CPU, spc[c] # "away", spc'[c] \in {"idle", "scan"},
         UNCHANGED <<tickslock, state, chan, ptable, pc, frame, irq>>,
         \A d \in CPU \ {c} : /\ spc'[d] = spc[d] /\ proc'[d] = proc[d] /\ cr3'[d] = cr3[d] /\ idx'[d] = idx[d]
                              /\ ptlock' = d <=> ptlock = d,
         proc'[c] = NONE, cr3'[c] = NONE,
         ptlock' = c <=> spc'[c] = "scan", spc'[c] = "idle" \/ irq[c] = "none",
         proc[c] # NONE => pc[proc[c]] = "resumed"
  PROVE  IInv'
<1>1. /\ TypeOK /\ CpuInv /\ StackInv /\ OnCpuInv /\ ContextInv /\ BuildInv
      /\ MemoryInv /\ TickInv /\ WaitInv /\ FamilyInv /\ PidInv
  BY Zenon DEF IInv
<1>a. UNCHANGED <<tickslock, state, chan, parent, killed, kstack, pgdir, pid, nextpid, pc, ret, np, left, irq>>
  BY Zenon DEF ptable, frame
<1>2. CpuInv'
  <2>1. ASSUME NEW d \in CPU \ {c}
        PROVE  /\ spc'[d] \in {"idle", "scan"} => proc'[d] = NONE /\ cr3'[d] = NONE
               /\ spc'[d] \in {"away", "back"} => proc'[d] \in Slots /\ cr3'[d] = proc'[d] /\ idx'[d] < NPROC
               /\ irq'[d] # "none" => IntEnabled(d)'
               /\ ptlock' = d <=> \/ spc'[d] \in {"scan", "back"}
                                  \/ spc'[d] = "away" /\ pc'[proc'[d]] \in HoldPt
               /\ tickslock' = d <=> \/ irq'[d] \in {"tickwake", "tickrel"}
                                     \/ spc'[d] = "away" /\ pc'[proc'[d]] \in HoldTicks
    BY <1>1, <1>a DEF CpuInv, IntEnabled
  <2>2. /\ irq'[c] # "none" => IntEnabled(c)'
        /\ tickslock' = c <=> irq'[c] \in {"tickwake", "tickrel"}
    BY <1>1, <1>a DEF CpuInv, IntEnabled
  <2>3. spc'[c] \notin {"away", "back"}
    BY Zenon
  <2>. QED BY <2>1, <2>2, <2>3 DEF CpuInv
<1>3. StackInv'
  BY <1>1 DEF StackInv
<1>4. OnCpuInv'
  BY <1>1, <1>a DEF OnCpuInv
<1>5. ContextInv'
  <2>1. \A q \in Slots : (\A d \in CPU : proc'[d] # q) => pc[q] = "resumed"
    <3>1. SUFFICES ASSUME NEW q \in Slots, \A d \in CPU : proc'[d] # q PROVE pc[q] = "resumed"
      BY Zenon
    <3>2. CASE proc[c] = q
      BY <3>2, ProcAssumption
    <3>3. CASE proc[c] # q
      BY <1>1, <3>1, <3>3 DEF ContextInv
    <3>. QED BY <3>2, <3>3, Zenon
  <2>. QED BY <1>1, <1>a, <2>1 DEF ContextInv
<1>6. BuildInv' /\ MemoryInv' /\ TickInv' /\ WaitInv' /\ FamilyInv' /\ PidInv'
  BY <1>1, <1>a, BuildInvFrame, MemoryInvFrame, TickInvFrame, WaitInvFrame, FamilyInvFrame, PidInvFrame
<1>. QED BY <1>2, <1>3, <1>4, <1>5, <1>6, Zenon DEF IInv

\* scheduler() takes ptable.lock.
LEMMA SchedAcquireInv ==
  ASSUME IInv, NEW c \in CPU, SchedAcquire(c)
  PROVE  IInv'
<1>1. TypeOK /\ proc[c] = NONE /\ cr3[c] = NONE
  BY Zenon DEF IInv, CpuInv, SchedAcquire
<1>2. /\ spc' \in [CPU -> {"idle", "scan", "away", "back"}] /\ spc'[c] = "scan"
      /\ \A d \in CPU \ {c} : spc'[d] = spc[d]
  BY <1>1, Zenon DEF SchedAcquire, TypeOK
<1>3. TypeOK'
  BY <1>1, <1>2, Zenon DEF SchedAcquire, TypeOK, ptable, text, frame
<1>4. \A d \in CPU : ptlock # d
  BY ProcAssumption DEF SchedAcquire
<1>. QED BY <1>1, <1>2, <1>3, <1>4, LoopStep DEF SchedAcquire

\* scheduler() passes over a slot that is not RUNNABLE.
LEMMA SchedSkipInv ==
  ASSUME IInv, NEW c \in CPU, SchedSkip(c)
  PROVE  IInv'
<1>1. TypeOK /\ proc[c] = NONE /\ cr3[c] = NONE /\ ptlock = c /\ irq[c] = "none"
  BY Zenon DEF IInv, CpuInv, IntEnabled, SchedSkip
<1>2. idx' \in [CPU -> 0 .. NPROC] /\ \A d \in CPU \ {c} : idx'[d] = idx[d]
  BY <1>1, ProcAssumption DEF SchedSkip, NextSlot, TypeOK
<1>3. TypeOK'
  BY <1>1, <1>2, Zenon DEF SchedSkip, TypeOK, ptable, text, frame
<1>. QED BY <1>1, <1>2, <1>3, LoopStep DEF SchedSkip

\* scheduler() switches to a RUNNABLE process, which is on no other CPU.
LEMMA SchedRunInv ==
  ASSUME IInv, NEW c \in CPU, SchedRun(c)
  PROVE  IInv'
<1> DEFINE p == idx[c]
<1>1. /\ TypeOK /\ CpuInv /\ StackInv /\ OnCpuInv /\ ContextInv /\ BuildInv
      /\ MemoryInv /\ TickInv /\ WaitInv /\ FamilyInv /\ PidInv
  BY Zenon DEF IInv
<1>2. p \in Slots /\ p # NONE /\ p < NPROC /\ state[p] = "RUNNABLE" /\ spc[c] = "scan" /\ proc[c] = NONE /\ irq[c] = "none"
      /\ ptlock = c
  <2>1. p < NPROC /\ state[p] = "RUNNABLE" /\ spc[c] = "scan" /\ p \in 0 .. NPROC
    BY <1>1, Zenon DEF SchedRun, TypeOK
  <2>2. p \in Slots /\ p # NONE
    BY <2>1, ProcAssumption DEF Slots
  <2>. QED BY <1>1, <2>1, <2>2, Zenon DEF CpuInv, IntEnabled
<1>3. (\A d \in CPU : proc[d] # p) /\ pc[p] = "resumed"
  <2>1. ASSUME NEW d \in CPU, proc[d] = p PROVE FALSE
    <3>1. spc[d] \in {"away", "back"}
      BY <1>1, <1>2, <2>1, Zenon DEF TypeOK, CpuInv
    <3>2. ptlock = d
      BY <1>1, <1>2, <2>1, <3>1, Zenon DEF CpuInv, OnCpuInv, HoldPt
    <3>. QED BY <1>2, <2>1, <3>2, Zenon
  <2>. QED BY <1>1, <1>2, <2>1, Zenon DEF ContextInv
<1>4. /\ proc' = [proc EXCEPT ![c] = p] /\ cr3' = [cr3 EXCEPT ![c] = p]
      /\ state' = [state EXCEPT ![p] = "RUNNING"] /\ spc' = [spc EXCEPT ![c] = "away"]
      /\ UNCHANGED <<ptlock, tickslock, chan, ptable, text, pc, frame, idx, irq>>
  BY Zenon DEF SchedRun
<1>5. /\ state' \in [Slots -> States] /\ state'[p] = "RUNNING" /\ \A q \in Slots \ {p} : state'[q] = state[q]
      /\ spc' \in [CPU -> {"idle", "scan", "away", "back"}] /\ spc'[c] = "away"
      /\ proc' \in [CPU -> Slots \cup {NONE}] /\ proc'[c] = p
      /\ cr3' \in [CPU -> Slots \cup {NONE}] /\ cr3'[c] = p
      /\ \A d \in CPU \ {c} : spc'[d] = spc[d] /\ proc'[d] = proc[d] /\ cr3'[d] = cr3[d]
  BY <1>1, <1>2, <1>4, Zenon DEF TypeOK, States
<1>a. /\ UNCHANGED <<ptlock, tickslock, chan, parent, killed, kstack, pgdir, pid, nextpid, pc, ret, np, left, idx, irq>>
      /\ idx'[c] = p
  BY <1>4, Zenon DEF ptable, frame
<1>6. TypeOK'
  BY <1>1, <1>4, <1>5, Zenon DEF TypeOK, ptable, text, frame
<1>. HIDE DEF p
<1>7. CpuInv'
  <2>1. ASSUME NEW d \in CPU \ {c}
        PROVE  /\ spc'[d] \in {"idle", "scan"} => proc'[d] = NONE /\ cr3'[d] = NONE
               /\ spc'[d] \in {"away", "back"} => proc'[d] \in Slots /\ cr3'[d] = proc'[d] /\ idx'[d] < NPROC
               /\ irq'[d] # "none" => IntEnabled(d)'
               /\ ptlock' = d <=> \/ spc'[d] \in {"scan", "back"}
                                  \/ spc'[d] = "away" /\ pc'[proc'[d]] \in HoldPt
               /\ tickslock' = d <=> \/ irq'[d] \in {"tickwake", "tickrel"}
                                     \/ spc'[d] = "away" /\ pc'[proc'[d]] \in HoldTicks
    BY <1>1, <1>5, <1>a DEF CpuInv, IntEnabled
  <2>2. "resumed" \in HoldPt /\ "resumed" \notin HoldTicks
    BY Zenon DEF HoldPt, HoldTicks
  <2>3. tickslock # c
    BY <1>1, <1>2, Zenon DEF CpuInv
  <2>. QED BY <1>2, <1>3, <1>5, <1>a, <2>1, <2>2, <2>3 DEF CpuInv
<1>8. StackInv'
  BY <1>1, <1>3, <1>5 DEF StackInv
<1>9. OnCpuInv'
  <2>1. \A d \in CPU \ {c} : spc[d] \in {"away", "back"} => proc[d] \in Slots \ {p}
    BY <1>1, <1>3, Zenon DEF CpuInv
  <2>. QED BY <1>1, <1>3, <1>5, <1>a, <2>1 DEF OnCpuInv
<1>10. ContextInv'
  <2>1. \A q \in Slots \ {p} : (\A d \in CPU : proc'[d] # q) => pc[q] = "resumed"
    BY <1>1, <1>2, <1>5, ProcAssumption DEF ContextInv
  <2>. QED BY <1>1, <1>2, <1>5, <1>a, <2>1 DEF ContextInv
<1>11. BuildInv'
  <2>1. \A q \in Slots : Where'[q] = Where[q]
    BY <1>a, Zenon DEF Where
  <2>2. \A q \in Slots : state[q] = "EMBRYO" => state'[q] = "EMBRYO"
    BY <1>2, <1>5, Zenon
  <2>. QED BY <1>1, <1>a, <2>1, <2>2, BuildMove
<1>12. TickInv'
  BY <1>1, <1>5, <1>a DEF TickInv
<1>13. MemoryInv' /\ WaitInv' /\ FamilyInv' /\ PidInv'
  <2>1. \A q \in Slots : \/ state'[q] = state[q]
                         \/ state[q] \in Live /\ state'[q] \in Live \ {"ZOMBIE"}
    BY <1>2, <1>5, Zenon DEF Live
  <2>2. \A q \in Slots : chan'[q] \in {q, TICKS, NONE}
    BY <1>1, <1>a, Zenon DEF WaitInv
  <2>3. \A q \in Slots : state'[q] = "SLEEPING" => state[q] = "SLEEPING"
    BY <1>5, Zenon
  <2>. QED BY <1>1, <1>a, <2>1, <2>2, <2>3, LiveMove
<1>. QED BY <1>6, <1>7, <1>8, <1>9, <1>10, <1>11, <1>12, <1>13, Zenon DEF IInv

\* scheduler() is back from a process and clears cpu->proc.
LEMMA SchedBackInv ==
  ASSUME IInv, NEW c \in CPU, SchedBack(c)
  PROVE  IInv'
<1>1. TypeOK /\ ptlock = c /\ irq[c] = "none" /\ pc[proc[c]] = "resumed" /\ idx[c] < NPROC
  BY Zenon DEF IInv, CpuInv, OnCpuInv, IntEnabled, SchedBack
<1>2. idx' \in [CPU -> 0 .. NPROC] /\ \A d \in CPU \ {c} : idx'[d] = idx[d]
  BY <1>1, ProcAssumption DEF SchedBack, NextSlot, TypeOK
<1>3. /\ spc' \in [CPU -> {"idle", "scan", "away", "back"}] /\ spc'[c] = "scan"
      /\ proc' \in [CPU -> Slots \cup {NONE}] /\ proc'[c] = NONE
      /\ cr3' \in [CPU -> Slots \cup {NONE}] /\ cr3'[c] = NONE
      /\ \A d \in CPU \ {c} : spc'[d] = spc[d] /\ proc'[d] = proc[d] /\ cr3'[d] = cr3[d]
  BY <1>1, Zenon DEF SchedBack, TypeOK
<1>4. TypeOK'
  BY <1>1, <1>2, <1>3, Zenon DEF SchedBack, TypeOK, ptable, text, frame
<1>5. spc[c] = "back" /\ UNCHANGED <<ptlock, tickslock, state, chan, ptable, pc, frame, irq>>
  BY Zenon DEF SchedBack
<1>. QED BY <1>1, <1>2, <1>3, <1>4, <1>5, LoopStep

\* scheduler() has scanned the table and releases ptable.lock.
LEMMA SchedReleaseInv ==
  ASSUME IInv, NEW c \in CPU, SchedRelease(c)
  PROVE  IInv'
<1>1. TypeOK /\ proc[c] = NONE /\ cr3[c] = NONE /\ ptlock = c
  BY Zenon DEF IInv, CpuInv, SchedRelease
<1>2. idx' \in [CPU -> 0 .. NPROC] /\ \A d \in CPU \ {c} : idx'[d] = idx[d]
  BY <1>1, ProcAssumption DEF SchedRelease, TypeOK
<1>3. /\ spc' \in [CPU -> {"idle", "scan", "away", "back"}] /\ spc'[c] = "idle"
      /\ \A d \in CPU \ {c} : spc'[d] = spc[d]
  BY <1>1, Zenon DEF SchedRelease, TypeOK
<1>4. TypeOK'
  BY <1>1, <1>2, <1>3, Zenon DEF SchedRelease, TypeOK, ptable, text, frame
<1>5. ptlock' = NONE /\ spc[c] = "scan" /\ UNCHANGED <<tickslock, state, chan, ptable, pc, frame, proc, cr3, irq>>
  BY Zenon DEF SchedRelease
<1>6. \A d \in CPU : ptlock' # d /\ (d # c => ptlock # d)
  BY <1>1, <1>5, ProcAssumption
<1>. QED BY <1>1, <1>2, <1>3, <1>4, <1>5, <1>6, LoopStep

\* Which process is on c, when a timer interrupt is being handled there.
LEMMA Interrupted ==
  ASSUME IInv, NEW c \in CPU, IntEnabled(c), proc[c] # NONE
  PROVE  /\ spc[c] = "away" /\ proc[c] \in Slots /\ pc[proc[c]] \in Open /\ state[proc[c]] = "RUNNING"
         /\ \A d \in CPU \ {c} : proc[d] # proc[c]
<1>1. CpuInv /\ OnCpuInv /\ StackInv
  BY Zenon DEF IInv
<1>2. spc[c] = "away" /\ proc[c] \in Slots /\ pc[proc[c]] \in Open
  BY <1>1, Zenon DEF CpuInv, IntEnabled
<1>3. "sched" \notin Open
  BY Zenon DEF Open, Calls, Building
<1>. QED BY <1>1, <1>2, <1>3, Zenon DEF OnCpuInv, StackInv

\* The interrupted code of a CPU when the step changes no more than the handler
\* and the tail of trap() do.
LEMMA HandlerMove ==
  ASSUME IInv, TypeOK', NEW c \in CPU, IntEnabled(c),
         UNCHANGED <<ptlock, state, chan, ptable, np, proc, cr3, spc, idx>>,
         \A d \in CPU \ {c} : irq'[d] = irq[d] /\ (tickslock' = d <=> tickslock = d),
         tickslock' = c <=> irq'[c] \in {"tickwake", "tickrel"},
         \/ UNCHANGED <<pc, ret>>
         \/ /\ irq'[c] = "none" /\ proc[c] # NONE
            /\ \A q \in Slots \ {proc[c]} : pc'[q] = pc[q] /\ ret'[q] = ret[q]
            /\ \/ pc'[proc[c]] = "exit" /\ ret'[proc[c]] = ret[proc[c]]
               \/ pc'[proc[c]] = "yield" /\ ret'[proc[c]] = IF pc[proc[c]] = "user" THEN "irqret" ELSE pc[proc[c]],
         TickInv'
  PROVE  IInv'
<1>1. /\ TypeOK /\ CpuInv /\ StackInv /\ OnCpuInv /\ ContextInv /\ BuildInv
      /\ MemoryInv /\ TickInv /\ WaitInv /\ FamilyInv /\ PidInv
  BY Zenon DEF IInv
<1>2. "yield" \notin HoldPt \cup HoldTicks \cup Open /\ "exit" \notin HoldPt \cup HoldTicks \cup Building
      /\ "exit" \in Open /\ HoldPt \cap Open = {} /\ HoldTicks \cap Open = {} /\ {"sched", "resumed", "zombie"} \cap Open = {}
      /\ "irqret" \notin Building
  BY Zenon DEF HoldPt, HoldTicks, Open, Calls, Building
<1>3. IntEnabled(c)' \/ irq'[c] = "none"
  BY Zenon DEF IntEnabled
<1>4. \A d \in CPU \ {c} : spc[d] \in {"away", "back"} => proc[d] \in Slots /\ pc'[proc[d]] = pc[proc[d]]
  <2>1. \A d \in CPU \ {c} : spc[d] \in {"away", "back"} => proc[d] \in Slots /\ proc[d] # proc[c]
    BY <1>1, ProcAssumption DEF CpuInv, StackInv
  <2>. QED BY <2>1, Zenon
<1>5. proc[c] # NONE => /\ spc[c] = "away" /\ proc[c] \in Slots /\ pc[proc[c]] \in Open
                        /\ state[proc[c]] = "RUNNING" /\ pc'[proc[c]] \in Open \cup {"yield"}
  BY <1>2, Interrupted, Zenon
<1>6. CpuInv'
  <2>1. ASSUME NEW d \in CPU
        PROVE  /\ irq'[d] # "none" => IntEnabled(d)'
               /\ ptlock' = d <=> \/ spc'[d] \in {"scan", "back"}
                                  \/ spc'[d] = "away" /\ pc'[proc'[d]] \in HoldPt
               /\ tickslock' = d <=> \/ irq'[d] \in {"tickwake", "tickrel"}
                                     \/ spc'[d] = "away" /\ pc'[proc'[d]] \in HoldTicks
    <3>1. CASE d # c
      BY <1>1, <1>4, <3>1 DEF CpuInv, IntEnabled
    <3>2. CASE d = c
      <4>1. CASE spc[c] = "away"
        <5>1. proc[c] # NONE
          BY <1>1, <4>1, ProcAssumption DEF CpuInv
        <5>2. pc'[proc[c]] \notin HoldPt /\ pc'[proc[c]] \notin HoldTicks /\ pc[proc[c]] \notin HoldPt
          BY <1>2, <1>5, <5>1, Zenon
        <5>. QED BY <1>1, <1>3, <3>2, <4>1, <5>2, Zenon DEF CpuInv
      <4>2. CASE spc[c] # "away"
        BY <1>1, <1>3, <3>2, <4>2, Zenon DEF CpuInv
      <4>. QED BY <4>1, <4>2, Zenon
    <3>. QED BY <3>1, <3>2, Zenon
  <2>. QED BY <1>1, <2>1, Zenon DEF CpuInv
<1>7. OnCpuInv'
  <2>1. ASSUME NEW d \in CPU
        PROVE  /\ spc'[d] = "away" /\ pc'[proc'[d]] # "sched" => state'[proc'[d]] = "RUNNING"
               /\ spc'[d] = "away" /\ pc'[proc'[d]] = "sched" => state'[proc'[d]] \in Live \ {"RUNNING"}
               /\ spc'[d] = "back" => pc'[proc'[d]] = "resumed" /\ state'[proc'[d]] \in Live \ {"RUNNING"}
    <3>1. CASE d # c
      BY <1>1, <1>4, <3>1, Zenon DEF OnCpuInv
    <3>2. CASE d = c
      <4>1. spc[c] # "back"
        BY Zenon DEF IntEnabled
      <4>2. CASE spc[c] = "away"
        <5>1. proc[c] # NONE
          BY <1>1, <4>2, ProcAssumption DEF CpuInv
        <5>. QED BY <1>2, <1>5, <3>2, <4>1, <5>1, Zenon
      <4>. QED BY <3>2, <4>1, <4>2, Zenon
    <3>. QED BY <3>1, <3>2, Zenon
  <2>. QED BY <2>1, Zenon DEF OnCpuInv
<1>8. ContextInv' /\ BuildInv'
  <2>1. CASE UNCHANGED <<pc, ret>>
    BY <1>1, <2>1, ContextInvFrame, BuildInvFrame DEF ptable
  <2>2. CASE ~UNCHANGED <<pc, ret>>
    <3> DEFINE p == proc[c]
    <3>1. /\ p \in Slots /\ pc[p] \in Open /\ state[p] = "RUNNING"
          /\ \A q \in Slots \ {p} : pc'[q] = pc[q] /\ ret'[q] = ret[q]
          /\ \/ pc'[p] = "exit" /\ ret'[p] = ret[p]
             \/ pc'[p] = "yield" /\ ret'[p] = IF pc[p] = "user" THEN "irqret" ELSE pc[p]
      BY <1>5, <2>2, Zenon
    <3>. HIDE DEF p
    <3>2. ContextInv'
      <4>1. \A q \in Slots : \/ ret'[q] = ret[q] /\ state'[q] = state[q]
                             \/ ret'[q] \in Open \cup {"irqret", "waitscan"} /\ state'[q] \notin {"UNUSED", "EMBRYO", "ZOMBIE"}
        BY <3>1, Zenon
      <4>2. pc'[p] # "zombie" /\ p = proc[c]
        BY <3>1, Zenon DEF p
      <4>. QED BY <1>1, <3>1, <4>1, <4>2, ContextMove
    <3>3. BuildInv'
      <4>1. \A q \in Slots : Where'[q] \in Building => Where'[q] = Where[q]
        <5>1. \A q \in Slots \ {p} : Where'[q] = Where[q]
          BY <3>1, Zenon DEF Where
        <5>2. Where[p] = pc[p]
          BY <1>2, <3>1, Zenon DEF Where
        <5>3. Where'[p] \in {"exit", "irqret", pc[p]}
          BY <3>1, Zenon DEF Where
        <5>. QED BY <1>2, <5>1, <5>2, <5>3, Zenon
      <4>. QED BY <1>1, <4>1, BuildMove DEF ptable
    <3>. QED BY <3>2, <3>3, Zenon
  <2>. QED BY <2>1, <2>2, Zenon
<1>9. StackInv' /\ MemoryInv' /\ WaitInv' /\ FamilyInv' /\ PidInv'
  BY <1>1, StackInvFrame, MemoryInvFrame, WaitInvFrame, FamilyInvFrame, PidInvFrame DEF ptable
<1>. QED BY <1>6, <1>7, <1>8, <1>9, Zenon DEF IInv

\* The tail of trap() sends the interrupted process to exit() or to yield().
LEMMA TrapTailMove ==
  ASSUME IInv, NEW c \in CPU, IntEnabled(c), TrapTail(c)
  PROVE  /\ pc' \in [Slots -> Points] /\ ret' \in [Slots -> Points]
         /\ \/ UNCHANGED <<pc, ret>>
            \/ /\ proc[c] # NONE /\ proc[c] \in Slots
               /\ \A q \in Slots \ {proc[c]} : pc'[q] = pc[q] /\ ret'[q] = ret[q]
               /\ \/ pc'[proc[c]] = "exit" /\ ret'[proc[c]] = ret[proc[c]]
                  \/ pc'[proc[c]] = "yield" /\ ret'[proc[c]] = IF pc[proc[c]] = "user" THEN "irqret" ELSE pc[proc[c]]
<1>1. pc \in [Slots -> Points] /\ ret \in [Slots -> Points] /\ {"exit", "irqret", "yield"} \subseteq Points
  BY Zenon DEF IInv, TypeOK, Points, Open, Calls
<1>2. CASE UNCHANGED <<pc, ret>>
  BY <1>1, <1>2, Zenon
<1>3. CASE proc[c] # NONE
  <2> DEFINE p == proc[c]
             r == IF pc[p] = "user" THEN "irqret" ELSE pc[p]
  <2>1. p \in Slots
    BY <1>3, Interrupted, Zenon
  <2>2. \/ pc' = [pc EXCEPT ![p] = "exit"] /\ ret' = ret
        \/ pc' = [pc EXCEPT ![p] = "yield"] /\ ret' = [ret EXCEPT ![p] = r]
    BY <1>3, Zenon DEF TrapTail, Goto
  <2>3. r \in Points
    BY <1>1, <2>1, Zenon
  <2>. HIDE DEF p, r
  <2>4. /\ pc' \in [Slots -> Points] /\ ret' \in [Slots -> Points]
        /\ \A q \in Slots \ {p} : pc'[q] = pc[q] /\ ret'[q] = ret[q]
        /\ \/ pc'[p] = "exit" /\ ret'[p] = ret[p]
           \/ pc'[p] = "yield" /\ ret'[p] = r
    BY <1>1, <2>1, <2>2, <2>3, Zenon
  <2>. QED BY <1>3, <2>1, <2>4, Zenon DEF p, r
<1>. QED BY <1>2, <1>3, Zenon DEF TrapTail

\* What a process waits for is untouched while its point is outside sleep().
LEMMA TrapTickInv ==
  ASSUME TickInv, NEW c \in CPU, UNCHANGED <<state, chan, left>>,
         \A d \in CPU : irq[d] = "tickwake" => irq'[d] = "tickwake",
         \/ UNCHANGED pc
         \/ /\ \A q \in Slots \ {proc[c]} : pc'[q] = pc[q]
            /\ pc'[proc[c]] \in {"exit", "yield"}
  PROVE  TickInv'
  BY DEF TickInv

\* A timer interrupt arrives, on any CPU and outside the spinlocks.
LEMMA TimerIntrInv ==
  ASSUME IInv, NEW c \in CPU, TimerIntr(c)
  PROVE  IInv'
<1>1. /\ TypeOK /\ CpuInv /\ TickInv /\ IntEnabled(c) /\ irq[c] = "none"
      /\ UNCHANGED <<ptlock, tickslock, state, chan, ptable, name, image, initcall, np, left, proc, cr3, spc, idx>>
  BY Zenon DEF IInv, TimerIntr, text
<1>2. tickslock # c
  <2>1. HoldTicks \cap Open = {}
    BY Zenon DEF HoldTicks, Open, Calls, Building
  <2>. QED BY <1>1, <2>1, Zenon DEF CpuInv, IntEnabled
<1>3. CASE UNCHANGED <<pc, ret>> /\ irq' = [irq EXCEPT ![c] = "ticklock"]
  <2>1. /\ irq' \in [CPU -> {"none", "ticklock", "tickwake", "tickrel"}] /\ irq'[c] = "ticklock"
        /\ \A d \in CPU \ {c} : irq'[d] = irq[d]
    BY <1>1, <1>3, Zenon DEF TypeOK
  <2>2. TypeOK'
    BY <1>1, <1>3, <2>1, Zenon DEF TypeOK, ptable
  <2>3. TickInv'
    BY <1>1, <1>3, <2>1, TrapTickInv
  <2>. QED BY <1>1, <1>2, <1>3, <2>1, <2>2, <2>3, HandlerMove
<1>4. CASE TrapTail(c) /\ UNCHANGED irq
  <2>1. /\ pc' \in [Slots -> Points] /\ ret' \in [Slots -> Points]
        /\ \/ UNCHANGED <<pc, ret>>
           \/ /\ proc[c] # NONE /\ proc[c] \in Slots
              /\ \A q \in Slots \ {proc[c]} : pc'[q] = pc[q] /\ ret'[q] = ret[q]
              /\ \/ pc'[proc[c]] = "exit" /\ ret'[proc[c]] = ret[proc[c]]
                 \/ pc'[proc[c]] = "yield" /\ ret'[proc[c]] = IF pc[proc[c]] = "user" THEN "irqret" ELSE pc[proc[c]]
    BY <1>1, <1>4, TrapTailMove, Zenon
  <2>2. TypeOK'
    BY <1>1, <1>4, <2>1, Zenon DEF TypeOK, ptable
  <2>3. TickInv'
    BY <1>1, <1>4, <2>1, TrapTickInv
  <2>. QED BY <1>1, <1>2, <1>4, <2>1, <2>2, <2>3, HandlerMove
<1>. QED BY <1>3, <1>4, Zenon DEF TimerIntr

\* The handler takes tickslock and counts the tick: sleepers whose time is
\* up are covered by the wakeup that follows.
LEMMA TickCountInv ==
  ASSUME IInv, NEW c \in CPU, TickCount(c)
  PROVE  IInv'
<1>1. /\ TypeOK /\ CpuInv /\ OnCpuInv /\ ContextInv /\ TickInv
  BY Zenon DEF IInv
<1>2. /\ tickslock = NONE /\ tickslock' = c /\ irq[c] = "ticklock"
      /\ left' = [p \in Slots |-> IF left[p] = 0 THEN 0 ELSE left[p] - 1]
      /\ UNCHANGED <<ptlock, state, chan, ptable, text, pc, ret, np, proc, cr3, spc, idx>>
  BY Zenon DEF TickCount
<1>3. /\ irq' \in [CPU -> {"none", "ticklock", "tickwake", "tickrel"}] /\ irq'[c] = "tickwake"
      /\ \A d \in CPU \ {c} : irq'[d] = irq[d]
  BY <1>1, Zenon DEF TickCount, TypeOK
<1>4. \A q \in Slots : pc[q] \notin {"slp_acq", "slp_rel"}
  <2>1. SUFFICES ASSUME NEW q \in Slots, pc[q] \in {"slp_acq", "slp_rel"} PROVE FALSE
    BY Zenon
  <2>2. PICK d \in CPU : proc[d] = q
    BY <1>1, <2>1, Zenon DEF ContextInv
  <2>3. spc[d] = "away"
    BY <1>1, <2>1, <2>2, ProcAssumption DEF TypeOK, CpuInv, OnCpuInv
  <2>4. tickslock = d
    BY <1>1, <2>1, <2>2, <2>3, Zenon DEF CpuInv, HoldTicks
  <2>. QED BY <1>2, <2>4, ProcAssumption
<1>5. TypeOK'
  <2>1. left \in [Slots -> Nat] /\ left' = [p \in Slots |-> IF left[p] = 0 THEN 0 ELSE left[p] - 1]
    BY <1>1, <1>2, Zenon DEF TypeOK
  <2>2. left' \in [Slots -> Nat]
    BY <2>1
  <2>. QED BY <1>1, <1>2, <1>3, <2>2, Zenon DEF TypeOK, ptable, text
<1>6. TickInv'
  BY <1>2, <1>3, <1>4, Zenon DEF TickInv
<1>7. IntEnabled(c) /\ \A d \in CPU \ {c} : tickslock' # d /\ tickslock # d
  BY <1>1, <1>2, ProcAssumption DEF CpuInv
<1>8. UNCHANGED <<ptlock, state, chan, ptable, np, proc, cr3, spc, idx, pc, ret>> /\ tickslock' = c
  BY <1>2, Zenon
<1>. QED BY <1>3, <1>5, <1>6, <1>7, <1>8, HandlerMove

\* wakeup(&ticks) leaves no process asleep whose time is up.
LEMMA TickWakeupInv ==
  ASSUME IInv, NEW c \in CPU, TickWakeup(c)
  PROVE  IInv'
<1>1. /\ TypeOK /\ CpuInv /\ StackInv /\ OnCpuInv /\ ContextInv /\ BuildInv
      /\ MemoryInv /\ TickInv /\ WaitInv /\ FamilyInv /\ PidInv
  BY Zenon DEF IInv
<1>2. /\ ptlock = NONE /\ irq[c] = "tickwake" /\ state' = wakeup1(state, TICKS)
      /\ UNCHANGED <<ptlock, tickslock, chan, nextpid, pid, parent, killed, kstack, pgdir, name, image, initcall,
                     pc, ret, np, left, proc, cr3, spc, idx>>
  BY Zenon DEF TickWakeup, ptable, text, frame
<1>3. /\ irq' \in [CPU -> {"none", "ticklock", "tickwake", "tickrel"}] /\ irq'[c] = "tickrel"
      /\ \A d \in CPU \ {c} : irq'[d] = irq[d]
  BY <1>1, Zenon DEF TickWakeup, TypeOK
<1>4. \A q \in Slots : pc[q] # "slp_set"
  <2>1. SUFFICES ASSUME NEW q \in Slots, pc[q] = "slp_set" PROVE FALSE
    BY Zenon
  <2>2. PICK d \in CPU : proc[d] = q
    BY <1>1, <2>1, Zenon DEF ContextInv
  <2>3. spc[d] = "away"
    BY <1>1, <2>1, <2>2, ProcAssumption DEF TypeOK, CpuInv, OnCpuInv
  <2>4. ptlock = d
    BY <1>1, <2>1, <2>2, <2>3, Zenon DEF CpuInv, HoldPt
  <2>. QED BY <1>2, <2>4, ProcAssumption
<1>5. /\ state' \in [Slots -> States]
      /\ \A q \in Slots :
           /\ state'[q] = state[q] \/ (state[q] = "SLEEPING" /\ state'[q] = "RUNNABLE")
           /\ ~(state'[q] = "SLEEPING" /\ chan[q] = TICKS)
  <2>1. state \in [Slots -> States]
    BY <1>1, Zenon DEF TypeOK
  <2>2. /\ state' \in [Slots -> States]
        /\ \A q \in Slots :
             \/ state[q] = "SLEEPING" /\ chan[q] = TICKS /\ state'[q] = "RUNNABLE"
             \/ (state[q] # "SLEEPING" \/ chan[q] # TICKS) /\ state'[q] = state[q]
    BY <1>2, <2>1, Wakeup1State
  <2>. QED BY <2>2, Zenon
<1>6. TypeOK'
  BY <1>1, <1>2, <1>3, <1>5, Zenon DEF TypeOK
<1>a. UNCHANGED <<ptlock, tickslock, chan, nextpid, pid, parent, killed, kstack, pgdir,
                  pc, ret, np, left, proc, cr3, spc, idx>>
  BY <1>2, Zenon
<1>7. CpuInv'
  <2>1. \A d \in CPU : /\ irq'[d] # "none" => irq[d] # "none"
                       /\ irq'[d] \in {"tickwake", "tickrel"} <=> irq[d] \in {"tickwake", "tickrel"}
    BY <1>2, <1>3, Zenon
  <2>. QED BY <1>1, <1>a, <2>1 DEF CpuInv, IntEnabled
<1>8. StackInv'
  BY <1>1, <1>a, StackInvFrame
<1>9. OnCpuInv'
  <2>1. \A d \in CPU : spc[d] \in {"away", "back"} => proc[d] \in Slots
    BY <1>1, Zenon DEF CpuInv
  <2>2. \A q \in Slots : /\ state[q] = "RUNNING" => state'[q] = "RUNNING"
                         /\ state[q] \in Live \ {"RUNNING"} => state'[q] \in Live \ {"RUNNING"}
    BY <1>5, Zenon DEF Live
  <2>. QED BY <1>1, <1>a, <2>1, <2>2 DEF OnCpuInv
<1>10. ContextInv'
  <2>1. \A q \in Slots : (state'[q] = "ZOMBIE" <=> state[q] = "ZOMBIE")
                         /\ (state'[q] \in {"UNUSED", "EMBRYO"} => state[q] \in {"UNUSED", "EMBRYO"})
    BY <1>5, Zenon
  <2>. QED BY <1>1, <1>a, <2>1 DEF ContextInv
<1>11. BuildInv'
  <2>1. \A q \in Slots : Where'[q] = Where[q]
    BY <1>a, Zenon DEF Where
  <2>2. \A q \in Slots : state[q] = "EMBRYO" => state'[q] = "EMBRYO"
    BY <1>5, Zenon
  <2>. QED BY <1>1, <1>a, <2>1, <2>2, BuildMove
<1>12. TickInv'
  BY <1>1, <1>4, <1>5, <1>a, Zenon DEF TickInv
<1>13. MemoryInv' /\ WaitInv' /\ FamilyInv' /\ PidInv'
  <2>1. \A q \in Slots : \/ state'[q] = state[q]
                         \/ state[q] \in Live /\ state'[q] \in Live \ {"ZOMBIE"}
    BY <1>5, Zenon DEF Live
  <2>2. \A q \in Slots : chan'[q] \in {q, TICKS, NONE}
    BY <1>1, <1>a, Zenon DEF WaitInv
  <2>3. \A q \in Slots : state'[q] = "SLEEPING" => state[q] = "SLEEPING"
    BY <1>5, Zenon
  <2>. QED BY <1>1, <1>a, <2>1, <2>2, <2>3, LiveMove
<1>. QED BY <1>6, <1>7, <1>8, <1>9, <1>10, <1>11, <1>12, <1>13, Zenon DEF IInv

\* The handler releases tickslock, and trap() exits or yields.
LEMMA TickReleaseInv ==
  ASSUME IInv, NEW c \in CPU, TickRelease(c)
  PROVE  IInv'
<1>1. /\ TypeOK /\ CpuInv /\ TickInv /\ irq[c] = "tickrel" /\ tickslock' = NONE /\ TrapTail(c)
      /\ UNCHANGED <<ptlock, state, chan, ptable, name, image, initcall, np, left, proc, cr3, spc, idx>>
  BY Zenon DEF IInv, TickRelease, text
<1>2. IntEnabled(c) /\ tickslock = c
  BY <1>1, Zenon DEF CpuInv
<1>3. /\ irq' \in [CPU -> {"none", "ticklock", "tickwake", "tickrel"}] /\ irq'[c] = "none"
      /\ \A d \in CPU \ {c} : irq'[d] = irq[d]
  BY <1>1, Zenon DEF TickRelease, TypeOK
<1>4. /\ pc' \in [Slots -> Points] /\ ret' \in [Slots -> Points]
      /\ \/ UNCHANGED <<pc, ret>>
         \/ /\ proc[c] # NONE /\ proc[c] \in Slots
            /\ \A q \in Slots \ {proc[c]} : pc'[q] = pc[q] /\ ret'[q] = ret[q]
            /\ \/ pc'[proc[c]] = "exit" /\ ret'[proc[c]] = ret[proc[c]]
               \/ pc'[proc[c]] = "yield" /\ ret'[proc[c]] = IF pc[proc[c]] = "user" THEN "irqret" ELSE pc[proc[c]]
  BY <1>1, <1>2, TrapTailMove, Zenon
<1>5. TypeOK'
  BY <1>1, <1>3, <1>4, Zenon DEF TypeOK, ptable
<1>6. TickInv'
  BY <1>1, <1>3, <1>4, TrapTickInv
<1>7. \A d \in CPU : tickslock' # d /\ (d # c => tickslock # d)
  BY <1>1, <1>2, ProcAssumption
<1>8. UNCHANGED <<ptlock, state, chan, ptable, np, proc, cr3, spc, idx>>
  BY <1>1, Zenon
<1>. QED BY <1>2, <1>3, <1>4, <1>5, <1>6, <1>7, <1>8, HandlerMove
==============================================================================
