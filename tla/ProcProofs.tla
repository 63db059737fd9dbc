----------------------------- MODULE ProcProofs -----------------------------
(***************************************************************************)
(* The steps of sched(), yield(), sleep() and exec() and the way in and    *)
(* out of the kernel preserve the invariant of ProcInv too. So it holds in *)
(* every reachable state, and establishes the safety of the process table  *)
(* for any number of CPUs, slots and pids.                                 *)
(***************************************************************************)
EXTENDS ProcProps, ProcCalls, WellFoundedInduction

\* sched() switches to the scheduler, ptable.lock staying held.
LEMMA SchedInv ==
  ASSUME IInv, NEW c \in CPU, NEW p \in Slots, sched(c, p)
  PROVE  IInv'
<1>1. /\ TypeOK /\ CpuInv /\ StackInv /\ OnCpuInv /\ ContextInv /\ BuildInv
      /\ MemoryInv /\ TickInv /\ WaitInv /\ FamilyInv /\ PidInv
  BY Zenon DEF IInv
<1>2. /\ spc[c] = "away" /\ irq[c] = "none" /\ proc[c] = p /\ pc[p] = "sched"
      /\ ptlock = c /\ tickslock # c
      /\ UNCHANGED <<ptlock, tickslock, state, chan, ptable, text, frame, proc, cr3, idx, irq>>
  BY Zenon DEF sched, At, SchedChecks
<1>3. /\ pc' \in [Slots -> Points] /\ pc'[p] = "resumed" /\ \A q \in Slots \ {p} : pc'[q] = pc[q]
      /\ spc' \in [CPU -> {"idle", "scan", "away", "back"}] /\ spc'[c] = "back"
      /\ \A d \in CPU \ {c} : spc'[d] = spc[d]
  BY <1>1, Zenon DEF sched, Goto, TypeOK, Points
<1>a. UNCHANGED <<ptlock, tickslock, state, chan, parent, killed, kstack, pgdir, pid, nextpid, ret, np, left,
                  proc, cr3, idx, irq>>
  BY <1>2, Zenon DEF ptable, frame
<1>4. TypeOK'
  BY <1>1, <1>2, <1>3, Zenon DEF TypeOK, ptable, text, frame
<1>5. \A d \in CPU \ {c} : spc[d] \in {"away", "back"} => proc[d] \in Slots /\ pc'[proc[d]] = pc[proc[d]]
  <2>1. \A d \in CPU \ {c} : spc[d] \in {"away", "back"} => proc[d] \in Slots /\ proc[d] # p
    BY <1>1, <1>2, ProcAssumption DEF CpuInv, StackInv
  <2>. QED BY <1>3, <2>1, Zenon
<1>6. CpuInv'
  BY <1>1, <1>2, <1>3, <1>5, <1>a DEF CpuInv, IntEnabled
<1>7. OnCpuInv'
  BY <1>1, <1>2, <1>3, <1>5, <1>a DEF OnCpuInv
<1>8. ContextInv'
  BY <1>1, <1>3, <1>a DEF ContextInv
<1>9. BuildInv'
  <2>1. \A q \in Slots : Where'[q] = Where[q]
    BY <1>2, <1>3, <1>a, Zenon DEF Where
  <2>. QED BY <1>1, <1>a, <2>1, BuildMove
<1>10. TickInv'
  BY <1>1, <1>3, <1>a DEF TickInv
<1>11. StackInv' /\ MemoryInv' /\ WaitInv' /\ FamilyInv' /\ PidInv'
  BY <1>1, <1>a, StackInvFrame, MemoryInvFrame, WaitInvFrame, FamilyInvFrame, PidInvFrame
<1>. QED BY <1>4, <1>6, <1>7, <1>8, <1>9, <1>10, <1>11, Zenon DEF IInv

\* A process resumes in yield() or forkret() and releases ptable.lock.
LEMMA YieldReturnInv ==
  ASSUME IInv, NEW c \in CPU, NEW p \in Slots, YieldReturn(c, p)
  PROVE  IInv'
<1>. USE DEF YieldReturn, ptable, text, frame, percpu
<1>1. TypeOK /\ ptlock = c /\ tickslock # c /\ state[p] = "RUNNING"
  BY Zenon DEF At, IInv, CpuInv, HoldPt, HoldTicks, OnCpuInv
<1>2. ret[p] \in Open \cup {"irqret"} /\ ret[p] # "zombie" /\ chan[p] \in {p, TICKS, NONE}
  BY Zenon DEF IInv, ContextInv, WaitInv
<1>3. TypeOK'
  BY <1>1, Zenon DEF TypeOK, PopTo, Goto, Points, Open
<1>4. /\ pc'[p] = ret[p] /\ ret'[p] = "user"
      /\ \A q \in Slots \ {p} : pc'[q] = pc[q] /\ ret'[q] = ret[q]
  BY <1>1, Zenon DEF TypeOK, PopTo, Goto
<1>5. /\ pc'[p] \notin HoldPt /\ pc'[p] \notin HoldTicks
      /\ pc'[p] \notin {"yield", "sched", "resumed", "slp_acq", "slp_rel", "slp_set"}
      /\ ret'[p] \in Open
  BY <1>2, <1>4 DEF Open, Calls, Building, HoldPt, HoldTicks
<1>6. Where'[p] = Where[p]
  BY <1>4, <1>5, Zenon DEF Where, At
<1>7. \A d \in CPU : ptlock' # d /\ (ptlock = d => d = c)
  BY <1>1, ProcAssumption
<1>. QED BY <1>1, <1>2, <1>3, <1>4, <1>5, <1>6, <1>7, ProcessStep, Zenon DEF At

\* A process resumes in sleep() and clears its channel.
LEMMA SleepReturnInv ==
  ASSUME IInv, NEW c \in CPU, NEW p \in Slots, SleepReturn(c, p)
  PROVE  IInv'
<1>. USE DEF SleepReturn, ptable, text, frame, percpu
<1>1. TypeOK /\ ptlock = c /\ tickslock # c /\ state[p] = "RUNNING"
  BY Zenon DEF At, IInv, CpuInv, HoldPt, HoldTicks, OnCpuInv
<1>2. TypeOK'
  BY <1>1, Zenon DEF TypeOK, PopTo, Goto, Points, Open
<1>3. /\ pc'[p] = ret[p] /\ ret'[p] = "user" /\ chan'[p] = NONE
      /\ \A q \in Slots \ {p} : pc'[q] = pc[q] /\ ret'[q] = ret[q] /\ chan'[q] = chan[q]
  BY <1>1, Zenon DEF TypeOK, PopTo, Goto
<1>4. /\ ptlock' = c <=> pc'[p] \in HoldPt
      /\ pc'[p] \notin HoldTicks
      /\ \A d \in CPU \ {c} : ptlock' # d
  BY <1>1, <1>3, ProcAssumption DEF HoldPt, HoldTicks
<1>5. /\ pc'[p] \notin {"yield", "sched", "resumed", "zombie", "slp_acq", "slp_rel", "slp_set"}
      /\ ret'[p] \in Open
  BY <1>3, Zenon DEF Open
<1>6. Where'[p] \notin Building
  BY <1>3, <1>5, Zenon DEF Where, Building
<1>. QED BY <1>1, <1>2, <1>3, <1>4, <1>5, <1>6, ProcessStep, Zenon DEF At

\* yield() makes the process RUNNABLE with ptable.lock held.
LEMMA YieldInv ==
  ASSUME IInv, NEW c \in CPU, NEW p \in Slots, yield(c, p)
  PROVE  IInv'
<1>. USE DEF yield, ptable, text, frame, percpu
<1>1. TypeOK /\ tickslock # c /\ state[p] = "RUNNING"
  BY Zenon DEF At, IInv, CpuInv, HoldPt, HoldTicks, OnCpuInv
<1>2. ret[p] \in Open \cup {"irqret", "waitscan"} /\ chan[p] \in {p, TICKS, NONE}
  BY <1>1, Zenon DEF IInv, ContextInv, WaitInv
<1>3. TypeOK'
  BY <1>1, Zenon DEF TypeOK, Goto, Points, States
<1>4. /\ pc'[p] = "sched" /\ state'[p] = "RUNNABLE"
      /\ \A q \in Slots \ {p} : pc'[q] = pc[q] /\ state'[q] = state[q]
  BY <1>1, Zenon DEF TypeOK, Goto
<1>5. Where'[p] = Where[p] /\ "sched" \in HoldPt /\ "sched" \notin HoldTicks
  BY <1>4, Zenon DEF Where, At, HoldPt, HoldTicks
<1>6. \A d \in CPU : ptlock # d
  BY ProcAssumption
<1>. QED BY <1>1, <1>2, <1>3, <1>4, <1>5, <1>6, ProcessStep, Zenon DEF At

\* The way back to user mode, with the killed test of trap().
LEMMA ReturnToUserInv ==
  ASSUME IInv, NEW c \in CPU, NEW p \in Slots, ReturnToUser(c, p)
  PROVE  IInv'
<1>1. PICK k \in {"sysret", "irqret"}, l \in {"exit", "user"} : At(c, p, k) /\ Goto(p, l)
  BY Zenon DEF ReturnToUser
<1>2. l \in Points \ (Building \cup {"yield", "sched", "resumed", "zombie"})
  BY Zenon DEF Points, Open, Calls, Building
<1>3. TypeOK /\ ptlock # c /\ tickslock # c
  BY <1>1, Zenon DEF At, IInv, CpuInv, HoldPt, HoldTicks
<1>4. TypeOK'
  <2>1. pc' \in [Slots -> Points]
    BY <1>1, <1>2, <1>3, Zenon DEF TypeOK, Goto
  <2>. QED BY <1>3, <2>1, Zenon DEF TypeOK, ReturnToUser, ptable, text, frame, percpu
<1>5. RunFrame(p) /\ Roused
  BY DEF RunFrame, Roused, ReturnToUser, ptable, text, frame, percpu
<1>6. LocksFor(c, l)
  BY <1>3 DEF LocksFor, ReturnToUser, HoldPt, HoldTicks
<1>. QED BY <1>1, <1>2, <1>4, <1>5, <1>6, RunStep, Zenon

\* init stops in the panic of exit().
LEMMA InitExitInv ==
  ASSUME IInv, NEW c \in CPU, NEW p \in Slots, init_exit(c, p)
  PROVE  IInv'
<1>1. PICK k \in {"exit", "panic"} : At(c, p, k) /\ Goto(p, "panic")
  BY Zenon DEF init_exit
<1>2. "panic" \in Points \ (Building \cup {"yield", "sched", "resumed", "zombie"})
  BY Zenon DEF Points, Open, Calls, Building
<1>3. TypeOK /\ ptlock # c /\ tickslock # c
  BY <1>1, Zenon DEF At, IInv, CpuInv, HoldPt, HoldTicks
<1>4. TypeOK'
  <2>1. pc' \in [Slots -> Points]
    BY <1>1, <1>2, <1>3, Zenon DEF TypeOK, Goto
  <2>. QED BY <1>3, <2>1, Zenon DEF TypeOK, init_exit, ptable, text, frame, percpu
<1>5. RunFrame(p) /\ Roused
  BY DEF RunFrame, Roused, init_exit, ptable, text, frame, percpu
<1>6. LocksFor(c, "panic")
  BY <1>3 DEF LocksFor, init_exit, HoldPt, HoldTicks
<1>. QED BY <1>1, <1>2, <1>4, <1>5, <1>6, RunStep, Zenon

\* A system call is entered, with the killed test of handle_syscall.
LEMMA SyscallInv ==
  ASSUME IInv, NEW c \in CPU, NEW p \in Slots, NEW m \in Calls, Syscall(c, p, m)
  PROVE  IInv'
<1>1. PICK l \in Calls : At(c, p, "user") /\ Goto(p, l)
  BY Zenon DEF Syscall, Calls
<1>2. l \in Points \ (Building \cup {"yield", "sched", "resumed", "zombie"})
  BY Zenon DEF Points, Open, Calls, Building
<1>3. TypeOK /\ ptlock # c /\ tickslock # c
  BY <1>1, Zenon DEF At, IInv, CpuInv, HoldPt, HoldTicks
<1>4. TypeOK'
  <2>1. pc' \in [Slots -> Points]
    BY <1>1, <1>2, <1>3, Zenon DEF TypeOK, Goto
  <2>. QED BY <1>3, <2>1, Zenon DEF TypeOK, Syscall, ptable, text, frame, percpu
<1>5. RunFrame(p) /\ Roused
  BY DEF RunFrame, Roused, Syscall, ptable, text, frame, percpu
<1>6. LocksFor(c, l) /\ l \notin {"slp_acq", "slp_rel", "slp_set"}
  BY <1>3 DEF LocksFor, Syscall, HoldPt, HoldTicks, Calls
<1>. QED BY <1>1, <1>2, <1>4, <1>5, <1>6, RunStep, Zenon

\* A fault marks the process killed and sends it to exit().
LEMMA FaultInv ==
  ASSUME IInv, NEW c \in CPU, NEW p \in Slots, Fault(c, p)
  PROVE  IInv'
<1>. USE DEF Fault, ptable, text, frame, percpu
<1>1. "exit" \in Points \ (Building \cup {"yield", "sched", "resumed", "zombie"})
  BY Zenon DEF Points, Open, Calls, Building
<1>2. TypeOK /\ ptlock # c /\ tickslock # c /\ state[p] = "RUNNING"
  BY Zenon DEF At, IInv, CpuInv, HoldPt, HoldTicks, OnCpuInv
<1>3. killed' \in [Slots -> BOOLEAN] /\ \A q \in Slots \ {p} : killed'[q] = killed[q]
  BY <1>2, Zenon DEF TypeOK
<1>4. TypeOK'
  BY <1>1, <1>2, <1>3, Zenon DEF TypeOK, Goto
<1>5. RunFrame(p) /\ Roused
  BY <1>2, <1>3, Zenon DEF RunFrame, Roused
<1>6. LocksFor(c, "exit")
  BY <1>2, ProcAssumption DEF LocksFor, HoldPt, HoldTicks
<1>. QED BY <1>1, <1>4, <1>5, <1>6, RunStep, Zenon

\* The slot a search with ptable.lock held finds is one it looks for.
LEMMA FirstIn ==
  ASSUME NEW S, S \subseteq Slots, S # {}
  PROVE  First(S) \in S
<1>1. S \subseteq Nat
  BY ProcAssumption DEF Slots
<1>2. PICK x \in S : \A y \in S : <<y, x>> \notin OpToRel(<, Nat)
  BY <1>1, WFMin, NatLessThanWellFounded, Zenon
<1>3. \A y \in S : x <= y
  <2>1. SUFFICES ASSUME NEW y \in S PROVE x <= y
    BY Zenon
  <2>2. x \in Nat /\ y \in Nat
    BY <1>1, Zenon
  <2>3. ~(y < x)
    <3>1. SUFFICES ASSUME y < x PROVE <<y, x>> \in OpToRel(<, Nat)
      BY <1>2, Zenon
    <3>. QED BY <2>2, <3>1, Zenon DEF OpToRel
  <2>. QED BY <2>2, <2>3
<1>. QED BY <1>3, Zenon DEF First

\* sys_sleep takes tickslock and reads ticks.
LEMMA SleepStartInv ==
  ASSUME IInv, NEW c \in CPU, NEW p \in Slots, SleepStart(c, p)
  PROVE  IInv'
<1>. USE DEF SleepStart, ptable, text, frame, percpu
<1>1. "slp_loop" \in Points \ (Building \cup {"yield", "sched", "resumed", "zombie"})
  BY Zenon DEF Points, Open, Calls, Building
<1>2. TypeOK /\ ptlock # c
  BY Zenon DEF At, IInv, CpuInv, HoldPt, HoldTicks
<1>3. left' \in [Slots -> Nat] /\ \A q \in Slots \ {p} : left'[q] = left[q]
  BY <1>2, ProcAssumption DEF TypeOK
<1>4. TypeOK'
  BY <1>1, <1>2, <1>3, Zenon DEF TypeOK, Goto
<1>5. RunFrame(p) /\ Roused
  BY <1>2, <1>3 DEF RunFrame, Roused
<1>6. LocksFor(c, "slp_loop")
  BY <1>2, ProcAssumption DEF LocksFor, HoldPt, HoldTicks
<1>. QED BY <1>1, <1>4, <1>5, <1>6, RunStep, Zenon

\* sleep() takes ptable.lock, tickslock still held.
LEMMA SleepLockInv ==
  ASSUME IInv, NEW c \in CPU, NEW p \in Slots, SleepLock(c, p)
  PROVE  IInv'
<1>. USE DEF SleepLock, ptable, text, frame, percpu
<1>1. "slp_rel" \in Points \ (Building \cup {"yield", "sched", "resumed", "zombie"})
  BY Zenon DEF Points, Open, Calls, Building
<1>2. TypeOK /\ tickslock = c /\ left[p] > 0
  BY Zenon DEF At, IInv, CpuInv, HoldPt, HoldTicks, TickInv
<1>3. TypeOK'
  BY <1>1, <1>2, Zenon DEF TypeOK, Goto
<1>4. RunFrame(p) /\ Roused
  BY <1>2 DEF RunFrame, Roused
<1>5. LocksFor(c, "slp_rel")
  BY <1>2, ProcAssumption DEF LocksFor, HoldPt, HoldTicks
<1>. QED BY <1>1, <1>2, <1>3, <1>4, <1>5, RunStep, Zenon

\* sys_sleep goes to sleep once more.
LEMMA SleepCheckInv ==
  ASSUME IInv, NEW c \in CPU, NEW p \in Slots, SleepCheck(c, p)
  PROVE  IInv'
<1>. USE DEF SleepCheck, ptable, text, frame, percpu
<1>1. "slp_acq" \in Points \ (Building \cup {"yield", "sched", "resumed", "zombie"})
  BY Zenon DEF Points, Open, Calls, Building
<1>2. TypeOK /\ ptlock # c /\ tickslock = c
  BY Zenon DEF At, IInv, CpuInv, HoldPt, HoldTicks
<1>3. TypeOK'
  BY <1>1, <1>2, Zenon DEF TypeOK, Goto
<1>4. RunFrame(p) /\ Roused
  BY <1>2 DEF RunFrame, Roused
<1>5. LocksFor(c, "slp_acq")
  BY <1>2, ProcAssumption DEF LocksFor, HoldPt, HoldTicks
<1>. QED BY <1>1, <1>3, <1>4, <1>5, RunStep, Zenon

\* sleep() releases tickslock, ptable.lock held.
LEMMA SleepUnlockInv ==
  ASSUME IInv, NEW c \in CPU, NEW p \in Slots, SleepUnlock(c, p)
  PROVE  IInv'
<1>. USE DEF SleepUnlock, ptable, text, frame, percpu
<1>1. "slp_set" \in Points \ (Building \cup {"yield", "sched", "resumed", "zombie"})
  BY Zenon DEF Points, Open, Calls, Building
<1>2. TypeOK /\ ptlock = c /\ tickslock = c /\ left[p] > 0
  BY Zenon DEF At, IInv, CpuInv, HoldPt, HoldTicks, TickInv
<1>3. TypeOK'
  BY <1>1, <1>2, Zenon DEF TypeOK, Goto
<1>4. RunFrame(p) /\ Roused
  BY <1>2 DEF RunFrame, Roused
<1>5. LocksFor(c, "slp_set")
  BY <1>2, ProcAssumption DEF LocksFor, HoldPt, HoldTicks
<1>. QED BY <1>1, <1>2, <1>3, <1>4, <1>5, RunStep, Zenon

\* sleep() sets the channel and the state with ptable.lock held.
LEMMA SleepSetInv ==
  ASSUME IInv, NEW c \in CPU, NEW p \in Slots, SleepSet(c, p)
  PROVE  IInv'
<1>. USE DEF SleepSet, ptable, text, frame, percpu
<1>1. TypeOK /\ ptlock = c /\ tickslock # c /\ state[p] = "RUNNING"
  BY Zenon DEF At, IInv, CpuInv, HoldPt, HoldTicks, OnCpuInv
<1>2. left[p] > 0 \/ \E d \in CPU : irq[d] = "tickwake"
  BY <1>1, Zenon DEF At, IInv, TickInv
<1>3. TypeOK'
  BY <1>1, Zenon DEF TypeOK, Goto, Points, Open, States
<1>4. /\ pc'[p] = "sched" /\ state'[p] = "SLEEPING" /\ chan'[p] = TICKS /\ ret'[p] = "slp_reacq"
      /\ \A q \in Slots \ {p} : pc'[q] = pc[q] /\ state'[q] = state[q] /\ chan'[q] = chan[q] /\ ret'[q] = ret[q]
  BY <1>1, Zenon DEF TypeOK, Goto
<1>5. Where'[p] \notin Building /\ "sched" \in HoldPt /\ "sched" \notin HoldTicks /\ "slp_reacq" \in Open
  BY <1>4, Zenon DEF Where, Building, Open, HoldPt, HoldTicks
<1>6. TICKS # p
  BY ProcAssumption
<1>7. /\ spc[c] = "away" /\ irq[c] = "none" /\ proc[c] = p /\ pc[p] # "sched"
      /\ UNCHANGED <<ptlock, tickslock, nextpid, pid, parent, killed, kstack, pgdir, np, left, percpu>>
  BY Zenon DEF At
<1>. HIDE DEF SleepSet
<1>. QED BY <1>1, <1>2, <1>3, <1>4, <1>5, <1>6, <1>7, ProcessStep

\* sleep() takes tickslock back after the wakeup.
LEMMA SleepRelockInv ==
  ASSUME IInv, NEW c \in CPU, NEW p \in Slots, SleepRelock(c, p)
  PROVE  IInv'
<1>. USE DEF SleepRelock, ptable, text, frame, percpu
<1>1. "slp_loop" \in Points \ (Building \cup {"yield", "sched", "resumed", "zombie"})
  BY Zenon DEF Points, Open, Calls, Building
<1>2. TypeOK /\ ptlock # c
  BY Zenon DEF At, IInv, CpuInv, HoldPt, HoldTicks
<1>3. TypeOK'
  BY <1>1, <1>2, Zenon DEF TypeOK, Goto
<1>4. RunFrame(p) /\ Roused
  BY <1>2 DEF RunFrame, Roused
<1>5. LocksFor(c, "slp_loop")
  BY <1>2, ProcAssumption DEF LocksFor, HoldPt, HoldTicks
<1>. QED BY <1>1, <1>3, <1>4, <1>5, RunStep, Zenon

\* sys_sleep returns when the ticks have passed or the process is killed.
LEMMA SleepDoneInv ==
  ASSUME IInv, NEW c \in CPU, NEW p \in Slots, SleepDone(c, p)
  PROVE  IInv'
<1>. USE DEF SleepDone, ptable, text, frame, percpu
<1>1. "sysret" \in Points \ (Building \cup {"yield", "sched", "resumed", "zombie"})
  BY Zenon DEF Points, Open, Calls, Building
<1>2. TypeOK /\ ptlock # c /\ tickslock = c
  BY Zenon DEF At, IInv, CpuInv, HoldPt, HoldTicks
<1>3. left' \in [Slots -> Nat] /\ \A q \in Slots \ {p} : left'[q] = left[q]
  BY <1>2 DEF TypeOK
<1>4. TypeOK'
  BY <1>1, <1>2, <1>3, Zenon DEF TypeOK, Goto
<1>5. RunFrame(p) /\ Roused
  BY <1>2, <1>3 DEF RunFrame, Roused
<1>6. LocksFor(c, "sysret")
  BY <1>2, ProcAssumption DEF LocksFor, HoldPt, HoldTicks
<1>. QED BY <1>1, <1>4, <1>5, <1>6, RunStep, Zenon

\* exec() replaces the program and its name, or fails.
LEMMA ExecInv ==
  ASSUME IInv, NEW c \in CPU, NEW p \in Slots, exec(c, p)
  PROVE  IInv'
<1>. USE DEF exec, ptable, text, frame, percpu
<1>1. "sysret" \in Points \ (Building \cup {"yield", "sched", "resumed", "zombie"})
  BY Zenon DEF Points, Open, Calls, Building
<1>2. TypeOK /\ ptlock # c /\ tickslock # c
  BY Zenon DEF At, IInv, CpuInv, HoldPt, HoldTicks
<1>3. /\ name' \in [Slots -> Programs \cup {BootName, NONE}] /\ image' \in [Slots -> Programs \cup {BootName, NONE}]
      /\ initcall' \in {"any", "exit"}
  <2>1. name' \in [Slots -> Programs \cup {BootName, NONE}] /\ image' \in [Slots -> Programs \cup {BootName, NONE}]
    BY <1>2 DEF TypeOK
  <2>2. initcall' \in {"any", "exit"}
    BY <1>2, ReturnsErrorType, Zenon
  <2>. QED BY <2>1, <2>2, Zenon
<1>4. TypeOK'
  BY <1>1, <1>2, <1>3, Zenon DEF TypeOK, Goto
<1>5. RunFrame(p) /\ Roused
  BY <1>2, <1>3 DEF RunFrame, Roused
<1>6. LocksFor(c, "sysret")
  BY <1>2, ProcAssumption DEF LocksFor, HoldPt, HoldTicks
<1>. QED BY <1>1, <1>4, <1>5, <1>6, RunStep, Zenon

-----------------------------------------------------------------------------
\* Every step of a CPU, a process or the timer keeps the invariant.
LEMMA NextInv == IInv /\ [Next]_vars => IInv'
<1>. SUFFICES ASSUME IInv, [Next]_vars PROVE IInv'
  BY Zenon
<1>1. CASE UNCHANGED vars
  <2>1. TypeOK'
    BY <1>1, Zenon DEF vars, ptable, text, frame, percpu, IInv, TypeOK
  <2>. QED
    BY <1>1, <2>1, CpuInvFrame, StackInvFrame, OnCpuInvFrame, ContextInvFrame, BuildInvFrame,
       MemoryInvFrame, TickInvFrame, WaitInvFrame, FamilyInvFrame, PidInvFrame, Zenon
    DEF vars, ptable, text, frame, percpu, IInv
<1>2. ASSUME NEW c \in CPU, SchedulerStep(c) PROVE IInv'
  <2>1. CASE SchedAcquire(c)
    BY <2>1, SchedAcquireInv, Zenon
  <2>2. CASE SchedSkip(c)
    BY <2>2, SchedSkipInv, Zenon
  <2>3. CASE SchedRun(c)
    BY <2>3, SchedRunInv, Zenon
  <2>4. CASE SchedBack(c)
    BY <2>4, SchedBackInv, Zenon
  <2>5. CASE SchedRelease(c)
    BY <2>5, SchedReleaseInv, Zenon
  <2>. QED BY <1>2, <2>1, <2>2, <2>3, <2>4, <2>5, Zenon DEF SchedulerStep
<1>3. ASSUME NEW c \in CPU, TimerIntr(c) \/ HandlerStep(c) PROVE IInv'
  <2>1. CASE TimerIntr(c)
    BY <2>1, TimerIntrInv, Zenon
  <2>2. CASE TickCount(c)
    BY <2>2, TickCountInv, Zenon
  <2>3. CASE TickWakeup(c)
    BY <2>3, TickWakeupInv, Zenon
  <2>4. CASE TickRelease(c)
    BY <2>4, TickReleaseInv, Zenon
  <2>. QED BY <1>3, <2>1, <2>2, <2>3, <2>4, Zenon DEF HandlerStep
<1>4. ASSUME NEW c \in CPU, NEW p \in Slots, KernelStep(c, p) PROVE IInv'
  <2>1. CASE sched(c, p)
    BY <2>1, SchedInv, Zenon
  <2>2. CASE YieldReturn(c, p)
    BY <2>2, YieldReturnInv, Zenon
  <2>3. CASE SleepReturn(c, p)
    BY <2>3, SleepReturnInv, Zenon
  <2>4. CASE yield(c, p)
    BY <2>4, YieldInv, Zenon
  <2>5. CASE ReturnToUser(c, p)
    BY <2>5, ReturnToUserInv, Zenon
  <2>6. CASE allocproc(c, p)
    BY <2>6, AllocprocInv, Zenon
  <2>7. CASE ForkKstack(c, p)
    BY <2>7, ForkKstackInv, Zenon
  <2>8. CASE ForkCopy(c, p)
    BY <2>8, ForkCopyInv, Zenon
  <2>9. CASE ForkUndo(c, p)
    BY <2>9, ForkUndoInv, Zenon
  <2>10. CASE ForkRun(c, p)
    BY <2>10, ForkRunInv, Zenon
  <2>11. CASE ForkName(c, p)
    BY <2>11, ForkNameInv, Zenon
  <2>12. CASE exit(c, p)
    BY <2>12, ExitInv, Zenon
  <2>13. CASE WaitAcquire(c, p)
    BY <2>13, WaitAcquireInv, Zenon
  <2>14. CASE WaitReap(c, p)
    <3>1. First(ZombieChildren(p)) \in ZombieChildren(p)
      BY <2>14, FirstIn, Zenon DEF WaitReap, ZombieChildren, Children
    <3>. QED BY <2>14, <3>1, WaitReapInv, Zenon
  <2>15. CASE WaitFail(c, p)
    BY <2>15, WaitFailInv, Zenon
  <2>16. CASE WaitSleep(c, p)
    BY <2>16, WaitSleepInv, Zenon
  <2>17. CASE kill(c, p)
    BY <2>17, KillInv, Zenon
  <2>18. CASE SleepStart(c, p)
    BY <2>18, SleepStartInv, Zenon
  <2>19. CASE SleepDone(c, p)
    BY <2>19, SleepDoneInv, Zenon
  <2>20. CASE SleepCheck(c, p)
    BY <2>20, SleepCheckInv, Zenon
  <2>21. CASE SleepLock(c, p)
    BY <2>21, SleepLockInv, Zenon
  <2>22. CASE SleepUnlock(c, p)
    BY <2>22, SleepUnlockInv, Zenon
  <2>23. CASE SleepSet(c, p)
    BY <2>23, SleepSetInv, Zenon
  <2>24. CASE SleepRelock(c, p)
    BY <2>24, SleepRelockInv, Zenon
  <2>25. CASE exec(c, p)
    BY <2>25, ExecInv, Zenon
  <2>26. CASE init_exit(c, p)
    BY <2>26, InitExitInv, Zenon
  <2>. QED BY <1>4, <2>1, <2>2, <2>3, <2>4, <2>5, <2>6, <2>7, <2>8, <2>9, <2>10, <2>11, <2>12, <2>13,
           <2>14, <2>15, <2>16, <2>17, <2>18, <2>19, <2>20, <2>21, <2>22, <2>23, <2>24, <2>25, <2>26, Zenon
           DEF KernelStep
<1>5. ASSUME NEW c \in CPU, NEW p \in Slots, UserStep(c, p) PROVE IInv'
  BY <1>5, FaultInv, SyscallInv, Zenon DEF UserStep
<1>. QED BY <1>1, <1>2, <1>3, <1>4, <1>5, Zenon DEF Next

\* The invariant holds in every reachable state, for any CPUs and slots.
THEOREM Invariance == Spec => []IInv
  BY InitInv, NextInv, PTL DEF Spec

\* Type correctness of the process table and of what every CPU executes.
THEOREM TypeCorrect == Spec => []TypeOK
<1>1. IInv => TypeOK
  BY Zenon DEF IInv
<1>. QED BY <1>1, Invariance, PTL

\* However many CPUs there are, no two of them execute on one kernel stack:
\* ptable.lock is held from the state change to the switch off the stack.
THEOREM StackExclusive == Spec => []OneCpuPerStack
<1>1. IInv => OneCpuPerStack
  BY Zenon DEF IInv, StackInv, OneCpuPerStack
<1>. QED BY <1>1, Invariance, PTL

\* No CPU executes on a stack or with a page directory that wait() has freed.
THEOREM MemorySafe == Spec => []NeverOnFreedMemory
<1>1. IInv => NeverOnFreedMemory
  <2>1. SUFFICES ASSUME IInv, NEW c \in CPU, proc[c] # NONE \/ cr3[c] # NONE
                 PROVE  proc[c] \in Slots /\ cr3[c] = proc[c] /\ kstack[proc[c]] /\ pgdir[proc[c]]
    BY Zenon DEF NeverOnFreedMemory
  <2>i. TypeOK /\ CpuInv /\ OnCpuInv
    BY <2>1, Zenon DEF IInv
  <2>2. spc[c] \in {"away", "back"}
    BY <2>1, <2>i, Zenon DEF CpuInv, TypeOK
  <2>3. proc[c] \in Slots /\ cr3[c] = proc[c] /\ state[proc[c]] \in Live
    BY <2>i, <2>2, Zenon DEF CpuInv, OnCpuInv, Live
  <2>. QED BY <2>1, <2>3, Zenon DEF IInv, MemoryInv
<1>. QED BY <1>1, Invariance, PTL

\* sleep() and wait() miss no wakeup: no tick, no exit of a child, no kill.
THEOREM WakeupNotLost == Spec => []NoLostWakeup
<1>1. IInv => NoLostWakeup
  <2>. SUFFICES ASSUME IInv, NEW p \in Slots, state[p] = "SLEEPING"
                PROVE  /\ chan[p] = TICKS /\ left[p] = 0 => \E c \in CPU : irq[c] = "tickwake"
                       /\ chan[p] = p => ZombieChildren(p) = {} /\ Children(p) # {} /\ ~killed[p]
    BY Zenon DEF NoLostWakeup
  <2>1. chan[p] = TICKS /\ left[p] = 0 => \E c \in CPU : irq[c] = "tickwake"
    BY DEF IInv, TypeOK, TickInv
  <2>2. chan[p] = p => ZombieChildren(p) = {} /\ Children(p) # {} /\ ~killed[p]
    BY Zenon DEF IInv, WaitInv, ZombieChildren, Children
  <2>. QED BY <2>1, <2>2, Zenon
<1>. QED BY <1>1, Invariance, PTL

\* exit() leaves no child behind without a living parent.
THEOREM Forest == Spec => []ParentAlive
<1>1. IInv => ParentAlive
  BY ProcAssumption DEF IInv, FamilyInv, TypeOK, ParentAlive, Live, States
<1>. QED BY <1>1, Invariance, PTL

\* No two processes share a pid, whatever forks failed half way.
THEOREM PidUniqueness == Spec => []PidsUnique
<1>1. IInv => PidsUnique
  BY DEF IInv, PidInv, PidsUnique
<1>. QED BY <1>1, Invariance, PTL

\* No slot is given back with memory still attached.
THEOREM NothingLeaks == Spec => []NoLeak
<1>1. IInv => NoLeak
  BY Zenon DEF IInv, MemoryInv, NoLeak
<1>. QED BY <1>1, Invariance, PTL

\* The slots stay sound, for any number of CPUs, slots and pids.
THEOREM SlotsSoundness == Spec => []SlotsSound
<1>1. NeverOnFreedMemory /\ NoLeak /\ ParentAlive /\ PidsUnique => SlotsSound
  BY Zenon DEF SlotsSound
<1>. QED BY <1>1, MemorySafe, NothingLeaks, Forest, PidUniqueness, PTL

-----------------------------------------------------------------------------
\* init is in exit(), in its panic, or in a timer interrupt of it, only for a reason.
InitReason ==
  killed[InitProc] \/ initcall = "exit" \/ (pc[InitProc] \notin {"exit", "panic"} /\ ret[InitProc] # "exit")

\* Who goes on to a point other than exit() leaves init where it is.
LEMMA ReasonFrame ==
  ASSUME IInv, InitReason, UNCHANGED <<killed, initcall, ret>>,
         NEW p \in Slots, NEW l, Goto(p, l), p = InitProc => l \notin {"exit", "panic"}
  PROVE  InitReason'
<1>1. pc \in [Slots -> Points]
  BY Zenon DEF IInv, TypeOK
<1>2. pc'[InitProc] = pc[InitProc] \/ pc'[InitProc] \notin {"exit", "panic"}
  BY <1>1, InitSlot, Zenon DEF Goto
<1>. QED BY <1>2, Zenon DEF InitReason

\* The reason stays: nothing resets killed of init, nor what it asks for.
LEMMA ReasonStays ==
  ASSUME killed[InitProc] \/ initcall = "exit",
         UNCHANGED killed \/ killed'[InitProc] = killed[InitProc] \/ killed'[InitProc],
         ReturnsError(InitProc) \/ UNCHANGED initcall
  PROVE  InitReason'
<1>1. CASE killed[InitProc]
  <2>1. killed'[InitProc]
    BY <1>1
  <2>. QED BY <2>1, Zenon DEF InitReason
<1>2. CASE initcall = "exit"
  <2>1. initcall' = "exit"
    BY <1>2, Zenon DEF ReturnsError
  <2>. QED BY <2>1, Zenon DEF InitReason
<1>. QED BY <1>1, <1>2, Zenon

\* A call of p fails: p is init and has its reason, or init is left alone.
LEMMA ReasonError ==
  ASSUME IInv, InitReason, NEW p \in Slots, ReturnsError(p), Goto(p, "sysret"), UNCHANGED <<killed, ret>>
  PROVE  InitReason'
<1>1. CASE p = InitProc
  BY <1>1, Zenon DEF ReturnsError, InitReason
<1>2. CASE p # InitProc
  <2>1. UNCHANGED initcall
    BY <1>2, Zenon DEF ReturnsError
  <2>. QED BY <2>1, ReasonFrame, Zenon
<1>. QED BY <1>1, <1>2, Zenon

\* The slot a fork builds is not init's.
LEMMA BuiltNotInit ==
  ASSUME IInv, NEW p \in Slots, pc[p] \in Building \ {"fork_name"}
  PROVE  np[p] \in Slots /\ np[p] # InitProc
<1>1. np[p] \in Slots /\ state[np[p]] = "EMBRYO"
  BY ChildOwned, Zenon
<1>2. state[InitProc] # "EMBRYO"
  BY Zenon DEF IInv, FamilyInv, Live
<1>. QED BY <1>1, <1>2, Zenon

\* The tail of trap() sends only a killed process to exit().
LEMMA ReasonTrap ==
  ASSUME IInv, InitReason, NEW c \in CPU, TrapTail(c), UNCHANGED <<killed, initcall>>
  PROVE  InitReason'
<1>t. pc \in [Slots -> Points] /\ ret \in [Slots -> Points]
  BY Zenon DEF IInv, TypeOK
<1>1. CASE UNCHANGED <<pc, ret>>
  BY <1>1, Zenon DEF InitReason
<1>2. CASE proc[c] # NONE /\ proc[c] # InitProc
  <2>1. pc'[InitProc] = pc[InitProc] /\ ret'[InitProc] = ret[InitProc]
    BY <1>2, <1>t, InitSlot DEF TrapTail, Goto
  <2>. QED BY <2>1, Zenon DEF InitReason
<1>3. CASE killed[InitProc] \/ initcall = "exit"
  BY <1>3, ReasonStays, Zenon
<1>4. CASE proc[c] = InitProc /\ ~(killed[InitProc] \/ initcall = "exit")
  <2>1. ~MustExit(InitProc) /\ pc[InitProc] \notin {"exit", "panic"} /\ ret[InitProc] # "exit"
    BY <1>4, Zenon DEF InitReason, MustExit
  <2>2. \/ UNCHANGED <<pc, ret>>
        \/ /\ ret' = [ret EXCEPT ![InitProc] = IF pc[InitProc] = "user" THEN "irqret" ELSE pc[InitProc]]
           /\ Goto(InitProc, "yield")
    BY <1>4, <2>1, Zenon DEF TrapTail
  <2>3. pc'[InitProc] \notin {"exit", "panic"} /\ ret'[InitProc] # "exit"
    BY <1>t, <2>1, <2>2, InitSlot DEF Goto
  <2>. QED BY <2>3, Zenon DEF InitReason
<1>. QED BY <1>1, <1>2, <1>3, <1>4, Zenon DEF TrapTail

\* Every step keeps the reason, and none sends init to exit() without one.
LEMMA ReasonNext ==
  ASSUME IInv, InitReason, [Next]_vars
  PROVE  InitReason'
<1>. USE DEF ptable, text, frame, percpu
<1>i. InitProc \in Slots /\ state[InitProc] \notin {"UNUSED", "EMBRYO", "ZOMBIE"}
  BY InitSlot, Zenon DEF IInv, FamilyInv, Live
<1>t. killed \in [Slots -> BOOLEAN] /\ pc \in [Slots -> Points] /\ ret \in [Slots -> Points]
  BY Zenon DEF IInv, TypeOK
<1>1. CASE UNCHANGED vars
  BY <1>1, Zenon DEF vars, InitReason
<1>2. ASSUME NEW c \in CPU, SchedulerStep(c) PROVE InitReason'
  BY <1>2, Zenon DEF SchedulerStep, SchedAcquire, SchedSkip, SchedRun, SchedBack, SchedRelease, InitReason
<1>3. ASSUME NEW c \in CPU, TimerIntr(c) \/ HandlerStep(c) PROVE InitReason'
  <2>1. CASE TrapTail(c) /\ UNCHANGED <<killed, initcall>>
    BY <2>1, ReasonTrap, Zenon
  <2>2. CASE UNCHANGED <<killed, initcall, pc, ret>>
    BY <2>2, Zenon DEF InitReason
  <2>. QED BY <1>3, <2>1, <2>2, Zenon DEF TimerIntr, HandlerStep, TickCount, TickWakeup, TickRelease
<1>4. ASSUME NEW c \in CPU, NEW p \in Slots, KernelStep(c, p) PROVE InitReason'
  <2> DEFINE Kept == pc'[InitProc] = pc[InitProc] \/ pc'[InitProc] \notin {"exit", "panic"}
  <2>k. ASSUME UNCHANGED <<killed, initcall>>, Kept, ret'[InitProc] = ret[InitProc] \/ ret'[InitProc] # "exit"
        PROVE  InitReason'
    BY <2>k, Zenon DEF InitReason
  <2>1. CASE YieldReturn(c, p) \/ SleepReturn(c, p)
    <3>1. UNCHANGED <<killed, initcall>> /\ pc' = [pc EXCEPT ![p] = ret[p]] /\ ret' = [ret EXCEPT ![p] = "user"]
      BY <2>1, Zenon DEF YieldReturn, SleepReturn, PopTo, Goto
    <3>2. CASE killed[InitProc] \/ initcall = "exit"
      BY <3>1, <3>2, ReasonStays, Zenon
    <3>3. CASE ~(killed[InitProc] \/ initcall = "exit")
      <4>1. /\ pc[InitProc] \notin {"exit", "panic"} /\ ret[InitProc] # "exit"
            /\ ret[p] # "panic"
        <5>1. ret[p] \in Open \cup {"irqret", "waitscan", "zombie"}
          BY Zenon DEF IInv, ContextInv
        <5>2. "panic" \notin Open \cup {"irqret", "waitscan", "zombie"}
          BY Zenon DEF Open, Calls, Building
        <5>. QED BY <3>3, <5>1, <5>2, Zenon DEF InitReason
      <4>2. pc'[InitProc] \notin {"exit", "panic"} /\ ret'[InitProc] # "exit"
        BY <1>i, <1>t, <3>1, <4>1
      <4>. QED BY <4>2, Zenon DEF InitReason
    <3>. QED BY <3>2, <3>3, Zenon
  <2>2. CASE ReturnToUser(c, p)
    <3>1. CASE p = InitProc /\ MustExit(p)
      BY <2>2, <3>1, ReasonStays, Zenon DEF ReturnToUser, MustExit
    <3>2. CASE ~(p = InitProc /\ MustExit(p))
      BY <2>2, <3>2, ReasonFrame, Zenon DEF ReturnToUser
    <3>. QED BY <3>1, <3>2, Zenon
  <2>3. CASE allocproc(c, p)
    <3>1. UNCHANGED <<killed, ret>> /\ \/ Goto(p, "fork_kstack") /\ UNCHANGED initcall
                                       \/ Goto(p, "sysret") /\ ReturnsError(p)
      BY <2>3, Zenon DEF allocproc
    <3>. QED BY <3>1, ReasonFrame, ReasonError, Zenon
  <2>4. CASE ForkKstack(c, p)
    <3>1. np[p] # InitProc
      BY <2>4, BuiltNotInit, Zenon DEF ForkKstack, At, Building
    <3>2. CASE Goto(p, "sysret") /\ ReturnsError(p) /\ UNCHANGED <<killed, ret>>
      BY <3>2, ReasonError, Zenon
    <3>3. CASE /\ pc' = [pc EXCEPT ![np[p]] = "resumed", ![p] = "fork_copy"]
               /\ ret' = [ret EXCEPT ![np[p]] = "user"] /\ UNCHANGED <<killed, initcall>>
      <4>1. Kept /\ ret'[InitProc] = ret[InitProc]
        BY <1>i, <1>t, <3>1, <3>3
      <4>. QED BY <2>k, <3>3, <4>1, Zenon
    <3>. QED BY <2>4, <3>2, <3>3, Zenon DEF ForkKstack
  <2>5. CASE ForkCopy(c, p)
    BY <2>5, ReasonFrame, Zenon DEF ForkCopy
  <2>6. CASE exit(c, p)
    <3>1. UNCHANGED <<killed, initcall>> /\ Kept /\ ret'[InitProc] = ret[InitProc]
      BY <2>6, <1>i, <1>t DEF exit, Goto
    <3>. QED BY <2>k, <3>1, Zenon
  <2>7. CASE WaitReap(c, p)
    <3> DEFINE q == First(ZombieChildren(p))
    <3>1. q # InitProc
      <4>1. q \in ZombieChildren(p)
        BY <2>7, FirstIn, Zenon DEF WaitReap, ZombieChildren, Children
      <4>. QED BY <4>1, <1>i, <1>t, Zenon DEF ZombieChildren
    <3>2. /\ killed' = [killed EXCEPT ![q] = FALSE] /\ UNCHANGED initcall
          /\ ret' = [ret EXCEPT ![q] = "user"]
          /\ pc' = [pc EXCEPT ![p] = "sysret"]
      BY <2>7, Zenon DEF WaitReap, Goto
    <3> HIDE DEF q
    <3>3. killed'[InitProc] = killed[InitProc] /\ ret'[InitProc] = ret[InitProc] /\ Kept
      BY <1>i, <1>t, <3>1, <3>2, Zenon
    <3>4. CASE killed[InitProc] \/ initcall = "exit"
      BY <3>2, <3>3, <3>4, ReasonStays, Zenon
    <3>5. CASE ~(killed[InitProc] \/ initcall = "exit")
      BY <3>3, <3>5, Zenon DEF InitReason
    <3>. QED BY <3>4, <3>5, Zenon
  <2>8. CASE kill(c, p)
    <3>1. PICK q : killed' = killed \/ killed' = [killed EXCEPT ![q] = TRUE]
      BY <2>8, Zenon DEF kill
    <3>2. killed'[InitProc] = killed[InitProc] \/ killed'[InitProc]
      BY <1>i, <1>t, <3>1
    <3>3. UNCHANGED <<initcall, ret>> /\ Goto(p, "sysret")
      BY <2>8, Zenon DEF kill
    <3>4. CASE killed[InitProc] \/ initcall = "exit"
      BY <3>2, <3>3, <3>4, ReasonStays, Zenon
    <3>5. CASE ~(killed[InitProc] \/ initcall = "exit")
      <4>1. Kept
        BY <1>i, <1>t, <3>3, Zenon DEF Goto
      <4>. QED BY <3>3, <3>5, <4>1, Zenon DEF InitReason
    <3>. QED BY <3>4, <3>5, Zenon
  <2>9. CASE WaitSleep(c, p) \/ SleepSet(c, p)
    <3>1. UNCHANGED <<killed, initcall>> /\ Kept /\ (ret'[InitProc] = ret[InitProc] \/ ret'[InitProc] # "exit")
      BY <2>9, <1>i, <1>t DEF WaitSleep, SleepSet, Goto
    <3>. QED BY <2>k, <3>1, Zenon
  <2>10. CASE sched(c, p) \/ yield(c, p) \/ ForkRun(c, p) \/ ForkName(c, p)
    BY <2>10, ReasonFrame, Zenon DEF sched, yield, ForkRun, ForkName
  <2>11. CASE WaitAcquire(c, p) \/ WaitFail(c, p)
    BY <2>11, ReasonFrame, Zenon DEF WaitAcquire, WaitFail
  <2>12. CASE \/ SleepStart(c, p) \/ SleepDone(c, p) \/ SleepCheck(c, p) \/ SleepLock(c, p)
              \/ SleepUnlock(c, p) \/ SleepRelock(c, p)
    BY <2>12, ReasonFrame, Zenon
    DEF SleepStart, SleepDone, SleepCheck, SleepLock, SleepUnlock, SleepRelock
  <2>13. CASE ForkUndo(c, p)
    BY <2>13, ReasonError, Zenon DEF ForkUndo
  <2>14. CASE exec(c, p)
    <3>1. Goto(p, "sysret") /\ UNCHANGED <<killed, ret>> /\ (ReturnsError(p) \/ UNCHANGED initcall)
      BY <2>14, Zenon DEF exec
    <3>. QED BY <3>1, ReasonFrame, ReasonError, Zenon
  <2>15. CASE init_exit(c, p)
    <3>1. pc[InitProc] \in {"exit", "panic"} /\ UNCHANGED <<killed, initcall>>
      BY <2>15, Zenon DEF init_exit, At
    <3>2. killed[InitProc] \/ initcall = "exit"
      BY <3>1, Zenon DEF InitReason
    <3>. QED BY <3>1, <3>2, ReasonStays, Zenon
  <2>. QED BY <1>4, <2>1, <2>2, <2>3, <2>4, <2>5, <2>6, <2>7, <2>8, <2>9, <2>10, <2>11, <2>12, <2>13, <2>14,
           <2>15, Zenon DEF KernelStep
<1>5. ASSUME NEW c \in CPU, NEW p \in Slots, UserStep(c, p) PROVE InitReason'
  <2>1. CASE Fault(c, p)
    <3>1. /\ killed'[InitProc] = killed[InitProc] /\ UNCHANGED <<initcall, ret>>
          /\ pc'[InitProc] = pc[InitProc]
      BY <2>1, <1>i, <1>t, Zenon DEF Fault, Goto
    <3>2. CASE killed[InitProc] \/ initcall = "exit"
      BY <3>1, <3>2, ReasonStays, Zenon
    <3>3. CASE ~(killed[InitProc] \/ initcall = "exit")
      BY <3>1, <3>3, Zenon DEF InitReason
    <3>. QED BY <3>2, <3>3, Zenon
  <2>2. ASSUME NEW l \in Calls, Syscall(c, p, l) PROVE InitReason'
    <3>1. CASE p = InitProc /\ (MustExit(p) \/ l = "exit")
      <4>1. killed[InitProc] \/ initcall = "exit"
        BY <2>2, <3>1, Zenon DEF Syscall, MustExit
      <4>. QED BY <2>2, <4>1, ReasonStays, Zenon DEF Syscall
    <3>2. CASE ~(p = InitProc /\ (MustExit(p) \/ l = "exit"))
      <4>1. l # "panic"
        BY Zenon DEF Calls
      <4>. QED BY <2>2, <3>2, <4>1, ReasonFrame, Zenon DEF Syscall
    <3>. QED BY <3>1, <3>2, Zenon
  <2>. QED BY <1>5, <2>1, <2>2, Zenon DEF UserStep
<1>. QED BY <1>1, <1>2, <1>3, <1>4, <1>5, Zenon DEF Next

\* No panic of sched() or sleep() is reachable, nor "zombie exit"; and init
\* gets into exit(), which panics, only when it was killed or when a fork or
\* exec of its own has failed. For any CPUs, slots, programs and pids to kill.
THEOREM PanicFree == Spec => []NoPanic
<1>1. Init => InitReason
  BY InitSlot DEF Init, InitReason
<1>2. IInv /\ InitReason /\ [Next]_vars => InitReason'
  BY ReasonNext, Zenon
<1>3. IInv /\ InitReason => NoPanic
  <2>. SUFFICES ASSUME IInv, InitReason, NEW c \in CPU, NEW p \in Slots
                PROVE  /\ At(c, p, "sched") => SchedChecks(c, p)
                       /\ ~(At(c, p, "resumed") /\ ret[p] = "zombie")
                       /\ At(c, InitProc, "exit") \/ At(c, InitProc, "panic") => killed[InitProc] \/ initcall = "exit"
    BY Zenon DEF NoPanic
  <2>1. ASSUME At(c, p, "sched") PROVE SchedChecks(c, p)
    <3>1. CpuInv /\ OnCpuInv
      BY Zenon DEF IInv
    <3>2. ptlock = c /\ tickslock # c /\ state[p] # "RUNNING"
      BY <2>1, <3>1 DEF At, CpuInv, OnCpuInv, HoldPt, HoldTicks
    <3>3. "sched" \notin Open
      BY Zenon DEF Open, Calls, Building
    <3>. QED BY <2>1, <3>2, <3>3, Zenon DEF At, SchedChecks, IntEnabled
  <2>2. ~(At(c, p, "resumed") /\ ret[p] = "zombie")
    BY DEF At, IInv, OnCpuInv, ContextInv
  <2>. QED BY <2>1, <2>2, Zenon DEF At, InitReason
<1>. QED BY <1>1, <1>2, <1>3, Invariance, PTL DEF Spec

=============================================================================
