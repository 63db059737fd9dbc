------------------------------- MODULE ProcCalls -------------------------------
(***************************************************************************)
(* Every step of fork(), exit(), wait() and kill() preserves the invariant *)
(* of ProcInv.  SlotStep is about a process that writes a slot that nobody *)
(* executes: fork's child, or the zombie that wait() frees.                *)
(***************************************************************************)
EXTENDS ProcFamily, ProcInv

\* Slot q is p's to write: nobody executes it, and no other fork builds it.
Owned(p, q) ==
  /\ state[q] \in {"UNUSED", "EMBRYO", "ZOMBIE"}
  /\ parent[q] \in {NONE, p}
  /\ \A d \in CPU : proc[d] # q
  /\ \A r \in Slots \ {p} : Where[r] \in Building \ {"fork_name"} => np[r] # q

\* The step of p writes slot q and no other.
SlotFrame(p, q) ==
  /\ \A r \in Slots \ {q} : /\ state'[r] = state[r] /\ pid'[r] = pid[r] /\ parent'[r] = parent[r]
                            /\ kstack'[r] = kstack[r] /\ pgdir'[r] = pgdir[r]
                            /\ ret'[r] = ret[r] /\ killed'[r] = killed[r]
  /\ \A r \in Slots \ {p} : np'[r] = np[r]
  /\ \A r \in Slots \ {p, q} : pc'[r] = pc[r]
  /\ pc'[q] = "resumed" /\ ret'[q] = "user"
  /\ UNCHANGED <<chan, left, percpu>>

\* What the step of p leaves in slot q.
SlotSoundAfter(p, q) ==
  /\ state'[q] \in {"UNUSED", "EMBRYO", "RUNNABLE"}
  /\ state'[q] = "UNUSED" => ~kstack'[q] /\ ~pgdir'[q] /\ parent'[q] = NONE
  /\ state'[q] = "RUNNABLE" => kstack'[q] /\ pgdir'[q] /\ parent'[q] = p
  /\ parent'[q] \in {NONE, p}

\* The pids stay unique and below nextpid.
PidAfter(q) ==
  /\ nextpid' = nextpid \/ nextpid' = nextpid + 1
  /\ state'[q] # "UNUSED" =>
       /\ 0 < pid'[q] /\ pid'[q] < nextpid'
       /\ \A r \in Slots \ {q} : state[r] # "UNUSED" => pid[r] # pid'[q]

\* What p's fork has made of q when p gets to l.
BuiltAfter(p, q, l) ==
  /\ l \in Building \ {"fork_name"} =>
       /\ np'[p] = q /\ state'[q] = "EMBRYO"
       /\ kstack'[q] <=> l \in {"fork_copy", "fork_run"}
       /\ pgdir'[q] <=> l = "fork_run"
       /\ parent'[q] = IF l = "fork_run" THEN p ELSE NONE
  /\ l = "fork_name" => np'[p] \in Slots

\* The steps of fork() and wait() that write the slot of a child.
LEMMA SlotStep ==
  ASSUME IInv, TypeOK', NEW c \in CPU, NEW p \in Slots, NEW k, At(c, p, k), k # "sched",
         NEW l \in Open, pc'[p] = l, LocksFor(c, l),
         NEW q \in Slots, Owned(p, q), SlotFrame(p, q), SlotSoundAfter(p, q), PidAfter(q), BuiltAfter(p, q, l)
  PROVE  IInv'
<1>1. /\ TypeOK /\ CpuInv /\ StackInv /\ OnCpuInv /\ ContextInv /\ BuildInv
      /\ MemoryInv /\ TickInv /\ WaitInv /\ FamilyInv /\ PidInv
  BY Zenon DEF IInv
<1>2. spc[c] = "away" /\ irq[c] = "none" /\ proc[c] = p /\ state[p] = "RUNNING"
  BY <1>1, Zenon DEF OnCpuInv, At
<1>3. q # p /\ q # InitProc
  BY <1>1, <1>2, Zenon DEF Owned, FamilyInv, Live
<1>4. pc'[p] = l /\ l \notin {"yield", "sched", "resumed", "slp_acq", "slp_rel", "slp_set", "zombie"}
      /\ (\A d \in CPU \ {c} : (ptlock' = d <=> ptlock = d) /\ (tickslock' = d <=> tickslock = d))
  <2>2. l \notin {"yield", "sched", "resumed", "slp_acq", "slp_rel", "slp_set", "zombie"}
    BY Zenon DEF Open, Calls, Building
  <2>. QED BY <2>2, ProcAssumption DEF LocksFor
<1>5. /\ \A r \in Slots \ {q} : /\ state'[r] = state[r] /\ pid'[r] = pid[r] /\ parent'[r] = parent[r]
                                /\ kstack'[r] = kstack[r] /\ pgdir'[r] = pgdir[r]
                                /\ ret'[r] = ret[r] /\ killed'[r] = killed[r]
      /\ \A r \in Slots \ {p} : np'[r] = np[r]
      /\ \A r \in Slots \ {p, q} : pc'[r] = pc[r]
      /\ pc'[q] = "resumed" /\ ret'[q] = "user"
      /\ UNCHANGED <<chan, left, proc, cr3, spc, idx, irq>>
  BY Zenon DEF SlotFrame, percpu
<1>6. state'[p] = "RUNNING" /\ state'[q] \notin Live \ {"RUNNABLE"}
  BY <1>2, <1>3, <1>5, Zenon DEF SlotSoundAfter, Live
<1>7. CpuInv' /\ OnCpuInv'
  <2>1. \A d \in CPU : proc[d] # q
    BY Zenon DEF Owned
  <2>2. (\A r \in Slots \ {p, q} : pc'[r] = pc[r]) /\ (\A r \in Slots \ {q} : state'[r] = state[r])
    BY <1>5, Zenon
  <2>3. \A r \in Slots \ {p} : /\ pc'[r] = pc[r] \/ \A d \in CPU : proc[d] # r
                               /\ state'[r] = state[r] \/ \A d \in CPU : proc[d] # r
    BY <2>1, <2>2, Zenon
  <2>4. UNCHANGED <<proc, cr3, spc, idx, irq>> /\ pc'[p] # "sched"
    BY <1>4, <1>5, Zenon
  <2>5. (ptlock' = c <=> pc'[p] \in HoldPt) /\ (tickslock' = c <=> pc'[p] \in HoldTicks)
    BY <1>4, Zenon DEF LocksFor
  <2>. QED BY <1>2, <1>4, <1>6, <2>3, <2>4, <2>5, LockMove
<1>8. StackInv'
  BY <1>1, <1>5, StackInvFrame
<1>9. ContextInv'
  <2>1. \A r \in Slots \ {p} : pc'[r] = pc[r] \/ pc'[r] = "resumed"
    BY <1>5, Zenon
  <2>2. state'[q] # "ZOMBIE"
    BY <1>6, Zenon DEF Live
  <2>3. \A r \in Slots : (ret'[r] = ret[r] /\ state'[r] = state[r]) \/ (ret'[r] = "user" /\ state'[r] # "ZOMBIE")
    BY <1>5, <2>2, Zenon
  <2>. QED BY <1>1, <1>2, <1>4, <1>5, <2>1, <2>3, ContextMove
<1>10. BuildInv'
  <2>1. /\ Where'[p] = l /\ Where'[q] = "user"
        /\ \A r \in Slots \ {p, q} : Where'[r] = Where[r]
    BY <1>4, <1>5, Zenon DEF Where
  <2>2. \A r \in Slots \ {p, q} : Where[r] \in Building \ {"fork_name"} => np[r] # q
    BY Zenon DEF Owned
  <2>3. "user" \notin Building
    BY Zenon DEF Building
  <2>4. /\ \A r \in Slots \ {q} : /\ state'[r] = state[r] /\ parent'[r] = parent[r]
                                  /\ kstack'[r] = kstack[r] /\ pgdir'[r] = pgdir[r]
        /\ \A r \in Slots \ {p} : np'[r] = np[r]
    BY <1>5, Zenon
  <2>. QED BY <1>1, <1>3, <2>1, <2>2, <2>3, <2>4 DEF BuildInv, BuiltAfter
<1>11. MemoryInv'
  <2>1. /\ state'[q] \in Live => kstack'[q] /\ pgdir'[q]
        /\ state'[q] = "UNUSED" => ~kstack'[q] /\ ~pgdir'[q] /\ parent'[q] = NONE
    BY <1>6, Zenon DEF SlotSoundAfter
  <2>2. \A r \in Slots \ {q} : /\ state'[r] = state[r] /\ parent'[r] = parent[r]
                               /\ kstack'[r] = kstack[r] /\ pgdir'[r] = pgdir[r]
    BY <1>5, Zenon
  <2>. QED BY <1>1, <2>1, <2>2 DEF MemoryInv
<1>12. TickInv'
  <2>1. pc'[q] \notin {"slp_acq", "slp_rel", "slp_set"} /\ state'[q] # "SLEEPING"
    BY <1>5, <1>6, Zenon DEF Live
  <2>2. state'[p] # "SLEEPING"
    BY <1>6, Zenon
  <2>3. UNCHANGED <<chan, left, irq>> /\ \A r \in Slots \ {p, q} : pc'[r] = pc[r] /\ state'[r] = state[r]
    BY <1>5, Zenon
  <2>4. pc'[p] \notin {"slp_acq", "slp_rel", "slp_set"}
    BY <1>4, Zenon
  <2>. QED BY <1>1, <2>1, <2>2, <2>3, <2>4 DEF TickInv
<1>13. WaitInv'
  <2>1. state'[q] # "SLEEPING" /\ state'[q] # "ZOMBIE" /\ state'[p] # "SLEEPING"
    BY <1>6, Zenon DEF Live
  <2>2. NONE \notin Slots /\ parent[q] \in {NONE, p} /\ parent'[q] \in {NONE, p}
    BY ProcAssumption DEF Owned, SlotSoundAfter
  <2>3. /\ UNCHANGED chan
        /\ \A r \in Slots \ {q} : state'[r] = state[r] /\ parent'[r] = parent[r] /\ killed'[r] = killed[r]
    BY <1>5, Zenon
  <2>. QED BY <1>1, <2>1, <2>2, <2>3 DEF WaitInv
<1>14. FamilyInv'
  <2>1. \A r \in Slots : state[r] \in Live => parent[r] # q
    BY <1>1, <1>3, ProcAssumption DEF FamilyInv, Owned, Live
  <2>2. parent'[q] # q
    BY <1>3, ProcAssumption DEF SlotSoundAfter
  <2>3. state'[q] \in Live => parent'[q] = p
    BY <1>6, Zenon DEF SlotSoundAfter
  <2>4. state'[p] \in Live \ {"ZOMBIE"}
    BY <1>6, Zenon DEF Live
  <2>5. \A r \in Slots \ {q} : state'[r] = state[r] /\ parent'[r] = parent[r]
    BY <1>5, Zenon
  <2>. QED BY <1>1, <1>3, <2>1, <2>2, <2>3, <2>4, <2>5, InitSlot DEF FamilyInv
<1>15. PidInv'
  <2>1. nextpid \in Nat /\ pid \in [Slots -> Nat]
    BY <1>1, Zenon DEF TypeOK
  <2>2. \A r \in Slots \ {q} : state'[r] = state[r] /\ pid'[r] = pid[r]
    BY <1>5, Zenon
  <2>. QED BY <1>1, <2>1, <2>2 DEF PidInv, PidAfter
<1>. QED BY <1>7, <1>8, <1>9, <1>10, <1>11, <1>12, <1>13, <1>14, <1>15, Zenon DEF IInv

\* Nobody executes a slot that fork has taken or may take.
LEMMA NotExecuted ==
  ASSUME IInv, NEW q \in Slots, state[q] \in {"UNUSED", "EMBRYO"}
  PROVE  (\A d \in CPU : proc[d] # q) /\ pc[q] = "resumed" /\ ret[q] = "user"
<1>1. TypeOK /\ CpuInv /\ OnCpuInv /\ ContextInv
  BY Zenon DEF IInv
<1>2. ASSUME NEW d \in CPU, proc[d] = q PROVE FALSE
  <2>1. spc[d] \in {"away", "back"}
    BY <1>1, <1>2, ProcAssumption DEF TypeOK, CpuInv
  <2>. QED BY <1>1, <1>2, <2>1, Zenon DEF OnCpuInv, Live
<1>. QED BY <1>1, <1>2, Zenon DEF ContextInv

\* The child that a fork is building is the fork's own.
LEMMA ChildOwned ==
  ASSUME IInv, NEW p \in Slots, pc[p] \in Building \ {"fork_name"}
  PROVE  /\ np[p] \in Slots /\ state[np[p]] = "EMBRYO" /\ Owned(p, np[p])
         /\ pc[np[p]] = "resumed" /\ ret[np[p]] = "user"
         /\ kstack[np[p]] <=> pc[p] \in {"fork_copy", "fork_run"}
         /\ pgdir[np[p]] <=> pc[p] = "fork_run"
         /\ parent[np[p]] = IF pc[p] = "fork_run" THEN p ELSE NONE
         /\ 0 < pid[np[p]] /\ pid[np[p]] < nextpid
         /\ \A r \in Slots \ {np[p]} : state[r] # "UNUSED" => pid[r] # pid[np[p]]
<1>1. BuildInv /\ PidInv
  BY Zenon DEF IInv
<1>2. Where[p] = pc[p]
  BY Zenon DEF Where, Building
<1>3. /\ np[p] \in Slots /\ state[np[p]] = "EMBRYO"
      /\ kstack[np[p]] <=> pc[p] \in {"fork_copy", "fork_run"}
      /\ pgdir[np[p]] <=> pc[p] = "fork_run"
      /\ parent[np[p]] = IF pc[p] = "fork_run" THEN p ELSE NONE
      /\ \A r \in Slots \ {p} : Where[r] \in Building \ {"fork_name"} => np[r] # np[p]
  BY <1>1, <1>2 DEF BuildInv
<1>4. 0 < pid[np[p]] /\ pid[np[p]] < nextpid /\ \A r \in Slots \ {np[p]} : state[r] # "UNUSED" => pid[r] # pid[np[p]]
  BY <1>1, <1>3 DEF PidInv
<1>. QED BY <1>3, <1>4, NotExecuted, Zenon DEF Owned

\* A call that fails changes at most what init asks for next.
LEMMA ReturnsErrorType ==
  ASSUME TypeOK, NEW p, ReturnsError(p) \/ UNCHANGED initcall
  PROVE  initcall' \in {"any", "exit"}
  BY Zenon DEF TypeOK, ReturnsError

\* allocproc takes an UNUSED slot and a fresh pid for a child of p alone.
LEMMA AllocprocInv ==
  ASSUME IInv, NEW c \in CPU, NEW p \in Slots, allocproc(c, p)
  PROVE  IInv'
<1>. USE DEF allocproc, text, percpu
<1>1. /\ TypeOK /\ PidInv /\ BuildInv /\ MemoryInv /\ ptlock # c /\ tickslock # c
      /\ pc \in [Slots -> Points] /\ "sysret" \in Points /\ "fork_kstack" \in Points /\ "EMBRYO" \in States
  BY Zenon DEF At, IInv, CpuInv, HoldPt, HoldTicks, TypeOK, Points, Open, Building, States
<1>2. CASE Goto(p, "sysret") /\ ReturnsError(p) /\ UNCHANGED <<state, pid, nextpid, np>>
  <2>1. "sysret" \in Points \ (Building \cup {"yield", "sched", "resumed", "zombie"})
    BY Zenon DEF Points, Open, Building
  <2>2. TypeOK'
    <3>1. initcall' \in {"any", "exit"}
      BY <1>1, <1>2, ReturnsErrorType, Zenon
    <3>. QED BY <1>1, <1>2, <3>1, Zenon DEF TypeOK, Goto
  <2>3. RunFrame(p) /\ Roused
    BY <1>2 DEF RunFrame, Roused
  <2>4. LocksFor(c, "sysret")
    BY <1>1 DEF LocksFor, HoldPt, HoldTicks
  <2>. QED BY <1>2, <2>1, <2>2, <2>3, <2>4, RunStep, Zenon
<1>3. ASSUME NEW q \in Slots, state[q] = "UNUSED", state' = [state EXCEPT ![q] = "EMBRYO"], TakePid(q),
             np' = [np EXCEPT ![p] = q], Goto(p, "fork_kstack"), UNCHANGED initcall
      PROVE  IInv'
  <2>1. TypeOK'
    <3>1. nextpid' \in Nat /\ pid' \in [Slots -> Nat]
      BY <1>1, <1>3 DEF TypeOK, TakePid
    <3>. QED BY <1>1, <1>3, <3>1, Zenon DEF TypeOK, Goto
  <2>2. /\ state'[q] = "EMBRYO" /\ pid'[q] = nextpid /\ np'[p] = q /\ pc'[p] = "fork_kstack"
        /\ nextpid' = nextpid + 1
        /\ \A r \in Slots \ {q} : state'[r] = state[r] /\ pid'[r] = pid[r]
        /\ \A r \in Slots \ {p} : np'[r] = np[r] /\ pc'[r] = pc[r]
    <3>1. /\ state \in [Slots -> States] /\ pid \in [Slots -> Nat] /\ np \in [Slots -> Slots \cup {NONE}]
          /\ nextpid' = nextpid + 1 /\ pid' = [pid EXCEPT ![q] = nextpid]
      BY <1>1, <1>3, Zenon DEF TypeOK, TakePid
    <3>2. state'[q] = "EMBRYO" /\ \A r \in Slots \ {q} : state'[r] = state[r]
      BY <1>3, <3>1, Zenon
    <3>3. pid'[q] = nextpid /\ \A r \in Slots \ {q} : pid'[r] = pid[r]
      BY <1>3, <3>1, Zenon
    <3>4. /\ np'[p] = q /\ pc'[p] = "fork_kstack"
          /\ \A r \in Slots \ {p} : np'[r] = np[r] /\ pc'[r] = pc[r]
      BY <1>1, <1>3, <3>1, Zenon DEF Goto
    <3>. QED BY <3>1, <3>2, <3>3, <3>4, Zenon
  <2>3. Owned(p, q) /\ pc[q] = "resumed" /\ ret[q] = "user" /\ ~kstack[q] /\ ~pgdir[q] /\ parent[q] = NONE
    <3>1. (\A d \in CPU : proc[d] # q) /\ pc[q] = "resumed" /\ ret[q] = "user"
      BY <1>3, NotExecuted, Zenon
    <3>2. \A r \in Slots : Where[r] \in Building \ {"fork_name"} => np[r] # q
      BY <1>1, <1>3, Zenon DEF BuildInv
    <3>3. ~kstack[q] /\ ~pgdir[q] /\ parent[q] = NONE
      BY <1>1, <1>3, Zenon DEF MemoryInv
    <3>. QED BY <1>3, <3>1, <3>2, <3>3, Zenon DEF Owned
  <2>4. SlotFrame(p, q) /\ SlotSoundAfter(p, q)
    <3>1. p # q
      BY <2>3, Zenon DEF At
    <3>. QED BY <2>2, <2>3, <3>1 DEF SlotFrame, SlotSoundAfter
  <2>5. PidAfter(q)
    BY <1>1, <2>2 DEF PidAfter, PidInv, TypeOK
  <2>6. BuiltAfter(p, q, "fork_kstack")
    BY <2>2, <2>3 DEF BuiltAfter
  <2>7. LocksFor(c, "fork_kstack") /\ "fork_kstack" \in Open
    BY <1>1 DEF LocksFor, HoldPt, HoldTicks, Open, Building
  <2>. QED BY <2>1, <2>2, <2>3, <2>4, <2>5, <2>6, <2>7, SlotStep, Zenon
<1>. QED BY <1>2, <1>3, Zenon

\* allocproc allocates the child's stack, or gives the slot back.
LEMMA ForkKstackInv ==
  ASSUME IInv, NEW c \in CPU, NEW p \in Slots, ForkKstack(c, p)
  PROVE  IInv'
<1>. USE DEF ForkKstack, text, percpu
<1> DEFINE q == np[p]
<1>1. /\ TypeOK /\ ptlock # c /\ tickslock # c /\ state[p] = "RUNNING"
      /\ {"resumed", "fork_copy", "sysret", "user"} \subseteq Points /\ "UNUSED" \in States
      /\ {"fork_copy", "sysret"} \subseteq Open
  BY Zenon DEF At, IInv, CpuInv, OnCpuInv, HoldPt, HoldTicks, Points, Open, Building, States
<1>2. /\ q \in Slots /\ state[q] = "EMBRYO" /\ Owned(p, q) /\ pc[q] = "resumed" /\ ret[q] = "user"
      /\ ~kstack[q] /\ ~pgdir[q] /\ parent[q] = NONE
      /\ 0 < pid[q] /\ pid[q] < nextpid /\ \A r \in Slots \ {q} : state[r] # "UNUSED" => pid[r] # pid[q]
  <2>1. pc[p] = "fork_kstack" /\ pc[p] \in Building \ {"fork_name"}
    BY Zenon DEF At, Building
  <2>. QED BY <2>1, ChildOwned
<1>3. p # q
  BY <1>1, <1>2, Zenon
<1> DEFINE Got    == /\ kstack' = [kstack EXCEPT ![q] = TRUE]
                     /\ pc' = [pc EXCEPT ![q] = "resumed", ![p] = "fork_copy"]
                     /\ ret' = [ret EXCEPT ![q] = "user"]
                     /\ UNCHANGED <<state, np>>
           Failed == /\ state' = [state EXCEPT ![q] = "UNUSED"]
                     /\ np' = [np EXCEPT ![p] = NONE]
                     /\ Goto(p, "sysret")
                     /\ UNCHANGED <<kstack, ret>>
           Effect(l) == /\ state' \in [Slots -> States] /\ kstack' \in [Slots -> BOOLEAN]
                        /\ np' \in [Slots -> Slots \cup {NONE}]
                        /\ pc' \in [Slots -> Points] /\ ret' \in [Slots -> Points]
                        /\ pc'[p] = l /\ pc'[q] = "resumed" /\ ret'[q] = "user"
                        /\ \A r \in Slots \ {q} : state'[r] = state[r] /\ kstack'[r] = kstack[r] /\ ret'[r] = ret[r]
                        /\ \A r \in Slots \ {p} : np'[r] = np[r]
                        /\ \A r \in Slots \ {p, q} : pc'[r] = pc[r]
                        /\ l = "fork_copy" => state'[q] = "EMBRYO" /\ kstack'[q] /\ np'[p] = q
                        /\ l = "sysret" => state'[q] = "UNUSED" /\ ~kstack'[q]
<1>t. /\ state \in [Slots -> States] /\ kstack \in [Slots -> BOOLEAN] /\ np \in [Slots -> Slots \cup {NONE}]
      /\ pc \in [Slots -> Points] /\ ret \in [Slots -> Points]
  BY <1>1, Zenon DEF TypeOK
<1>4. Got \/ Failed
  BY Zenon
<1>5. /\ UNCHANGED <<ptlock, tickslock, chan, nextpid, pid, parent, killed, pgdir, name, image, left, percpu>>
      /\ At(c, p, "fork_kstack") /\ initcall' \in {"any", "exit"}
  BY <1>1, ReturnsErrorType, Zenon
<1>. HIDE DEF ForkKstack
<1>6. PICK l \in {"fork_copy", "sysret"} : Effect(l)
  <2>1. CASE Got
    <3>1. kstack' \in [Slots -> BOOLEAN] /\ kstack'[q] /\ \A r \in Slots \ {q} : kstack'[r] = kstack[r]
      BY <1>2, <1>t, <2>1, Zenon
    <3>2. ret' \in [Slots -> Points] /\ ret'[q] = "user" /\ \A r \in Slots \ {q} : ret'[r] = ret[r]
      BY <1>1, <1>2, <1>t, <2>1, Zenon
    <3>3. /\ pc' \in [Slots -> Points] /\ pc'[p] = "fork_copy" /\ pc'[q] = "resumed"
          /\ \A r \in Slots \ {p, q} : pc'[r] = pc[r]
      BY <1>1, <1>2, <1>3, <1>t, <2>1, Zenon
    <3>4. Effect("fork_copy")
      BY <1>2, <1>t, <2>1, <3>1, <3>2, <3>3, Zenon
    <3>. QED BY <3>4, Zenon
  <2>2. CASE Failed
    <3>1. state' \in [Slots -> States] /\ state'[q] = "UNUSED" /\ \A r \in Slots \ {q} : state'[r] = state[r]
      BY <1>1, <1>2, <1>t, <2>2, Zenon
    <3>2. np' \in [Slots -> Slots \cup {NONE}] /\ \A r \in Slots \ {p} : np'[r] = np[r]
      BY <1>t, <2>2, Zenon
    <3>3. /\ pc' \in [Slots -> Points] /\ pc'[p] = "sysret" /\ pc'[q] = "resumed"
          /\ \A r \in Slots \ {p, q} : pc'[r] = pc[r]
      BY <1>1, <1>2, <1>3, <1>t, <2>2, Zenon DEF Goto
    <3>4. Effect("sysret")
      BY <1>2, <1>t, <2>2, <3>1, <3>2, <3>3, Zenon
    <3>. QED BY <3>4, Zenon
  <2>. QED BY <1>4, <2>1, <2>2, Zenon
<1>. HIDE DEF q
<1>7. TypeOK'
  BY <1>1, <1>5, <1>6, Zenon DEF TypeOK
<1>8. SlotFrame(p, q) /\ SlotSoundAfter(p, q) /\ PidAfter(q)
  BY <1>2, <1>5, <1>6 DEF SlotFrame, SlotSoundAfter, PidAfter
<1>9. BuiltAfter(p, q, l)
  BY <1>2, <1>5, <1>6 DEF BuiltAfter, Building
<1>10. LocksFor(c, l)
  BY <1>1, <1>5 DEF LocksFor, HoldPt, HoldTicks
<1>. QED BY <1>1, <1>2, <1>5, <1>6, <1>7, <1>8, <1>9, <1>10, SlotStep, Zenon

\* fork copies the address space, or frees the child's stack.
LEMMA ForkCopyInv ==
  ASSUME IInv, NEW c \in CPU, NEW p \in Slots, ForkCopy(c, p)
  PROVE  IInv'
<1>. USE DEF ForkCopy, FreeStack, frame, percpu
<1> DEFINE q == np[p]
           Got    == /\ pgdir' = [pgdir EXCEPT ![q] = TRUE]
                     /\ parent' = [parent EXCEPT ![q] = p]
                     /\ image' = [image EXCEPT ![q] = image[p]]
                     /\ Goto(p, "fork_run")
                     /\ UNCHANGED kstack
           Failed == /\ kstack' = [kstack EXCEPT ![q] = FALSE]
                     /\ Goto(p, "fork_undo")
                     /\ UNCHANGED <<pgdir, parent, image>>
           Effect(l) == /\ kstack' \in [Slots -> BOOLEAN] /\ pgdir' \in [Slots -> BOOLEAN]
                        /\ parent' \in [Slots -> Slots \cup {NONE}]
                        /\ image' \in [Slots -> Programs \cup {BootName, NONE}]
                        /\ pc' \in [Slots -> Points]
                        /\ pc'[p] = l /\ \A r \in Slots \ {p} : pc'[r] = pc[r]
                        /\ \A r \in Slots \ {q} : kstack'[r] = kstack[r] /\ pgdir'[r] = pgdir[r] /\ parent'[r] = parent[r]
                        /\ l = "fork_run" => kstack'[q] /\ pgdir'[q] /\ parent'[q] = p
                        /\ l = "fork_undo" => ~kstack'[q] /\ ~pgdir'[q] /\ parent'[q] = NONE
<1>1. /\ TypeOK /\ ptlock # c /\ tickslock # c /\ state[p] = "RUNNING"
      /\ {"fork_run", "fork_undo"} \subseteq Points /\ {"fork_run", "fork_undo"} \subseteq Open
  BY Zenon DEF At, IInv, CpuInv, OnCpuInv, HoldPt, HoldTicks, Points, Open, Building
<1>2. /\ q \in Slots /\ state[q] = "EMBRYO" /\ Owned(p, q) /\ pc[q] = "resumed" /\ ret[q] = "user"
      /\ kstack[q] /\ ~pgdir[q] /\ parent[q] = NONE
      /\ 0 < pid[q] /\ pid[q] < nextpid /\ \A r \in Slots \ {q} : state[r] # "UNUSED" => pid[r] # pid[q]
  <2>1. pc[p] = "fork_copy" /\ pc[p] \in Building \ {"fork_name"}
    BY Zenon DEF At, Building
  <2>. QED BY <2>1, ChildOwned
<1>3. p # q
  BY <1>1, <1>2, Zenon
<1>t. /\ kstack \in [Slots -> BOOLEAN] /\ pgdir \in [Slots -> BOOLEAN] /\ parent \in [Slots -> Slots \cup {NONE}]
      /\ image \in [Slots -> Programs \cup {BootName, NONE}] /\ pc \in [Slots -> Points]
  BY <1>1, Zenon DEF TypeOK
<1>4. Got \/ Failed
  BY Zenon
<1>5. /\ UNCHANGED <<ptlock, tickslock, state, chan, nextpid, pid, killed, name, initcall, frame, percpu>>
      /\ At(c, p, "fork_copy")
  BY Zenon
<1>. HIDE DEF ForkCopy
<1>6. PICK l \in {"fork_run", "fork_undo"} : Effect(l)
  <2>1. CASE Got
    <3>1. Effect("fork_run")
      <4>1. pgdir' \in [Slots -> BOOLEAN] /\ pgdir'[q] /\ \A r \in Slots \ {q} : pgdir'[r] = pgdir[r]
        BY <1>2, <1>t, <2>1, Zenon
      <4>2. /\ parent' \in [Slots -> Slots \cup {NONE}] /\ parent'[q] = p
            /\ \A r \in Slots \ {q} : parent'[r] = parent[r]
        BY <1>2, <1>t, <2>1, Zenon
      <4>3. image' \in [Slots -> Programs \cup {BootName, NONE}]
        <5>1. image[p] \in Programs \cup {BootName, NONE}
          BY <1>t, Zenon
        <5>. QED BY <1>2, <1>t, <2>1, <5>1, Zenon
      <4>4. pc' \in [Slots -> Points] /\ pc'[p] = "fork_run" /\ \A r \in Slots \ {p} : pc'[r] = pc[r]
        BY <1>1, <1>t, <2>1, Zenon DEF Goto
      <4>. QED BY <1>2, <1>t, <2>1, <4>1, <4>2, <4>3, <4>4, Zenon
    <3>. QED BY <3>1, Zenon
  <2>2. CASE Failed
    <3>1. Effect("fork_undo")
      <4>1. kstack' \in [Slots -> BOOLEAN] /\ ~kstack'[q] /\ \A r \in Slots \ {q} : kstack'[r] = kstack[r]
        BY <1>2, <1>t, <2>2, Zenon
      <4>2. pc' \in [Slots -> Points] /\ pc'[p] = "fork_undo" /\ \A r \in Slots \ {p} : pc'[r] = pc[r]
        BY <1>1, <1>t, <2>2, Zenon DEF Goto
      <4>. QED BY <1>2, <1>t, <2>2, <4>1, <4>2, Zenon
    <3>. QED BY <3>1, Zenon
  <2>. QED BY <1>4, <2>1, <2>2, Zenon
<1>. HIDE DEF q
<1>7. TypeOK'
  BY <1>1, <1>5, <1>6, Zenon DEF TypeOK
<1>8. SlotFrame(p, q) /\ SlotSoundAfter(p, q) /\ PidAfter(q)
  BY <1>2, <1>3, <1>5, <1>6 DEF SlotFrame, SlotSoundAfter, PidAfter
<1>9. BuiltAfter(p, q, l)
  BY <1>2, <1>5, <1>6 DEF BuiltAfter, Building, q
<1>10. LocksFor(c, l)
  BY <1>1, <1>5 DEF LocksFor, HoldPt, HoldTicks
<1>. QED BY <1>1, <1>2, <1>5, <1>6, <1>7, <1>8, <1>9, <1>10, SlotStep, Zenon

\* fork gives the child's slot back after copyuvm failed.
LEMMA ForkUndoInv ==
  ASSUME IInv, NEW c \in CPU, NEW p \in Slots, ForkUndo(c, p)
  PROVE  IInv'
<1>. USE DEF ForkUndo, ptable, text, percpu
<1> DEFINE q == np[p]
<1>1. /\ TypeOK /\ ptlock # c /\ tickslock # c /\ state[p] = "RUNNING"
      /\ "sysret" \in Points /\ "sysret" \in Open /\ "UNUSED" \in States
  BY Zenon DEF At, IInv, CpuInv, OnCpuInv, HoldPt, HoldTicks, Points, Open, States
<1>2. /\ q \in Slots /\ state[q] = "EMBRYO" /\ Owned(p, q) /\ pc[q] = "resumed" /\ ret[q] = "user"
      /\ ~kstack[q] /\ ~pgdir[q] /\ parent[q] = NONE
  <2>1. pc[p] = "fork_undo" /\ pc[p] \in Building \ {"fork_name"}
    BY Zenon DEF At, Building
  <2>. QED BY <2>1, ChildOwned
<1>a. initcall' \in {"any", "exit"}
  BY <1>1, ReturnsErrorType, Zenon
<1>3. /\ TypeOK' /\ pc'[p] = "sysret" /\ state'[q] = "UNUSED"
      /\ \A r \in Slots \ {q} : state'[r] = state[r]
      /\ \A r \in Slots \ {p} : np'[r] = np[r] /\ pc'[r] = pc[r]
  BY <1>1, <1>2, <1>a, Zenon DEF TypeOK, Goto
<1>4. p # q
  BY <1>1, <1>2, Zenon
<1>. HIDE DEF q
<1>5. SlotFrame(p, q) /\ SlotSoundAfter(p, q) /\ PidAfter(q)
  BY <1>2, <1>3, <1>4 DEF SlotFrame, SlotSoundAfter, PidAfter
<1>6. BuiltAfter(p, q, "sysret")
  BY Zenon DEF BuiltAfter, Building
<1>7. LocksFor(c, "sysret")
  BY <1>1 DEF LocksFor, HoldPt, HoldTicks
<1>. QED BY <1>1, <1>2, <1>3, <1>5, <1>6, <1>7, SlotStep, Zenon

\* fork makes the finished child RUNNABLE, without ptable.lock.
LEMMA ForkRunInv ==
  ASSUME IInv, NEW c \in CPU, NEW p \in Slots, ForkRun(c, p)
  PROVE  IInv'
<1>. USE DEF ForkRun, ptable, text, frame, percpu
<1> DEFINE q == np[p]
<1>1. /\ TypeOK /\ ptlock # c /\ tickslock # c /\ state[p] = "RUNNING"
      /\ "fork_name" \in Points /\ "fork_name" \in Open /\ "RUNNABLE" \in States
  BY Zenon DEF At, IInv, CpuInv, OnCpuInv, HoldPt, HoldTicks, Points, Open, Building, States
<1>2. /\ q \in Slots /\ state[q] = "EMBRYO" /\ Owned(p, q) /\ pc[q] = "resumed" /\ ret[q] = "user"
      /\ kstack[q] /\ pgdir[q] /\ parent[q] = p
      /\ 0 < pid[q] /\ pid[q] < nextpid /\ \A r \in Slots \ {q} : state[r] # "UNUSED" => pid[r] # pid[q]
  <2>1. pc[p] = "fork_run" /\ pc[p] \in Building \ {"fork_name"}
    BY Zenon DEF At, Building
  <2>. QED BY <2>1, ChildOwned
<1>3. /\ TypeOK' /\ pc'[p] = "fork_name" /\ state'[q] = "RUNNABLE"
      /\ \A r \in Slots \ {q} : state'[r] = state[r]
      /\ \A r \in Slots \ {p} : pc'[r] = pc[r]
  <2>1. state \in [Slots -> States] /\ pc \in [Slots -> Points]
    BY <1>1, Zenon DEF TypeOK
  <2>2. /\ state' \in [Slots -> States] /\ state'[q] = "RUNNABLE"
        /\ \A r \in Slots \ {q} : state'[r] = state[r]
    BY <1>1, <1>2, <2>1, Zenon
  <2>3. /\ pc' \in [Slots -> Points] /\ pc'[p] = "fork_name"
        /\ \A r \in Slots \ {p} : pc'[r] = pc[r]
    BY <1>1, <2>1, Zenon DEF Goto
  <2>4. TypeOK'
    BY <1>1, <2>2, <2>3, Zenon DEF TypeOK
  <2>. QED BY <2>2, <2>3, <2>4, Zenon
<1>4. p # q /\ np'[p] \in Slots
  BY <1>1, <1>2, Zenon
<1>. HIDE DEF q
<1>5. SlotFrame(p, q) /\ SlotSoundAfter(p, q) /\ PidAfter(q)
  BY <1>2, <1>3, <1>4 DEF SlotFrame, SlotSoundAfter, PidAfter
<1>6. BuiltAfter(p, q, "fork_name")
  BY <1>4, Zenon DEF BuiltAfter, Building
<1>7. LocksFor(c, "fork_name")
  BY <1>1 DEF LocksFor, HoldPt, HoldTicks
<1>. QED BY <1>1, <1>2, <1>3, <1>5, <1>6, <1>7, SlotStep, Zenon

\* fork writes the child's name, when the child may already run.
LEMMA ForkNameInv ==
  ASSUME IInv, NEW c \in CPU, NEW p \in Slots, ForkName(c, p)
  PROVE  IInv'
<1>. USE DEF ForkName, ptable, text, frame, percpu
<1>1. "sysret" \in Points \ (Building \cup {"yield", "sched", "resumed", "zombie"})
  BY Zenon DEF Points, Open, Calls, Building
<1>2. TypeOK /\ ptlock # c /\ tickslock # c
  BY Zenon DEF At, IInv, CpuInv, HoldPt, HoldTicks
<1>3. np' \in [Slots -> Slots \cup {NONE}] /\ \A q \in Slots \ {p} : np'[q] = np[q]
  BY <1>2, Zenon DEF TypeOK
<1>4. TypeOK'
  BY <1>1, <1>2, <1>3, Zenon DEF TypeOK, Goto
<1>5. RunFrame(p) /\ Roused
  BY <1>2, <1>3 DEF RunFrame, Roused
<1>6. LocksFor(c, "sysret")
  BY <1>2, ProcAssumption DEF LocksFor, HoldPt, HoldTicks
<1>. QED BY <1>1, <1>4, <1>5, <1>6, RunStep, Zenon

\* exit() wakes the parent, passes the children to init and becomes a zombie.
LEMMA ExitInv ==
  ASSUME IInv, NEW c \in CPU, NEW p \in Slots, exit(c, p)
  PROVE  IInv'
<1> DEFINE woken == wakeup1(state, parent[p])
           all   == wakeup1(woken, InitProc)
<1>1. /\ TypeOK /\ CpuInv /\ StackInv /\ OnCpuInv /\ ContextInv /\ BuildInv
      /\ MemoryInv /\ TickInv /\ WaitInv /\ FamilyInv /\ PidInv
  BY Zenon DEF IInv
<1>2. /\ At(c, p, "exit") /\ p # InitProc /\ ptlock = NONE /\ ptlock' = c
      /\ parent' = Adopt(p) /\ ret' = [ret EXCEPT ![p] = "zombie"] /\ Goto(p, "sched")
      /\ state' = [(IF ZombieChildren(p) = {} THEN woken ELSE all) EXCEPT ![p] = "ZOMBIE"]
      /\ UNCHANGED <<tickslock, chan, nextpid, pid, killed, kstack, pgdir, name, image, initcall, np, left,
                     proc, cr3, spc, idx, irq>>
  BY Zenon DEF exit, text, percpu
<1>3. /\ spc[c] = "away" /\ irq[c] = "none" /\ proc[c] = p /\ pc[p] = "exit"
      /\ state[p] = "RUNNING" /\ tickslock # c
  BY <1>1, <1>2, Zenon DEF At, OnCpuInv, CpuInv, HoldTicks
<1>4. /\ woken \in [Slots -> States]
      /\ \A q \in Slots :
           \/ state[q] = "SLEEPING" /\ chan[q] = parent[p] /\ woken[q] = "RUNNABLE"
           \/ (state[q] # "SLEEPING" \/ chan[q] # parent[p]) /\ woken[q] = state[q]
  <2>1. state \in [Slots -> States]
    BY <1>1, Zenon DEF TypeOK
  <2>. QED BY <2>1, Wakeup1State
<1>5. /\ all \in [Slots -> States]
      /\ \A q \in Slots :
           \/ woken[q] = "SLEEPING" /\ chan[q] = InitProc /\ all[q] = "RUNNABLE"
           \/ (woken[q] # "SLEEPING" \/ chan[q] # InitProc) /\ all[q] = woken[q]
  BY <1>4, Wakeup1State
<1>. HIDE DEF woken, all
<1>6. /\ state' \in [Slots -> States] /\ state'[p] = "ZOMBIE"
      /\ \A q \in Slots \ {p} :
           /\ state'[q] = state[q] \/ (state[q] = "SLEEPING" /\ state'[q] = "RUNNABLE")
           /\ state'[q] = "SLEEPING" => chan[q] # parent[p]
           /\ state'[q] = "SLEEPING" /\ chan[q] = InitProc => ZombieChildren(p) = {}
  <2>1. "ZOMBIE" \in States
    BY Zenon DEF States
  <2>2. CASE ZombieChildren(p) = {}
    <3>1. state' \in [Slots -> States] /\ state'[p] = "ZOMBIE" /\ \A q \in Slots \ {p} : state'[q] = woken[q]
      BY <1>2, <1>4, <2>1, <2>2, Zenon
    <3>. QED BY <1>4, <2>2, <3>1, Zenon
  <2>3. CASE ZombieChildren(p) # {}
    <3>1. state' \in [Slots -> States] /\ state'[p] = "ZOMBIE" /\ \A q \in Slots \ {p} : state'[q] = all[q]
      BY <1>2, <1>5, <2>1, <2>3, Zenon
    <3>. QED BY <1>4, <1>5, <2>3, <3>1
  <2>. QED BY <2>2, <2>3, Zenon
<1>7. /\ pc' \in [Slots -> Points] /\ ret' \in [Slots -> Points]
      /\ pc'[p] = "sched" /\ ret'[p] = "zombie"
      /\ \A q \in Slots \ {p} : pc'[q] = pc[q] /\ ret'[q] = ret[q]
  <2>1. {"sched", "zombie"} \subseteq Points
    BY Zenon DEF Points
  <2>. QED BY <1>1, <1>2, <2>1, Zenon DEF TypeOK, Goto
<1>8. \A q \in Slots : parent'[q] = IF parent[q] = p THEN InitProc ELSE parent[q]
  BY <1>2, Zenon DEF Adopt
<1>9. TypeOK'
  <2>1. parent' \in [Slots -> Slots \cup {NONE}]
    BY <1>1, <1>2, InitSlot, Zenon DEF TypeOK, Adopt
  <2>. QED BY <1>1, <1>2, <1>6, <1>7, <2>1, Zenon DEF TypeOK
<1>a. UNCHANGED <<tickslock, chan, nextpid, pid, killed, kstack, pgdir, np, left, proc, cr3, spc, idx, irq>>
  BY <1>2, Zenon
<1>10. CpuInv' /\ OnCpuInv'
  <2>1. "sched" \in HoldPt /\ "sched" \notin HoldTicks /\ "ZOMBIE" \in Live \ {"RUNNING"}
    BY Zenon DEF HoldPt, HoldTicks, Live
  <2>2. ptlock' = c /\ \A d \in CPU \ {c} : ptlock' # d /\ ptlock # d
    BY <1>2, ProcAssumption
  <2>3. /\ pc'[p] = "sched" /\ state'[p] = "ZOMBIE" /\ tickslock' = tickslock
        /\ UNCHANGED <<proc, cr3, spc, idx, irq>>
        /\ \A q \in Slots \ {p} : pc'[q] = pc[q]
    BY <1>6, <1>7, <1>a, Zenon
  <2>4. \A q \in Slots \ {p} : state'[q] = state[q] \/ (state[q] = "SLEEPING" /\ state'[q] = "RUNNABLE")
    BY <1>6, Zenon
  <2>. QED BY <1>3, <2>1, <2>2, <2>3, <2>4, LockMove
<1>11. StackInv'
  BY <1>1, <1>a, StackInvFrame
<1>12. ContextInv'
  <2>1. \A q \in Slots : \/ ret'[q] = ret[q] /\ (\/ state'[q] = state[q]
                                                 \/ state[q] # "ZOMBIE" /\ state'[q] \notin {"UNUSED", "EMBRYO", "ZOMBIE"})
                         \/ ret'[q] = "zombie" /\ state'[q] = "ZOMBIE"
    BY <1>6, <1>7, Zenon
  <2>. QED BY <1>1, <1>3, <1>7, <1>a, <2>1, ContextMove
<1>13. BuildInv'
  <2>1. Where'[p] = "zombie" /\ \A q \in Slots \ {p} : Where'[q] = Where[q]
    BY <1>7, Zenon DEF Where
  <2>2. "zombie" \notin Building
    BY Zenon DEF Building
  <2>3. \A q \in Slots : state[q] = "EMBRYO" => state'[q] = "EMBRYO"
    BY <1>3, <1>6, Zenon
  <2>4. \A q \in Slots : Where[q] \in Building \ {"fork_name"} /\ q # p => parent'[np[q]] = parent[np[q]]
    BY <1>1, <1>8, ProcAssumption DEF BuildInv
  <2>5. \A q \in Slots : Where'[q] \in Building => q # p /\ Where'[q] = Where[q]
    BY <2>1, <2>2, Zenon
  <2>6. np' = np /\ kstack' = kstack /\ pgdir' = pgdir
    BY <1>a, Zenon
  <2>7. ASSUME NEW q \in Slots, Where'[q] \in Building \ {"fork_name"}
        PROVE  /\ np'[q] \in Slots /\ state'[np'[q]] = "EMBRYO"
               /\ kstack'[np'[q]] <=> Where'[q] \in {"fork_copy", "fork_run"}
               /\ pgdir'[np'[q]] <=> Where'[q] = "fork_run"
               /\ parent'[np'[q]] = IF Where'[q] = "fork_run" THEN q ELSE NONE
    <3>1. Where'[q] = Where[q] /\ Where[q] \in Building \ {"fork_name"} /\ q # p
      BY <2>5, <2>7, Zenon
    <3>2. /\ np[q] \in Slots /\ state[np[q]] = "EMBRYO"
          /\ kstack[np[q]] <=> Where[q] \in {"fork_copy", "fork_run"}
          /\ pgdir[np[q]] <=> Where[q] = "fork_run"
          /\ parent[np[q]] = IF Where[q] = "fork_run" THEN q ELSE NONE
      BY <1>1, <3>1, Zenon DEF BuildInv
    <3>. QED BY <2>3, <2>4, <2>6, <3>1, <3>2, Zenon
  <2>8. \A q, r \in Slots :
          Where'[q] \in Building \ {"fork_name"} /\ Where'[r] \in Building \ {"fork_name"} /\ np'[q] = np'[r] => q = r
    BY <1>1, <2>5, <2>6, Zenon DEF BuildInv
  <2>9. \A q \in Slots : Where'[q] = "fork_name" => np'[q] \in Slots
    <3>1. "fork_name" \in Building
      BY Zenon DEF Building
    <3>. QED BY <1>1, <2>5, <2>6, <3>1, Zenon DEF BuildInv
  <2>. QED BY <2>7, <2>8, <2>9, Zenon DEF BuildInv
<1>14. MemoryInv'
  <2>1. \A q \in Slots : (state'[q] \in Live <=> state[q] \in Live) /\ (state'[q] = "UNUSED" <=> state[q] = "UNUSED")
    BY <1>3, <1>6, Zenon DEF Live
  <2>2. \A q \in Slots : parent[q] = NONE => parent'[q] = NONE
    BY <1>8, ProcAssumption
  <2>. QED BY <1>1, <1>a, <2>1, <2>2, Zenon DEF MemoryInv
<1>15. TickInv'
  BY <1>1, <1>6, <1>7, <1>a DEF TickInv
<1>16. WaitInv'
  <2>1. SUFFICES ASSUME NEW r \in Slots, state'[r] = "SLEEPING", chan[r] = r
                 PROVE  /\ \A q \in Slots : parent'[q] = r => state'[q] # "ZOMBIE"
                        /\ \E q \in Slots : parent'[q] = r
                        /\ ~killed[r]
    BY <1>1, <1>a, Zenon DEF WaitInv
  <2>2. r # p /\ state[r] = "SLEEPING" /\ r # parent[p] /\ (r = InitProc => ZombieChildren(p) = {})
    BY <1>6, <2>1
  <2>3. /\ \A q \in Slots : parent[q] = r => state[q] # "ZOMBIE"
        /\ \E q \in Slots : parent[q] = r
        /\ ~killed[r]
    BY <1>1, <2>1, <2>2, Zenon DEF WaitInv
  <2>4. ASSUME NEW q \in Slots, parent'[q] = r PROVE state'[q] # "ZOMBIE"
    <3>1. q # p
      BY <1>1, <1>8, <2>2, <2>4, Zenon DEF FamilyInv
    <3>2. state[q] # "ZOMBIE"
      BY <1>8, <2>2, <2>3, <2>4, Zenon DEF ZombieChildren, Children
    <3>. QED BY <1>6, <3>1, <3>2, Zenon
  <2>. QED BY <1>8, <2>2, <2>3, <2>4, Zenon
<1>17. FamilyInv'
  <2>1. \A q \in Slots : (state'[q] \in Live <=> state[q] \in Live)
                         /\ (q # p /\ state[q] \in Live \ {"ZOMBIE"} => state'[q] \in Live \ {"ZOMBIE"})
    BY <1>3, <1>6, Zenon DEF Live
  <2>2. p # NONE /\ InitProc # NONE
    BY InitSlot, ProcAssumption
  <2>. QED BY <1>1, <1>2, <1>8, <2>1, <2>2, InitSlot DEF FamilyInv
<1>18. PidInv'
  <2>1. \A q \in Slots : state'[q] = "UNUSED" <=> state[q] = "UNUSED"
    BY <1>3, <1>6, Zenon
  <2>. QED BY <1>1, <1>a, <2>1, Zenon DEF PidInv
<1>. QED BY <1>9, <1>10, <1>11, <1>12, <1>13, <1>14, <1>15, <1>16, <1>17, <1>18, Zenon DEF IInv

\* wait() takes ptable.lock.
LEMMA WaitAcquireInv ==
  ASSUME IInv, NEW c \in CPU, NEW p \in Slots, WaitAcquire(c, p)
  PROVE  IInv'
<1>. USE DEF WaitAcquire, ptable, text, frame, percpu
<1>1. "waitscan" \in Points \ (Building \cup {"yield", "sched", "resumed", "zombie"})
  BY Zenon DEF Points, Open, Calls, Building
<1>2. TypeOK /\ tickslock # c
  BY Zenon DEF At, IInv, CpuInv, HoldPt, HoldTicks
<1>3. TypeOK'
  BY <1>1, <1>2, Zenon DEF TypeOK, Goto
<1>4. RunFrame(p) /\ Roused
  BY <1>2 DEF RunFrame, Roused
<1>5. LocksFor(c, "waitscan")
  BY <1>2, ProcAssumption DEF LocksFor, HoldPt, HoldTicks
<1>. QED BY <1>1, <1>3, <1>4, <1>5, RunStep, Zenon

\* wait() frees a zombie child, which no CPU executes any more.
LEMMA WaitReapInv ==
  ASSUME IInv, NEW c \in CPU, NEW p \in Slots, WaitReap(c, p),
         First(ZombieChildren(p)) \in ZombieChildren(p)
  PROVE  IInv'
<1> DEFINE q == First(ZombieChildren(p))
<1>1. /\ TypeOK /\ ptlock = c /\ tickslock # c /\ state[p] = "RUNNING"
      /\ {"sysret", "user"} \subseteq Points /\ "sysret" \in Open /\ "UNUSED" \in States
  BY Zenon DEF WaitReap, At, IInv, CpuInv, OnCpuInv, HoldPt, HoldTicks, Points, Open, States
<1>2. q \in Slots /\ parent[q] = p /\ state[q] = "ZOMBIE"
  BY Zenon DEF ZombieChildren, Children
<1>3. /\ At(c, p, "waitscan") /\ Goto(p, "sysret") /\ ptlock' = NONE
      /\ kstack' = [kstack EXCEPT ![q] = FALSE] /\ pgdir' = [pgdir EXCEPT ![q] = FALSE]
      /\ state' = [state EXCEPT ![q] = "UNUSED"] /\ pid' = [pid EXCEPT ![q] = 0]
      /\ parent' = [parent EXCEPT ![q] = NONE] /\ killed' = [killed EXCEPT ![q] = FALSE]
      /\ name' = [name EXCEPT ![q] = NONE] /\ image' = [image EXCEPT ![q] = NONE]
      /\ ret' = [ret EXCEPT ![q] = "user"]
      /\ UNCHANGED <<tickslock, chan, nextpid, initcall, np, left, percpu>>
  BY Zenon DEF WaitReap, FreeStack
<1>. HIDE DEF q
<1>4. (\A d \in CPU : proc[d] # q) /\ pc[q] = "resumed"
  <2>1. CpuInv /\ OnCpuInv /\ ContextInv
    BY Zenon DEF IInv
  <2>2. ASSUME NEW d \in CPU, proc[d] = q PROVE FALSE
    <3>1. spc[d] \in {"away", "back"}
      BY <1>1, <1>2, <2>1, <2>2, ProcAssumption DEF TypeOK, CpuInv
    <3>2. ptlock = d
      BY <1>2, <2>1, <2>2, <3>1, Zenon DEF CpuInv, OnCpuInv, HoldPt
    <3>. QED BY <1>1, <1>2, <1>3, <2>2, <3>2, Zenon DEF At
  <2>. QED BY <1>2, <2>1, <2>2, Zenon DEF ContextInv
<1>5. Owned(p, q)
  BY <1>2, <1>4, Zenon DEF Owned, IInv, BuildInv
<1>6. TypeOK'
  <2>1. /\ pc' \in [Slots -> Points] /\ ret' \in [Slots -> Points] /\ state' \in [Slots -> States]
        /\ pid' \in [Slots -> Nat] /\ parent' \in [Slots -> Slots \cup {NONE}]
    <3>1. /\ pc \in [Slots -> Points] /\ ret \in [Slots -> Points] /\ state \in [Slots -> States]
          /\ pid \in [Slots -> Nat] /\ parent \in [Slots -> Slots \cup {NONE}]
      BY <1>1, Zenon DEF TypeOK
    <3>2. "sysret" \in Points /\ "user" \in Points /\ "UNUSED" \in States /\ 0 \in Nat
      BY DEF Points, Open, States
    <3>. QED BY <1>3, <3>1, <3>2, Zenon DEF Goto
  <2>2. /\ kstack' \in [Slots -> BOOLEAN] /\ pgdir' \in [Slots -> BOOLEAN] /\ killed' \in [Slots -> BOOLEAN]
        /\ name' \in [Slots -> Programs \cup {BootName, NONE}]
        /\ image' \in [Slots -> Programs \cup {BootName, NONE}]
    BY <1>1, <1>3, Zenon DEF TypeOK
  <2>. QED BY <1>1, <1>3, <2>1, <2>2, Zenon DEF TypeOK, percpu
<1>7. /\ pc'[p] = "sysret" /\ \A r \in Slots \ {p} : pc'[r] = pc[r]
      /\ ~kstack'[q] /\ ~pgdir'[q] /\ state'[q] = "UNUSED" /\ parent'[q] = NONE /\ ret'[q] = "user"
      /\ \A r \in Slots \ {q} : /\ state'[r] = state[r] /\ pid'[r] = pid[r] /\ parent'[r] = parent[r]
                                /\ kstack'[r] = kstack[r] /\ pgdir'[r] = pgdir[r]
                                /\ ret'[r] = ret[r] /\ killed'[r] = killed[r]
  <2>1. /\ kstack \in [Slots -> BOOLEAN] /\ pgdir \in [Slots -> BOOLEAN] /\ state \in [Slots -> States]
        /\ parent \in [Slots -> Slots \cup {NONE}] /\ ret \in [Slots -> Points]
        /\ pid \in [Slots -> Nat] /\ killed \in [Slots -> BOOLEAN] /\ pc \in [Slots -> Points]
    BY <1>1, Zenon DEF TypeOK
  <2>2. pc'[p] = "sysret" /\ \A r \in Slots \ {p} : pc'[r] = pc[r]
    BY <1>3, <2>1, Zenon DEF Goto
  <2>3. ~kstack'[q] /\ ~pgdir'[q] /\ state'[q] = "UNUSED" /\ parent'[q] = NONE /\ ret'[q] = "user"
    BY <1>2, <1>3, <2>1, Zenon
  <2>4. \A r \in Slots \ {q} : state'[r] = state[r] /\ pid'[r] = pid[r] /\ parent'[r] = parent[r]
    BY <1>3, <2>1, Zenon
  <2>5. \A r \in Slots \ {q} : /\ kstack'[r] = kstack[r] /\ pgdir'[r] = pgdir[r]
                               /\ ret'[r] = ret[r] /\ killed'[r] = killed[r]
    BY <1>3, <2>1, Zenon
  <2>. QED BY <2>2, <2>3, <2>4, <2>5, Zenon
<1>8. SlotFrame(p, q) /\ SlotSoundAfter(p, q) /\ PidAfter(q)
  <2>1. p # q
    BY <1>1, <1>2, Zenon
  <2>2. UNCHANGED <<chan, nextpid, np, left, percpu>>
    BY <1>3, Zenon
  <2>. QED BY <1>2, <1>4, <1>7, <2>1, <2>2 DEF SlotFrame, SlotSoundAfter, PidAfter
<1>9. BuiltAfter(p, q, "sysret")
  BY Zenon DEF BuiltAfter, Building
<1>10. LocksFor(c, "sysret")
  BY <1>1, <1>3, ProcAssumption DEF LocksFor, HoldPt, HoldTicks
<1>. QED BY <1>1, <1>2, <1>3, <1>5, <1>6, <1>7, <1>8, <1>9, <1>10, SlotStep, Zenon

\* wait() returns -1 without children, or to a killed process.
LEMMA WaitFailInv ==
  ASSUME IInv, NEW c \in CPU, NEW p \in Slots, WaitFail(c, p)
  PROVE  IInv'
<1>. USE DEF WaitFail, ptable, text, frame, percpu
<1>1. "sysret" \in Points \ (Building \cup {"yield", "sched", "resumed", "zombie"})
  BY Zenon DEF Points, Open, Calls, Building
<1>2. TypeOK /\ ptlock = c /\ tickslock # c
  BY Zenon DEF At, IInv, CpuInv, HoldPt, HoldTicks
<1>3. TypeOK'
  BY <1>1, <1>2, Zenon DEF TypeOK, Goto
<1>4. RunFrame(p) /\ Roused
  BY <1>2 DEF RunFrame, Roused
<1>5. LocksFor(c, "sysret")
  BY <1>2, ProcAssumption DEF LocksFor, HoldPt, HoldTicks
<1>. QED BY <1>1, <1>3, <1>4, <1>5, RunStep, Zenon

\* wait() goes to sleep, with a child that is no zombie to wake it.
LEMMA WaitSleepInv ==
  ASSUME IInv, NEW c \in CPU, NEW p \in Slots, WaitSleep(c, p)
  PROVE  IInv'
<1>. USE DEF WaitSleep, ptable, text, frame, percpu
<1>1. TypeOK /\ ptlock = c /\ tickslock # c /\ state[p] = "RUNNING"
  BY Zenon DEF At, IInv, CpuInv, HoldPt, HoldTicks, OnCpuInv
<1>2. (\A q \in Slots : parent[q] = p => state[q] # "ZOMBIE") /\ (\E q \in Slots : parent[q] = p) /\ ~killed[p]
  BY Zenon DEF ZombieChildren, Children
<1>3. TypeOK'
  BY <1>1, Zenon DEF TypeOK, Goto, Points, Open, States
<1>4. /\ pc'[p] = "sched" /\ state'[p] = "SLEEPING" /\ chan'[p] = p /\ ret'[p] = "waitscan"
      /\ \A q \in Slots \ {p} : pc'[q] = pc[q] /\ state'[q] = state[q] /\ chan'[q] = chan[q] /\ ret'[q] = ret[q]
  BY <1>1, Zenon DEF TypeOK, Goto
<1>5. Where'[p] \notin Building /\ "sched" \in HoldPt /\ "sched" \notin HoldTicks
  BY <1>4, Zenon DEF Where, Building, HoldPt, HoldTicks
<1>6. TICKS # p
  BY ProcAssumption
<1>7. /\ spc[c] = "away" /\ irq[c] = "none" /\ proc[c] = p /\ pc[p] # "sched"
      /\ UNCHANGED <<ptlock, tickslock, nextpid, pid, parent, killed, kstack, pgdir, np, left, percpu>>
  BY Zenon DEF At
<1>. HIDE DEF WaitSleep
<1>. QED BY <1>1, <1>2, <1>3, <1>4, <1>5, <1>6, <1>7, ProcessStep

\* kill() marks a process and wakes it.
LEMMA KillInv ==
  ASSUME IInv, NEW c \in CPU, NEW p \in Slots, kill(c, p)
  PROVE  IInv'
<1>1. "sysret" \in Points \ (Building \cup {"yield", "sched", "resumed", "zombie"})
  BY Zenon DEF Points, Open, Building
<1>2. TypeOK /\ ptlock # c /\ tickslock # c
  BY Zenon DEF kill, At, IInv, CpuInv, HoldPt, HoldTicks
<1>3. PICK q : \/ UNCHANGED <<killed, state>>
               \/ killed' = [killed EXCEPT ![q] = TRUE] /\ state' = [state EXCEPT ![q] = Rouse(@)]
  BY Zenon DEF kill
<1>4. /\ At(c, p, "kill") /\ Goto(p, "sysret")
      /\ UNCHANGED <<ptlock, tickslock, chan, nextpid, pid, parent, kstack, pgdir, text, frame, percpu>>
  BY Zenon DEF kill
<1>5. /\ state' \in [Slots -> States] /\ killed' \in [Slots -> BOOLEAN]
      /\ Roused
  <2>1. \A s \in States : Rouse(s) \in States /\ Rouse(s) # "SLEEPING"
                          /\ (Rouse(s) = s \/ (s = "SLEEPING" /\ Rouse(s) = "RUNNABLE"))
    BY Zenon DEF States, Rouse
  <2>2. state \in [Slots -> States] /\ killed \in [Slots -> BOOLEAN]
    BY <1>2, Zenon DEF TypeOK
  <2>3. CASE UNCHANGED <<killed, state>>
    BY <2>2, <2>3, Zenon DEF Roused
  <2>4. CASE killed' = [killed EXCEPT ![q] = TRUE] /\ state' = [state EXCEPT ![q] = Rouse(@)]
    <3>1. state' \in [Slots -> States] /\ killed' \in [Slots -> BOOLEAN]
      BY <2>1, <2>2, <2>4, Zenon
    <3>2. ASSUME NEW r \in Slots
          PROVE  /\ state'[r] = state[r] \/ (state[r] = "SLEEPING" /\ state'[r] = "RUNNABLE")
                 /\ killed'[r] = killed[r] \/ state'[r] # "SLEEPING"
      <4>1. CASE r = q
        BY <2>1, <2>2, <2>4, <4>1, Zenon
      <4>2. CASE r # q
        BY <2>2, <2>4, <4>2, Zenon
      <4>. QED BY <4>1, <4>2, Zenon
    <3>. QED BY <3>1, <3>2, Zenon DEF Roused
  <2>. QED BY <1>3, <2>3, <2>4, Zenon
<1>6. TypeOK'
  <2>1. pc' \in [Slots -> Points]
    BY <1>1, <1>2, <1>4, Zenon DEF TypeOK, Goto
  <2>. QED BY <1>2, <1>4, <1>5, <2>1, Zenon DEF TypeOK, text, frame, percpu
<1>7. RunFrame(p)
  BY <1>4 DEF RunFrame, frame, percpu
<1>8. LocksFor(c, "sysret")
  BY <1>2, <1>4 DEF LocksFor, HoldPt, HoldTicks
<1>. QED BY <1>1, <1>4, <1>5, <1>6, <1>7, <1>8, RunStep, Zenon
==============================================================================
