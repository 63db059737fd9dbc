----------------------------- MODULE ProcFamily -----------------------------
(***************************************************************************)
(* The system calls by which processes make, end, wait for and kill each   *)
(* other (proc.c).                                                         *)
(***************************************************************************)
EXTENDS ProcTable

(***************************************************************************)
(* fork().  Only allocproc's search holds ptable.lock; everything after it *)
(* writes the child's slot without the lock.                               *)
(***************************************************************************)

\* p->pid = nextpid++.
TakePid(q) ==
  /\ pid' = [pid EXCEPT ![q] = nextpid]
  /\ nextpid' = nextpid + 1

\* allocproc, the search.  fork gives slots back without the lock, so a
\* lower slot may turn UNUSED behind the loop: any UNUSED slot can be the one.
allocproc(c, p) ==
  /\ At(c, p, "fork")
  /\ ptlock = NONE
  /\ \/ \E q \in Slots :
          /\ state[q] = "UNUSED"
          /\ state' = [state EXCEPT ![q] = "EMBRYO"]
          /\ TakePid(q)
          /\ np' = [np EXCEPT ![p] = q]
          /\ Goto(p, "fork_kstack")
          /\ UNCHANGED initcall
     \/ /\ \A q \in Slots : state[q] # "UNUSED"
        /\ Goto(p, "sysret") /\ ReturnsError(p)
        /\ UNCHANGED <<state, pid, nextpid, np>>
  /\ UNCHANGED <<ptlock, tickslock, chan, parent, killed, kstack, pgdir, name, image, ret, left, percpu>>

\* allocproc, kalloc of the stack and the context that starts in forkret; on
\* failure the slot is given back.
ForkKstack(c, p) ==
  /\ At(c, p, "fork_kstack")
  /\ \/ /\ kstack' = [kstack EXCEPT ![np[p]] = TRUE]
        /\ pc' = [pc EXCEPT ![np[p]] = "resumed", ![p] = "fork_copy"]
        /\ ret' = [ret EXCEPT ![np[p]] = "user"]
        /\ UNCHANGED <<state, np, initcall>>
     \/ /\ state' = [state EXCEPT ![np[p]] = "UNUSED"]
        /\ np' = [np EXCEPT ![p] = NONE]
        /\ Goto(p, "sysret") /\ ReturnsError(p)
        /\ UNCHANGED <<kstack, ret>>
  /\ UNCHANGED <<ptlock, tickslock, chan, nextpid, pid, parent, killed, pgdir, name, image, left, percpu>>

\* copyuvm, then np->sz, np->parent, np->tf, the open files and the
\* directory; when copyuvm fails the stack is freed first.
ForkCopy(c, p) ==
  /\ At(c, p, "fork_copy")
  /\ \/ /\ pgdir' = [pgdir EXCEPT ![np[p]] = TRUE]
        /\ parent' = [parent EXCEPT ![np[p]] = p]
        /\ image' = [image EXCEPT ![np[p]] = image[p]]
        /\ Goto(p, "fork_run")
        /\ UNCHANGED kstack
     \/ /\ FreeStack(np[p])
        /\ Goto(p, "fork_undo")
        /\ UNCHANGED <<pgdir, parent, image>>
  /\ UNCHANGED <<ptlock, tickslock, state, chan, nextpid, pid, killed, name, initcall, frame, percpu>>

\* ... and then the slot is given back.
ForkUndo(c, p) ==
  /\ At(c, p, "fork_undo")
  /\ state' = [state EXCEPT ![np[p]] = "UNUSED"]
  /\ np' = [np EXCEPT ![p] = NONE]
  /\ Goto(p, "sysret") /\ ReturnsError(p)
  /\ UNCHANGED <<ptlock, tickslock, chan, ptable, name, image, ret, left, percpu>>

ForkRun(c, p) ==
  /\ At(c, p, "fork_run")
  /\ state' = [state EXCEPT ![np[p]] = "RUNNABLE"]
  /\ Goto(p, "fork_name")
  /\ UNCHANGED <<ptlock, tickslock, chan, ptable, text, frame, percpu>>

ForkName(c, p) ==
  /\ At(c, p, "fork_name")
  /\ name' = [name EXCEPT ![np[p]] = name[p]]
  /\ np' = [np EXCEPT ![p] = NONE]
  /\ Goto(p, "sysret")
  /\ UNCHANGED <<ptlock, tickslock, state, chan, ptable, image, initcall, ret, left, percpu>>

-----------------------------------------------------------------------------
\* Mutation of Adopt: the children keep the parent that exits.
Adopt_None(p) == parent

\* The children of p are passed to init.
Adopt(p) == [q \in Slots |-> IF parent[q] = p THEN InitProc ELSE parent[q]]

(***************************************************************************)
(* exit(): for init, panic("init exiting"), whose loop never ends and that *)
(* has disabled interrupts; for others the part under ptable.lock, up to   *)
(* the call of sched().                                                    *)
(***************************************************************************)
init_exit(c, p) ==
  /\ At(c, p, "exit") \/ At(c, p, "panic")
  /\ p = InitProc
  /\ Goto(p, "panic")
  /\ UNCHANGED <<ptlock, tickslock, state, chan, ptable, text, frame, percpu>>

exit(c, p) ==
  LET woken == wakeup1(state, parent[p]) IN
  /\ At(c, p, "exit") /\ p # InitProc
  /\ ptlock = NONE
  /\ ptlock' = c
  /\ parent' = Adopt(p)
  /\ state' = [(IF ZombieChildren(p) = {} THEN woken ELSE wakeup1(woken, InitProc))
                 EXCEPT ![p] = "ZOMBIE"]
  /\ ret' = [ret EXCEPT ![p] = "zombie"]
  /\ Goto(p, "sched")
  /\ UNCHANGED <<tickslock, chan, nextpid, pid, killed, kstack, pgdir, text, np, left, percpu>>

(***************************************************************************)
(* wait(): the table is scanned with ptable.lock held.                     *)
(***************************************************************************)
WaitAcquire(c, p) ==
  /\ At(c, p, "wait")
  /\ ptlock = NONE
  /\ ptlock' = c
  /\ Goto(p, "waitscan")
  /\ UNCHANGED <<tickslock, state, chan, ptable, text, frame, percpu>>

\* The first zombie child is freed, stack and page directory included, and
\* its pid returned.
WaitReap(c, p) ==
  LET q == First(ZombieChildren(p)) IN
  /\ At(c, p, "waitscan")
  /\ ZombieChildren(p) # {}
  /\ FreeStack(q)
  /\ pgdir' = [pgdir EXCEPT ![q] = FALSE]
  /\ state' = [state EXCEPT ![q] = "UNUSED"]
  /\ pid' = [pid EXCEPT ![q] = 0]
  /\ parent' = [parent EXCEPT ![q] = NONE]
  /\ killed' = [killed EXCEPT ![q] = FALSE]
  /\ name' = [name EXCEPT ![q] = NONE]
  /\ image' = [image EXCEPT ![q] = NONE]
  /\ ret' = [ret EXCEPT ![q] = "user"]
  /\ ptlock' = NONE
  /\ Goto(p, "sysret")
  /\ UNCHANGED <<tickslock, chan, nextpid, initcall, np, left, percpu>>

WaitFail(c, p) ==
  /\ At(c, p, "waitscan")
  /\ ZombieChildren(p) = {}
  /\ Children(p) = {} \/ killed[p]
  /\ ptlock' = NONE
  /\ Goto(p, "sysret")
  /\ UNCHANGED <<tickslock, state, chan, ptable, text, frame, percpu>>

\* sleep(proc, &ptable.lock): lk is ptable.lock, nothing to hand over.
WaitSleep(c, p) ==
  /\ At(c, p, "waitscan")
  /\ ZombieChildren(p) = {}
  /\ Children(p) # {} /\ ~killed[p]
  /\ chan' = [chan EXCEPT ![p] = p]
  /\ state' = [state EXCEPT ![p] = "SLEEPING"]
  /\ ret' = [ret EXCEPT ![p] = "waitscan"]
  /\ Goto(p, "sched")
  /\ UNCHANGED <<ptlock, tickslock, ptable, text, np, left, percpu>>

\* "Wake process from sleep if necessary."
Rouse(s) == IF s = "SLEEPING" THEN "RUNNABLE" ELSE s

\* kill(k): the first slot whose pid is k, whatever its state.
kill(c, p) ==
  /\ At(c, p, "kill")
  /\ ptlock = NONE
  /\ \E k \in KillPids :
       LET hit == {q \in Slots : pid[q] = k}
           q   == First(hit)
       IN \/ hit = {} /\ UNCHANGED <<killed, state>>
          \/ /\ hit # {}
             /\ killed' = [killed EXCEPT ![q] = TRUE]
             /\ state' = [state EXCEPT ![q] = Rouse(@)]
  /\ Goto(p, "sysret")
  /\ UNCHANGED <<ptlock, tickslock, chan, nextpid, pid, parent, kstack, pgdir, text, frame, percpu>>

=============================================================================
