------------------------------ MODULE Spinlock ------------------------------
(***************************************************************************)
(* Spin locks (spinlock.c) and the interrupt flag. A CPU runs kernel code  *)
(* that takes and gives back locks in any order it likes, as long as it    *)
(* takes them by rank, and an interrupt handler on top of it that does the *)
(* same. pushcli without a lock is what switchuvm does.                    *)
(***************************************************************************)
EXTENDS Naturals, FiniteSets

CONSTANTS CPUs, NoCpu,
          Locks,           \* the locks, by rank
          NoLock,
          MaxCli           \* bound: pushcli's without a lock in one piece of code

ASSUME LockAssumption == /\ Locks \subseteq Nat /\ NoLock \notin Locks /\ NoCpu \notin CPUs
                         /\ MaxCli \in Nat

VARIABLES locked, owner,           \* lk->locked, lk->cpu
          iflag,                   \* FL_IF
          ncli, intena,            \* struct cpu
          pc, lk, ef, hold, cli,   \* the code that the CPU runs: where it is, the lock and the flags
                                   \* it deals with, the locks and the pushcli's that it has
          saved,                   \* the code that a handler has interrupted
          panicked

cpu == <<iflag, ncli, intena>>
vars == <<locked, owner, iflag, ncli, intena, pc, lk, ef, hold, cli, saved, panicked>>

NoFrame == [pc |-> "none", lk |-> NoLock, ef |-> FALSE, hold |-> {}, cli |-> 0]
Points == {"run", "cli", "check", "spin", "own", "unlock", "pop"}

Init == /\ locked = [l \in Locks |-> FALSE] /\ owner = [l \in Locks |-> NoCpu]
        /\ iflag = [c \in CPUs |-> TRUE] /\ ncli = [c \in CPUs |-> 0] /\ intena = [c \in CPUs |-> FALSE]
        /\ pc = [c \in CPUs |-> "run"] /\ lk = [c \in CPUs |-> NoLock] /\ ef = [c \in CPUs |-> FALSE]
        /\ hold = [c \in CPUs |-> {}] /\ cli = [c \in CPUs |-> 0]
        /\ saved = [c \in CPUs |-> NoFrame] /\ panicked = FALSE

At(c, l) == ~panicked /\ pc[c] = l
Goto(c, l) == pc' = [pc EXCEPT ![c] = l]

\* lk->cpu is c only if c has put it there, so the two reads may be one.
holding(c, l) == locked[l] /\ owner[l] = c

-----------------------------------------------------------------------------
\* acquire and a bare pushcli begin by reading the flags ...
acquire(c, l) ==
  /\ At(c, "run") /\ \A m \in hold[c] : m < l
  /\ lk' = [lk EXCEPT ![c] = l] /\ ef' = [ef EXCEPT ![c] = iflag[c]] /\ Goto(c, "cli")
  /\ UNCHANGED <<locked, owner, cpu, hold, cli, saved, panicked>>

pushcli(c) ==
  /\ At(c, "run") /\ cli[c] < MaxCli
  /\ lk' = [lk EXCEPT ![c] = NoLock] /\ ef' = [ef EXCEPT ![c] = iflag[c]] /\ Goto(c, "cli")
  /\ UNCHANGED <<locked, owner, cpu, hold, cli, saved, panicked>>

\* ... and an interrupt may come before cli.
pushcli_cli(c) ==
  /\ At(c, "cli") /\ iflag' = [iflag EXCEPT ![c] = FALSE]
  /\ ncli' = [ncli EXCEPT ![c] = @ + 1] /\ intena' = [intena EXCEPT ![c] = IF ncli[c] = 0 THEN ef[c] ELSE @]
  /\ ef' = [ef EXCEPT ![c] = FALSE]
  /\ IF lk[c] = NoLock THEN Goto(c, "run") /\ cli' = [cli EXCEPT ![c] = @ + 1]
     ELSE Goto(c, "check") /\ UNCHANGED cli
  /\ UNCHANGED <<locked, owner, lk, hold, saved, panicked>>

acquire_check(c) ==
  /\ At(c, "check")
  /\ panicked' = holding(c, lk[c]) /\ Goto(c, "spin")
  /\ UNCHANGED <<locked, owner, cpu, lk, ef, hold, cli, saved>>

\* The xchg that ends the loop; one that finds the lock taken changes nothing.
acquire_xchg(c) ==
  /\ At(c, "spin") /\ ~locked[lk[c]]
  /\ locked' = [locked EXCEPT ![lk[c]] = TRUE] /\ Goto(c, "own")
  /\ UNCHANGED <<owner, cpu, lk, ef, hold, cli, saved, panicked>>

acquire_own(c) ==
  /\ At(c, "own")
  /\ owner' = [owner EXCEPT ![lk[c]] = c] /\ hold' = [hold EXCEPT ![c] = @ \cup {lk[c]}]
  /\ lk' = [lk EXCEPT ![c] = NoLock] /\ Goto(c, "run")
  /\ UNCHANGED <<locked, cpu, ef, cli, saved, panicked>>

-----------------------------------------------------------------------------
release(c, l) ==
  /\ At(c, "run") /\ l \in hold[c]
  /\ panicked' = ~holding(c, l)
  /\ lk' = [lk EXCEPT ![c] = l] /\ owner' = [owner EXCEPT ![l] = NoCpu] /\ Goto(c, "unlock")
  /\ UNCHANGED <<locked, cpu, ef, hold, cli, saved>>

release_xchg(c) ==
  /\ At(c, "unlock")
  /\ locked' = [locked EXCEPT ![lk[c]] = FALSE] /\ hold' = [hold EXCEPT ![c] = @ \ {lk[c]}]
  /\ lk' = [lk EXCEPT ![c] = NoLock] /\ Goto(c, "pop")
  /\ UNCHANGED <<owner, cpu, ef, cli, saved, panicked>>

popcli(c) ==
  /\ At(c, "run") /\ cli[c] > 0
  /\ cli' = [cli EXCEPT ![c] = @ - 1] /\ Goto(c, "pop")
  /\ UNCHANGED <<locked, owner, cpu, lk, ef, hold, saved, panicked>>

\* Mutation of popcli_sti: the count is not looked at.
popcli_sti_Early(c) ==
  /\ At(c, "pop")
  /\ panicked' = (iflag[c] \/ ncli[c] = 0)
  /\ ncli' = [ncli EXCEPT ![c] = IF @ = 0 THEN 0 ELSE @ - 1]
  /\ iflag' = [iflag EXCEPT ![c] = @ \/ intena[c]] /\ Goto(c, "run")
  /\ UNCHANGED <<locked, owner, intena, lk, ef, hold, cli, saved>>

popcli_sti(c) ==
  /\ At(c, "pop")
  /\ panicked' = (iflag[c] \/ ncli[c] = 0)
  /\ ncli' = [ncli EXCEPT ![c] = IF @ = 0 THEN 0 ELSE @ - 1]
  /\ iflag' = [iflag EXCEPT ![c] = @ \/ (ncli[c] = 1 /\ intena[c])] /\ Goto(c, "run")
  /\ UNCHANGED <<locked, owner, intena, lk, ef, hold, cli, saved>>

-----------------------------------------------------------------------------
\* The gate of an interrupt clears FL_IF, iret restores it. A handler gives
\* back what it has taken.
interrupt(c) ==
  /\ ~panicked /\ iflag[c] /\ saved[c] = NoFrame
  /\ saved' = [saved EXCEPT ![c] = [pc |-> pc[c], lk |-> lk[c], ef |-> ef[c], hold |-> hold[c], cli |-> cli[c]]]
  /\ iflag' = [iflag EXCEPT ![c] = FALSE] /\ Goto(c, "run")
  /\ hold' = [hold EXCEPT ![c] = {}] /\ cli' = [cli EXCEPT ![c] = 0]
  /\ lk' = [lk EXCEPT ![c] = NoLock] /\ ef' = [ef EXCEPT ![c] = FALSE]
  /\ UNCHANGED <<locked, owner, ncli, intena, panicked>>

iret(c) ==
  /\ At(c, "run") /\ saved[c] # NoFrame /\ hold[c] = {} /\ cli[c] = 0
  /\ saved' = [saved EXCEPT ![c] = NoFrame]
  /\ iflag' = [iflag EXCEPT ![c] = TRUE] /\ Goto(c, saved[c].pc)
  /\ lk' = [lk EXCEPT ![c] = saved[c].lk] /\ ef' = [ef EXCEPT ![c] = saved[c].ef]
  /\ hold' = [hold EXCEPT ![c] = saved[c].hold] /\ cli' = [cli EXCEPT ![c] = saved[c].cli]
  /\ UNCHANGED <<locked, owner, ncli, intena, panicked>>

Step(c) == \/ pushcli(c) \/ pushcli_cli(c) \/ acquire_check(c) \/ acquire_xchg(c) \/ acquire_own(c)
           \/ release_xchg(c) \/ popcli(c) \/ popcli_sti(c) \/ interrupt(c) \/ iret(c)
           \/ \E l \in Locks : acquire(c, l) \/ release(c, l)
Next == \E c \in CPUs : Step(c)
Spec == Init /\ [][Next]_vars

-----------------------------------------------------------------------------
\* CPU c is in a critical section of l, in the running code or in what it interrupted.
Inside(c, l) == l \in hold[c] \cup saved[c].hold

(***************************************************************************)
(* No two CPUs are in a critical section of one lock, and acquire, release *)
(* and popcli do not panic: a lock is never asked for by the CPU that has  *)
(* it already, not even by a handler, and the counts of pushcli and popcli *)
(* match.                                                                  *)
(***************************************************************************)
Exclusive == ~panicked /\ \A c, d \in CPUs, l \in Locks : Inside(c, l) /\ Inside(d, l) => c = d

(***************************************************************************)
(* Interrupts are off as long as a lock or a pushcli is held, however      *)
(* sections nest and in whatever order they end, and only so long: when    *)
(* the code has given back everything, the flag is what it was before (on  *)
(* in ordinary code, off in a handler).                                    *)
(***************************************************************************)
FlagRestored == \A c \in CPUs :
  /\ hold[c] # {} \/ cli[c] > 0 => ~iflag[c]
  /\ pc[c] = "run" /\ hold[c] = {} /\ cli[c] = 0 => (iflag[c] <=> saved[c] = NoFrame)

(***************************************************************************)
(* A critical section keeps out other CPUs and the handlers of its own,    *)
(* and leaves the interrupt flag as it was.                                *)
(***************************************************************************)
CriticalSection == Exclusive /\ FlagRestored
=============================================================================
