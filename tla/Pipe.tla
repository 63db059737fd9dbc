-------------------------------- MODULE Pipe --------------------------------
(***************************************************************************)
(* A pipe (pipe.c) used by processes that have its ends open. The counters *)
(* are unsigned and wrap at WRAP (2^32), the ring has PIPESIZE bytes. The  *)
(* pipe's spinlock is the variable lock; sleep releases it and sleeps in   *)
(* one step, as module Proc establishes.                                   *)
(***************************************************************************)
EXTENDS Naturals, FiniteSets

CONSTANTS Procs, NoProc,
          Ends,        \* Ends[p]: the ends {"r", "w"} that p has open at the start
          Vals,        \* bytes
          PIPESIZE, WRAP,
          MaxN,        \* bound: the largest n of a read or write
          Killable     \* the processes that kill() may mark

ASSUME PipeAssumption ==
  /\ NoProc \notin Procs /\ Ends \in [Procs -> SUBSET {"r", "w"}]
  /\ PIPESIZE \in Nat \ {0} /\ WRAP \in Nat /\ PIPESIZE < WRAP /\ WRAP % PIPESIZE = 0
  /\ MaxN \in Nat /\ Killable \subseteq Procs

VARIABLES lock, nread, nwrite, data, readopen, writeopen,   \* struct pipe
          freed,         \* the page of the pipe has been given to kfree
          ends, killed,  \* each process: the descriptors it has, proc->killed
          pc, i, n       \* its point in the code and the variables of the call

pipe == <<nread, nwrite, data, readopen, writeopen, freed>>
vars == <<lock, pipe, ends, killed, pc, i, n>>

Points == {"user", "write", "wsleep", "wwake", "rwait", "rsleep", "rwake", "read", "close_r", "close_w"}
Empty == nread = nwrite
Full == nwrite = (nread + PIPESIZE) % WRAP

\* pipealloc; ends are shared by fork.
Init ==
  /\ lock = NoProc /\ readopen = TRUE /\ writeopen = TRUE /\ freed = FALSE
  /\ nread = 0 /\ nwrite = 0 /\ data \in [0..(PIPESIZE - 1) -> Vals]
  /\ ends = Ends /\ killed = [p \in Procs |-> FALSE]
  /\ pc = [p \in Procs |-> "user"]
  /\ i = [p \in Procs |-> 0] /\ n = [p \in Procs |-> 0]

Goto(p, l) == pc' = [pc EXCEPT ![p] = l]

\* p goes to l and everyone asleep at from (a channel) becomes runnable.
GotoWaking(p, l, from, to) ==
  pc' = [q \in Procs |-> IF q = p THEN l ELSE IF pc[q] = from THEN to ELSE pc[q]]

Acquire(p) == lock = NoProc /\ lock' = p
Release(p) == lock' = NoProc
Forget(p) == i' = [i EXCEPT ![p] = 0] /\ n' = [n EXCEPT ![p] = 0]
Holds(p, l) == pc[p] = l /\ lock = p

-----------------------------------------------------------------------------
WriteStart(p) ==
  /\ pc[p] = "user" /\ "w" \in ends[p] /\ Acquire(p)
  /\ i' = [i EXCEPT ![p] = 0]
  /\ \E k \in 0..MaxN : n' = [n EXCEPT ![p] = k]
  /\ Goto(p, "write")
  /\ UNCHANGED <<pipe, ends, killed>>

WriteByte(p) ==
  /\ Holds(p, "write") /\ i[p] < n[p] /\ ~Full
  /\ \E v \in Vals : data' = [data EXCEPT ![nwrite % PIPESIZE] = v]
  /\ nwrite' = (nwrite + 1) % WRAP
  /\ i' = [i EXCEPT ![p] = @ + 1]
  /\ UNCHANGED <<lock, nread, readopen, writeopen, freed, ends, killed, pc, n>>

WriteFails(p) ==
  /\ Holds(p, "write") /\ i[p] < n[p] /\ Full
  /\ ~readopen \/ killed[p]
  /\ Release(p) /\ Forget(p) /\ Goto(p, "user")
  /\ UNCHANGED <<pipe, ends, killed>>

WriteSleep(p) ==
  /\ Holds(p, "write") /\ i[p] < n[p] /\ Full
  /\ readopen /\ ~killed[p]
  /\ Release(p) /\ GotoWaking(p, "wsleep", "rsleep", "rwake")
  /\ UNCHANGED <<pipe, ends, killed, i, n>>

WriteDone(p) ==
  /\ Holds(p, "write") /\ i[p] = n[p]
  /\ Release(p) /\ Forget(p) /\ GotoWaking(p, "user", "rsleep", "rwake")
  /\ UNCHANGED <<pipe, ends, killed>>

ReadStart(p) ==
  /\ pc[p] = "user" /\ "r" \in ends[p] /\ Acquire(p)
  /\ i' = [i EXCEPT ![p] = 0]
  /\ \E k \in 0..MaxN : n' = [n EXCEPT ![p] = k]
  /\ Goto(p, "rwait")
  /\ UNCHANGED <<pipe, ends, killed>>

ReadSleep(p) ==
  /\ Holds(p, "rwait") /\ Empty /\ writeopen /\ ~killed[p]
  /\ Release(p) /\ Goto(p, "rsleep")
  /\ UNCHANGED <<pipe, ends, killed, i, n>>

ReadFails(p) ==
  /\ Holds(p, "rwait") /\ Empty /\ writeopen /\ killed[p]
  /\ Release(p) /\ Forget(p) /\ Goto(p, "user")
  /\ UNCHANGED <<pipe, ends, killed>>

\* Mutation of ReadReady: an empty pipe is not waited for.
ReadReady_NoWait(p) ==
  /\ Holds(p, "rwait")
  /\ Goto(p, "read")
  /\ UNCHANGED <<lock, pipe, ends, killed, i, n>>

ReadReady(p) ==
  /\ Holds(p, "rwait") /\ ~(Empty /\ writeopen)
  /\ Goto(p, "read")
  /\ UNCHANGED <<lock, pipe, ends, killed, i, n>>

\* Mutation of ReadByte: an empty pipe is read, too.
ReadByte_Empty(p) ==
  /\ Holds(p, "read") /\ i[p] < n[p]
  /\ nread' = (nread + 1) % WRAP
  /\ i' = [i EXCEPT ![p] = @ + 1]
  /\ UNCHANGED <<lock, nwrite, data, readopen, writeopen, freed, ends, killed, pc, n>>

ReadByte(p) ==
  /\ Holds(p, "read") /\ i[p] < n[p] /\ ~Empty
  /\ nread' = (nread + 1) % WRAP
  /\ i' = [i EXCEPT ![p] = @ + 1]
  /\ UNCHANGED <<lock, nwrite, data, readopen, writeopen, freed, ends, killed, pc, n>>

\* Mutation of ReadDone: the writers are not woken.
ReadDone_NoWakeup(p) ==
  /\ Holds(p, "read")
  /\ i[p] = n[p] \/ Empty
  /\ Release(p) /\ Forget(p) /\ Goto(p, "user")
  /\ UNCHANGED <<pipe, ends, killed>>

ReadDone(p) ==
  /\ Holds(p, "read")
  /\ i[p] = n[p] \/ Empty
  /\ Release(p) /\ Forget(p) /\ GotoWaking(p, "user", "wsleep", "wwake")
  /\ UNCHANGED <<pipe, ends, killed>>

\* A process that was woken takes the lock and tests its condition again.
Wake(p) ==
  /\ pc[p] \in {"wwake", "rwake"} /\ Acquire(p)
  /\ Goto(p, IF pc[p] = "wwake" THEN "write" ELSE "rwait")
  /\ UNCHANGED <<pipe, ends, killed, i, n>>

\* fileclose: the last descriptor of an end goes on to pipeclose.
Close(p, e) ==
  /\ pc[p] = "user" /\ e \in ends[p]
  /\ ends' = [ends EXCEPT ![p] = @ \ {e}]
  /\ Goto(p, IF \E q \in Procs \ {p} : e \in ends[q] THEN "user"
             ELSE IF e = "r" THEN "close_r" ELSE "close_w")
  /\ UNCHANGED <<lock, pipe, killed, i, n>>

FreeIf(r, w) == ~r /\ ~w

\* Mutation of PipecloseWrite: the readers are not told of the end of the file.
PipecloseWrite_NoWakeup(p) ==
  /\ pc[p] = "close_w" /\ lock = NoProc
  /\ writeopen' = FALSE /\ freed' = FreeIf(readopen, FALSE)
  /\ Goto(p, "user")
  /\ UNCHANGED <<lock, nread, nwrite, data, readopen, ends, killed, i, n>>

PipecloseWrite(p) ==
  /\ pc[p] = "close_w" /\ lock = NoProc
  /\ writeopen' = FALSE /\ freed' = FreeIf(readopen, FALSE)
  /\ GotoWaking(p, "user", "rsleep", "rwake")
  /\ UNCHANGED <<lock, nread, nwrite, data, readopen, ends, killed, i, n>>

PipecloseRead(p) ==
  /\ pc[p] = "close_r" /\ lock = NoProc
  /\ readopen' = FALSE /\ freed' = FreeIf(FALSE, writeopen)
  /\ GotoWaking(p, "user", "wsleep", "wwake")
  /\ UNCHANGED <<lock, nread, nwrite, data, writeopen, ends, killed, i, n>>

kill(p) ==
  /\ p \in Killable /\ ~killed[p]
  /\ killed' = [killed EXCEPT ![p] = TRUE]
  /\ Goto(p, CASE pc[p] = "wsleep" -> "wwake" [] pc[p] = "rsleep" -> "rwake" [] OTHER -> pc[p])
  /\ UNCHANGED <<lock, pipe, ends, i, n>>

-----------------------------------------------------------------------------
WriteStep(p) == WriteByte(p) \/ WriteFails(p) \/ WriteSleep(p) \/ WriteDone(p)
ReadStep(p) == ReadSleep(p) \/ ReadFails(p) \/ ReadReady(p) \/ ReadByte(p) \/ ReadDone(p)
CloseStep(p) == PipecloseWrite(p) \/ PipecloseRead(p)

Next == \E p \in Procs :
  \/ WriteStart(p) \/ WriteStep(p) \/ ReadStart(p) \/ ReadStep(p) \/ Wake(p)
  \/ Close(p, "r") \/ Close(p, "w") \/ CloseStep(p)
  \/ kill(p)

Spec == Init /\ [][Next]_vars

TypeOK ==
  /\ lock \in Procs \cup {NoProc}
  /\ nread \in 0..(WRAP - 1) /\ nwrite \in 0..(WRAP - 1)
  /\ data \in [0..(PIPESIZE - 1) -> Vals]
  /\ readopen \in BOOLEAN /\ writeopen \in BOOLEAN /\ freed \in BOOLEAN
  /\ ends \in [Procs -> SUBSET {"r", "w"}] /\ killed \in [Procs -> BOOLEAN]
  /\ pc \in [Procs -> Points] /\ i \in [Procs -> Nat] /\ n \in [Procs -> Nat]

-----------------------------------------------------------------------------
(***************************************************************************)
(* A writer sleeps only while the pipe is full and can be read, or while a *)
(* reader that will wake it is at work: no wakeup of piperead, pipeclose   *)
(* or kill is lost.                                                        *)
(***************************************************************************)
WriterNotStuck == \A p \in Procs : pc[p] = "wsleep" =>
  /\ readopen /\ ~killed[p]
  /\ Full \/ \E q \in Procs : Holds(q, "read")

(***************************************************************************)
(* A reader sleeps only while the pipe is empty and can be written, or     *)
(* while a writer that will wake it is at work.                            *)
(***************************************************************************)
ReaderNotStuck == \A p \in Procs : pc[p] = "rsleep" =>
  /\ writeopen /\ ~killed[p]
  /\ Empty \/ \E q \in Procs : Holds(q, "write")

(***************************************************************************)
(* The same, except when a process of the pipe has been killed.            *)
(***************************************************************************)
ReaderNotStuckUnlessKilled == (\A q \in Procs : ~killed[q]) => ReaderNotStuck

(***************************************************************************)
(* The page of the pipe is freed when nobody can reach it any more: no     *)
(* process has an end open, is inside the pipe's code, or is about to      *)
(* close an end.                                                           *)
(***************************************************************************)
FreedUnused == freed => \A p \in Procs : ends[p] = {} /\ pc[p] = "user"

(***************************************************************************)
(* However calls, closes and kills interleave, nobody sleeps in pipewrite  *)
(* or piperead without a reason, and nobody uses a pipe that is gone.      *)
(***************************************************************************)
PipeSound == WriterNotStuck /\ ReaderNotStuckUnlessKilled /\ FreedUnused
=============================================================================
