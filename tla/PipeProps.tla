----------------------------- MODULE PipeProps -----------------------------
(* What processes can rely on when they use a pipe.                         *)
EXTENDS Pipe, Sequences

\* The bytes in the ring, oldest first.
Count == (nwrite + WRAP - nread) % WRAP
Ring(d, r, c) == [k \in 1..c |-> d[(r + k - 1) % PIPESIZE]]
qBar == Ring(data, nread, Count)

(***************************************************************************)
(* The ring and the two wrapping counters implement a queue of PIPESIZE    *)
(* bytes: bytes come out in the order in which they went in, none is lost, *)
(* repeated or made up, and both ends close once.                          *)
(***************************************************************************)
Queue == INSTANCE Fifo WITH
  Capacity <- PIPESIZE, q <- qBar, ropen <- readopen, wopen <- writeopen
ImplementsFifo == Queue!Spec

(***************************************************************************)
(* read() returns fewer bytes than are asked for only when the pipe is     *)
(* empty, and none of at least one only when it can never be filled again: *)
(* that is how programs see the end of a file.                             *)
(***************************************************************************)
ShortRead == [][\A p \in Procs : pc[p] = "read" /\ pc'[p] = "user" =>
                  /\ i[p] < n[p] => Empty
                  /\ i[p] = 0 /\ n[p] > 0 => ~writeopen /\ \A q \in Procs : "w" \notin ends[q]]_vars

(***************************************************************************)
(* Fairness: processes execute the code of the pipe, those that wait for   *)
(* the lock get it, and a process that has nothing more to do closes its   *)
(* ends, as exit() does.                                                   *)
(***************************************************************************)
Fairness == \A p \in Procs : /\ WF_vars(WriteStep(p)) /\ WF_vars(ReadStep(p))
                             /\ SF_vars(Wake(p)) /\ SF_vars(CloseStep(p))
                             /\ SF_vars(Close(p, "r")) /\ SF_vars(Close(p, "w"))
FairSpec == Spec /\ Fairness

(***************************************************************************)
(* Every read and write returns and the pipe is freed: nobody waits for a  *)
(* byte, for room or for the other end for ever.                           *)
(***************************************************************************)
CallsReturn == /\ \A p \in Procs : pc[p] # "user" ~> pc[p] = "user"
               /\ <>freed
=============================================================================
