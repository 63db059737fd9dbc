---------------------------- MODULE PipeProofs ----------------------------
(***************************************************************************)
(* The wakeups of the pipe, the life of its page, the queue that the ring  *)
(* implements and the end of file, for any number of processes, any        *)
(* PIPESIZE and any counter width that is a multiple of it.                *)
(***************************************************************************)
EXTENDS PipeProps, Integers, TLAPS

(* The spinlock is held exactly inside the three loops of the code.         *)
LockInv == \A p \in Procs : pc[p] \in {"write", "rwait", "read"} <=> lock = p

(* A process inside the code has the end it uses open; an end is open while *)
(* somebody has it or is about to close it, and only the last one closes.   *)
EndsInv == \A p \in Procs :
  /\ pc[p] \in {"write", "wsleep", "wwake"} => "w" \in ends[p]
  /\ pc[p] \in {"rwait", "rsleep", "rwake", "read"} => "r" \in ends[p]
  /\ "r" \in ends[p] \/ pc[p] = "close_r" => readopen
  /\ "w" \in ends[p] \/ pc[p] = "close_w" => writeopen
  /\ pc[p] = "close_r" => \A q \in Procs : "r" \notin ends[q] /\ (q # p => pc[q] # "close_r")
  /\ pc[p] = "close_w" => \A q \in Procs : "w" \notin ends[q] /\ (q # p => pc[q] # "close_w")

FreedInv == freed => ~readopen /\ ~writeopen

IInv == /\ TypeOK /\ LockInv /\ EndsInv /\ FreedInv
        /\ WriterNotStuck /\ ReaderNotStuckUnlessKilled

(* The pipe starts unlocked, empty and with both ends open (pipealloc).     *)
LEMMA InitInv == Init => IInv
<1> SUFFICES ASSUME Init PROVE IInv
  OBVIOUS
<1> USE PipeAssumption DEF Init
<1>1. TypeOK
  <2>1. 0 \in 0..(WRAP - 1)
    OBVIOUS
  <2>2. killed \in [Procs -> BOOLEAN] /\ readopen \in BOOLEAN /\ writeopen \in BOOLEAN /\ freed \in BOOLEAN
    BY Zenon
  <2> QED
    BY <2>1, <2>2, Zenon DEF TypeOK, Points
<1>2. LockInv /\ EndsInv /\ FreedInv
  BY Zenon DEF LockInv, EndsInv, FreedInv
<1>3. WriterNotStuck /\ ReaderNotStuckUnlessKilled
  BY Zenon DEF WriterNotStuck, ReaderNotStuckUnlessKilled, ReaderNotStuck
<1> QED
  BY <1>1, <1>2, <1>3, Zenon DEF IInv

(* pipewrite takes the lock. *)
LEMMA WriteStartInv == ASSUME IInv, NEW p \in Procs, WriteStart(p) PROVE IInv'
<1> USE PipeAssumption DEF IInv, WriteStart, pipe, Goto, Acquire
<1>1. TypeOK'
  BY DEF TypeOK, Points
<1>2. LockInv' /\ EndsInv' /\ FreedInv'
  BY DEF TypeOK, LockInv, EndsInv, FreedInv
<1>3. WriterNotStuck'
  BY DEF TypeOK, WriterNotStuck, EndsInv, LockInv, Full, Holds
<1>4. ReaderNotStuckUnlessKilled'
  BY DEF TypeOK, ReaderNotStuckUnlessKilled, ReaderNotStuck, EndsInv, LockInv, Empty, Holds
<1> QED
  BY <1>1, <1>2, <1>3, <1>4, Zenon DEF IInv

(* pipewrite stores a byte; a pipe that has room has no sleeping writer. *)
LEMMA WriteByteInv == ASSUME IInv, NEW p \in Procs, WriteByte(p) PROVE IInv'
<1> USE PipeAssumption DEF IInv, WriteByte, Holds
<1>1. TypeOK'
  BY DEF TypeOK, Points
<1>2. LockInv' /\ EndsInv' /\ FreedInv'
  BY Zenon DEF TypeOK, LockInv, EndsInv, FreedInv
<1>3. WriterNotStuck'
  BY Zenon DEF TypeOK, WriterNotStuck, EndsInv, LockInv, Full
<1>4. ReaderNotStuckUnlessKilled'
  BY Zenon DEF TypeOK, ReaderNotStuckUnlessKilled, ReaderNotStuck, EndsInv, LockInv, Empty
<1> QED
  BY <1>1, <1>2, <1>3, <1>4, Zenon DEF IInv

(* pipewrite gives up on a full pipe without waking readers: no reader sleeps
   when the read end is closed, and the other cause is a kill. *)
LEMMA WriteFailsInv == ASSUME IInv, NEW p \in Procs, WriteFails(p) PROVE IInv'
<1> USE PipeAssumption DEF IInv, WriteFails, pipe, Goto, Release, Forget, Holds
<1>1. TypeOK'
  BY Zenon DEF TypeOK, Points
<1>2. LockInv' /\ EndsInv' /\ FreedInv'
  BY DEF TypeOK, LockInv, EndsInv, FreedInv
<1>3. WriterNotStuck'
  BY Zenon DEF TypeOK, WriterNotStuck, EndsInv, LockInv, Full
<1>4. ReaderNotStuckUnlessKilled'
  BY Zenon DEF TypeOK, ReaderNotStuckUnlessKilled, ReaderNotStuck, EndsInv, LockInv, Empty
<1> QED
  BY <1>1, <1>2, <1>3, <1>4, Zenon DEF IInv

(* pipewrite wakes the readers and sleeps on a full pipe. *)
LEMMA WriteSleepInv == ASSUME IInv, NEW p \in Procs, WriteSleep(p) PROVE IInv'
<1> USE PipeAssumption DEF IInv, WriteSleep, pipe, GotoWaking, Release, Holds
<1>1. TypeOK'
  BY Zenon DEF TypeOK, Points
<1>2. LockInv' /\ EndsInv' /\ FreedInv'
  BY Zenon DEF TypeOK, LockInv, EndsInv, FreedInv
<1>3. WriterNotStuck'
  BY Zenon DEF TypeOK, WriterNotStuck, EndsInv, LockInv, Full
<1>4. ReaderNotStuckUnlessKilled'
  BY Zenon DEF TypeOK, ReaderNotStuckUnlessKilled, ReaderNotStuck, EndsInv, LockInv, Empty
<1> QED
  BY <1>1, <1>2, <1>3, <1>4, Zenon DEF IInv

(* pipewrite wakes the readers and returns. *)
LEMMA WriteDoneInv == ASSUME IInv, NEW p \in Procs, WriteDone(p) PROVE IInv'
<1> USE PipeAssumption DEF IInv, WriteDone, pipe, GotoWaking, Release, Forget, Holds
<1>1. TypeOK'
  BY Zenon DEF TypeOK, Points
<1>2. LockInv' /\ EndsInv' /\ FreedInv'
  BY DEF TypeOK, LockInv, EndsInv, FreedInv
<1>3. WriterNotStuck'
  BY Zenon DEF TypeOK, WriterNotStuck, EndsInv, LockInv, Full
<1>4. ReaderNotStuckUnlessKilled'
  BY Zenon DEF TypeOK, ReaderNotStuckUnlessKilled, ReaderNotStuck, EndsInv, LockInv, Empty
<1> QED
  BY <1>1, <1>2, <1>3, <1>4, Zenon DEF IInv

(* piperead takes the lock. *)
LEMMA ReadStartInv == ASSUME IInv, NEW p \in Procs, ReadStart(p) PROVE IInv'
<1> USE PipeAssumption DEF IInv, ReadStart, pipe, Goto, Acquire
<1>1. TypeOK'
  BY DEF TypeOK, Points
<1>2. LockInv' /\ EndsInv' /\ FreedInv'
  BY DEF TypeOK, LockInv, EndsInv, FreedInv
<1>3. WriterNotStuck'
  BY DEF TypeOK, WriterNotStuck, EndsInv, LockInv, Full, Holds
<1>4. ReaderNotStuckUnlessKilled'
  BY DEF TypeOK, ReaderNotStuckUnlessKilled, ReaderNotStuck, EndsInv, LockInv, Empty, Holds
<1> QED
  BY <1>1, <1>2, <1>3, <1>4, Zenon DEF IInv

(* piperead sleeps on an empty pipe. *)
LEMMA ReadSleepInv == ASSUME IInv, NEW p \in Procs, ReadSleep(p) PROVE IInv'
<1> USE PipeAssumption DEF IInv, ReadSleep, pipe, Goto, Release, Holds
<1>1. TypeOK'
  BY Zenon DEF TypeOK, Points
<1>2. LockInv' /\ EndsInv' /\ FreedInv'
  BY DEF TypeOK, LockInv, EndsInv, FreedInv
<1>3. WriterNotStuck'
  BY Zenon DEF TypeOK, WriterNotStuck, EndsInv, LockInv, Full
<1>4. ReaderNotStuckUnlessKilled'
  BY Zenon DEF TypeOK, ReaderNotStuckUnlessKilled, ReaderNotStuck, EndsInv, LockInv, Empty
<1> QED
  BY <1>1, <1>2, <1>3, <1>4, Zenon DEF IInv

(* piperead of a killed process gives up. *)
LEMMA ReadFailsInv == ASSUME IInv, NEW p \in Procs, ReadFails(p) PROVE IInv'
<1> USE PipeAssumption DEF IInv, ReadFails, pipe, Goto, Release, Forget, Holds
<1>1. TypeOK'
  BY Zenon DEF TypeOK, Points
<1>2. LockInv' /\ EndsInv' /\ FreedInv'
  BY DEF TypeOK, LockInv, EndsInv, FreedInv
<1>3. WriterNotStuck'
  BY Zenon DEF TypeOK, WriterNotStuck, EndsInv, LockInv, Full
<1>4. ReaderNotStuckUnlessKilled'
  BY Zenon DEF TypeOK, ReaderNotStuckUnlessKilled, ReaderNotStuck, EndsInv, LockInv, Empty
<1> QED
  BY <1>1, <1>2, <1>3, <1>4, Zenon DEF IInv

(* piperead finds bytes, or no writer. *)
LEMMA ReadReadyInv == ASSUME IInv, NEW p \in Procs, ReadReady(p) PROVE IInv'
<1> USE PipeAssumption DEF IInv, ReadReady, pipe, Goto, Holds
<1>1. TypeOK'
  BY Zenon DEF TypeOK, Points
<1>2. LockInv' /\ EndsInv' /\ FreedInv'
  BY DEF TypeOK, LockInv, EndsInv, FreedInv
<1>3. WriterNotStuck'
  BY Zenon DEF TypeOK, WriterNotStuck, EndsInv, LockInv, Full
<1>4. ReaderNotStuckUnlessKilled'
  BY Zenon DEF TypeOK, ReaderNotStuckUnlessKilled, ReaderNotStuck, EndsInv, LockInv, Empty
<1> QED
  BY <1>1, <1>2, <1>3, <1>4, Zenon DEF IInv

(* piperead takes a byte; a pipe that has one has no sleeping reader. *)
LEMMA ReadByteInv == ASSUME IInv, NEW p \in Procs, ReadByte(p) PROVE IInv'
<1> USE PipeAssumption DEF IInv, ReadByte, Holds
<1>1. TypeOK'
  BY DEF TypeOK, Points
<1>2. LockInv' /\ EndsInv' /\ FreedInv'
  BY Zenon DEF TypeOK, LockInv, EndsInv, FreedInv
<1>3. WriterNotStuck'
  BY Zenon DEF TypeOK, WriterNotStuck, EndsInv, LockInv, Full
<1>4. ReaderNotStuckUnlessKilled'
  BY Zenon DEF TypeOK, ReaderNotStuckUnlessKilled, ReaderNotStuck, EndsInv, LockInv, Empty
<1> QED
  BY <1>1, <1>2, <1>3, <1>4, Zenon DEF IInv

(* piperead wakes the writers and returns. *)
LEMMA ReadDoneInv == ASSUME IInv, NEW p \in Procs, ReadDone(p) PROVE IInv'
<1> USE PipeAssumption DEF IInv, ReadDone, pipe, GotoWaking, Release, Forget, Holds
<1>1. TypeOK'
  BY Zenon DEF TypeOK, Points
<1>2. LockInv' /\ EndsInv' /\ FreedInv'
  BY DEF TypeOK, LockInv, EndsInv, FreedInv
<1>3. WriterNotStuck'
  BY Zenon DEF TypeOK, WriterNotStuck, EndsInv, LockInv, Full
<1>4. ReaderNotStuckUnlessKilled'
  BY Zenon DEF TypeOK, ReaderNotStuckUnlessKilled, ReaderNotStuck, EndsInv, LockInv, Empty
<1> QED
  BY <1>1, <1>2, <1>3, <1>4, Zenon DEF IInv

(* sleep returns with the lock. *)
LEMMA WakeInv == ASSUME IInv, NEW p \in Procs, Wake(p) PROVE IInv'
<1> USE PipeAssumption DEF IInv, Wake, pipe, Goto, Acquire
<1>1. TypeOK'
  BY Zenon DEF TypeOK, Points
<1>2. LockInv' /\ EndsInv' /\ FreedInv'
  BY DEF TypeOK, LockInv, EndsInv, FreedInv
<1>3. WriterNotStuck'
  BY DEF TypeOK, WriterNotStuck, EndsInv, LockInv, Full, Holds
<1>4. ReaderNotStuckUnlessKilled'
  BY DEF TypeOK, ReaderNotStuckUnlessKilled, ReaderNotStuck, EndsInv, LockInv, Empty, Holds
<1> QED
  BY <1>1, <1>2, <1>3, <1>4, Zenon DEF IInv

(* fileclose of a read descriptor. *)
LEMMA CloseRInv == ASSUME IInv, NEW p \in Procs, Close(p, "r") PROVE IInv'
<1> USE PipeAssumption DEF IInv, Close, pipe, Goto
<1>1. TypeOK'
  BY Zenon DEF TypeOK, Points
<1>2. LockInv' /\ EndsInv' /\ FreedInv'
  BY DEF TypeOK, LockInv, EndsInv, FreedInv
<1>3. WriterNotStuck'
  BY Zenon DEF TypeOK, WriterNotStuck, EndsInv, LockInv, Full, Holds
<1>4. ReaderNotStuckUnlessKilled'
  BY DEF TypeOK, ReaderNotStuckUnlessKilled, ReaderNotStuck, EndsInv, LockInv, Empty, Holds
<1> QED
  BY <1>1, <1>2, <1>3, <1>4, Zenon DEF IInv

(* fileclose of a write descriptor. *)
LEMMA CloseWInv == ASSUME IInv, NEW p \in Procs, Close(p, "w") PROVE IInv'
<1> USE PipeAssumption DEF IInv, Close, pipe, Goto
<1>1. TypeOK'
  BY Zenon DEF TypeOK, Points
<1>2. LockInv' /\ EndsInv' /\ FreedInv'
  BY DEF TypeOK, LockInv, EndsInv, FreedInv
<1>3. WriterNotStuck'
  BY Zenon DEF TypeOK, WriterNotStuck, EndsInv, LockInv, Full, Holds
<1>4. ReaderNotStuckUnlessKilled'
  BY DEF TypeOK, ReaderNotStuckUnlessKilled, ReaderNotStuck, EndsInv, LockInv, Empty, Holds
<1> QED
  BY <1>1, <1>2, <1>3, <1>4, Zenon DEF IInv

(* pipeclose of the write end wakes the readers. *)
LEMMA PipecloseWriteInv == ASSUME IInv, NEW p \in Procs, PipecloseWrite(p) PROVE IInv'
<1> USE PipeAssumption DEF IInv, PipecloseWrite, GotoWaking, FreeIf
<1>1. TypeOK'
  BY Zenon DEF TypeOK, Points
<1>2. LockInv' /\ EndsInv' /\ FreedInv'
  BY DEF TypeOK, LockInv, EndsInv, FreedInv
<1>3. WriterNotStuck'
  BY Zenon DEF TypeOK, WriterNotStuck, EndsInv, LockInv, Full, Holds
<1>4. ReaderNotStuckUnlessKilled'
  BY Zenon DEF TypeOK, ReaderNotStuckUnlessKilled, ReaderNotStuck, EndsInv, LockInv, Empty, Holds
<1> QED
  BY <1>1, <1>2, <1>3, <1>4, Zenon DEF IInv

(* pipeclose of the read end wakes the writers. *)
LEMMA PipecloseReadInv == ASSUME IInv, NEW p \in Procs, PipecloseRead(p) PROVE IInv'
<1> USE PipeAssumption DEF IInv, PipecloseRead, GotoWaking, FreeIf
<1>1. TypeOK'
  BY Zenon DEF TypeOK, Points
<1>2. LockInv' /\ EndsInv' /\ FreedInv'
  BY Zenon DEF TypeOK, LockInv, EndsInv, FreedInv
<1>3. WriterNotStuck'
  BY Zenon DEF TypeOK, WriterNotStuck, EndsInv, LockInv, Full, Holds
<1>4. ReaderNotStuckUnlessKilled'
  BY Zenon DEF TypeOK, ReaderNotStuckUnlessKilled, ReaderNotStuck, EndsInv, LockInv, Empty, Holds
<1> QED
  BY <1>1, <1>2, <1>3, <1>4, Zenon DEF IInv

(* kill wakes a sleeping process. *)
LEMMA KillInv == ASSUME IInv, NEW p \in Procs, kill(p) PROVE IInv'
<1> USE PipeAssumption DEF IInv, kill, pipe, Goto
<1>1. TypeOK'
  BY Zenon DEF TypeOK, Points
<1>2. LockInv' /\ EndsInv' /\ FreedInv'
  <2>1. LockInv' /\ FreedInv'
    BY Zenon DEF TypeOK, LockInv, FreedInv
  <2>2. EndsInv'
    <3>1. pc \in [Procs -> Points]
      BY Zenon DEF TypeOK
    <3>2. UNCHANGED <<readopen, writeopen, ends>>
      BY Zenon
    <3>3. \A q \in Procs : \/ pc'[q] = pc[q]
                           \/ pc[q] = "wsleep" /\ pc'[q] = "wwake"
                           \/ pc[q] = "rsleep" /\ pc'[q] = "rwake"
      BY <3>1
    <3> HIDE DEF kill
    <3> QED BY <3>2, <3>3 DEF EndsInv
  <2> QED BY <2>1, <2>2, Zenon
<1>3. WriterNotStuck'
  BY Zenon DEF TypeOK, WriterNotStuck, EndsInv, LockInv, Full, Holds
<1>4. ReaderNotStuckUnlessKilled'
  BY Zenon DEF TypeOK, ReaderNotStuckUnlessKilled, ReaderNotStuck, EndsInv, LockInv, Empty, Holds
<1> QED
  BY <1>1, <1>2, <1>3, <1>4, Zenon DEF IInv

(* Every step of every process preserves the inductive invariant.           *)
LEMMA NextInv == IInv /\ [Next]_vars => IInv'
<1> SUFFICES ASSUME IInv, [Next]_vars PROVE IInv'
  OBVIOUS
<1>1. CASE UNCHANGED vars
  BY <1>1 DEF IInv, vars, pipe, TypeOK, LockInv, EndsInv, FreedInv, WriterNotStuck,
              ReaderNotStuckUnlessKilled, ReaderNotStuck, Full, Empty, Holds
<1>2. CASE Next
  BY <1>2, WriteStartInv, WriteByteInv, WriteFailsInv, WriteSleepInv, WriteDoneInv, ReadStartInv,
     ReadSleepInv, ReadFailsInv, ReadReadyInv, ReadByteInv, ReadDoneInv, WakeInv, CloseRInv, CloseWInv,
     PipecloseWriteInv, PipecloseReadInv, KillInv, Zenon DEF Next, WriteStep, ReadStep, CloseStep
<1> QED
  BY <1>1, <1>2, Zenon

(***************************************************************************)
(* No process sleeps in pipewrite without a reason, and none in piperead   *)
(* unless a process of the pipe was killed: however many processes share   *)
(* the two ends, no wakeup is lost.                                        *)
(***************************************************************************)
THEOREM NoLostWakeup == Spec => [](WriterNotStuck /\ ReaderNotStuckUnlessKilled)
<1>1. IInv => WriterNotStuck /\ ReaderNotStuckUnlessKilled
  BY Zenon DEF IInv
<1> QED
  BY <1>1, InitInv, NextInv, PTL DEF Spec

(***************************************************************************)
(* pipeclose gives the page to kfree only when no process can reach it.    *)
(***************************************************************************)
THEOREM FreedIsUnused == Spec => []FreedUnused
<1>1. ASSUME IInv, freed, NEW p \in Procs PROVE ends[p] = {} /\ pc[p] = "user"
  <2>1. ~readopen /\ ~writeopen
    BY <1>1, Zenon DEF IInv, FreedInv
  <2>2. ends[p] \subseteq {"r", "w"} /\ pc[p] \in Points
    BY <1>1 DEF IInv, TypeOK
  <2>3. "r" \notin ends[p] /\ "w" \notin ends[p]
    BY <1>1, <2>1, Zenon DEF IInv, EndsInv
  <2>4. pc[p] \notin {"close_r", "close_w", "write", "wsleep", "wwake", "rwait", "rsleep", "rwake", "read"}
    BY <1>1, <2>1, <2>3 DEF IInv, EndsInv
  <2> QED BY <2>2, <2>3, <2>4 DEF Points
<1>2. IInv => FreedUnused
  BY <1>1 DEF FreedUnused
<1> QED
  BY <1>2, InitInv, NextInv, PTL DEF Spec

(***************************************************************************)
(* Both together, for any number of processes and any size of the ring.    *)
(***************************************************************************)
THEOREM PipeSoundness == Spec => []PipeSound
<1>1. WriterNotStuck /\ ReaderNotStuckUnlessKilled /\ FreedUnused => PipeSound
  BY Zenon DEF PipeSound
<1> QED
  BY <1>1, NoLostWakeup, FreedIsUnused, PTL

-----------------------------------------------------------------------------
(* The ring holds at most PIPESIZE bytes.                                   *)
RingInv == Count <= PIPESIZE

(* A reader that has no byte yet found some in the ring, or no writer.      *)
ReadInv == \A p \in Procs : pc[p] = "read" /\ i[p] = 0 => ~(Empty /\ writeopen)

(* Division with remainder, in the form that the solver uses: the slot of a *)
(* counter is counter % PIPESIZE.                                           *)
LEMMA Quotient ==
  ASSUME NEW P \in Nat \ {0}, NEW a \in Nat
  PROVE  (a % P) \in 0..(P - 1) /\ \E k \in Nat : a = P * k + (a % P)
  <1>1. (a % P) \in 0..(P - 1) /\ a \div P \in Nat /\ a = P * (a \div P) + (a % P)
    OBVIOUS
  <1> QED BY <1>1, Zenon

(* The remainder of a multiple of P plus something less than P.             *)
LEMMA Remainder ==
  ASSUME NEW P \in Nat \ {0}, NEW k \in Nat, NEW r \in 0..(P - 1)
  PROVE  (P * k + r) % P = r
  OBVIOUS

(* Two counters less than PIPESIZE apart use different slots of data.       *)
LEMMA Window ==
  ASSUME NEW P \in Nat \ {0}, NEW a \in Nat, NEW b \in Nat, a < b, b < a + P
  PROVE  a % P # b % P
  <1> SUFFICES ASSUME a % P = b % P PROVE FALSE
    OBVIOUS
  <1>1. PICK k \in Nat : a = P * k + (a % P)
    BY Quotient, Zenon
  <1>2. PICK m \in Nat : b = P * m + (b % P)
    BY Quotient, Zenon
  <1>3. (a % P) \in Nat
    BY Quotient
  <1>4. b - a = P * (m - k)
    BY <1>1, <1>2, <1>3
  <1> QED BY <1>4

(* PIPESIZE divides the range of the counters, so a counter that wraps      *)
(* around goes on with the slot that follows.                               *)
LEMMA Whole == 
  ASSUME NEW P \in Nat \ {0}, NEW a \in Nat, NEW W \in Nat, W % P = 0
  PROVE  (a + W) % P = a % P
  <1>1. PICK k \in Nat : a = P * k + (a % P)
    BY Quotient, Zenon
  <1>2. PICK m \in Nat : W = P * m + (W % P)
    BY Quotient, Zenon
  <1>3. a % P \in 0..(P - 1)
    BY Quotient, Zenon
  <1>4. a + W = P * (k + m) + (a % P)
    BY <1>1, <1>2, <1>3
  <1>5. k + m \in Nat
    OBVIOUS
  <1>6. (P * (k + m) + (a % P)) % P = a % P
    BY <1>3, <1>5, Remainder, Zenon
  <1> QED BY <1>4, <1>6, Zenon

(* Unsigned addition that wraps at most once.                               *)
LEMMA Wrap ==
  ASSUME NEW W \in Nat \ {0}, NEW a \in Nat, a < 2 * W
  PROVE  a % W = IF a < W THEN a ELSE a - W
  OBVIOUS

(* nwrite - nread in unsigned arithmetic.                                   *)
LEMMA Distance ==
  ASSUME NEW W \in Nat \ {0}, NEW r \in 0..(W - 1), NEW w \in 0..(W - 1)
  PROVE  (w + W - r) % W = IF w >= r THEN w - r ELSE w + W - r
  <1>1. w + W - r \in Nat /\ w + W - r < 2 * W
    OBVIOUS
  <1>2. (w + W - r) % W = IF w + W - r < W THEN w + W - r ELSE w + W - r - W
    BY <1>1
  <1> QED BY <1>2

(* The ring as a sequence: its length, and where its bytes are in data.     *)
LEMMA RingSeq ==
  ASSUME NEW d \in [0..(PIPESIZE - 1) -> Vals], NEW r \in Nat, NEW c \in Nat
  PROVE  /\ Ring(d, r, c) \in Seq(Vals) /\ Len(Ring(d, r, c)) = c
         /\ \A k \in 1..c : Ring(d, r, c)[k] = d[(r + k - 1) % PIPESIZE]
  <1>1. ASSUME NEW k \in 1..c PROVE d[(r + k - 1) % PIPESIZE] \in Vals
    <2>1. r + k - 1 \in Nat
      OBVIOUS
    <2>2. ((r + k - 1) % PIPESIZE) \in 0..(PIPESIZE - 1)
      BY <2>1, Quotient, PipeAssumption, Zenon
    <2> QED BY <2>2, Zenon
  <1> QED BY <1>1 DEF Ring

(* The counters of a pipe, and how many bytes are between them.             *)
LEMMA Counters ==
  ASSUME TypeOK
  PROVE  /\ WRAP \in Nat \ {0} /\ PIPESIZE \in Nat \ {0} /\ nread \in 0..(WRAP - 1) /\ nwrite \in 0..(WRAP - 1)
         /\ Count = IF nwrite >= nread THEN nwrite - nread ELSE nwrite + WRAP - nread
         /\ Count \in Nat /\ Count < WRAP
  <1>1. WRAP \in Nat \ {0} /\ PIPESIZE \in Nat \ {0} /\ nread \in 0..(WRAP - 1) /\ nwrite \in 0..(WRAP - 1)
    BY PipeAssumption DEF TypeOK
  <1>2. Count = IF nwrite >= nread THEN nwrite - nread ELSE nwrite + WRAP - nread
    BY <1>1, Distance, Zenon DEF Count
  <1> QED BY <1>1, <1>2

(* A byte that pipewrite stores goes to a slot that no unread byte uses,    *)
(* and becomes the last of the queue.                                       *)
LEMMA PutStep ==
  ASSUME IInv, RingInv, NEW p \in Procs, WriteByte(p), TypeOK'
  PROVE  Count' = Count + 1 /\ Count < PIPESIZE /\ Queue!Put
  <1> DEFINE W == WRAP
             P == PIPESIZE
  <1>0. /\ W \in Nat \ {0} /\ P \in Nat \ {0} /\ P < W /\ nread \in 0..(W - 1) /\ nwrite \in 0..(W - 1)
        /\ Count = IF nwrite >= nread THEN nwrite - nread ELSE nwrite + W - nread
        /\ Count \in Nat /\ Count < W
    BY Counters, PipeAssumption, Zenon DEF IInv
  <1>1. Count' = Count + 1 /\ Count < PIPESIZE
    <2>1. nread' = nread /\ nwrite' = IF nwrite + 1 < W THEN nwrite + 1 ELSE nwrite + 1 - W
      BY <1>0 DEF WriteByte
    <2>2. nwrite # IF nread + P < W THEN nread + P ELSE nread + P - W
      BY <1>0, Wrap DEF WriteByte, Full
    <2>3. Count <= P
      BY Zenon DEF RingInv
    <2>4. Count < P
      BY <1>0, <2>2, <2>3
    <2>5. nread' \in 0..(W - 1) /\ nwrite' \in 0..(W - 1)
      BY <1>0, <2>1
    <2>6. Count' = IF nwrite' >= nread' THEN nwrite' - nread' ELSE nwrite' + W - nread'
      BY <1>0, <2>5, Distance, Zenon DEF Count
    <2> QED BY <1>0, <2>1, <2>4, <2>6
  <1>2. nwrite % P = (nread + Count) % P
    <2>1. CASE nwrite >= nread
      BY <2>1, <1>0
    <2>2. CASE nwrite < nread
      <3>1. nread + Count = nwrite + W
        BY <2>2, <1>0
      <3>2. (nwrite + W) % P = nwrite % P
        <4>1. nwrite \in Nat /\ WRAP \in Nat /\ WRAP % PIPESIZE = 0
          BY <1>0, PipeAssumption
        <4> QED BY <1>0, <4>1, Whole, Zenon
      <3> QED BY <3>1, <3>2, Zenon
    <2> QED BY <2>1, <2>2, <1>0
  <1>3. PICK v \in Vals : data' = [data EXCEPT ![nwrite % P] = v]
    BY Zenon DEF WriteByte
  <1>4. /\ nread' = nread /\ nwrite % P \in 0..(P - 1)
        /\ data \in [0..(P - 1) -> Vals] /\ data' \in [0..(P - 1) -> Vals]
    <2>1. nwrite % P \in 0..(P - 1)
      BY <1>0, Quotient
    <2> QED BY <2>1, Zenon DEF IInv, TypeOK, WriteByte
  <1>5. ASSUME NEW k \in 1..Count PROVE data'[(nread' + k - 1) % P] = data[(nread + k - 1) % P]
    <2>1. /\ nread + k - 1 \in Nat /\ nread + Count \in Nat
          /\ nread + k - 1 < nread + Count /\ nread + Count < nread + k - 1 + P
      BY <1>0, <1>1
    <2>2. (nread + k - 1) % P # nwrite % P
      BY <1>0, <1>2, <2>1, Window, Zenon
    <2>3. (nread + k - 1) % P \in 0..(P - 1)
      BY <1>0, <2>1, Quotient, Zenon
    <2> QED BY <1>3, <1>4, <2>2, <2>3, Zenon
  <1>6. data'[(nread' + (Count + 1) - 1) % P] = v
    <2>1. nread' + (Count + 1) - 1 = nread + Count
      BY <1>0, <1>4
    <2> QED BY <1>2, <1>3, <1>4, <2>1, Zenon
  <1>7. qBar \in Seq(Vals) /\ Len(qBar) = Count /\ \A k \in 1..Count : qBar[k] = data[(nread + k - 1) % P]
    <2>1. qBar = Ring(data, nread, Count)
      BY Zenon DEF qBar
    <2>2. nread \in Nat /\ Count \in Nat
      BY <1>0
    <2> QED BY <2>1, <2>2, <1>4, RingSeq, Zenon
  <1>8. /\ qBar' \in Seq(Vals) /\ Len(qBar') = Count + 1
        /\ \A k \in 1..(Count + 1) : qBar'[k] = data'[(nread' + k - 1) % P]
    <2>1. qBar' = Ring(data', nread', Count')
      BY Zenon DEF qBar
    <2>2. nread' \in Nat /\ Count' \in Nat
      BY <1>0, <1>1, <1>4
    <2>3. qBar' \in Seq(Vals) /\ Len(qBar') = Count' /\ \A k \in 1..Count' : qBar'[k] = data'[(nread' + k - 1) % P]
      BY <2>1, <2>2, <1>4, RingSeq, Zenon
    <2> QED BY <2>3, <1>1, Zenon
  <1>9. qBar' = Append(qBar, v)
    <2>1. qBar'[Count + 1] = v /\ \A k \in 1..Count : qBar'[k] = qBar[k]
      <3>1. Count + 1 \in 1..(Count + 1) /\ \A k \in 1..Count : k \in 1..(Count + 1)
        BY <1>0
      <3> QED BY <1>5, <1>6, <1>7, <1>8, <3>1, Zenon
    <2> QED BY <1>7, <1>8, <2>1
  <1>10. writeopen /\ UNCHANGED <<readopen, writeopen>>
    BY Zenon DEF IInv, EndsInv, WriteByte, Holds
  <1> QED BY <1>1, <1>7, <1>9, <1>10, Zenon DEF Queue!Put

(* The byte that piperead takes is the first of the queue, and the others   *)
(* keep their order although the counter may wrap around.                   *)
LEMMA GetStep ==
  ASSUME IInv, NEW p \in Procs, ReadByte(p)
  PROVE  Count' = Count - 1 /\ Queue!Get
  <1> DEFINE W == WRAP
             P == PIPESIZE
  <1>0. /\ W \in Nat \ {0} /\ P \in Nat \ {0} /\ P < W /\ nread \in 0..(W - 1) /\ nwrite \in 0..(W - 1)
        /\ Count = IF nwrite >= nread THEN nwrite - nread ELSE nwrite + W - nread
        /\ Count \in Nat /\ Count < W
    BY Counters, PipeAssumption, Zenon DEF IInv
  <1>1. nwrite' = nwrite /\ data' = data /\ nread' = IF nread + 1 < W THEN nread + 1 ELSE 0
    BY <1>0 DEF ReadByte
  <1>2. Count > 0 /\ Count' = Count - 1 /\ nread' \in Nat
    <2>1. nread # nwrite
      BY Zenon DEF ReadByte, Empty
    <2>2. nread' \in 0..(W - 1) /\ nwrite' \in 0..(W - 1)
      BY <1>0, <1>1
    <2>3. Count' = IF nwrite' >= nread' THEN nwrite' - nread' ELSE nwrite' + W - nread'
      BY <1>0, <2>2, Distance, Zenon DEF Count
    <2> QED BY <1>0, <1>1, <2>1, <2>2, <2>3
  <1>3. ASSUME NEW k \in 1..(Count - 1)
        PROVE  (nread' + k - 1) % P = (nread + (k + 1) - 1) % P
    <2>1. CASE nread + 1 < W
      <3>1. nread' + k - 1 = nread + (k + 1) - 1
        BY <2>1, <1>0, <1>1
      <3> QED BY <3>1, Zenon
    <2>2. CASE nread + 1 >= W
      <3>1. nread' + k - 1 = k - 1 /\ nread + (k + 1) - 1 = (k - 1) + W /\ k - 1 \in Nat
        BY <2>2, <1>0, <1>1
      <3>2. ((k - 1) + W) % P = (k - 1) % P
        <4>1. WRAP \in Nat /\ WRAP % PIPESIZE = 0
          BY PipeAssumption, Zenon
        <4> QED BY <1>0, <3>1, <4>1, Whole, Zenon
      <3> QED BY <3>1, <3>2, Zenon
    <2> QED BY <2>1, <2>2, <1>0
  <1>4. data \in [0..(P - 1) -> Vals]
    BY Zenon DEF IInv, TypeOK
  <1>5. qBar \in Seq(Vals) /\ Len(qBar) = Count /\ \A k \in 1..Count : qBar[k] = data[(nread + k - 1) % P]
    <2>1. qBar = Ring(data, nread, Count)
      BY Zenon DEF qBar
    <2>2. nread \in Nat /\ Count \in Nat
      BY <1>0
    <2> QED BY <2>1, <2>2, <1>4, RingSeq, Zenon
  <1>6. qBar' \in Seq(Vals) /\ Len(qBar') = Count' /\ \A k \in 1..Count' : qBar'[k] = data[(nread' + k - 1) % P]
    <2>1. qBar' = Ring(data, nread', Count')
      BY <1>1, Zenon DEF qBar
    <2>2. nread' \in Nat /\ Count' \in Nat
      BY <1>0, <1>2
    <2> QED BY <2>1, <2>2, <1>4, RingSeq, Zenon
  <1>7. ASSUME NEW k \in 1..(Count - 1) PROVE qBar'[k] = qBar[k + 1]
    <2>1. k + 1 \in 1..Count /\ k \in 1..Count'
      BY <1>0, <1>2
    <2> QED BY <2>1, <1>3, <1>5, <1>6, Zenon
  <1>8. qBar # <<>> /\ qBar' = Tail(qBar)
    <2>1. Len(qBar) = Len(qBar') + 1 /\ Len(qBar') \in Nat /\ \A k \in 1..Len(qBar') : qBar'[k] = qBar[k + 1]
      BY <1>0, <1>2, <1>5, <1>6, <1>7
    <2>2. qBar \in Seq(Vals) /\ qBar' \in Seq(Vals)
      BY <1>5, <1>6, Zenon
    <2> QED BY <2>1, <2>2
  <1>9. readopen /\ UNCHANGED <<readopen, writeopen>>
    BY Zenon DEF IInv, EndsInv, ReadByte, Holds
  <1> QED BY <1>2, <1>8, <1>9, Zenon DEF Queue!Get

(* Initially the queue is empty.                                            *)
LEMMA RingInit ==
  ASSUME Init PROVE RingInv /\ Queue!Init
  <1>1. Count = 0
    BY PipeAssumption, Distance DEF Init, Count
  <1>2. qBar = <<>>
    BY <1>1 DEF qBar, Ring
  <1> QED BY <1>1, <1>2, PipeAssumption DEF RingInv, Queue!Init, Init

(* Only four steps move a counter or close an end.                          *)
LEMMA Outside ==
  ASSUME [Next]_vars
  PROVE  \/ \E p \in Procs : WriteByte(p) \/ ReadByte(p) \/ PipecloseWrite(p) \/ PipecloseRead(p)
         \/ UNCHANGED <<nread, nwrite, data, readopen, writeopen>>
  BY DEF Next, WriteStep, ReadStep, CloseStep, vars, pipe, WriteStart, WriteFails, WriteSleep, WriteDone, ReadStart,
         ReadSleep, ReadFails, ReadReady, ReadDone, Wake, Close, kill

(* Every step is a step of the queue, or leaves it as it is; the ring never *)
(* holds more than PIPESIZE bytes.                                          *)
LEMMA RingStep ==
  ASSUME IInv, RingInv, [Next]_vars, IInv'
  PROVE  RingInv' /\ [Queue!Next]_<<qBar, readopen, writeopen>>
  <1>1. CASE \E p \in Procs : WriteByte(p)
    <2>1. PICK p \in Procs : WriteByte(p)
      BY <1>1, Zenon
    <2>2. Count' = Count + 1 /\ Count < PIPESIZE /\ Queue!Put
      BY <2>1, PutStep, Zenon DEF IInv
    <2>3. Count \in Nat /\ PIPESIZE \in Nat
      BY Counters, PipeAssumption, Zenon DEF IInv
    <2> QED BY <2>2, <2>3 DEF RingInv, Queue!Next
  <1>2. CASE \E p \in Procs : ReadByte(p)
    <2>1. PICK p \in Procs : ReadByte(p)
      BY <1>2, Zenon
    <2>2. Count' = Count - 1 /\ Queue!Get
      BY <2>1, GetStep, Zenon
    <2>3. Count \in Nat /\ PIPESIZE \in Nat
      BY Counters, PipeAssumption, Zenon DEF IInv
    <2> QED BY <2>2, <2>3 DEF RingInv, Queue!Next
  <1>3. CASE \E p \in Procs : PipecloseWrite(p)
    BY <1>3, Zenon DEF IInv, EndsInv, PipecloseWrite, RingInv, Count, qBar, Queue!Next, Queue!CloseWrite
  <1>4. CASE \E p \in Procs : PipecloseRead(p)
    BY <1>4, Zenon DEF IInv, EndsInv, PipecloseRead, RingInv, Count, qBar, Queue!Next, Queue!CloseRead
  <1>5. CASE UNCHANGED <<nread, nwrite, data, readopen, writeopen>>
    BY <1>5, Zenon DEF RingInv, Count, qBar
  <1> QED BY <1>1, <1>2, <1>3, <1>4, <1>5, Outside, Zenon

(***************************************************************************)
(* The ring with its two wrapping counters is a FIFO queue of at most      *)
(* PIPESIZE bytes, for every PIPESIZE that divides the range of the        *)
(* counters and any number of readers and writers: no byte is lost,        *)
(* overwritten, read twice or read out of order, and nothing is put or     *)
(* taken when the end is closed.                                           *)
(***************************************************************************)
THEOREM PipeIsFifo == Spec => ImplementsFifo
  <1>1. Init => IInv /\ RingInv /\ Queue!Init
    BY InitInv, RingInit, Zenon
  <1>2. IInv /\ RingInv /\ [Next]_vars => IInv' /\ RingInv' /\ [Queue!Next]_<<qBar, readopen, writeopen>>
    BY NextInv, RingStep, Zenon
  <1> QED BY <1>1, <1>2, PTL DEF Spec, ImplementsFifo, Queue!Spec

(* ReadInv holds in every step: only readers that hold the lock empty the   *)
(* ring, and only the last pipeclose closes the write end.                  *)
LEMMA ReadNext ==
  ASSUME IInv, ReadInv, [Next]_vars
  PROVE  ReadInv'
  <1> USE DEF IInv, TypeOK
  <1>1. CASE UNCHANGED vars
    BY <1>1, Zenon DEF vars, pipe, ReadInv, Empty
  <1>2. ASSUME NEW q \in Procs, WriteStart(q)
        PROVE  ReadInv'
    BY <1>2, Zenon DEF ReadInv, WriteStart, Goto, Empty, pipe
  <1>9. ASSUME NEW q \in Procs, ReadStart(q)
        PROVE  ReadInv'
    BY <1>9, Zenon DEF ReadInv, ReadStart, Goto, Empty, pipe
  <1>3. ASSUME NEW q \in Procs, WriteByte(q)
        PROVE  ReadInv'
    BY <1>3, Zenon DEF ReadInv, WriteByte, LockInv, Holds
  <1>4. ASSUME NEW q \in Procs, WriteFails(q) \/ WriteSleep(q) \/ WriteDone(q)
        PROVE  ReadInv'
    BY <1>4 DEF ReadInv, WriteFails, WriteSleep, WriteDone, Goto, GotoWaking, Forget, Holds, Empty, pipe
  <1>5. ASSUME NEW q \in Procs, ReadSleep(q) \/ ReadFails(q) \/ ReadReady(q) \/ ReadDone(q)
        PROVE  ReadInv'
    BY <1>5 DEF ReadInv, ReadSleep, ReadFails, ReadReady, ReadDone, Goto, GotoWaking, Forget, Holds, Empty, pipe
  <1>6. ASSUME NEW q \in Procs, ReadByte(q)
        PROVE  ReadInv'
    BY <1>6 DEF ReadInv, ReadByte, LockInv, Holds
  <1>7. ASSUME NEW q \in Procs, Wake(q) \/ Close(q, "r") \/ Close(q, "w") \/ kill(q)
        PROVE  ReadInv'
    BY <1>7 DEF ReadInv, Wake, Close, kill, Goto, Empty, pipe
  <1>8. ASSUME NEW q \in Procs, PipecloseWrite(q) \/ PipecloseRead(q)
        PROVE  ReadInv'
    BY <1>8, Zenon DEF ReadInv, PipecloseWrite, PipecloseRead, GotoWaking, Empty
  <1> QED BY <1>1, <1>2, <1>3, <1>4, <1>5, <1>6, <1>7, <1>8, <1>9, Zenon DEF Next, WriteStep, ReadStep,
     CloseStep

(* Only the return of piperead itself leaves its copying loop.              *)
LEMMA ReadReturns ==
  ASSUME IInv, NEW p \in Procs, [Next]_vars, pc[p] = "read", pc'[p] = "user"
  PROVE  ReadDone(p)
  <1> USE DEF IInv, TypeOK
  <1>1. CASE UNCHANGED vars
    BY <1>1, Zenon DEF vars
  <1>2. ASSUME NEW q \in Procs,
               WriteStart(q) \/ ReadStart(q) \/ Wake(q) \/ Close(q, "r") \/ Close(q, "w") \/ kill(q)
        PROVE  FALSE
    <2>1. CASE WriteStart(q) \/ ReadStart(q) \/ Wake(q)
      BY <2>1 DEF WriteStart, ReadStart, Wake, Goto
    <2>2. CASE Close(q, "r") \/ Close(q, "w")
      <3>1. q # p /\ \E l : pc' = [pc EXCEPT ![q] = l]
        BY <2>2, Zenon DEF Close, Goto
      <3> QED BY <3>1
    <2>3. CASE kill(q)
      BY <2>3 DEF kill, Goto
    <2> QED BY <1>2, <2>1, <2>2, <2>3, Zenon
  <1>3. ASSUME NEW q \in Procs, WriteStep(q) \/ CloseStep(q)
        PROVE  FALSE
    BY <1>3, Zenon DEF WriteStep, WriteByte, WriteFails, WriteSleep, WriteDone, CloseStep, PipecloseWrite,
       PipecloseRead, Goto, GotoWaking, Holds
  <1>4. ASSUME NEW q \in Procs, ReadStep(q)
        PROVE  ReadDone(p)
    <2>1. q = p
      BY <1>4, Zenon DEF ReadStep, ReadSleep, ReadFails, ReadReady, ReadByte, ReadDone, Goto, GotoWaking,
         Holds
    <2> QED BY <1>4, <2>1, Zenon DEF ReadStep, ReadSleep, ReadFails, ReadReady, ReadByte, Holds
  <1> QED BY <1>1, <1>2, <1>3, <1>4, Zenon DEF Next

(***************************************************************************)
(* piperead returns fewer bytes than asked for only with the ring empty,   *)
(* and none of at least one (end of file) only when nobody can write any   *)
(* more, although it wakes up and takes the lock again in between.         *)
(***************************************************************************)
THEOREM EndOfFile == Spec => ShortRead
  <1>1. Init => IInv /\ ReadInv
    BY InitInv, Zenon DEF Init, ReadInv
  <1>2. IInv /\ ReadInv /\ [Next]_vars => IInv' /\ ReadInv'
    BY NextInv, ReadNext, Zenon
  <1>3. ASSUME IInv, ReadInv, [Next]_vars, NEW p \in Procs, pc[p] = "read", pc'[p] = "user"
        PROVE  /\ i[p] < n[p] => Empty
               /\ i[p] = 0 /\ n[p] > 0 => ~writeopen /\ \A q \in Procs : "w" \notin ends[q]
    <2>1. ReadDone(p)
      BY <1>3, ReadReturns, Zenon
    <2>2. i[p] \in Nat /\ n[p] \in Nat
      BY <1>3, Zenon DEF IInv, TypeOK
    <2>3. EndsInv
      BY <1>3, Zenon DEF IInv
    <2>4. /\ i[p] < n[p] => Empty
          /\ i[p] = 0 /\ n[p] > 0 => ~writeopen
      BY <1>3, <2>1, <2>2 DEF ReadInv, ReadDone
    <2> QED BY <2>3, <2>4, Zenon DEF EndsInv
  <1>4. IInv /\ ReadInv /\ [Next]_vars =>
          [\A p \in Procs : pc[p] = "read" /\ pc'[p] = "user" =>
                  /\ i[p] < n[p] => Empty
                  /\ i[p] = 0 /\ n[p] > 0 => ~writeopen /\ \A q \in Procs : "w" \notin ends[q]]_vars
    BY <1>3, Zenon
  <1> QED BY <1>1, <1>2, <1>4, PTL DEF Spec, ShortRead
=============================================================================
