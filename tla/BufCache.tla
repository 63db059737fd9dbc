------------------------------ MODULE BufCache ------------------------------
(***************************************************************************)
(* The buffer cache (bio.c) over the IDE driver (ide.c) and a disk.        *)
(*                                                                         *)
(* A critical section under bcache.lock or idelock is one step: the fields *)
(* it touches are touched under that lock only, or by the process that     *)
(* holds the buffer (QueuedIsOwned is what makes the latter sound). sleep  *)
(* releases the lock and sleeps in one step, as module Proc establishes.   *)
(* A pair <<dev, sector>> is a block. bget sleeps and iderw sleeps use the *)
(* same channel, the buffer, so each wakes the other's sleepers.           *)
(***************************************************************************)
EXTENDS Naturals, Sequences, FiniteSets

CONSTANTS Procs,        \* the processes that use the cache
          Bufs,         \* bcache.buf
          Blocks,       \* the blocks of the disk
          Inner,        \* those that the file system reads while it holds another one (bitmap, zeroed block)
          Absent,       \* the blocks of a disk that ideinit did not find
          Vals, Zero,   \* the contents of a block; what memory holds at boot
          NoBlock,      \* dev = -1
          Disks,        \* the contents that the disk may have at boot
          ReadErrors,   \* whether the disk may fail to read
          MaxOps,       \* bound: breads and bwrites by each process
          MaxSpurious   \* bound: interrupts that the disk raises for no reason

ASSUME BufCacheAssumption ==
  /\ IsFiniteSet(Bufs) /\ Bufs # {} /\ Cardinality(Bufs) \in Nat \ {0}
  /\ NoBlock \notin Blocks /\ Zero \in Vals /\ Disks \subseteq [Blocks -> Vals]
  /\ MaxOps \in Nat /\ MaxSpurious \in Nat /\ ReadErrors \in BOOLEAN

VARIABLES lru,        \* the list from bcache.head.next (most recently used) on
          blk, flags, data,       \* fields of struct buf
          idequeue,   \* the requests, the one at the disk first
          ide,        \* the drive: its state, the command, the sector being transferred
          disk,       \* the contents of the disk
          intr,       \* an interrupt is pending
          pc, cur, want,          \* each process: its point in the code, b, and <<dev, sector>>
          held,       \* the buffers that it has from bread, oldest first
          ops, spurious,
          panicked

cache == <<lru, blk, flags, data>>
drive == <<idequeue, ide, disk, intr>>
calls == <<pc, cur, want, held, ops>>
vars == <<cache, drive, calls, spurious, panicked>>

NBUF == Cardinality(Bufs)
Clean(b) == flags[b] \cap {"B_VALID", "B_DIRTY"} = {"B_VALID"}
Top(p) == held[p][Len(held[p])]

In(x, s) == \E i \in 1..Len(s) : s[i] = x
Distinct(s) == \A i, j \in 1..Len(s) : s[i] = s[j] => i = j
Has(p, b) == In(b, held[p])
Queued(b) == In(b, idequeue)

binit ==
  /\ lru \in {f \in [1..NBUF -> Bufs] : \A i, j \in 1..NBUF : f[i] = f[j] => i = j}
  /\ blk = [b \in Bufs |-> NoBlock]
  /\ flags = [b \in Bufs |-> {}]
  /\ data = [b \in Bufs |-> Zero]

Init ==
  /\ binit
  /\ idequeue = <<>>
  /\ disk \in Disks
  /\ ide \in [st : {"ready"}, op : {"none"}, blk : {NoBlock}, data : {Zero}, err : {FALSE}]
  /\ intr = FALSE
  /\ pc = [p \in Procs |-> "run"]
  /\ cur = [p \in Procs |-> CHOOSE b \in Bufs : TRUE]
  /\ want = [p \in Procs |-> NoBlock]
  /\ held = [p \in Procs |-> <<>>]
  /\ ops = [p \in Procs |-> 0]
  /\ spurious = 0
  /\ panicked = FALSE

-----------------------------------------------------------------------------
(* bio.c *)

(* The file system holds at most two buffers at a time: bmap and itrunc    *)
(* keep the indirect block while balloc and bfree use the bitmap.          *)
bread(p, k) ==
  /\ pc[p] = "run" /\ ops[p] < MaxOps
  /\ held[p] = <<>> \/ (Len(held[p]) = 1 /\ blk[Top(p)] \notin Inner /\ k \in Inner)
  /\ want' = [want EXCEPT ![p] = k]
  /\ ops' = [ops EXCEPT ![p] = @ + 1]
  /\ pc' = [pc EXCEPT ![p] = "bget"]
  /\ UNCHANGED <<cache, drive, cur, held, spurious, panicked>>

Cached(k) == {b \in Bufs : blk[b] = k}

\* Mutation of BgetHit: the buffer is taken whether it is busy or not.
BgetHit_Unchecked(p) ==
  /\ pc[p] = "bget"
  /\ \E b \in Cached(want[p]) :
       /\ flags' = [flags EXCEPT ![b] = @ \cup {"B_BUSY"}]
       /\ cur' = [cur EXCEPT ![p] = b]
  /\ pc' = [pc EXCEPT ![p] = "bread"]
  /\ UNCHANGED <<lru, blk, data, drive, want, held, ops, spurious, panicked>>

BgetHit(p) ==
  /\ pc[p] = "bget"
  /\ \E b \in Cached(want[p]) :
       /\ "B_BUSY" \notin flags[b]
       /\ flags' = [flags EXCEPT ![b] = @ \cup {"B_BUSY"}]
       /\ cur' = [cur EXCEPT ![p] = b]
  /\ pc' = [pc EXCEPT ![p] = "bread"]
  /\ UNCHANGED <<lru, blk, data, drive, want, held, ops, spurious, panicked>>

BgetSleep(p) ==
  /\ pc[p] = "bget"
  /\ \E b \in Cached(want[p]) : "B_BUSY" \in flags[b] /\ cur' = [cur EXCEPT ![p] = b]
  /\ pc' = [pc EXCEPT ![p] = "bgetsleep"]
  /\ UNCHANGED <<cache, drive, want, held, ops, spurious, panicked>>

\* The first buffer from the tail of the list that is not busy.
Victim(b) == \E i \in 1..NBUF :
  /\ lru[i] = b /\ "B_BUSY" \notin flags[b]
  /\ \A j \in (i + 1)..NBUF : "B_BUSY" \in flags[lru[j]]

Recycle(p, b) ==
  /\ blk' = [blk EXCEPT ![b] = want[p]]
  /\ flags' = [flags EXCEPT ![b] = {"B_BUSY"}]

BgetFresh(p) ==
  /\ pc[p] = "bget" /\ Cached(want[p]) = {}
  /\ \E b \in Bufs : Victim(b) /\ Recycle(p, b) /\ cur' = [cur EXCEPT ![p] = b]
  /\ pc' = [pc EXCEPT ![p] = "bread"]
  /\ UNCHANGED <<lru, data, drive, want, held, ops, spurious, panicked>>

BgetPanic(p) ==
  /\ pc[p] = "bget" /\ Cached(want[p]) = {}
  /\ \A b \in Bufs : "B_BUSY" \in flags[b]
  /\ panicked' = TRUE
  /\ UNCHANGED <<cache, drive, calls, spurious>>

\* bread after bget, and the return to its caller.
BreadCheck(p) ==
  /\ pc[p] = "bread"
  /\ IF "B_VALID" \in flags[cur[p]]
       THEN /\ pc' = [pc EXCEPT ![p] = "run"]
            /\ held' = [held EXCEPT ![p] = Append(@, cur[p])]
       ELSE pc' = [pc EXCEPT ![p] = "iderw"] /\ UNCHANGED held
  /\ UNCHANGED <<cache, drive, cur, want, ops, spurious, panicked>>

\* The caller changes the contents and calls bwrite.
bwrite(p, v) ==
  /\ pc[p] = "run" /\ held[p] # <<>> /\ ops[p] < MaxOps
  /\ panicked' = ("B_BUSY" \notin flags[Top(p)])
  /\ data' = [data EXCEPT ![Top(p)] = v]
  /\ flags' = [flags EXCEPT ![Top(p)] = @ \cup {"B_DIRTY"}]
  /\ cur' = [cur EXCEPT ![p] = Top(p)]
  /\ ops' = [ops EXCEPT ![p] = @ + 1]
  /\ pc' = [pc EXCEPT ![p] = "iderw"]
  /\ UNCHANGED <<lru, blk, drive, want, held, spurious>>

\* Mutation of wakeup: one of the two kinds of sleepers stays asleep.
wakeup_IoOnly(b) ==
  pc' = [q \in Procs |-> IF cur[q] = b /\ pc[q] = "iosleep" THEN "iowait" ELSE pc[q]]

\* wakeup(b): everyone asleep on channel b goes back to its loop.
wakeup(b) ==
  pc' = [q \in Procs |-> IF cur[q] # b THEN pc[q]
                         ELSE IF pc[q] = "bgetsleep" THEN "bget"
                         ELSE IF pc[q] = "iosleep" THEN "iowait" ELSE pc[q]]

MoveToFront(b) == \E k \in 1..NBUF :
  /\ lru[k] = b
  /\ lru' = [i \in 1..NBUF |-> IF i = 1 THEN b ELSE IF i <= k THEN lru[i - 1] ELSE lru[i]]

brelse(p) ==
  /\ pc[p] = "run" /\ held[p] # <<>>
  /\ panicked' = ("B_BUSY" \notin flags[Top(p)])
  /\ MoveToFront(Top(p))
  /\ flags' = [flags EXCEPT ![Top(p)] = @ \ {"B_BUSY"}]
  /\ wakeup(Top(p))
  /\ held' = [held EXCEPT ![p] = SubSeq(@, 1, Len(@) - 1)]
  /\ UNCHANGED <<blk, data, drive, cur, want, ops, spurious>>

-----------------------------------------------------------------------------
(* ide.c *)

idewait == ide.st = "ready"

idestart(b) ==
  /\ idewait
  /\ ide' = [st |-> "busy", op |-> IF "B_DIRTY" \in flags[b] THEN "write" ELSE "read",
             blk |-> blk[b], data |-> data[b], err |-> FALSE]

IderwPanics(b) == \/ "B_BUSY" \notin flags[b]
                  \/ Clean(b)
                  \/ blk[b] \in Absent

\* Mutation of Enqueue: the new request goes before the one at the disk.
Enqueue_Front(b) == idequeue' = <<b>> \o idequeue

Enqueue(b) == idequeue' = Append(idequeue, b)

iderw(p) ==
  /\ pc[p] = "iderw"
  /\ panicked' = IderwPanics(cur[p])
  /\ Enqueue(cur[p])
  /\ IF idequeue = <<>> THEN idestart(cur[p]) ELSE UNCHANGED ide
  /\ pc' = [pc EXCEPT ![p] = "iosleep"]
  /\ UNCHANGED <<cache, disk, intr, cur, want, held, ops, spurious>>

\* Awake in the loop of iderw. bread hands the buffer to its caller, bwrite's caller has it.
IderwWait(p) ==
  /\ pc[p] = "iowait"
  /\ IF Clean(cur[p])
       THEN /\ pc' = [pc EXCEPT ![p] = "run"]
            /\ held' = IF Has(p, cur[p]) THEN held
                       ELSE [held EXCEPT ![p] = Append(@, cur[p])]
       ELSE pc' = [pc EXCEPT ![p] = "iosleep"] /\ UNCHANGED held
  /\ UNCHANGED <<cache, drive, cur, want, ops, spurious, panicked>>

\* The drive executes its command and interrupts.
DriveDone ==
  /\ ide.st = "busy"
  /\ \E e \in {FALSE, ReadErrors /\ ide.op = "read"} :
       ide' = [ide EXCEPT !.st = "ready", !.err = e,
                          !.data = IF ide.op = "read" THEN disk[ide.blk] ELSE @]
  /\ disk' = IF ide.op = "write" THEN [disk EXCEPT ![ide.blk] = ide.data] ELSE disk
  /\ intr' = TRUE
  /\ UNCHANGED <<cache, idequeue, calls, spurious, panicked>>

\* insl copies the sector unless idewait(1) sees an error.
ReadSector(b) ==
  IF "B_DIRTY" \in flags[b] THEN UNCHANGED data
  ELSE idewait /\ data' = [data EXCEPT ![b] = IF ide.err THEN @ ELSE ide.data]

Finish(b) == flags' = [flags EXCEPT ![b] = (@ \cup {"B_VALID"}) \ {"B_DIRTY"}]

Dequeue == idequeue' = Tail(idequeue)

HandleIde ==
  IF idequeue = <<>> THEN UNCHANGED <<idequeue, data, flags, pc, ide>>
  ELSE LET b == Head(idequeue) IN
       /\ Dequeue
       /\ ReadSector(b)
       /\ Finish(b)
       /\ wakeup(b)
       /\ IF Tail(idequeue) # <<>> THEN idestart(Head(Tail(idequeue))) ELSE UNCHANGED ide

ideintr ==
  /\ intr /\ intr' = FALSE
  /\ HandleIde
  /\ UNCHANGED <<lru, blk, disk, cur, want, held, ops, spurious, panicked>>

SpuriousIntr ==
  /\ spurious < MaxSpurious /\ spurious' = spurious + 1
  /\ HandleIde
  /\ UNCHANGED <<lru, blk, disk, intr, cur, want, held, ops, panicked>>

-----------------------------------------------------------------------------
ProcStep(p) ==
  \/ \E k \in Blocks : bread(p, k)
  \/ BgetHit(p) \/ BgetSleep(p) \/ BgetFresh(p) \/ BgetPanic(p)
  \/ BreadCheck(p)
  \/ \E v \in Vals : bwrite(p, v)
  \/ iderw(p) \/ IderwWait(p)
  \/ brelse(p)

\* Every process has done its operations.
Finished ==
  /\ \A p \in Procs : pc[p] = "run" /\ held[p] = <<>> /\ ops[p] = MaxOps
  /\ UNCHANGED vars

\* After a panic every CPU stops.
Halted == panicked /\ UNCHANGED vars

Next == \/ ~panicked /\ (DriveDone \/ ideintr \/ SpuriousIntr \/ \E p \in Procs : ProcStep(p))
        \/ Finished
        \/ Halted

Spec == Init /\ [][Next]_vars

TypeOK ==
  /\ lru \in [1..NBUF -> Bufs]
  /\ blk \in [Bufs -> Blocks \cup {NoBlock}]
  /\ flags \in [Bufs -> SUBSET {"B_BUSY", "B_VALID", "B_DIRTY"}]
  /\ data \in [Bufs -> Vals] /\ disk \in [Blocks -> Vals]
  /\ idequeue \in Seq(Bufs)
  /\ ide \in [st : {"ready", "busy"}, op : {"none", "read", "write"},
              blk : Blocks \cup {NoBlock}, data : Vals, err : BOOLEAN]
  /\ pc \in [Procs -> {"run", "bget", "bgetsleep", "bread", "iderw", "iosleep", "iowait"}]
  /\ cur \in [Procs -> Bufs] /\ want \in [Procs -> Blocks \cup {NoBlock}]
  /\ held \in [Procs -> Seq(Bufs)] /\ ops \in [Procs -> 0..MaxOps]
  /\ intr \in BOOLEAN /\ panicked \in BOOLEAN /\ spurious \in 0..MaxSpurious

-----------------------------------------------------------------------------
(* The process that bget has given buffer b and that has not released it.  *)
Owns(p, b) ==
  \/ pc[p] \in {"bread", "iderw", "iosleep", "iowait"} /\ cur[p] = b
  \/ Has(p, b)

(***************************************************************************)
(* A block is never in two buffers: although bget gives up its scan to     *)
(* sleep, and recycles a buffer others may be waiting for, no two buffers  *)
(* are ever assigned to one block, where updates of one would be lost.     *)
(***************************************************************************)
OneBufferPerBlock == \A a, b \in Bufs : blk[a] = blk[b] /\ blk[a] # NoBlock => a = b

(***************************************************************************)
(* B_BUSY is a lock: between bget and brelse no second process gets the    *)
(* buffer, whichever of the sleepers that a wakeup releases runs first,    *)
(* and the buffer still is the block that its owner asked for.             *)
(***************************************************************************)
BusyIsExclusive ==
  /\ \A p, q \in Procs, b \in Bufs : Owns(p, b) /\ Owns(q, b) => p = q
  /\ \A b \in Bufs : "B_BUSY" \in flags[b] <=> \E p \in Procs : Owns(p, b)

(***************************************************************************)
(* A buffer in the queue of the driver belongs to a process that waits in  *)
(* iderw. So ideintr, which changes flags and data under idelock, never    *)
(* races with bget, bwrite and brelse, which change them without it, and   *)
(* bget never recycles a buffer that the disk still has to write.          *)
(***************************************************************************)
QueuedIsOwned ==
  /\ \A b \in Bufs : Queued(b) => \E p \in Procs : pc[p] \in {"iosleep", "iowait"} /\ cur[p] = b
  /\ Distinct(idequeue)
=============================================================================
