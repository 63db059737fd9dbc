--------------------------- MODULE BufCacheProps ---------------------------
(***************************************************************************)
(* What the buffer cache guarantees: the block store that it implements,   *)
(* write-through, and termination of its calls.                            *)
(***************************************************************************)
EXTENDS BufCache

CONSTANTS NoProc, NoVal

ASSUME NoProcAssumption == NoProc \notin Procs

(***************************************************************************)
(* When a buffer is clean its contents are on the disk: bwrite is          *)
(* synchronous, so what a crash can lose is never something that a bwrite  *)
(* which has returned wrote. (An interrupt of the drive without a command  *)
(* makes ideintr finish the request that is still waiting for the drive.)  *)
(***************************************************************************)
WriteThrough == spurious = 0 => \A b \in Bufs : Clean(b) /\ blk[b] # NoBlock => data[b] = disk[blk[b]]

(***************************************************************************)
(* The buffers stay sound through every sleep of bget and iderw and every  *)
(* interrupt: a block is in one buffer, which one process uses, which the  *)
(* driver changes only while that process waits, and which agrees with the *)
(* disk once it is clean.                                                  *)
(***************************************************************************)
BuffersSound == TypeOK /\ OneBufferPerBlock /\ BusyIsExclusive /\ QueuedIsOwned /\ WriteThrough

(***************************************************************************)
(* The block store that callers see. The value of a block is the one that  *)
(* a dirty buffer holds, or the one on its way to the disk, or the one on  *)
(* the disk; the holder of a block sees the contents of the buffer. So     *)
(* bread must return the last value written although buffers are recycled, *)
(* requests are queued and the disk completes them one by one.             *)
(***************************************************************************)
Holder(p, k) == \E b \in Cached(k) : Has(p, b)

DriveVal(k) == IF ide.st = "busy" /\ ide.op = "write" /\ ide.blk = k THEN ide.data ELSE disk[k]
Dirty(k) == {b \in Cached(k) : "B_DIRTY" \in flags[b]}

StoreVal(k) == IF Dirty(k) # {} THEN data[CHOOSE b \in Dirty(k) : TRUE] ELSE DriveVal(k)
OwnerVal(k) == IF \E p \in Procs : Holder(p, k) THEN CHOOSE p \in Procs : Holder(p, k) ELSE NoProc
ViewVal(k) == IF OwnerVal(k) = NoProc THEN NoVal ELSE data[CHOOSE b \in Cached(k) : TRUE]

storeBar == [k \in Blocks |-> StoreVal(k)]
ownerBar == [k \in Blocks |-> OwnerVal(k)]
viewBar == [k \in Blocks |-> ViewVal(k)]

Store == INSTANCE BlockStore WITH store <- storeBar, owner <- ownerBar, view <- viewBar

(* The cache, the driver and the disk implement the block store.           *)
ImplementsStore == Store!Spec

(***************************************************************************)
(* Fairness: every process keeps executing (the file system gives back the *)
(* buffers it has), the drive completes its command and interrupts are     *)
(* taken.                                                                  *)
(***************************************************************************)
Fairness == /\ \A p \in Procs : WF_vars(~panicked /\ ProcStep(p))
            /\ WF_vars(~panicked /\ DriveDone)
            /\ WF_vars(~panicked /\ ideintr)

FairSpec == Spec /\ Fairness

(***************************************************************************)
(* Every bread and bwrite returns: no wakeup is lost between the two uses  *)
(* of a buffer as a channel, no request is forgotten in the queue, and the *)
(* nested reads of bmap and itrunc do not wait for each other. The only    *)
(* other end is the panic of bget when all buffers are in use.             *)
(***************************************************************************)
CallsReturn == \A p \in Procs : pc[p] # "run" ~> (pc[p] = "run" \/ panicked)
=============================================================================
