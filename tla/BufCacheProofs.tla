--------------------------- MODULE BufCacheProofs ---------------------------
(***************************************************************************)
(* The inductive invariant of the buffer cache and of the driver of the    *)
(* disk, for any number of processes, buffers, blocks and values, and what *)
(* follows from it: buffers are sound, and cache, driver and disk          *)
(* implement the block store of BlockStore. Callers see the store through  *)
(* the buffers: BlockOf and Uncached say how, and every step is then       *)
(* compared block by block.                                                *)
(***************************************************************************)
EXTENDS BufCacheProps, TLAPS

(* The empty queue, and the process that has no buffer.                     *)
LEMMA EmptyIn == (\A y : ~In(y, <<>>)) /\ Distinct(<<>>)
  BY DEF In, Distinct

(* iderw appends to idequeue, and bread to the buffers of its caller.       *)
LEMMA AppendIn ==
  ASSUME NEW S, NEW s \in Seq(S), NEW x \in S
  PROVE  /\ Append(s, x) \in Seq(S) /\ Append(s, x) # <<>>
         /\ \A y : In(y, Append(s, x)) <=> In(y, s) \/ y = x
         /\ Distinct(s) /\ ~In(x, s) => Distinct(Append(s, x))
         /\ Append(s, x)[1] = IF s = <<>> THEN x ELSE s[1]
  <1>1. Append(s, x) \in Seq(S) /\ Append(s, x) # <<>>
    <2>1. Append(s, x) \in Seq(S) /\ Len(Append(s, x)) = Len(s) + 1 /\ Len(s) \in Nat
      OBVIOUS
    <2>2. Len(<<>>) = 0
      OBVIOUS
    <2> QED BY <2>1
  <1>2. ASSUME NEW y PROVE In(y, Append(s, x)) <=> In(y, s) \/ y = x
    BY DEF In
  <1>3. ASSUME Distinct(s), ~In(x, s) PROVE Distinct(Append(s, x))
    BY <1>3 DEF In, Distinct
  <1>4. Append(s, x)[1] = IF s = <<>> THEN x ELSE s[1]
    OBVIOUS
  <1> QED BY <1>1, <1>2, <1>3, <1>4, Zenon

(* The first of the queue.                                                  *)
LEMMA FirstOf ==
  ASSUME NEW S, NEW s \in Seq(S), s # <<>>
  PROVE  Head(s) = s[1] /\ s[1] \in S /\ Len(s) \in Nat \ {0} /\ In(s[1], s)
  <1>1. Head(s) = s[1] /\ s[1] \in S /\ Len(s) \in Nat \ {0}
    OBVIOUS
  <1> QED BY DEF In

(* ideintr takes the first request off the queue; the one that follows is   *)
(* another buffer.                                                          *)
LEMMA TailIn ==
  ASSUME NEW S, NEW s \in Seq(S), s # <<>>, Distinct(s)
  PROVE  /\ Tail(s) \in Seq(S) /\ Distinct(Tail(s))
         /\ Head(s) = s[1] /\ s[1] \in S /\ In(s[1], s)
         /\ \A y : In(y, Tail(s)) <=> In(y, s) /\ y # s[1]
         /\ Tail(s) # <<>> => /\ Head(Tail(s)) = Tail(s)[1] /\ Tail(s)[1] \in S
                              /\ Tail(s)[1] # s[1] /\ In(Tail(s)[1], s)
  <1> DEFINE t == Tail(s)
  <1>1. t \in Seq(S) /\ Head(s) = s[1] /\ s[1] \in S /\ Len(s) \in Nat \ {0} /\ In(s[1], s)
    BY FirstOf
  <1>2. Len(t) = Len(s) - 1 /\ \A k \in 1..(Len(s) - 1) : t[k] = s[k + 1]
    OBVIOUS
  <1>3. t # <<>> => Head(t) = t[1] /\ t[1] \in S /\ In(t[1], t)
    BY <1>1, FirstOf, Zenon
  <1> HIDE DEF t
  <1>4. Distinct(t)
    BY <1>2 DEF Distinct
  <1>5. ASSUME NEW y, In(y, t) PROVE In(y, s) /\ y # s[1]
    <2>1. PICK k \in 1..(Len(s) - 1) : t[k] = y
      BY <1>2, <1>5, Zenon DEF In
    <2>2. k + 1 \in 1..Len(s) /\ 1 \in 1..Len(s) /\ k + 1 # 1 /\ s[k + 1] = y
      BY <1>2, <2>1
    <2> QED BY <2>2, Zenon DEF In, Distinct
  <1>6. ASSUME NEW y, In(y, s), y # s[1] PROVE In(y, t)
    <2>1. PICK k \in 1..Len(s) : s[k] = y
      BY <1>6, Zenon DEF In
    <2>2. k - 1 \in 1..(Len(s) - 1) /\ (k - 1) + 1 = k
      BY <1>6, <2>1
    <2> QED BY <1>2, <2>1, <2>2, Zenon DEF In
  <1> QED BY <1>1, <1>3, <1>4, <1>5, <1>6, Zenon DEF t

(* brelse gives back the buffer that was taken last.                        *)
LEMMA FrontIn ==
  ASSUME NEW S, NEW s \in Seq(S), s # <<>>, Distinct(s)
  PROVE  /\ SubSeq(s, 1, Len(s) - 1) \in Seq(S) /\ Distinct(SubSeq(s, 1, Len(s) - 1))
         /\ s[Len(s)] \in S /\ In(s[Len(s)], s)
         /\ \A y : In(y, SubSeq(s, 1, Len(s) - 1)) <=> In(y, s) /\ y # s[Len(s)]
  <1>1. SubSeq(s, 1, Len(s) - 1) \in Seq(S) /\ s[Len(s)] \in S
    OBVIOUS
  <1>2. Distinct(SubSeq(s, 1, Len(s) - 1))
    BY DEF Distinct
  <1>3. In(s[Len(s)], s)
    BY DEF In
  <1>4. ASSUME NEW y PROVE In(y, SubSeq(s, 1, Len(s) - 1)) <=> In(y, s) /\ y # s[Len(s)]
    BY DEF In, Distinct
  <1> QED BY <1>1, <1>2, <1>3, <1>4, Zenon

-----------------------------------------------------------------------------
(* Asleep in iderw, or awake and about to look; and in iderw at all.        *)
Waits == {"iosleep", "iowait"}
InDriver == {"iderw", "iosleep", "iowait"}

(* Each process: what it asks for, what it has, what it brings to iderw.    *)
CallInv == \A p \in Procs :
  /\ Distinct(held[p])
  /\ pc[p] \in {"bget", "bgetsleep"} => want[p] \in Blocks
  /\ pc[p] = "bread" => ~Has(p, cur[p])
  /\ pc[p] = "iderw" => ~Clean(cur[p]) /\ (Has(p, cur[p]) => "B_DIRTY" \in flags[cur[p]])

(* A buffer in use is a block, and one that bread has returned is valid.    *)
OwnInv == \A p \in Procs, b \in Bufs :
  /\ Owns(p, b) => blk[b] \in Blocks
  /\ Has(p, b) => "B_VALID" \in flags[b] /\ (Queued(b) => "B_DIRTY" \in flags[b])

(* A dirty buffer is on its way through iderw, and a queued one has work    *)
(* left.                                                                    *)
DirtyInv == \A b \in Bufs :
  /\ "B_DIRTY" \in flags[b] => \E p \in Procs : pc[p] \in InDriver /\ cur[p] = b
  /\ Queued(b) => ~Clean(b)

(* The drive executes the first request of the queue.                       *)
DriveInv ==
  /\ ~ide.err
  /\ ide.st = "busy" => ide.blk \in Blocks /\ ide.op # "none"
  /\ idequeue = <<>> /\ ide.st = "busy" => ide.op = "write"
  /\ idequeue # <<>> =>
       /\ ide.blk = blk[idequeue[1]]
       /\ ide.op = IF "B_DIRTY" \in flags[idequeue[1]] THEN "write" ELSE "read"
       /\ ide.op = "write" => ide.data = data[idequeue[1]]
       /\ ide.st = "ready" => disk[ide.blk] = ide.data

(* A clean buffer has the value of its block.                               *)
ValueInv == \A b \in Bufs : Clean(b) /\ blk[b] # NoBlock => data[b] = DriveVal(blk[b])

(* Without spurious interrupts, an interrupt means a finished request.      *)
IntrInv == spurious = 0 => /\ intr <=> idequeue # <<>> /\ ide.st = "ready"
                           /\ idequeue = <<>> => ide.st = "ready"

(* All of it: OneBufferPerBlock, BusyIsExclusive and QueuedIsOwned need     *)
(* each other and the rest to be preserved.                                 *)
IInv == /\ TypeOK /\ OneBufferPerBlock /\ BusyIsExclusive /\ QueuedIsOwned
        /\ CallInv /\ OwnInv /\ DirtyInv /\ DriveInv /\ ValueInv /\ IntrInv

(* The owner of a queued buffer waits in iderw for it.                      *)
LEMMA QueuedOwner ==
  ASSUME IInv, NEW b \in Bufs, Queued(b), NEW p \in Procs, Owns(p, b)
  PROVE  pc[p] \in Waits /\ cur[p] = b
  <1>1. PICK q \in Procs : pc[q] \in Waits /\ cur[q] = b
    BY Zenon DEF IInv, QueuedIsOwned, Waits
  <1>2. Owns(q, b)
    BY <1>1, Zenon DEF Owns, Waits
  <1> QED BY <1>1, <1>2, Zenon DEF IInv, BusyIsExclusive

(* The owner of a dirty buffer is in iderw with it.                         *)
LEMMA DirtyOwner ==
  ASSUME IInv, NEW b \in Bufs, "B_DIRTY" \in flags[b], NEW p \in Procs, Owns(p, b)
  PROVE  pc[p] \in InDriver /\ cur[p] = b
  <1>1. PICK q \in Procs : pc[q] \in InDriver /\ cur[q] = b
    BY Zenon DEF IInv, DirtyInv
  <1>2. Owns(q, b)
    BY <1>1, Zenon DEF Owns, InDriver
  <1> QED BY <1>1, <1>2, Zenon DEF IInv, BusyIsExclusive

(* A buffer that is not busy is nobody's: bget may take or recycle it.      *)
LEMMA NotBusy ==
  ASSUME IInv, NEW b \in Bufs, "B_BUSY" \notin flags[b]
  PROVE  /\ \A p \in Procs : ~Owns(p, b) /\ ~Has(p, b)
         /\ ~Queued(b) /\ "B_DIRTY" \notin flags[b]
  <1>1. \A p \in Procs : ~Owns(p, b) /\ ~Has(p, b)
    BY Zenon DEF IInv, BusyIsExclusive, Owns
  <1>2. ~Queued(b)
    BY <1>1, Zenon DEF IInv, QueuedIsOwned, Owns
  <1>3. "B_DIRTY" \notin flags[b]
    BY <1>1, Zenon DEF IInv, DirtyInv, Owns, InDriver
  <1> QED BY <1>1, <1>2, <1>3, Zenon

(* Steps of the callers that leave the buffers and the drive alone.         *)
LEMMA Frame ==
  ASSUME IInv, UNCHANGED <<blk, flags, data, idequeue, ide, disk, intr, spurious>>
  PROVE  /\ \A b \in Bufs : (Queued(b)' <=> Queued(b)) /\ (Clean(b)' <=> Clean(b))
         /\ OneBufferPerBlock' /\ DriveInv' /\ ValueInv' /\ IntrInv' /\ Distinct(idequeue)'
  <1>1. \A b \in Bufs : (Queued(b)' <=> Queued(b)) /\ (Clean(b)' <=> Clean(b))
    BY Zenon DEF Queued, Clean
  <1>2. OneBufferPerBlock' /\ Distinct(idequeue)'
    BY Zenon DEF IInv, OneBufferPerBlock, QueuedIsOwned
  <1>3. DriveInv' /\ IntrInv'
    BY Zenon DEF IInv, DriveInv, IntrInv
  <1>4. ValueInv'
    BY Zenon DEF IInv, ValueInv, DriveVal, Clean
  <1> QED BY <1>1, <1>2, <1>3, <1>4, Zenon

(* The owners stay the same, and so do the busy buffers.                    *)
LEMMA SameOwners ==
  ASSUME IInv, flags' = flags, \A p \in Procs, b \in Bufs : Owns(p, b)' <=> Owns(p, b)
  PROVE  BusyIsExclusive'
  BY Zenon DEF IInv, BusyIsExclusive

(* Whoever waits in iderw still waits for the same buffer.                  *)
LEMMA SameWaiters ==
  ASSUME IInv, idequeue' = idequeue,
         \A p \in Procs : pc[p] \in Waits => pc'[p] \in Waits /\ cur'[p] = cur[p]
  PROVE  QueuedIsOwned'
  <1>1. \A b : Queued(b)' <=> Queued(b)
    BY Zenon DEF Queued
  <1>2. ASSUME NEW b \in Bufs, Queued(b)' PROVE \E p \in Procs : pc'[p] \in Waits /\ cur'[p] = b
    <2>1. PICK p \in Procs : pc[p] \in Waits /\ cur[p] = b
      BY <1>1, <1>2, Zenon DEF IInv, QueuedIsOwned, Waits
    <2> QED BY <2>1, Zenon
  <1>3. Distinct(idequeue')
    BY Zenon DEF IInv, QueuedIsOwned
  <1> QED BY <1>2, <1>3, Zenon DEF QueuedIsOwned, Waits

(* Steps that leave all but the interrupt line alone.                       *)
LEMMA Still ==
  ASSUME IInv, intr' \in BOOLEAN, spurious' \in 0..MaxSpurious,
         UNCHANGED <<lru, blk, flags, data, idequeue, ide, disk, pc, cur, want, held, ops, panicked>>
  PROVE  /\ TypeOK' /\ OneBufferPerBlock' /\ BusyIsExclusive' /\ QueuedIsOwned'
         /\ CallInv' /\ OwnInv' /\ DirtyInv' /\ DriveInv' /\ ValueInv'
  <1>1. TypeOK'
    BY DEF IInv, TypeOK
  <1>2. \A b \in Bufs : (Queued(b)' <=> Queued(b)) /\ (Clean(b)' <=> Clean(b))
    BY Zenon DEF Queued, Clean
  <1>3. \A p \in Procs, b \in Bufs : (Owns(p, b)' <=> Owns(p, b)) /\ (Has(p, b)' <=> Has(p, b))
    BY Zenon DEF Owns, Has
  <1>4. OneBufferPerBlock' /\ BusyIsExclusive'
    BY <1>3, SameOwners, Zenon DEF IInv, OneBufferPerBlock
  <1>5. QueuedIsOwned'
    BY SameWaiters, Zenon
  <1>6. CallInv' /\ OwnInv'
    BY <1>2, <1>3, Zenon DEF IInv, TypeOK, CallInv, OwnInv
  <1>7. DirtyInv'
    BY <1>2, Zenon DEF IInv, DirtyInv
  <1>8. DriveInv' /\ ValueInv'
    BY <1>2, Zenon DEF IInv, DriveInv, ValueInv, DriveVal
  <1> QED BY <1>1, <1>4, <1>5, <1>6, <1>7, <1>8, Zenon

(* bread starts bget.                                                       *)
LEMMA breadInv ==
  ASSUME IInv, NEW p \in Procs, NEW k \in Blocks, bread(p, k)
  PROVE  IInv'
  <1> USE DEF bread, cache, drive
  <1>1. TypeOK'
    BY BufCacheAssumption DEF IInv, TypeOK
  <1>2. \A q \in Procs, b \in Bufs : (Owns(q, b)' <=> Owns(q, b)) /\ (Has(q, b)' <=> Has(q, b))
    BY Zenon DEF IInv, TypeOK, Owns, Has
  <1>3. BusyIsExclusive'
    BY <1>2, SameOwners, Zenon
  <1>4. QueuedIsOwned'
    <2>1. \A q \in Procs : pc[q] \in Waits => pc'[q] \in Waits /\ cur'[q] = cur[q]
      BY DEF IInv, TypeOK, Waits
    <2> QED BY <2>1, SameWaiters, Zenon
  <1>5. DirtyInv'
    BY Frame DEF IInv, DirtyInv, InDriver
  <1>6. CallInv'
    BY <1>2, Frame DEF IInv, TypeOK, CallInv
  <1>7. OwnInv'
    BY <1>2, Frame, Zenon DEF IInv, OwnInv
  <1> QED BY <1>1, <1>3, <1>4, <1>5, <1>6, <1>7, Frame, Zenon DEF IInv

(* bget finds the block in a buffer that is not busy.                       *)
LEMMA BgetHitInv ==
  ASSUME IInv, NEW p \in Procs, BgetHit(p)
  PROVE  IInv'
  <1> USE DEF BgetHit, drive
  <1>1. PICK b \in Bufs : /\ blk[b] = want[p] /\ "B_BUSY" \notin flags[b]
                          /\ flags' = [flags EXCEPT ![b] = @ \cup {"B_BUSY"}]
                          /\ cur' = [cur EXCEPT ![p] = b]
    BY Zenon DEF Cached
  <1>2. TypeOK'
    BY <1>1, Zenon DEF IInv, TypeOK
  <1>3. \A q \in Procs, x \in Bufs : /\ Owns(q, x)' <=> Owns(q, x) \/ (q = p /\ x = b)
                                     /\ Has(q, x)' <=> Has(q, x)
    BY <1>1 DEF IInv, TypeOK, Owns, Has
  <1>4. \A x \in Bufs : /\ Queued(x)' <=> Queued(x)
                        /\ Clean(x)' <=> Clean(x)
                        /\ "B_DIRTY" \in flags'[x] <=> "B_DIRTY" \in flags[x]
                        /\ "B_VALID" \in flags'[x] <=> "B_VALID" \in flags[x]
                        /\ "B_BUSY" \in flags'[x] <=> "B_BUSY" \in flags[x] \/ x = b
    BY <1>1 DEF IInv, TypeOK, Queued, Clean
  <1>5. (\A q \in Procs : ~Owns(q, b) /\ ~Has(q, b)) /\ want[p] \in Blocks
    BY <1>1, NotBusy, Zenon DEF IInv, CallInv
  <1>6. BusyIsExclusive'
    BY <1>3, <1>4, <1>5 DEF IInv, BusyIsExclusive
  <1>7. QueuedIsOwned'
    BY <1>1, <1>4, Zenon DEF IInv, TypeOK, QueuedIsOwned
  <1>8. DirtyInv'
    BY <1>1, <1>4, Zenon DEF IInv, TypeOK, DirtyInv, InDriver
  <1>9. CallInv'
    BY <1>1, <1>3, <1>4, <1>5 DEF IInv, TypeOK, CallInv
  <1>10. OwnInv'
    BY <1>1, <1>3, <1>4, <1>5, Zenon DEF IInv, OwnInv
  <1>11. OneBufferPerBlock' /\ IntrInv'
    BY Zenon DEF IInv, OneBufferPerBlock, IntrInv
  <1>12. DriveInv'
    <2>1. idequeue # <<>> => idequeue[1] \in Bufs
      BY FirstOf, Zenon DEF IInv, TypeOK
    <2> QED BY <1>4, <2>1, Zenon DEF IInv, DriveInv
  <1>13. ValueInv'
    BY <1>4, Zenon DEF IInv, ValueInv, DriveVal
  <1> QED BY <1>2, <1>6, <1>7, <1>8, <1>9, <1>10, <1>11, <1>12, <1>13, Zenon DEF IInv

(* bget finds the block in a busy buffer and sleeps.                        *)
LEMMA BgetSleepInv ==
  ASSUME IInv, NEW p \in Procs, BgetSleep(p)
  PROVE  IInv'
  <1> USE DEF BgetSleep, cache, drive
  <1>1. PICK b \in Bufs : cur' = [cur EXCEPT ![p] = b]
    BY Zenon DEF Cached
  <1>2. TypeOK'
    BY <1>1, Zenon DEF IInv, TypeOK
  <1>3. \A q \in Procs, x \in Bufs : (Owns(q, x)' <=> Owns(q, x)) /\ (Has(q, x)' <=> Has(q, x))
    BY DEF Owns, Has
  <1>4. BusyIsExclusive'
    BY <1>3, SameOwners, Zenon
  <1>5. QueuedIsOwned'
    <2>1. \A q \in Procs : pc[q] \in Waits => pc'[q] \in Waits /\ cur'[q] = cur[q]
      BY <1>1 DEF IInv, TypeOK, Waits
    <2> QED BY <2>1, SameWaiters, Zenon
  <1>6. DirtyInv'
    BY <1>1, Frame, Zenon DEF IInv, TypeOK, DirtyInv, InDriver
  <1>7. CallInv'
    BY <1>3, Frame DEF IInv, TypeOK, CallInv
  <1>8. OwnInv'
    BY <1>3, Frame, Zenon DEF IInv, OwnInv
  <1> QED BY <1>2, <1>4, <1>5, <1>6, <1>7, <1>8, Frame, Zenon DEF IInv

(* bget recycles a buffer that is not busy.                                 *)
LEMMA BgetFreshInv ==
  ASSUME IInv, NEW p \in Procs, BgetFresh(p)
  PROVE  IInv'
  <1> USE DEF BgetFresh, drive
  <1>1. PICK b \in Bufs : /\ "B_BUSY" \notin flags[b]
                          /\ blk' = [blk EXCEPT ![b] = want[p]]
                          /\ flags' = [flags EXCEPT ![b] = {"B_BUSY"}]
                          /\ cur' = [cur EXCEPT ![p] = b]
    BY Zenon DEF Victim, Recycle
  <1>2. want[p] \in Blocks /\ \A x \in Bufs : blk[x] # want[p]
    BY Zenon DEF IInv, CallInv, Cached
  <1>3. TypeOK'
    BY <1>1, Zenon DEF IInv, TypeOK
  <1>4. \A q \in Procs, x \in Bufs : /\ Owns(q, x)' <=> Owns(q, x) \/ (q = p /\ x = b)
                                     /\ Has(q, x)' <=> Has(q, x)
    BY <1>1 DEF IInv, TypeOK, Owns, Has
  <1>5. (\A q \in Procs : ~Owns(q, b) /\ ~Has(q, b)) /\ ~Queued(b)
    BY <1>1, NotBusy, Zenon
  <1>6. /\ \A x \in Bufs : Queued(x)' <=> Queued(x)
        /\ \A x \in Bufs \ {b} : (Clean(x)' <=> Clean(x)) /\ flags'[x] = flags[x] /\ blk'[x] = blk[x]
        /\ ~Clean(b)' /\ flags'[b] = {"B_BUSY"} /\ blk'[b] = want[p]
    <2>1. /\ \A x \in Bufs \ {b} : flags'[x] = flags[x] /\ blk'[x] = blk[x]
          /\ flags'[b] = {"B_BUSY"} /\ blk'[b] = want[p]
      BY <1>1 DEF IInv, TypeOK
    <2> QED BY <2>1 DEF Queued, Clean
  <1>7. BusyIsExclusive'
    BY <1>4, <1>5, <1>6 DEF IInv, BusyIsExclusive
  <1>8. QueuedIsOwned'
    BY <1>1, <1>6, Zenon DEF IInv, TypeOK, QueuedIsOwned
  <1>9. DirtyInv'
    <2>1. ASSUME NEW x \in Bufs, "B_DIRTY" \in flags[x] PROVE \E q \in Procs : pc'[q] \in InDriver /\ cur'[q] = x
      BY <1>1, <2>1, Zenon DEF IInv, TypeOK, DirtyInv, InDriver
    <2> QED BY <1>6, <2>1 DEF IInv, DirtyInv
  <1>10. CallInv'
    BY SMTT(20), <1>1, <1>4, <1>5, <1>6 DEF IInv, TypeOK, CallInv
  <1>11. OwnInv'
    BY <1>2, <1>4, <1>5, <1>6 DEF IInv, OwnInv
  <1>12. OneBufferPerBlock' /\ IntrInv'
    <2>1. IntrInv'
      BY Zenon DEF IInv, IntrInv
    <2>2. OneBufferPerBlock
      BY Zenon DEF IInv
    <2>3. \A x \in Bufs \ {b} : blk'[x] = blk[x]
      BY <1>6, Zenon
    <2>4. blk'[b] = want[p]
      BY <1>6, Zenon
    <2> HIDE DEF BgetFresh
    <2> QED BY <1>2, <2>1, <2>2, <2>3, <2>4 DEF OneBufferPerBlock
  <1>13. DriveInv'
    <2>1. idequeue # <<>> => idequeue[1] \in Bufs \ {b}
      <3>1. idequeue \in Seq(Bufs)
        BY Zenon DEF IInv, TypeOK
      <3> HIDE DEF BgetFresh
      <3> QED BY <1>5, <3>1, FirstOf DEF Queued
    <2> QED BY <1>6, <2>1, Zenon DEF IInv, DriveInv
  <1>14. ValueInv'
    <2>1. ValueInv /\ UNCHANGED data /\ \A k : DriveVal(k)' = DriveVal(k)
      BY Zenon DEF IInv, DriveVal
    <2> HIDE DEF BgetFresh
    <2> QED BY <1>6, <2>1, Zenon DEF ValueInv
  <1> QED BY <1>3, <1>7, <1>8, <1>9, <1>10, <1>11, <1>12, <1>13, <1>14, Zenon DEF IInv

(* bget has no buffer left.                                                 *)
LEMMA BgetPanicInv ==
  ASSUME IInv, NEW p \in Procs, BgetPanic(p)
  PROVE  IInv'
  <1> USE DEF BgetPanic, cache, drive, calls
  <1>1. TypeOK'
    BY Zenon DEF IInv, TypeOK
  <1>2. \A q \in Procs, x \in Bufs : (Owns(q, x)' <=> Owns(q, x)) /\ (Has(q, x)' <=> Has(q, x))
    BY Zenon DEF Owns, Has
  <1>3. BusyIsExclusive' /\ QueuedIsOwned'
    BY <1>2, Frame, Zenon DEF IInv, BusyIsExclusive, QueuedIsOwned
  <1>4. DirtyInv' /\ CallInv' /\ OwnInv'
    BY <1>2, Frame, Zenon DEF IInv, TypeOK, DirtyInv, CallInv, OwnInv
  <1> QED BY <1>1, <1>3, <1>4, Frame, Zenon DEF IInv

(* bread returns a valid buffer, or has it read.                            *)
LEMMA BreadCheckInv ==
  ASSUME IInv, NEW p \in Procs, BreadCheck(p)
  PROVE  IInv'
  <1> USE DEF BreadCheck, cache, drive
  <1>1. cur[p] \in Bufs /\ held[p] \in Seq(Bufs) /\ Owns(p, cur[p]) /\ ~Has(p, cur[p]) /\ ~Queued(cur[p])
    <2>1. cur[p] \in Bufs /\ held[p] \in Seq(Bufs) /\ Owns(p, cur[p]) /\ ~Has(p, cur[p])
      BY Zenon DEF IInv, TypeOK, CallInv, Owns
    <2> QED BY <2>1, QueuedOwner, Zenon DEF Waits
  <1>2. CASE "B_VALID" \in flags[cur[p]]
    <2>1. pc' = [pc EXCEPT ![p] = "run"] /\ held' = [held EXCEPT ![p] = Append(@, cur[p])]
      BY <1>2, Zenon
    <2>2. /\ Append(held[p], cur[p]) \in Seq(Bufs)
          /\ Distinct(Append(held[p], cur[p]))
          /\ \A x : In(x, Append(held[p], cur[p])) <=> In(x, held[p]) \/ x = cur[p]
      BY <1>1, AppendIn DEF IInv, CallInv, Has
    <2>3. TypeOK'
      BY <2>1, <2>2, Zenon DEF IInv, TypeOK
    <2>4. \A q \in Procs, x \in Bufs : /\ Owns(q, x)' <=> Owns(q, x)
                                       /\ Has(q, x)' <=> Has(q, x) \/ (q = p /\ x = cur[p])
      BY <2>1, <2>2, Zenon DEF IInv, TypeOK, Owns, Has
    <2>5. BusyIsExclusive'
      BY <2>4, SameOwners, Zenon
    <2>6. QueuedIsOwned'
      <3>1. \A q \in Procs : pc[q] \in Waits => pc'[q] \in Waits /\ cur'[q] = cur[q]
        BY <2>1 DEF IInv, TypeOK, Waits
      <3> QED BY <3>1, SameWaiters, Zenon
    <2>7. DirtyInv'
      BY <2>1, Frame DEF IInv, DirtyInv, InDriver
    <2>8. CallInv'
      BY <2>1, <2>2, <2>4, Frame DEF IInv, TypeOK, CallInv
    <2>9. OwnInv'
      BY <1>1, <1>2, <2>4, Frame, Zenon DEF IInv, OwnInv
    <2> QED BY <2>3, <2>5, <2>6, <2>7, <2>8, <2>9, Frame, Zenon DEF IInv
  <1>3. CASE "B_VALID" \notin flags[cur[p]]
    <2>1. pc' = [pc EXCEPT ![p] = "iderw"] /\ held' = held
      BY <1>3, Zenon
    <2>2. TypeOK'
      BY <2>1, Zenon DEF IInv, TypeOK
    <2>3. \A q \in Procs, x \in Bufs : (Owns(q, x)' <=> Owns(q, x)) /\ (Has(q, x)' <=> Has(q, x))
      BY <2>1, Zenon DEF IInv, TypeOK, Owns, Has
    <2>4. BusyIsExclusive'
      BY <2>3, SameOwners, Zenon
    <2>5. QueuedIsOwned'
      <3>1. \A q \in Procs : pc[q] \in Waits => pc'[q] \in Waits /\ cur'[q] = cur[q]
        BY <2>1 DEF IInv, TypeOK, Waits
      <3> QED BY <3>1, SameWaiters, Zenon
    <2>6. DirtyInv'
      BY <2>1, Frame DEF IInv, DirtyInv, InDriver
    <2>7. ~Clean(cur[p])
      BY <1>3, Zenon DEF Clean
    <2>8. CallInv'
      BY <2>1, <2>3, <2>7, Frame, Zenon DEF IInv, TypeOK, CallInv
    <2>9. OwnInv'
      BY <2>3, Frame, Zenon DEF IInv, OwnInv
    <2> QED BY <2>2, <2>4, <2>5, <2>6, <2>8, <2>9, Frame, Zenon DEF IInv
  <1> QED BY <1>2, <1>3, Zenon

(* The owner changes a buffer and starts bwrite.                            *)
LEMMA bwriteInv ==
  ASSUME IInv, NEW p \in Procs, NEW v \in Vals, bwrite(p, v)
  PROVE  IInv'
  <1>1. PICK b \in Bufs : b = Top(p) /\ Has(p, b)
    <2>1. held[p] \in Seq(Bufs) /\ held[p] # <<>> /\ Distinct(held[p])
      BY Zenon DEF IInv, TypeOK, CallInv, bwrite
    <2> QED BY <2>1, FrontIn, Zenon DEF Top, Has
  <1>2. /\ data' = [data EXCEPT ![b] = v] /\ flags' = [flags EXCEPT ![b] = @ \cup {"B_DIRTY"}]
        /\ cur' = [cur EXCEPT ![p] = b] /\ ops' = [ops EXCEPT ![p] = @ + 1]
        /\ pc[p] = "run" /\ pc' = [pc EXCEPT ![p] = "iderw"] /\ panicked' = ("B_BUSY" \notin flags[b])
        /\ ops[p] < MaxOps /\ UNCHANGED <<lru, blk, idequeue, ide, disk, intr, want, held, spurious>>
    BY <1>1, Zenon DEF bwrite, drive
  <1>3. TypeOK'
    <2>1. panicked' \in BOOLEAN
      BY <1>2, Zenon
    <2> QED BY <1>2, BufCacheAssumption DEF IInv, TypeOK
  <1>4. \A q \in Procs, x \in Bufs : (Owns(q, x)' <=> Owns(q, x)) /\ (Has(q, x)' <=> Has(q, x))
    BY <1>1, <1>2, Zenon DEF IInv, TypeOK, Owns, Has
  <1>5. ~Queued(b)
    BY <1>1, <1>2, QueuedOwner, Zenon DEF Owns, Waits
  <1>6. /\ \A x \in Bufs : Queued(x)' <=> Queued(x)
        /\ \A x \in Bufs \ {b} : (Clean(x)' <=> Clean(x)) /\ flags'[x] = flags[x] /\ data'[x] = data[x]
        /\ ~Clean(b)' /\ flags'[b] = flags[b] \cup {"B_DIRTY"}
    <2>1. /\ flags'[b] = flags[b] \cup {"B_DIRTY"}
          /\ \A x \in Bufs \ {b} : flags'[x] = flags[x] /\ data'[x] = data[x]
      BY <1>2, Zenon DEF IInv, TypeOK
    <2> QED BY <1>2, <2>1 DEF Queued, Clean
  <1>7. BusyIsExclusive'
    BY <1>4, <1>6 DEF IInv, BusyIsExclusive
  <1>8. QueuedIsOwned'
    BY <1>2, <1>6, Zenon DEF IInv, TypeOK, QueuedIsOwned
  <1>9. DirtyInv'
    <2>1. pc'[p] \in InDriver /\ cur'[p] = b
      BY <1>2, Zenon DEF IInv, TypeOK, InDriver
    <2>2. ASSUME NEW x \in Bufs, "B_DIRTY" \in flags[x] PROVE \E q \in Procs : pc'[q] \in InDriver /\ cur'[q] = x
      <3>1. PICK q \in Procs : pc[q] \in InDriver /\ cur[q] = x
        BY <2>2, Zenon DEF IInv, DirtyInv
      <3>2. q # p
        BY <1>2, <3>1, Zenon DEF InDriver
      <3> QED BY <1>2, <3>1, <3>2, Zenon DEF IInv, TypeOK
    <2> QED BY <1>6, <2>1, <2>2, Zenon DEF IInv, DirtyInv
  <1>10. CallInv'
    <2>1. ASSUME NEW q \in Procs \ {p} PROVE pc'[q] = pc[q] /\ cur'[q] = cur[q] /\ cur[q] \in Bufs
      BY <1>2, Zenon DEF IInv, TypeOK
    <2>2. pc'[p] = "iderw" /\ cur'[p] = b
      BY <1>2, Zenon DEF IInv, TypeOK
    <2> QED BY <1>2, <1>4, <1>6, <2>1, <2>2 DEF IInv, CallInv
  <1>11. OwnInv'
    BY <1>2, <1>4, <1>6, Zenon DEF IInv, OwnInv
  <1>12. OneBufferPerBlock' /\ IntrInv'
    BY <1>2, Zenon DEF IInv, OneBufferPerBlock, IntrInv
  <1>13. DriveInv'
    <2>1. idequeue # <<>> => idequeue[1] \in Bufs \ {b}
      <3>1. idequeue \in Seq(Bufs)
        BY Zenon DEF IInv, TypeOK
      <3> HIDE DEF bwrite
      <3> QED BY <1>5, <3>1, FirstOf DEF Queued
    <2> QED BY <1>2, <2>1 DEF IInv, DriveInv
  <1>14. ValueInv'
    <2>1. \A k : DriveVal(k)' = DriveVal(k)
      BY <1>2, Zenon DEF DriveVal
    <2> QED BY <1>2, <1>6, <2>1, Zenon DEF IInv, ValueInv
  <1> QED BY <1>3, <1>7, <1>8, <1>9, <1>10, <1>11, <1>12, <1>13, <1>14, Zenon DEF IInv

(* iderw queues a request, and starts the drive when it is alone.           *)
LEMMA iderwInv ==
  ASSUME IInv, NEW p \in Procs, iderw(p)
  PROVE  IInv'
  <1> USE DEF iderw, cache
  <1> DEFINE b == cur[p]
  <1>1. b \in Bufs /\ Owns(p, b) /\ blk[b] \in Blocks /\ ~Clean(b) /\ (Has(p, b) => "B_DIRTY" \in flags[b])
    BY Zenon DEF IInv, TypeOK, Owns, CallInv, OwnInv
  <1>2. ~Queued(b)
    BY <1>1, QueuedOwner, Zenon DEF Waits
  <1>3. /\ idequeue' \in Seq(Bufs) /\ idequeue' # <<>> /\ Distinct(idequeue')
        /\ \A x : In(x, idequeue') <=> In(x, idequeue) \/ x = b
        /\ idequeue'[1] = IF idequeue = <<>> THEN b ELSE idequeue[1]
    <2>1. idequeue \in Seq(Bufs) /\ Distinct(idequeue) /\ ~In(b, idequeue) /\ idequeue' = Append(idequeue, b)
      BY <1>2, Zenon DEF IInv, TypeOK, QueuedIsOwned, Queued, Enqueue
    <2> QED BY <1>1, <2>1, AppendIn
  <1>4. TypeOK'
    <2>1. panicked' \in BOOLEAN
      BY Zenon DEF IderwPanics
    <2>2. ide' \in [st : {"ready", "busy"}, op : {"none", "read", "write"},
                    blk : Blocks \cup {NoBlock}, data : Vals, err : BOOLEAN]
      <3>1. CASE idequeue = <<>>
        <4>1. ide' = [st |-> "busy", op |-> IF "B_DIRTY" \in flags[b] THEN "write" ELSE "read",
                      blk |-> blk[b], data |-> data[b], err |-> FALSE]
          BY <3>1, Zenon DEF idestart
        <4>2. data[b] \in Vals
          BY Zenon DEF IInv, TypeOK
        <4> QED BY <1>1, <4>1, <4>2, Zenon
      <3> QED BY <3>1, Zenon DEF IInv, TypeOK
    <2> QED BY <1>3, <2>1, <2>2, Zenon DEF IInv, TypeOK
  <1>5. \A q \in Procs, x \in Bufs : (Owns(q, x)' <=> Owns(q, x)) /\ (Has(q, x)' <=> Has(q, x))
    BY Zenon DEF IInv, TypeOK, Owns, Has
  <1>6. \A x \in Bufs : (Queued(x)' <=> Queued(x) \/ x = b) /\ (Clean(x)' <=> Clean(x))
    BY <1>3, Zenon DEF Queued, Clean
  <1>7. OneBufferPerBlock' /\ BusyIsExclusive'
    BY <1>5, Zenon DEF IInv, OneBufferPerBlock, BusyIsExclusive
  <1>8. QueuedIsOwned'
    <2>1. \A q \in Procs : pc[q] \in Waits => pc'[q] = pc[q]
      BY DEF IInv, TypeOK, Waits
    <2>2. pc'[p] \in Waits /\ cur' = cur
      BY DEF IInv, TypeOK, Waits
    <2> HIDE DEF iderw
    <2> QED BY <1>3, <1>6, <2>1, <2>2 DEF IInv, QueuedIsOwned, Waits
  <1>9. DirtyInv'
    BY <1>1, <1>6 DEF IInv, DirtyInv, InDriver
  <1>10. CallInv'
    BY <1>5, <1>6 DEF IInv, TypeOK, CallInv
  <1>11. OwnInv'
    <2>1. ASSUME NEW q \in Procs, Has(q, b) PROVE q = p
      BY <1>1, <2>1, Zenon DEF IInv, BusyIsExclusive, Owns
    <2> QED BY <1>1, <1>5, <1>6, <2>1, Zenon DEF IInv, OwnInv
  <1>12. CASE idequeue = <<>>
    <2>1. ide.st = "ready" /\ ide' = [st |-> "busy", op |-> IF "B_DIRTY" \in flags[b] THEN "write" ELSE "read",
                                      blk |-> blk[b], data |-> data[b], err |-> FALSE]
      BY <1>12, Zenon DEF idestart, idewait
    <2>2. DriveInv' /\ IntrInv'
      BY <1>1, <1>3, <2>1, Zenon DEF IInv, DriveInv, IntrInv
    <2>3. ValueInv'
      BY <1>1, <1>6, <2>1, Zenon DEF IInv, ValueInv, DriveVal, OneBufferPerBlock
    <2> QED BY <1>4, <1>7, <1>8, <1>9, <1>10, <1>11, <2>2, <2>3, Zenon DEF IInv
  <1>13. CASE idequeue # <<>>
    <2>1. ide' = ide
      BY <1>13, Zenon
    <2>2. DriveInv' /\ IntrInv'
      BY <1>3, <1>13, Zenon DEF IInv, DriveInv, IntrInv
    <2>3. ValueInv'
      BY <1>6, <2>1, Zenon DEF IInv, ValueInv, DriveVal
    <2> QED BY <1>4, <1>7, <1>8, <1>9, <1>10, <1>11, <2>2, <2>3, Zenon DEF IInv
  <1> QED BY <1>12, <1>13, Zenon

(* iderw finds its buffer done, or sleeps again.                            *)
LEMMA IderwWaitInv ==
  ASSUME IInv, NEW p \in Procs, IderwWait(p)
  PROVE  IInv'
  <1> USE DEF IderwWait, cache, drive
  <1>1. cur[p] \in Bufs /\ held[p] \in Seq(Bufs) /\ Distinct(held[p]) /\ Owns(p, cur[p])
    BY Zenon DEF IInv, TypeOK, CallInv, Owns
  <1>2. CASE Clean(cur[p])
    <2>1. /\ held' \in [Procs -> Seq(Bufs)] /\ \A q \in Procs : Distinct(held'[q])
          /\ \A q \in Procs, x \in Bufs : Has(q, x)' <=> Has(q, x) \/ (q = p /\ x = cur[p])
      <3>1. CASE Has(p, cur[p])
        BY <3>1, Zenon DEF IInv, TypeOK, CallInv, Has
      <3>2. CASE ~Has(p, cur[p])
        <4>1. held' = [held EXCEPT ![p] = Append(@, cur[p])]
          BY <1>2, <3>2
        <4>2. /\ Append(held[p], cur[p]) \in Seq(Bufs)
              /\ Distinct(Append(held[p], cur[p]))
              /\ \A x : In(x, Append(held[p], cur[p])) <=> In(x, held[p]) \/ x = cur[p]
          <5> HIDE DEF IderwWait
          <5>1. ~In(cur[p], held[p])
            BY <3>2, Zenon DEF Has
          <5> QED BY <1>1, <5>1, AppendIn
        <4>3. held \in [Procs -> Seq(Bufs)] /\ \A q \in Procs : Distinct(held[q])
          BY Zenon DEF IInv, TypeOK, CallInv
        <4> QED BY <4>1, <4>2, <4>3, Zenon DEF Has
      <3> QED BY <3>1, <3>2, Zenon
    <2>2. pc' = [pc EXCEPT ![p] = "run"]
      BY <1>2, Zenon
    <2>3. "B_VALID" \in flags[cur[p]] /\ "B_DIRTY" \notin flags[cur[p]] /\ ~Queued(cur[p])
      BY <1>1, <1>2, Zenon DEF Clean, IInv, DirtyInv
    <2>4. TypeOK'
      BY <2>1, <2>2, Zenon DEF IInv, TypeOK
    <2>5. \A q \in Procs, x \in Bufs : Owns(q, x)' <=> Owns(q, x)
      BY <2>1, <2>2 DEF Owns
    <2>6. BusyIsExclusive'
      BY <2>5, SameOwners, Zenon
    <2>7. QueuedIsOwned'
      BY <2>2, <2>3, Frame DEF IInv, QueuedIsOwned
    <2>8. DirtyInv'
      BY <2>2, <2>3, Frame DEF IInv, DirtyInv
    <2>9. CallInv'
      BY SMTT(20), <2>1, <2>2, Frame DEF IInv, TypeOK, CallInv
    <2>10. OwnInv'
      BY <2>1, <2>3, <2>5, Frame, Zenon DEF IInv, OwnInv
    <2> QED BY <2>4, <2>6, <2>7, <2>8, <2>9, <2>10, Frame, Zenon DEF IInv
  <1>3. CASE ~Clean(cur[p])
    <2>1. pc' = [pc EXCEPT ![p] = "iosleep"] /\ held' = held
      BY <1>3, Zenon
    <2>2. TypeOK'
      BY <2>1, Zenon DEF IInv, TypeOK
    <2>3. \A q \in Procs, x \in Bufs : (Owns(q, x)' <=> Owns(q, x)) /\ (Has(q, x)' <=> Has(q, x))
      BY <2>1, Zenon DEF IInv, TypeOK, Owns, Has
    <2>4. BusyIsExclusive'
      BY <2>3, SameOwners, Zenon
    <2>5. QueuedIsOwned'
      <3>1. \A q \in Procs : pc[q] \in Waits => pc'[q] \in Waits /\ cur'[q] = cur[q]
        BY <2>1 DEF IInv, TypeOK, Waits
      <3> QED BY <3>1, SameWaiters, Zenon
    <2>6. DirtyInv'
      BY <2>1, Frame DEF IInv, DirtyInv, InDriver
    <2>7. CallInv'
      BY <2>1, <2>3, Frame, Zenon DEF IInv, TypeOK, CallInv
    <2>8. OwnInv'
      BY <2>3, Frame, Zenon DEF IInv, OwnInv
    <2> QED BY <2>2, <2>4, <2>5, <2>6, <2>7, <2>8, Frame, Zenon DEF IInv
  <1> QED BY <1>2, <1>3, Zenon

(* brelse gives up a buffer and wakes those that wait for it in bget: the   *)
(* owner is not in iderw, so nobody waits for the disk.                     *)
LEMMA brelseInv ==
  ASSUME IInv, NEW p \in Procs, brelse(p)
  PROVE  IInv'
  <1>1. PICK b \in Bufs : b = Top(p) /\ Has(p, b)
    <2>1. held[p] \in Seq(Bufs) /\ held[p] # <<>> /\ Distinct(held[p])
      BY Zenon DEF IInv, TypeOK, CallInv, brelse
    <2> QED BY <2>1, FrontIn, Zenon DEF Top, Has
  <1>2. /\ flags' = [flags EXCEPT ![b] = @ \ {"B_BUSY"}] /\ MoveToFront(b) /\ wakeup(b)
        /\ held' = [held EXCEPT ![p] = SubSeq(@, 1, Len(@) - 1)]
        /\ pc[p] = "run" /\ panicked' = ("B_BUSY" \notin flags[b])
        /\ UNCHANGED <<blk, data, idequeue, ide, disk, intr, cur, want, ops, spurious>>
    BY <1>1, Zenon DEF brelse, drive
  <1>3. /\ held' \in [Procs -> Seq(Bufs)] /\ \A q \in Procs : Distinct(held'[q])
        /\ \A q \in Procs, x \in Bufs : Has(q, x)' <=> Has(q, x) /\ ~(q = p /\ x = b)
    <2>1. held[p] \in Seq(Bufs) /\ held[p] # <<>> /\ Distinct(held[p])
      BY Zenon DEF IInv, TypeOK, CallInv, brelse
    <2>2. /\ SubSeq(held[p], 1, Len(held[p]) - 1) \in Seq(Bufs) /\ Distinct(SubSeq(held[p], 1, Len(held[p]) - 1))
          /\ \A y : In(y, SubSeq(held[p], 1, Len(held[p]) - 1)) <=> In(y, held[p]) /\ y # b
      BY <1>1, <2>1, FrontIn, Zenon DEF Top
    <2> QED BY <1>2, <2>2, Zenon DEF IInv, TypeOK, CallInv, Has
  <1>4. Owns(p, b) /\ ~Queued(b) /\ "B_DIRTY" \notin flags[b] /\ \A q \in Procs : Owns(q, b) => q = p
    <2>1. Owns(p, b)
      BY <1>1, Zenon DEF Owns
    <2>2. ~Queued(b)
      BY <1>2, <2>1, QueuedOwner, Zenon DEF Waits
    <2>3. "B_DIRTY" \notin flags[b]
      BY <1>2, <2>1, DirtyOwner, Zenon DEF InDriver
    <2> QED BY <2>1, <2>2, <2>3, Zenon DEF IInv, BusyIsExclusive
  <1>5. \A q \in Procs : pc'[q] = IF cur[q] = b /\ pc[q] = "bgetsleep" THEN "bget" ELSE pc[q]
    <2>1. \A q \in Procs : cur[q] = b => pc[q] # "iosleep"
      BY <1>2, <1>4, Zenon DEF Owns
    <2> QED BY <1>2, <2>1, Zenon DEF wakeup
  <1>6. TypeOK'
    <2>1. panicked' \in BOOLEAN
      BY <1>2, Zenon
    <2>2. lru' \in [1..NBUF -> Bufs]
      BY <1>2, BufCacheAssumption DEF MoveToFront, NBUF, IInv, TypeOK
    <2>3. pc' \in [Procs -> {"run", "bget", "bgetsleep", "bread", "iderw", "iosleep", "iowait"}]
      BY <1>2, Zenon DEF wakeup, IInv, TypeOK
    <2> QED BY <1>2, <1>3, <2>2, <2>3, Zenon DEF IInv, TypeOK
  <1>7. \A q \in Procs, x \in Bufs : Owns(q, x)' <=> Owns(q, x) /\ x # b
    BY <1>2, <1>3, <1>4, <1>5, Zenon DEF Owns
  <1>8. /\ \A x \in Bufs : /\ Queued(x)' <=> Queued(x)
                           /\ Clean(x)' <=> Clean(x)
                           /\ "B_DIRTY" \in flags'[x] <=> "B_DIRTY" \in flags[x]
                           /\ "B_VALID" \in flags'[x] <=> "B_VALID" \in flags[x]
                           /\ "B_BUSY" \in flags'[x] <=> "B_BUSY" \in flags[x] /\ x # b
    BY <1>2, Zenon DEF IInv, TypeOK, Queued, Clean
  <1>9. BusyIsExclusive'
    BY <1>7, <1>8, Zenon DEF IInv, BusyIsExclusive
  <1>10. QueuedIsOwned'
    BY <1>2, <1>5, <1>8, Zenon DEF IInv, QueuedIsOwned
  <1>11. DirtyInv'
    BY <1>2, <1>5, <1>8, Zenon DEF IInv, DirtyInv, InDriver
  <1>12. CallInv'
    BY <1>2, <1>3, <1>5, <1>8 DEF IInv, TypeOK, CallInv
  <1>13. OwnInv'
    BY <1>2, <1>3, <1>7, <1>8, Zenon DEF IInv, OwnInv
  <1>14. OneBufferPerBlock' /\ IntrInv'
    BY <1>2, Zenon DEF IInv, OneBufferPerBlock, IntrInv
  <1>15. DriveInv'
    <2>1. idequeue # <<>> => idequeue[1] \in Bufs
      BY FirstOf, Zenon DEF IInv, TypeOK
    <2> QED BY <1>2, <1>8, <2>1, Zenon DEF IInv, DriveInv
  <1>16. ValueInv'
    BY <1>2, <1>8, Zenon DEF IInv, ValueInv, DriveVal
  <1> QED BY <1>6, <1>9, <1>10, <1>11, <1>12, <1>13, <1>14, <1>15, <1>16, Zenon DEF IInv

(* The drive finishes its command. Only reads fail.                         *)
LEMMA DriveDoneInv ==
  ASSUME IInv, ReadErrors = FALSE, DriveDone
  PROVE  IInv'
  <1>1. /\ ide.st = "busy" /\ ide.blk \in Blocks /\ ide.op \in {"read", "write"}
        /\ ide' = [ide EXCEPT !.st = "ready", !.err = FALSE,
                              !.data = IF ide.op = "read" THEN disk[ide.blk] ELSE @]
        /\ disk' = IF ide.op = "write" THEN [disk EXCEPT ![ide.blk] = ide.data] ELSE disk
        /\ intr' = TRUE
        /\ UNCHANGED <<lru, blk, flags, data, idequeue, pc, cur, want, held, ops, spurious, panicked>>
    BY Zenon DEF DriveDone, IInv, DriveInv, cache, calls
  <1>2. /\ ide'.st = "ready" /\ ide'.err = FALSE /\ ide'.op = ide.op /\ ide'.blk = ide.blk
        /\ ide'.data = IF ide.op = "read" THEN disk[ide.blk] ELSE ide.data
    BY <1>1, Zenon DEF IInv, TypeOK
  <1>3. TypeOK'
    BY <1>1, Zenon DEF IInv, TypeOK
  <1>4. \A k \in Blocks : DriveVal(k)' = DriveVal(k)
    BY <1>1, Zenon DEF IInv, TypeOK, DriveVal
  <1>5. \A q \in Procs, x \in Bufs : (Owns(q, x)' <=> Owns(q, x)) /\ (Has(q, x)' <=> Has(q, x))
    BY <1>1, Zenon DEF Owns, Has
  <1>6. \A x \in Bufs : (Queued(x)' <=> Queued(x)) /\ (Clean(x)' <=> Clean(x))
    BY <1>1, Zenon DEF Queued, Clean
  <1>7. OneBufferPerBlock' /\ BusyIsExclusive'
    BY <1>1, <1>5, Zenon DEF IInv, OneBufferPerBlock, BusyIsExclusive
  <1>8. QueuedIsOwned' /\ DirtyInv'
    BY <1>1, <1>6, Zenon DEF IInv, QueuedIsOwned, DirtyInv
  <1>9. CallInv'
    BY <1>1, <1>5, <1>6, Zenon DEF IInv, TypeOK, CallInv
  <1>10. OwnInv'
    BY <1>1, <1>5, <1>6, Zenon DEF IInv, OwnInv
  <1>11. DriveInv'
    <2>1. disk'[ide'.blk] = ide'.data
      BY <1>1, Zenon DEF IInv, TypeOK
    <2> QED BY <1>1, <1>2, <2>1, Zenon DEF IInv, DriveInv
  <1>12. ValueInv'
    BY <1>1, <1>4, <1>6, Zenon DEF IInv, TypeOK, ValueInv
  <1>13. IntrInv'
    BY <1>1, <1>2, Zenon DEF IInv, IntrInv
  <1> QED BY <1>3, <1>7, <1>8, <1>9, <1>10, <1>11, <1>12, <1>13, Zenon DEF IInv

(* ideintr finishes the first request, wakes those that wait for its buffer *)
(* and starts the next one.                                                 *)
LEMMA HandleIdeInv ==
  ASSUME IInv, HandleIde, idequeue # <<>>,
         UNCHANGED <<lru, blk, disk, cur, want, held, ops, panicked>>,
         intr' \in BOOLEAN, spurious' \in 0..MaxSpurious, IntrInv'
  PROVE  IInv'
  <1>1. PICK b \in Bufs : b = idequeue[1] /\ b = Head(idequeue) /\ Queued(b)
    BY FirstOf, Zenon DEF IInv, TypeOK, Queued
  <1>2. /\ idequeue' = Tail(idequeue) /\ wakeup(b)
        /\ flags' = [flags EXCEPT ![b] = (@ \cup {"B_VALID"}) \ {"B_DIRTY"}]
        /\ IF "B_DIRTY" \in flags[b] THEN data' = data
           ELSE ide.st = "ready" /\ data' = [data EXCEPT ![b] = ide.data]
    BY <1>1, Zenon DEF HandleIde, Dequeue, ReadSector, Finish, idewait, IInv, DriveInv
  <1>3. /\ idequeue' \in Seq(Bufs) /\ Distinct(idequeue')
        /\ \A x \in Bufs : Queued(x)' <=> Queued(x) /\ x # b
    BY <1>1, <1>2, TailIn DEF IInv, TypeOK, QueuedIsOwned, Queued
  <1>4. PICK p \in Procs : pc[p] \in Waits /\ cur[p] = b
    BY <1>1, Zenon DEF IInv, QueuedIsOwned, Waits
  <1>5. blk[b] \in Blocks /\ \A q \in Procs : Owns(q, b) => q = p
    BY <1>4, Zenon DEF IInv, OwnInv, BusyIsExclusive, Owns, Waits
  <1>6. \A q \in Procs : /\ pc[q] \notin {"bgetsleep", "iosleep"} => pc'[q] = pc[q]
                         /\ pc[q] = "bgetsleep" => pc'[q] \in {"bgetsleep", "bget"}
                         /\ pc[q] = "iosleep" => pc'[q] \in Waits
    BY <1>2, Zenon DEF wakeup, Waits
  <1>7. /\ flags'[b] = (flags[b] \cup {"B_VALID"}) \ {"B_DIRTY"}
        /\ \A x \in Bufs \ {b} : flags'[x] = flags[x] /\ data'[x] = data[x] /\ (Clean(x)' <=> Clean(x))
    BY <1>2 DEF IInv, TypeOK, Clean
  <1>8. \A q \in Procs, x \in Bufs : (Owns(q, x)' <=> Owns(q, x)) /\ (Has(q, x)' <=> Has(q, x))
    BY <1>6, Zenon DEF Owns, Has, Waits
  <1>9. /\ ide.blk = blk[b] /\ data'[b] = ide.data
        /\ ide.st = "ready" => ide.data = disk[blk[b]]
        /\ ide.st = "busy" => ide.op = "write"
    BY <1>1, <1>2, Zenon DEF IInv, TypeOK, DriveInv
  <1>10. data' \in [Bufs -> Vals] /\ pc' \in [Procs -> {"run", "bget", "bgetsleep", "bread", "iderw", "iosleep", "iowait"}]
    BY <1>2, Zenon DEF IInv, TypeOK, wakeup
  <1>11. OneBufferPerBlock' /\ BusyIsExclusive'
    BY <1>7, <1>8, Zenon DEF IInv, OneBufferPerBlock, BusyIsExclusive
  <1>12. QueuedIsOwned'
    BY <1>3, <1>6, Zenon DEF IInv, QueuedIsOwned, Waits
  <1>13. DirtyInv'
    BY <1>3, <1>6, <1>7 DEF IInv, DirtyInv, InDriver, Waits
  <1>14. CallInv'
    <2>1. ASSUME NEW q \in Procs, pc[q] = "iderw" PROVE cur[q] \in Bufs \ {b}
      BY <1>4, <1>5, <2>1, Zenon DEF IInv, TypeOK, Owns, Waits
    <2>2. \A q \in Procs : /\ pc'[q] \in {"bget", "bgetsleep"} => pc[q] \in {"bget", "bgetsleep"}
                           /\ pc'[q] \in {"bread", "iderw"} => pc[q] = pc'[q]
      BY <1>6 DEF Waits
    <2>3. \A q \in Procs : cur[q] \in Bufs
      BY Zenon DEF IInv, TypeOK
    <2> SUFFICES ASSUME NEW q \in Procs
                 PROVE  /\ Distinct(held'[q])
                        /\ pc'[q] \in {"bget", "bgetsleep"} => want'[q] \in Blocks
                        /\ pc'[q] = "bread" => ~Has(q, cur[q])'
                        /\ pc'[q] = "iderw" => ~Clean(cur[q])' /\ (Has(q, cur[q])' => "B_DIRTY" \in flags'[cur'[q]])
      BY Zenon DEF CallInv
    <2>4. held' = held /\ want' = want /\ cur' = cur
      BY Zenon
    <2>5. /\ Distinct(held[q])
          /\ pc[q] \in {"bget", "bgetsleep"} => want[q] \in Blocks
          /\ pc[q] = "bread" => ~Has(q, cur[q])
          /\ pc[q] = "iderw" => ~Clean(cur[q]) /\ (Has(q, cur[q]) => "B_DIRTY" \in flags[cur[q]])
      BY Zenon DEF IInv, CallInv
    <2> QED BY <1>7, <1>8, <2>1, <2>2, <2>3, <2>4, <2>5
  <1>15. OwnInv'
    BY <1>3, <1>7, <1>8, Zenon DEF IInv, OwnInv
  <1>16. CASE idequeue' = <<>>
    <2>1. ide' = ide
      BY <1>2, <1>16, Zenon DEF HandleIde
    <2>2. TypeOK'
      BY <1>2, <1>3, <1>10, <2>1, Zenon DEF IInv, TypeOK
    <2>3. DriveInv'
      BY <1>9, <1>16, <2>1, Zenon DEF IInv, DriveInv
    <2>4. ValueInv'
      <3>1. data'[b] = DriveVal(blk[b])
        BY <1>9, Zenon DEF IInv, TypeOK, DriveVal
      <3> QED BY <1>7, <2>1, <3>1, Zenon DEF IInv, ValueInv, DriveVal
    <2> QED BY <1>11, <1>12, <1>13, <1>14, <1>15, <2>2, <2>3, <2>4, Zenon DEF IInv
  <1>17. CASE idequeue' # <<>>
    <2>1. PICK c \in Bufs \ {b} : c = idequeue'[1] /\ c = Head(Tail(idequeue)) /\ Queued(c)
      BY <1>1, <1>2, <1>17, TailIn, Zenon DEF IInv, TypeOK, QueuedIsOwned, Queued
    <2>2. ide.st = "ready" /\ ide' = [st |-> "busy", op |-> IF "B_DIRTY" \in flags[c] THEN "write" ELSE "read",
                                      blk |-> blk[c], data |-> data[c], err |-> FALSE]
      BY <1>2, <1>17, <2>1, Zenon DEF HandleIde, idestart, idewait
    <2>3. blk[c] \in Blocks /\ data[c] \in Vals /\ ~Clean(c) /\ blk[c] # blk[b]
      <3>1. PICK q \in Procs : pc[q] \in Waits /\ cur[q] = c
        BY <2>1, Zenon DEF IInv, QueuedIsOwned, Waits
      <3>2. Owns(q, c)
        BY <3>1, Zenon DEF Owns, Waits
      <3>3. blk[c] \in Blocks /\ ~Clean(c)
        BY <2>1, <3>2, Zenon DEF IInv, OwnInv, DirtyInv
      <3>4. data[c] \in Vals /\ blk[c] # blk[b]
        BY <1>5, <2>1, BufCacheAssumption, Zenon DEF IInv, TypeOK, OneBufferPerBlock
      <3> QED BY <3>3, <3>4, Zenon
    <2>4. TypeOK'
      <3>1. ide' \in [st : {"ready", "busy"}, op : {"none", "read", "write"},
                      blk : Blocks \cup {NoBlock}, data : Vals, err : BOOLEAN]
        BY <2>2, <2>3, Zenon
      <3> QED BY <1>2, <1>3, <1>10, <3>1, Zenon DEF IInv, TypeOK
    <2>5. DriveInv'
      BY <1>7, <1>17, <2>1, <2>2, <2>3, Zenon DEF DriveInv
    <2>6. ValueInv'
      <3>1. \A k : k # blk[c] => DriveVal(k)' = disk[k] /\ DriveVal(k) = disk[k]
        BY <2>2, Zenon DEF DriveVal
      <3>2. \A x \in Bufs : blk[x] = blk[c] => x = c
        BY <2>3, BufCacheAssumption, Zenon DEF IInv, OneBufferPerBlock
      <3> QED BY <1>7, <1>9, <2>2, <2>3, <3>1, <3>2 DEF IInv, ValueInv
    <2> QED BY <1>11, <1>12, <1>13, <1>14, <1>15, <2>4, <2>5, <2>6, Zenon DEF IInv
  <1> QED BY <1>16, <1>17, Zenon

(* An interrupt of the drive, or one that it raises for no reason, with     *)
(* nothing in the queue or something.                                       *)
LEMMA InterruptInv ==
  ASSUME IInv, ideintr \/ SpuriousIntr
  PROVE  IInv'
  <1>1. /\ HandleIde /\ UNCHANGED <<lru, blk, disk, cur, want, held, ops, panicked>>
        /\ intr' \in BOOLEAN /\ spurious' \in 0..MaxSpurious
    <2>1. intr' \in BOOLEAN
      BY Zenon DEF ideintr, SpuriousIntr, IInv, TypeOK
    <2>2. spurious' \in 0..MaxSpurious
      BY BufCacheAssumption DEF ideintr, SpuriousIntr, IInv, TypeOK
    <2> QED BY <2>1, <2>2, Zenon DEF ideintr, SpuriousIntr
  <1>2. IntrInv'
    <2>1. CASE SpuriousIntr
      BY <2>1 DEF SpuriousIntr, IInv, TypeOK, IntrInv
    <2>2. CASE ideintr /\ idequeue # <<>>
      <3>1. intr' = FALSE /\ spurious' = spurious /\ idequeue' = Tail(idequeue)
            /\ (spurious = 0 => ide.st = "ready")
            /\ IF Tail(idequeue) # <<>> THEN ide'.st = "busy" ELSE ide' = ide
        BY <2>2 DEF ideintr, HandleIde, Dequeue, idestart, IInv, IntrInv
      <3> QED BY <3>1, Zenon DEF IntrInv
    <2>3. CASE ideintr /\ idequeue = <<>>
      BY <2>3, Zenon DEF ideintr, IInv, IntrInv
    <2> QED BY <2>1, <2>2, <2>3, Zenon
  <1>3. CASE idequeue # <<>>
    BY <1>1, <1>2, <1>3, HandleIdeInv, Zenon
  <1>4. CASE idequeue = <<>>
    <2>1. UNCHANGED <<lru, blk, flags, data, idequeue, ide, disk, pc, cur, want, held, ops, panicked>>
      BY <1>1, <1>4, Zenon DEF HandleIde
    <2> QED BY <1>1, <1>2, <2>1, Still, Zenon DEF IInv
  <1> QED BY <1>3, <1>4, Zenon

(* binit and ideinit: nothing is cached, queued or in use.                  *)
LEMMA InitInv == Init => IInv
  <1> SUFFICES ASSUME Init PROVE IInv
    OBVIOUS
  <1> USE BufCacheAssumption DEF Init, binit
  <1>1. TypeOK
    <2>1. <<>> \in Seq(Bufs)
      OBVIOUS
    <2>2. 0 \in 0..MaxOps /\ 0 \in 0..MaxSpurious
      OBVIOUS
    <2> QED BY <2>1, <2>2, Zenon DEF TypeOK
  <1>2. (\A b \in Bufs : ~Queued(b) /\ ~Clean(b)) /\ (\A p \in Procs, b \in Bufs : ~Has(p, b) /\ ~Owns(p, b))
    BY EmptyIn, Zenon DEF Queued, Has, Owns, Clean
  <1>3. OneBufferPerBlock /\ BusyIsExclusive /\ QueuedIsOwned
    BY <1>2, EmptyIn, Zenon DEF OneBufferPerBlock, BusyIsExclusive, QueuedIsOwned
  <1>4. CallInv /\ OwnInv /\ DirtyInv
    BY <1>2, EmptyIn, Zenon DEF CallInv, OwnInv, DirtyInv
  <1>5. DriveInv /\ ValueInv /\ IntrInv
    BY Zenon DEF DriveInv, ValueInv, IntrInv
  <1> QED BY <1>1, <1>3, <1>4, <1>5, Zenon DEF IInv

(* Every step preserves the invariant, as long as reads do not fail.        *)
LEMMA NextInv ==
  ASSUME ReadErrors = FALSE, IInv, [Next]_vars
  PROVE  IInv'
  <1>1. CASE UNCHANGED vars
    <2>1. UNCHANGED <<lru, blk, flags, data, idequeue, ide, disk, intr, pc, cur, want, held, ops, spurious, panicked>>
      BY <1>1, Zenon DEF vars, cache, drive, calls
    <2>2. intr' \in BOOLEAN /\ spurious' \in 0..MaxSpurious /\ IntrInv'
      BY <2>1 DEF IInv, TypeOK, IntrInv
    <2> QED BY <2>1, <2>2, Still, Zenon DEF IInv
  <1>2. ASSUME NEW p \in Procs, ProcStep(p)
        PROVE  IInv'
    BY <1>2, breadInv, BgetHitInv, BgetSleepInv, BgetFreshInv, BgetPanicInv, BreadCheckInv, bwriteInv,
       iderwInv, IderwWaitInv, brelseInv, Zenon DEF ProcStep
  <1> QED BY <1>1, <1>2, DriveDoneInv, InterruptInv, Zenon DEF Next, Finished, Halted

(***************************************************************************)
(* The invariant holds in every state, for any number of processes,        *)
(* buffers and blocks, with spurious interrupts, as long as the drive      *)
(* reports no read errors.                                                 *)
(***************************************************************************)
THEOREM CacheInvariance ==
  ASSUME ReadErrors = FALSE
  PROVE  Spec => []IInv
  <1>1. IInv /\ [Next]_vars => IInv'
    BY NextInv, Zenon
  <1> QED BY <1>1, InitInv, PTL DEF Spec

(***************************************************************************)
(* A block is never in two buffers, a busy buffer has one owner, the       *)
(* driver only changes buffers whose owner waits for it in iderw, and a    *)
(* clean buffer agrees with the disk: what bwrite wrote is on the disk     *)
(* when it returns.                                                        *)
(***************************************************************************)
THEOREM BuffersStaySound ==
  ASSUME ReadErrors = FALSE
  PROVE  Spec => []BuffersSound
  <1>1. IInv => WriteThrough
    <2> SUFFICES ASSUME IInv, spurious = 0, NEW b \in Bufs, Clean(b), blk[b] # NoBlock
                 PROVE  data[b] = disk[blk[b]]
      BY Zenon DEF WriteThrough
    <2>1. data[b] = DriveVal(blk[b])
      BY Zenon DEF IInv, ValueInv
    <2>2. ~(ide.st = "busy" /\ ide.op = "write" /\ ide.blk = blk[b])
      <3> SUFFICES ASSUME ide.st = "busy", ide.blk = blk[b] PROVE FALSE
        OBVIOUS
      <3>1. idequeue # <<>> /\ idequeue[1] \in Bufs /\ Queued(idequeue[1]) /\ blk[idequeue[1]] = blk[b]
        BY FirstOf, Zenon DEF IInv, TypeOK, IntrInv, DriveInv, Queued
      <3> QED BY <3>1, Zenon DEF IInv, OneBufferPerBlock, DirtyInv
    <2> QED BY <2>1, <2>2, Zenon DEF DriveVal
  <1>2. IInv => BuffersSound
    BY <1>1, Zenon DEF IInv, BuffersSound
  <1> QED BY <1>2, CacheInvariance, PTL

-----------------------------------------------------------------------------
(* What the only buffer of a block says of it: its contents are the value   *)
(* of the block as long as it is dirty, and its holder is the one who sees  *)
(* the block.                                                               *)
LEMMA BlockOf ==
  IInv => \A b \in Bufs : blk[b] \in Blocks =>
    /\ StoreVal(blk[b]) = IF "B_DIRTY" \in flags[b] THEN data[b] ELSE DriveVal(blk[b])
    /\ \A p \in Procs : Has(p, b) => OwnerVal(blk[b]) = p /\ ViewVal(blk[b]) = data[b]
    /\ (\A p \in Procs : ~Has(p, b)) => OwnerVal(blk[b]) = NoProc /\ ViewVal(blk[b]) = NoVal
  <1> SUFFICES ASSUME IInv, NEW b \in Bufs, blk[b] \in Blocks
               PROVE  /\ StoreVal(blk[b]) = IF "B_DIRTY" \in flags[b] THEN data[b] ELSE DriveVal(blk[b])
                      /\ \A p \in Procs : Has(p, b) => OwnerVal(blk[b]) = p /\ ViewVal(blk[b]) = data[b]
                      /\ (\A p \in Procs : ~Has(p, b)) => OwnerVal(blk[b]) = NoProc /\ ViewVal(blk[b]) = NoVal
    BY Zenon
  <1>1. Cached(blk[b]) = {b}
    BY BufCacheAssumption, Zenon DEF Cached, IInv, OneBufferPerBlock
  <1>2. StoreVal(blk[b]) = IF "B_DIRTY" \in flags[b] THEN data[b] ELSE DriveVal(blk[b])
    BY <1>1 DEF StoreVal, Dirty
  <1>3. (CHOOSE x \in Cached(blk[b]) : TRUE) = b
    BY <1>1, Zenon
  <1>4. \A p \in Procs : Holder(p, blk[b]) <=> Has(p, b)
    BY <1>1, Zenon DEF Holder
  <1>5. ASSUME NEW p \in Procs, Has(p, b) PROVE OwnerVal(blk[b]) = p
    <2>1. \A q \in Procs : Has(q, b) => q = p
      BY <1>5, Zenon DEF IInv, BusyIsExclusive, Owns
    <2> QED BY <1>4, <1>5, <2>1, Zenon DEF OwnerVal
  <1>6. (\A p \in Procs : ~Has(p, b)) => OwnerVal(blk[b]) = NoProc
    BY <1>4, Zenon DEF OwnerVal
  <1> QED BY <1>2, <1>3, <1>5, <1>6, NoProcAssumption, Zenon DEF ViewVal

(* A block that is in no buffer.                                            *)
LEMMA Uncached ==
  \A k : Cached(k) = {} => StoreVal(k) = DriveVal(k) /\ OwnerVal(k) = NoProc /\ ViewVal(k) = NoVal
  BY Zenon DEF StoreVal, OwnerVal, ViewVal, Holder, Dirty

(* The same after a step.                                                   *)
LEMMA BlockOfNext ==
  IInv' => (\A b \in Bufs : blk[b] \in Blocks =>
    /\ StoreVal(blk[b]) = IF "B_DIRTY" \in flags[b] THEN data[b] ELSE DriveVal(blk[b])
    /\ \A p \in Procs : Has(p, b) => OwnerVal(blk[b]) = p /\ ViewVal(blk[b]) = data[b]
    /\ (\A p \in Procs : ~Has(p, b)) => OwnerVal(blk[b]) = NoProc /\ ViewVal(blk[b]) = NoVal)'
  BY BlockOf, PTL

(* The same after a step.                                                   *)
LEMMA UncachedNext ==
  (\A k : Cached(k) = {} => StoreVal(k) = DriveVal(k) /\ OwnerVal(k) = NoProc /\ ViewVal(k) = NoVal)'
  BY Uncached, PTL

(* A step that keeps the contents of a block's dirty buffer, and what the   *)
(* drive makes of the block otherwise, keeps the value of the block.        *)
LEMMA SameStore ==
  ASSUME IInv, IInv', blk' = blk, NEW k \in Blocks,
         Cached(k) = {} => DriveVal(k)' = DriveVal(k),
         \A b \in Bufs : blk[b] = k =>
           (IF "B_DIRTY" \in flags'[b] THEN data'[b] ELSE DriveVal(k)') =
           (IF "B_DIRTY" \in flags[b] THEN data[b] ELSE DriveVal(k))
  PROVE  StoreVal(k)' = StoreVal(k)
  <1>1. CASE Cached(k) = {}
    BY <1>1, Uncached, UncachedNext, Zenon DEF Cached
  <1>2. CASE Cached(k) # {}
    <2>1. PICK b \in Bufs : blk[b] = k
      BY <1>2, Zenon DEF Cached
    <2> QED BY <2>1, BlockOf, BlockOfNext, Zenon
  <1> QED BY <1>1, <1>2, Zenon

(* A step that keeps the holder of a buffer, and the contents of a buffer   *)
(* that is held, keeps the owner of the block and what the owner sees.      *)
LEMMA SameOwner ==
  ASSUME IInv, IInv', blk' = blk, NEW k \in Blocks,
         \A b \in Bufs, p \in Procs : blk[b] = k => (Has(p, b)' <=> Has(p, b)) /\ (Has(p, b) => data'[b] = data[b])
  PROVE  OwnerVal(k)' = OwnerVal(k) /\ ViewVal(k)' = ViewVal(k)
  <1>1. CASE Cached(k) = {}
    BY <1>1, Uncached, UncachedNext, Zenon DEF Cached
  <1>2. CASE Cached(k) # {}
    <2>1. PICK b \in Bufs : blk[b] = k
      BY <1>2, Zenon DEF Cached
    <2> QED BY <2>1, BlockOf, BlockOfNext, Zenon
  <1> QED BY <1>1, <1>2, Zenon

-----------------------------------------------------------------------------
(* Nothing changes for the callers.                                         *)
Stutter == UNCHANGED <<storeBar, ownerBar, viewBar>>

(* A step that callers do not notice, block by block.                       *)
LEMMA Stutters ==
  ASSUME \A k \in Blocks : StoreVal(k)' = StoreVal(k) /\ OwnerVal(k)' = OwnerVal(k) /\ ViewVal(k)' = ViewVal(k)
  PROVE  Stutter
  BY Zenon DEF Stutter, storeBar, ownerBar, viewBar

(* bread returns: one block changes hands, and no value.                    *)
LEMMA Acquires ==
  ASSUME NEW p \in Procs, NEW k \in Blocks,
         OwnerVal(k) = NoProc, OwnerVal(k)' = p, ViewVal(k)' = StoreVal(k),
         \A j \in Blocks : StoreVal(j)' = StoreVal(j),
         \A j \in Blocks \ {k} : OwnerVal(j)' = OwnerVal(j) /\ ViewVal(j)' = ViewVal(j)
  PROVE  Store!Acquire(p, k)
  BY Zenon DEF Store!Acquire, storeBar, ownerBar, viewBar

(* bwrite: one block changes its value, and none its owner.                 *)
LEMMA Writes ==
  ASSUME NEW p \in Procs, NEW k \in Blocks, NEW v,
         OwnerVal(k) = p, StoreVal(k)' = v, ViewVal(k)' = v,
         \A j \in Blocks : OwnerVal(j)' = OwnerVal(j),
         \A j \in Blocks \ {k} : StoreVal(j)' = StoreVal(j) /\ ViewVal(j)' = ViewVal(j)
  PROVE  Store!Write(p, k, v)
  BY Zenon DEF Store!Write, storeBar, ownerBar, viewBar

(* brelse: one block is given back, and no value changes.                   *)
LEMMA Releases ==
  ASSUME NEW p \in Procs, NEW k \in Blocks,
         OwnerVal(k) = p, OwnerVal(k)' = NoProc, ViewVal(k)' = NoVal,
         \A j \in Blocks : StoreVal(j)' = StoreVal(j),
         \A j \in Blocks \ {k} : OwnerVal(j)' = OwnerVal(j) /\ ViewVal(j)' = ViewVal(j)
  PROVE  Store!Release(p, k)
  BY Zenon DEF Store!Release, storeBar, ownerBar, viewBar

(* Steps that change neither what the buffers hold nor who has them.       *)
LEMMA Quiet ==
  ASSUME IInv, IInv', UNCHANGED <<blk, data, held>>,
         \A k \in Blocks : DriveVal(k)' = DriveVal(k),
         \A b \in Bufs : "B_DIRTY" \in flags'[b] <=> "B_DIRTY" \in flags[b]
  PROVE  Stutter
  <1>1. \A k \in Blocks : StoreVal(k)' = StoreVal(k)
    BY SameStore, Zenon
  <1>2. \A p, b : Has(p, b)' <=> Has(p, b)
    BY Zenon DEF Has
  <1>3. \A k \in Blocks : OwnerVal(k)' = OwnerVal(k) /\ ViewVal(k)' = ViewVal(k)
    BY <1>2, SameOwner, Zenon
  <1> QED BY <1>1, <1>3, Stutters, Zenon

(* bread hands its caller a valid buffer, fresh from the disk or found in   *)
(* the cache: the caller sees the value of the block.                       *)
LEMMA Gets ==
  ASSUME IInv, IInv', NEW p \in Procs, NEW b \in Bufs, Owns(p, b), ~Has(p, b), "B_VALID" \in flags[b],
         UNCHANGED <<blk, data, flags, ide, disk>>,
         held' = [held EXCEPT ![p] = Append(@, b)]
  PROVE  Store!Acquire(p, blk[b])
  <1>1. blk[b] \in Blocks
    BY Zenon DEF IInv, OwnInv
  <1>2. \A k : DriveVal(k)' = DriveVal(k)
    BY Zenon DEF DriveVal
  <1>3. \A k \in Blocks : StoreVal(k)' = StoreVal(k)
    BY <1>2, SameStore, Zenon
  <1>4. \A q \in Procs, c \in Bufs : Has(q, c)' <=> Has(q, c) \/ (q = p /\ c = b)
    BY AppendIn DEF IInv, TypeOK, Has
  <1>5. \A k \in Blocks \ {blk[b]} : OwnerVal(k)' = OwnerVal(k) /\ ViewVal(k)' = ViewVal(k)
    BY <1>4, SameOwner, Zenon
  <1>6. \A q \in Procs : ~Has(q, b)
    BY Zenon DEF IInv, BusyIsExclusive, Owns
  <1>7. OwnerVal(blk[b]) = NoProc
    BY <1>1, <1>6, BlockOf, Zenon
  <1>8. OwnerVal(blk[b])' = p /\ ViewVal(blk[b])' = data[b]
    BY <1>1, <1>4, BlockOfNext, Zenon
  <1>9. StoreVal(blk[b]) = data[b]
    <2>1. CASE "B_DIRTY" \in flags[b]
      BY <1>1, <2>1, BlockOf, Zenon
    <2>2. CASE "B_DIRTY" \notin flags[b]
      <3>1. Clean(b) /\ blk[b] # NoBlock
        BY <1>1, <2>2, BufCacheAssumption, Zenon DEF Clean
      <3>2. data[b] = DriveVal(blk[b])
        BY <3>1, Zenon DEF IInv, ValueInv
      <3> QED BY <1>1, <2>2, <3>2, BlockOf, Zenon
    <2> QED BY <2>1, <2>2, Zenon
  <1> QED BY <1>1, <1>3, <1>5, <1>7, <1>8, <1>9, Acquires, Zenon

(* bwrite: the store changes as soon as the caller has the buffer dirty.    *)
LEMMA bwriteStep ==
  ASSUME IInv, IInv', NEW p \in Procs, NEW v \in Vals, bwrite(p, v)
  PROVE  \E k \in Blocks : Store!Write(p, k, v)
  <1> USE DEF bwrite, drive
  <1>1. PICK b \in Bufs : b = Top(p) /\ Has(p, b)
    BY FrontIn, Zenon DEF IInv, TypeOK, CallInv, Top, Has
  <1>2. blk[b] \in Blocks
    BY <1>1, Zenon DEF IInv, OwnInv, Owns
  <1>3. data' = [data EXCEPT ![b] = v] /\ flags' = [flags EXCEPT ![b] = @ \cup {"B_DIRTY"}]
    BY <1>1, Zenon
  <1>4. \A q, c : Has(q, c)' <=> Has(q, c)
    BY Zenon DEF Has
  <1>5. \A k : DriveVal(k)' = DriveVal(k)
    BY Zenon DEF DriveVal
  <1>6. OwnerVal(blk[b]) = p
    BY <1>1, <1>2, BlockOf, Zenon
  <1>7. OwnerVal(blk[b])' = p /\ ViewVal(blk[b])' = v /\ StoreVal(blk[b])' = v
    <2>1. data \in [Bufs -> Vals] /\ flags \in [Bufs -> SUBSET {"B_BUSY", "B_VALID", "B_DIRTY"}]
      BY Zenon DEF IInv, TypeOK
    <2>2. data'[b] = v /\ "B_DIRTY" \in flags'[b] /\ blk'[b] = blk[b]
      BY <1>3, <2>1
    <2>3. Has(p, b)'
      BY <1>1, <1>4, Zenon
    <2> QED BY <1>2, <2>2, <2>3, BlockOfNext, Zenon
  <1>8. \A k \in Blocks \ {blk[b]} : StoreVal(k)' = StoreVal(k)
    <2>1. \A c \in Bufs : c # b => data'[c] = data[c] /\ flags'[c] = flags[c]
      BY <1>3 DEF IInv, TypeOK
    <2> QED BY <1>5, <2>1, SameStore
  <1>9. \A k \in Blocks \ {blk[b]} : OwnerVal(k)' = OwnerVal(k) /\ ViewVal(k)' = ViewVal(k)
    <2>1. \A c \in Bufs : c # b => data'[c] = data[c]
      BY <1>3 DEF IInv, TypeOK
    <2> QED BY <1>4, <2>1, SameOwner, Zenon
  <1>10. Store!Write(p, blk[b], v)
    BY <1>2, <1>6, <1>7, <1>8, <1>9, Writes, Zenon
  <1> QED BY <1>2, <1>10, Zenon

(* brelse: the value stays, in the buffer or on the disk.                   *)
LEMMA brelseStep ==
  ASSUME IInv, IInv', NEW p \in Procs, brelse(p)
  PROVE  \E k \in Blocks : Store!Release(p, k)
  <1> USE DEF brelse, drive
  <1>1. PICK b \in Bufs : b = Top(p) /\ Has(p, b)
    <2>1. held[p] \in Seq(Bufs) /\ Distinct(held[p]) /\ held[p] # <<>>
      BY Zenon DEF IInv, TypeOK, CallInv
    <2> QED BY <2>1, FrontIn, Zenon DEF Top, Has
  <1>2. blk[b] \in Blocks
    BY <1>1, Zenon DEF IInv, OwnInv, Owns
  <1>3. flags' = [flags EXCEPT ![b] = @ \ {"B_BUSY"}]
    BY <1>1, Zenon
  <1>4. \A q \in Procs, c \in Bufs : Has(q, c)' <=> Has(q, c) /\ ~(q = p /\ c = b)
    <2>1. /\ held \in [Procs -> Seq(Bufs)] /\ held[p] \in Seq(Bufs) /\ Distinct(held[p]) /\ held[p] # <<>>
          /\ held' = [held EXCEPT ![p] = SubSeq(@, 1, Len(@) - 1)]
      BY Zenon DEF IInv, TypeOK, CallInv
    <2>2. held'[p] = SubSeq(held[p], 1, Len(held[p]) - 1) /\ \A q \in Procs \ {p} : held'[q] = held[q]
      BY <2>1, Zenon
    <2>3. \A c \in Bufs : In(c, held'[p]) <=> In(c, held[p]) /\ c # b
      BY <1>1, <2>1, <2>2, FrontIn DEF Top
    <2> QED BY <1>1, <2>2, <2>3, Zenon DEF Has
  <1>5. \A k : DriveVal(k)' = DriveVal(k)
    BY Zenon DEF DriveVal
  <1>6. OwnerVal(blk[b]) = p
    BY <1>1, <1>2, BlockOf, Zenon
  <1>7. \A q \in Procs : Has(q, b) => q = p
    BY <1>1, Zenon DEF IInv, BusyIsExclusive, Owns
  <1>8. OwnerVal(blk[b])' = NoProc /\ ViewVal(blk[b])' = NoVal
    BY <1>2, <1>4, <1>7, BlockOfNext, Zenon
  <1>9. \A k \in Blocks : StoreVal(k)' = StoreVal(k)
    <2>1. \A c \in Bufs : "B_DIRTY" \in flags'[c] <=> "B_DIRTY" \in flags[c]
      BY <1>3 DEF IInv, TypeOK
    <2> QED BY <1>5, <2>1, SameStore, Zenon
  <1>10. \A k \in Blocks \ {blk[b]} : OwnerVal(k)' = OwnerVal(k) /\ ViewVal(k)' = ViewVal(k)
    BY <1>4, SameOwner, Zenon
  <1>11. Store!Release(p, blk[b])
    BY <1>2, <1>6, <1>8, <1>9, <1>10, Releases, Zenon
  <1> QED BY <1>2, <1>11, Zenon

(* bget recycles a buffer: it is nobody's and not dirty, so the block that  *)
(* it was is on the disk, and so is the one that it becomes.                *)
LEMMA BgetFreshStep ==
  ASSUME IInv, IInv', NEW p \in Procs, BgetFresh(p)
  PROVE  Stutter
  <1> USE DEF BgetFresh, drive
  <1>1. PICK b \in Bufs : /\ "B_BUSY" \notin flags[b]
                          /\ blk' = [blk EXCEPT ![b] = want[p]]
                          /\ flags' = [flags EXCEPT ![b] = {"B_BUSY"}]
    BY Zenon DEF Victim, Recycle
  <1>2. /\ \A q \in Procs : ~Has(q, b)
        /\ "B_DIRTY" \notin flags[b] /\ "B_DIRTY" \notin flags'[b]
    BY <1>1, NotBusy DEF IInv, TypeOK
  <1>3. \A q, c : Has(q, c)' <=> Has(q, c)
    BY Zenon DEF Has
  <1>4. \A k : DriveVal(k)' = DriveVal(k)
    BY Zenon DEF DriveVal
  <1>5. ASSUME NEW k \in Blocks
        PROVE  StoreVal(k)' = StoreVal(k) /\ OwnerVal(k)' = OwnerVal(k) /\ ViewVal(k)' = ViewVal(k)
    <2>1. CASE \E c \in Bufs \ {b} : blk[c] = k
      <3>1. PICK c \in Bufs \ {b} : blk[c] = k
        BY <2>1, Zenon
      <3>2. blk'[c] = k /\ flags'[c] = flags[c] /\ data'[c] = data[c]
        BY <1>1, <3>1 DEF IInv, TypeOK
      <3>3. /\ StoreVal(k) = IF "B_DIRTY" \in flags[c] THEN data[c] ELSE DriveVal(k)
            /\ \A q \in Procs : Has(q, c) => OwnerVal(k) = q /\ ViewVal(k) = data[c]
            /\ (\A q \in Procs : ~Has(q, c)) => OwnerVal(k) = NoProc /\ ViewVal(k) = NoVal
        BY <3>1, BlockOf, Zenon
      <3>4. /\ StoreVal(k)' = IF "B_DIRTY" \in flags'[c] THEN data'[c] ELSE DriveVal(k)'
            /\ \A q \in Procs : Has(q, c)' => OwnerVal(k)' = q /\ ViewVal(k)' = data'[c]
            /\ (\A q \in Procs : ~Has(q, c)') => OwnerVal(k)' = NoProc /\ ViewVal(k)' = NoVal
        BY <3>1, <3>2, BlockOfNext, Zenon
      <3>5. StoreVal(k)' = StoreVal(k)
        BY <1>4, <3>2, <3>3, <3>4, Zenon
      <3>6. CASE \E q \in Procs : Has(q, c)
        BY <1>3, <3>2, <3>3, <3>4, <3>5, <3>6, Zenon
      <3>7. CASE ~\E q \in Procs : Has(q, c)
        BY <1>3, <3>3, <3>4, <3>5, <3>7, Zenon
      <3> QED BY <3>6, <3>7, Zenon
    <2>2. CASE ~\E c \in Bufs \ {b} : blk[c] = k
      <3>1. StoreVal(k) = DriveVal(k) /\ OwnerVal(k) = NoProc /\ ViewVal(k) = NoVal
        <4>1. CASE blk[b] = k
          BY <1>2, <4>1, BlockOf, Zenon
        <4>2. CASE blk[b] # k
          BY <2>2, <4>2, Uncached, Zenon DEF Cached
        <4> QED BY <4>1, <4>2, Zenon
      <3>2. StoreVal(k)' = DriveVal(k)' /\ OwnerVal(k)' = NoProc /\ ViewVal(k)' = NoVal
        <4>1. CASE blk'[b] = k
          BY <1>2, <1>3, <4>1, BlockOfNext, Zenon
        <4>2. CASE blk'[b] # k
          <5>1. Cached(k)' = {}
            BY <1>1, <2>2, <4>2, Zenon DEF Cached, IInv, TypeOK
          <5> QED BY <5>1, UncachedNext, Zenon
        <4> QED BY <4>1, <4>2, Zenon
      <3> QED BY <1>4, <3>1, <3>2, Zenon
    <2> HIDE DEF BgetFresh, drive
    <2> QED BY <2>1, <2>2, Zenon
  <1> QED BY <1>5, Stutters, Zenon

(* iderw may start the drive with a buffer that is dirty: the value that    *)
(* the drive will write is the one that the block has already.              *)
LEMMA iderwStep ==
  ASSUME IInv, IInv', NEW p \in Procs, iderw(p)
  PROVE  Stutter
  <1> USE DEF iderw, cache
  <1>1. \A q, c : Has(q, c)' <=> Has(q, c)
    BY Zenon DEF Has
  <1>2. \A k \in Blocks : OwnerVal(k)' = OwnerVal(k) /\ ViewVal(k)' = ViewVal(k)
    BY <1>1, SameOwner, Zenon
  <1>3. cur[p] \in Bufs
    BY Zenon DEF IInv, TypeOK
  <1>4. ASSUME NEW k \in Blocks PROVE DriveVal(k)' = DriveVal(k) \/ ("B_DIRTY" \in flags[cur[p]] /\ blk[cur[p]] = k)
    BY <1>3 DEF DriveVal, idestart, idewait
  <1>5. ASSUME NEW k \in Blocks PROVE StoreVal(k)' = StoreVal(k)
    <2>1. CASE DriveVal(k)' = DriveVal(k)
      BY <2>1, SameStore, Zenon
    <2>2. CASE "B_DIRTY" \in flags[cur[p]] /\ blk[cur[p]] = k
      BY <1>3, <2>2, BlockOf, BlockOfNext, Zenon
    <2> QED BY <1>4, <2>1, <2>2, Zenon
  <1> QED BY <1>2, <1>5, Stutters, Zenon

(* The drive's write reaches the disk with the value that it was given.     *)
LEMMA DriveDoneStep ==
  ASSUME IInv, IInv', DriveDone
  PROVE  Stutter
  <1> USE DEF DriveDone, cache, calls
  <1>1. \A k \in Blocks : DriveVal(k)' = DriveVal(k)
    BY DEF DriveVal, IInv, TypeOK, DriveInv
  <1> QED BY <1>1, Quiet, Zenon

(* ideintr finishes the first request: the block of a buffer that was       *)
(* written has the same value clean, and one that was read has been on the  *)
(* disk with nobody looking. The next request is as in iderw.               *)
LEMMA HandleIdeStep ==
  ASSUME IInv, IInv', HandleIde, UNCHANGED <<blk, disk, held>>
  PROVE  Stutter
  <1>1. CASE idequeue = <<>>
    <2>1. UNCHANGED <<data, flags, ide>>
      BY <1>1, Zenon DEF HandleIde
    <2>2. \A k \in Blocks : DriveVal(k)' = DriveVal(k)
      BY <2>1, Zenon DEF DriveVal
    <2> QED BY <2>1, <2>2, Quiet, Zenon
  <1>2. CASE idequeue # <<>>
    <2>1. PICK b \in Bufs : b = Head(idequeue) /\ b = idequeue[1] /\ Queued(b)
      BY <1>2, FirstOf, Zenon DEF IInv, TypeOK, Queued
    <2>2. /\ IF "B_DIRTY" \in flags[b] THEN data' = data
             ELSE data' = [data EXCEPT ![b] = IF ide.err THEN @ ELSE ide.data]
          /\ flags' = [flags EXCEPT ![b] = (@ \cup {"B_VALID"}) \ {"B_DIRTY"}]
          /\ Tail(idequeue) # <<>> => idestart(Head(Tail(idequeue)))
          /\ Tail(idequeue) = <<>> => ide' = ide
      BY <1>2, <2>1, Zenon DEF HandleIde, ReadSector, Finish
    <2>3. \A q, c : Has(q, c)' <=> Has(q, c)
      BY Zenon DEF Has
    <2>4. \A q \in Procs, c \in Bufs : Has(q, c) => data'[c] = data[c]
      BY <2>1, <2>2 DEF IInv, TypeOK, OwnInv
    <2>5. \A k \in Blocks : OwnerVal(k)' = OwnerVal(k) /\ ViewVal(k)' = ViewVal(k)
      BY <2>3, <2>4, SameOwner, Zenon
    <2>6. /\ flags'[b] = (flags[b] \cup {"B_VALID"}) \ {"B_DIRTY"}
          /\ \A c \in Bufs \ {b} : flags'[c] = flags[c] /\ data'[c] = data[c]
      BY <2>2 DEF IInv, TypeOK
    <2>7. ASSUME NEW k \in Blocks
          PROVE  \/ DriveVal(k)' = DriveVal(k)
                 \/ \E c \in Bufs \ {b} : "B_DIRTY" \in flags[c] /\ blk[c] = k
      <3>1. CASE Tail(idequeue) = <<>>
        BY <2>2, <3>1, Zenon DEF DriveVal
      <3>2. CASE Tail(idequeue) # <<>>
        <4>1. PICK c \in Bufs \ {b} : c = Head(Tail(idequeue))
          <5>1. idequeue \in Seq(Bufs) /\ Distinct(idequeue)
            BY Zenon DEF IInv, TypeOK, QueuedIsOwned
          <5> QED BY <1>2, <2>1, <3>2, <5>1, TailIn, Zenon
        <4> QED BY <2>2, <3>2, <4>1 DEF DriveVal, idestart, idewait
      <3> QED BY <3>1, <3>2, Zenon
    <2>8. ASSUME NEW k \in Blocks PROVE StoreVal(k)' = StoreVal(k)
      <3>1. CASE \E c \in Bufs \ {b} : "B_DIRTY" \in flags[c] /\ blk[c] = k
        BY <2>6, <3>1, BlockOf, BlockOfNext, Zenon
      <3>2. CASE DriveVal(k)' = DriveVal(k) /\ blk[b] # k
        BY <2>6, <3>2, SameStore, Zenon
      <3>3. CASE DriveVal(k)' = DriveVal(k) /\ blk[b] = k
        <4>1. StoreVal(k)' = DriveVal(k)'
          BY <2>6, <3>3, BlockOfNext, Zenon
        <4>2. CASE "B_DIRTY" \notin flags[b]
          BY <3>3, <4>1, <4>2, BlockOf, Zenon
        <4>3. CASE "B_DIRTY" \in flags[b]
          <5>1. StoreVal(k) = data[b] /\ data'[b] = data[b]
            BY <2>2, <3>3, <4>3, BlockOf, Zenon
          <5>2. data'[b] = DriveVal(k)'
            BY <2>6, <3>3, BufCacheAssumption, Zenon DEF IInv, ValueInv, Clean
          <5> QED BY <4>1, <5>1, <5>2, Zenon
        <4> QED BY <4>2, <4>3, Zenon
      <3> QED BY <2>7, <3>1, <3>2, <3>3, Zenon
    <2> QED BY <2>5, <2>8, Stutters, Zenon
  <1> QED BY <1>1, <1>2, Zenon

(* After binit every block is on the disk and nobody has one.               *)
LEMMA StoreInit == Init => Store!Init
  <1> SUFFICES ASSUME Init PROVE Store!Init
    OBVIOUS
  <1>1. \A k \in Blocks : Cached(k) = {}
    BY BufCacheAssumption, Zenon DEF Init, binit, Cached
  <1>2. \A k \in Blocks : DriveVal(k) \in Vals
    BY BufCacheAssumption DEF Init, DriveVal
  <1>3. \A k \in Blocks : StoreVal(k) \in Vals /\ OwnerVal(k) = NoProc /\ ViewVal(k) = NoVal
    BY <1>1, <1>2, Uncached, Zenon
  <1> QED BY <1>3, Zenon DEF Store!Init, storeBar, ownerBar, viewBar

(* Every step is a step of the store, or not noticed by callers.            *)
LEMMA StoreStep == IInv /\ IInv' /\ [Next]_vars => [Store!Next]_<<storeBar, ownerBar, viewBar>>
  <1> SUFFICES ASSUME IInv, IInv', [Next]_vars
               PROVE  Store!Next \/ Stutter
    BY Zenon DEF Stutter
  <1>1. CASE UNCHANGED vars
    <2>1. UNCHANGED <<blk, data, held, flags>> /\ \A k \in Blocks : DriveVal(k)' = DriveVal(k)
      BY <1>1, Zenon DEF vars, cache, drive, calls, DriveVal
    <2> QED BY <2>1, Quiet, Zenon
  <1>2. CASE DriveDone
    BY <1>2, DriveDoneStep, Zenon
  <1>3. CASE ideintr
    BY <1>3, HandleIdeStep, Zenon DEF ideintr
  <1>4. CASE SpuriousIntr
    BY <1>4, HandleIdeStep, Zenon DEF SpuriousIntr
  <1>5. ASSUME NEW p \in Procs, ProcStep(p) PROVE Store!Next \/ Stutter
    <2>0. ASSUME UNCHANGED <<cache, drive, held>> PROVE Stutter
      <3>1. UNCHANGED <<blk, data, held, flags>> /\ \A k \in Blocks : DriveVal(k)' = DriveVal(k)
        BY <2>0, Zenon DEF cache, drive, DriveVal
      <3> QED BY <3>1, Quiet, Zenon
    <2>1. CASE \E k \in Blocks : bread(p, k)
      BY <2>0, <2>1, Zenon DEF bread
    <2>2. CASE BgetHit(p)
      <3>1. /\ UNCHANGED <<blk, data, held>> /\ \A k \in Blocks : DriveVal(k)' = DriveVal(k)
        BY <2>2, Zenon DEF BgetHit, drive, DriveVal
      <3>2. \A b \in Bufs : "B_DIRTY" \in flags'[b] <=> "B_DIRTY" \in flags[b]
        BY <2>2 DEF BgetHit, Cached, IInv, TypeOK
      <3> QED BY <3>1, <3>2, Quiet, Zenon
    <2>3. CASE BgetSleep(p)
      BY <2>0, <2>3, Zenon DEF BgetSleep
    <2>4. CASE BgetFresh(p)
      BY <2>4, BgetFreshStep, Zenon
    <2>5. CASE BgetPanic(p)
      BY <2>0, <2>5, Zenon DEF BgetPanic, calls
    <2>6. CASE BreadCheck(p)
      <3>1. CASE "B_VALID" \in flags[cur[p]]
        <4>1. cur[p] \in Bufs /\ Owns(p, cur[p]) /\ ~Has(p, cur[p]) /\ blk[cur[p]] \in Blocks
          BY <2>6, Zenon DEF BreadCheck, IInv, TypeOK, CallInv, Owns, OwnInv
        <4>2. Store!Acquire(p, blk[cur[p]])
          BY <2>6, <3>1, <4>1, Gets, Zenon DEF BreadCheck, cache, drive
        <4> QED BY <4>1, <4>2, Zenon DEF Store!Next
      <3>2. CASE "B_VALID" \notin flags[cur[p]]
        BY <2>0, <2>6, <3>2, Zenon DEF BreadCheck
      <3> QED BY <3>1, <3>2, Zenon
    <2>7. CASE \E v \in Vals : bwrite(p, v)
      BY <2>7, bwriteStep, Zenon DEF Store!Next
    <2>8. CASE iderw(p)
      BY <2>8, iderwStep, Zenon
    <2>9. CASE IderwWait(p)
      <3>1. CASE Clean(cur[p]) /\ ~Has(p, cur[p])
        <4>1. cur[p] \in Bufs /\ Owns(p, cur[p]) /\ blk[cur[p]] \in Blocks
          BY <2>9, Zenon DEF IderwWait, IInv, TypeOK, Owns, OwnInv
        <4>2. Store!Acquire(p, blk[cur[p]])
          BY <2>9, <3>1, <4>1, Gets, Zenon DEF IderwWait, cache, drive, Clean
        <4> QED BY <4>1, <4>2, Zenon DEF Store!Next
      <3>2. CASE ~Clean(cur[p]) \/ Has(p, cur[p])
        BY <2>0, <2>9, <3>2, Zenon DEF IderwWait
      <3> QED BY <3>1, <3>2, Zenon
    <2>10. CASE brelse(p)
      BY <2>10, brelseStep, Zenon DEF Store!Next
    <2> QED BY <1>5, <2>1, <2>2, <2>3, <2>4, <2>5, <2>6, <2>7, <2>8, <2>9, <2>10, Zenon DEF ProcStep
  <1> QED BY <1>1, <1>2, <1>3, <1>4, <1>5, Zenon DEF Next, Finished, Halted

(***************************************************************************)
(* bread always returns the last value that a bwrite gave to the block,    *)
(* and to one process at a time, while buffers are recycled under the      *)
(* sleepers of bget, requests wait in the queue of the driver and the      *)
(* drive completes them one by one; spurious interrupts included. The      *)
(* drive must not report read errors: ideintr marks a buffer valid whether *)
(* or not the sector was read.                                             *)
(***************************************************************************)
THEOREM CacheIsStore ==
  ASSUME ReadErrors = FALSE
  PROVE  Spec => ImplementsStore
  <1>1. Spec => []IInv
    BY CacheInvariance, Zenon
  <1> QED BY <1>1, StoreInit, StoreStep, PTL DEF Spec, ImplementsStore, Store!Spec
=============================================================================
