------------------------------ MODULE FileData ------------------------------
(***************************************************************************)
(* The contents of files (fs.c): the free map (balloc, bfree), the block   *)
(* lists of inodes (bmap, itrunc), reading and writing at an offset        *)
(* (readi, writei), and what a crash between two disk writes leaves        *)
(* behind. Calls on one file exclude each other (its inode is locked), so  *)
(* each file has one call in progress, op[f]. One action is what happens   *)
(* while one buffer is held. A block has BSIZE cells; a cell is a byte or, *)
(* in an indirect block, a block number, so NINDIRECT = BSIZE here.        *)
(***************************************************************************)
EXTENDS Integers, Sequences, FiniteSetsExt, SequencesExt

CONSTANTS Files, Vals,
          BSIZE, NDIRECT, BPB,
          Size,            \* sb.size
          Used0,           \* the blocks in use at the start; mkfs marks a prefix of the disk
          WRAP,            \* uint
          Lengths,         \* the values of n that calls use
          MaxCrash         \* bound: crashes

VARIABLES bitmap, blk, dino,   \* the disk: blocks marked in use, their cells, the inodes
          ino,                 \* the inodes in memory
          named,               \* files that a directory entry on the disk refers to
          dead,                \* inodes that a crash has left without name and type
          op,                  \* the call in progress on each file
          text,                \* history: what each file should contain
          crashes, panicked

disk == <<bitmap, blk, dino>>
vars == <<disk, ino, named, dead, op, text, crashes, panicked>>

MAXFILE == NDIRECT + BSIZE
Blocks == 0..(((Size + BPB - 1) \div BPB) * BPB - 1)
Zero == [c \in 0..(BSIZE - 1) |-> 0]
NoBlocks == [size |-> 0, addrs |-> [a \in 0..NDIRECT |-> 0]]
Idle == [k |-> "idle"]

Init ==
  /\ bitmap = Used0 /\ blk = [b \in Blocks |-> Zero]
  /\ dino = [f \in Files |-> NoBlocks] /\ ino = dino
  /\ named = Files /\ dead = {} /\ op = [f \in Files |-> Idle]
  /\ text = [f \in Files |-> <<>>] /\ crashes = 0 /\ panicked = FALSE

At(f, k) == op[f].k = k /\ ~panicked
Done(f) == op' = [op EXCEPT ![f] = Idle]
SetAddr(f, k, b) == ino' = [ino EXCEPT ![f].addrs[k] = b]

\* The block list that an inode stands for; 0: not allocated.
Indirect(i) == i.addrs[NDIRECT]
Lookup(i, bn) == IF bn < NDIRECT THEN i.addrs[bn]
                 ELSE IF Indirect(i) = 0 \/ bn >= MAXFILE THEN 0 ELSE blk[Indirect(i)][bn - NDIRECT]

\* readi of the whole file.
Contents(i) == [k \in 1..i.size |-> blk[Lookup(i, (k - 1) \div BSIZE)][(k - 1) % BSIZE]]

Fails == [ok |-> FALSE, data |-> <<>>]
Reads(s) == [ok |-> TRUE, data |-> s]

\* Mutation of readi: a sum that overflows is not noticed.
readi_NoWrap(i, off, n) ==
  IF off > i.size THEN Fails
  ELSE LET m == IF (off + n) % WRAP > i.size THEN i.size - off ELSE n
       IN Reads([k \in 1..Min({m, i.size - off}) |-> blk[Lookup(i, (off + k - 1) \div BSIZE)][(off + k - 1) % BSIZE]])

\* readi: what a call with off and n copies out, or a failure (-1).
readi(i, off, n) ==
  IF off > i.size \/ (off + n) % WRAP < off THEN Fails
  ELSE LET m == IF off + n > i.size THEN i.size - off ELSE n
       IN Reads([k \in 1..m |-> blk[Lookup(i, (off + k - 1) \div BSIZE)][(off + k - 1) % BSIZE]])

-----------------------------------------------------------------------------
FirstFree(b) == b \notin bitmap /\ \A c \in Blocks : c < b => c \in bitmap

\* The first free bit becomes b. The scan covers whole bitmap blocks.
balloc(b) == FirstFree(b) /\ bitmap' = bitmap \cup {b}
NoSpace == bitmap = Blocks

Clamp(off, n) == IF off + n > MAXFILE * BSIZE THEN MAXFILE * BSIZE - off ELSE n

\* writei of n cells with value v.
writei(f, off, n, v) ==
  /\ At(f, "idle") /\ f \in named
  /\ ~(off > ino[f].size \/ (off + n) % WRAP < off)
  /\ op' = [op EXCEPT ![f] = [k |-> "write", off |-> off, n |-> Clamp(off, n), tot |-> 0, v |-> v, new |-> 0]]
  /\ UNCHANGED <<disk, ino, named, dead, text, crashes, panicked>>

Bn(f) == op[f].off \div BSIZE
Writing(f) == At(f, "write") /\ op[f].tot < op[f].n

\* bmap: a direct block, the indirect block, a block listed in the indirect block.
bmap_direct(f) ==
  /\ Writing(f) /\ Bn(f) < NDIRECT /\ ino[f].addrs[Bn(f)] = 0
  /\ \E b \in Blocks : balloc(b) /\ SetAddr(f, Bn(f), b)
  /\ UNCHANGED <<blk, dino, named, dead, op, text, crashes, panicked>>

bmap_indirect(f) ==
  /\ Writing(f) /\ Bn(f) \in NDIRECT..(MAXFILE - 1) /\ Indirect(ino[f]) = 0
  /\ \E b \in Blocks : balloc(b) /\ SetAddr(f, NDIRECT, b)
  /\ UNCHANGED <<blk, dino, named, dead, op, text, crashes, panicked>>

bmap_entry(f) ==
  /\ Writing(f) /\ Bn(f) \in NDIRECT..(MAXFILE - 1) /\ Indirect(ino[f]) # 0
  /\ Lookup(ino[f], Bn(f)) = 0 /\ op[f].new = 0
  /\ \E b \in Blocks : balloc(b) /\ op' = [op EXCEPT ![f].new = b]
  /\ UNCHANGED <<blk, dino, ino, named, dead, text, crashes, panicked>>

bmap_write(f) ==
  /\ Writing(f) /\ op[f].new # 0
  /\ blk' = [blk EXCEPT ![Indirect(ino[f])][Bn(f) - NDIRECT] = op[f].new]
  /\ op' = [op EXCEPT ![f].new = 0]
  /\ UNCHANGED <<bitmap, dino, ino, named, dead, text, crashes, panicked>>

\* "balloc: out of blocks", "bmap: out of range"
bmap_panic(f) ==
  /\ Writing(f) /\ op[f].new = 0
  /\ Bn(f) < MAXFILE => NoSpace /\ Lookup(ino[f], Bn(f)) = 0
  /\ panicked' = TRUE
  /\ UNCHANGED <<disk, ino, named, dead, op, text, crashes>>

\* One turn of the loop: the part of one block is copied and written.
write_block(f) ==
  LET b == Lookup(ino[f], Bn(f))
      o == op[f].off % BSIZE
      m == Min({op[f].n - op[f].tot, BSIZE - o}) IN
  /\ Writing(f) /\ b # 0 /\ op[f].new = 0
  /\ blk' = [blk EXCEPT ![b] = [c \in DOMAIN @ |-> IF c \in o..(o + m - 1) THEN op[f].v ELSE @[c]]]
  /\ op' = [op EXCEPT ![f].tot = @ + m, ![f].off = @ + m]
  /\ UNCHANGED <<bitmap, dino, ino, named, dead, text, crashes, panicked>>

Overwritten(f) ==
  LET start == op[f].off - op[f].n IN
  [k \in 1..Max({Len(text[f]), op[f].off}) |-> IF k > start /\ k <= op[f].off THEN op[f].v ELSE text[f][k]]

\* Mutation of write_done: the inode is not written.
write_done_NoUpdate(f) ==
  /\ At(f, "write") /\ op[f].tot = op[f].n
  /\ ino' = [ino EXCEPT ![f].size = Max({@, op[f].off})]
  /\ UNCHANGED dino
  /\ text' = [text EXCEPT ![f] = Overwritten(f)] /\ Done(f)
  /\ UNCHANGED <<bitmap, blk, named, dead, crashes, panicked>>

\* The size, and iupdate when it changes.
write_done(f) ==
  /\ At(f, "write") /\ op[f].tot = op[f].n
  /\ IF op[f].n > 0 /\ op[f].off > ino[f].size
     THEN /\ ino' = [ino EXCEPT ![f].size = op[f].off]
          /\ dino' = [dino EXCEPT ![f] = ino'[f]]
     ELSE UNCHANGED <<ino, dino>>
  /\ text' = [text EXCEPT ![f] = Overwritten(f)] /\ Done(f)
  /\ UNCHANGED <<bitmap, blk, named, dead, crashes, panicked>>

-----------------------------------------------------------------------------
\* The last name is erased and iput finds that nobody has the file open.
unlink(f) ==
  /\ At(f, "idle") /\ f \in named
  /\ named' = named \ {f} /\ op' = [op EXCEPT ![f] = [k |-> "trunc", j |-> 0, zeroed |-> FALSE]]
  /\ UNCHANGED <<disk, ino, dead, text, crashes, panicked>>

\* itrunc: the block that bfree gets next; 0: none is left.
Entries(f) == IF Indirect(ino[f]) = 0 THEN {} ELSE {j \in op[f].j..(BSIZE - 1) : blk[Indirect(ino[f])][j] # 0}
Direct(f) == {k \in 0..(NDIRECT - 1) : ino[f].addrs[k] # 0}
NextFree(f) == IF Direct(f) # {} THEN ino[f].addrs[Min(Direct(f))]
               ELSE IF Entries(f) # {} THEN blk[Indirect(ino[f])][Min(Entries(f))]
               ELSE Indirect(ino[f])

\* Mutation of bfree_zero: the block keeps its old contents.
bfree_zero_Skip(f) ==
  /\ At(f, "trunc") /\ NextFree(f) # 0 /\ ~op[f].zeroed
  /\ op' = [op EXCEPT ![f].zeroed = TRUE, ![f].j = IF NextFree(f) = Indirect(ino[f]) THEN BSIZE ELSE @]
  /\ UNCHANGED <<disk, ino, named, dead, text, crashes, panicked>>

\* bfree zeroes the block on the disk, then clears its bit.
bfree_zero(f) ==
  /\ At(f, "trunc") /\ NextFree(f) # 0 /\ ~op[f].zeroed
  /\ IF NextFree(f) = Indirect(ino[f])
     THEN op' = [op EXCEPT ![f] = [k |-> "trunc", j |-> BSIZE, zeroed |-> TRUE]]
     ELSE op' = [op EXCEPT ![f].zeroed = TRUE]
  /\ blk' = [blk EXCEPT ![NextFree(f)] = Zero]
  /\ UNCHANGED <<bitmap, dino, ino, named, dead, text, crashes, panicked>>

bfree_bit(f) ==
  LET b == NextFree(f) IN
  /\ At(f, "trunc") /\ op[f].zeroed
  /\ panicked' = (b \notin bitmap)        \* "freeing free block"
  /\ bitmap' = bitmap \ {b}
  /\ IF Direct(f) # {} THEN SetAddr(f, Min(Direct(f)), 0) /\ op' = [op EXCEPT ![f].zeroed = FALSE]
     ELSE IF Entries(f) # {} THEN op' = [op EXCEPT ![f].j = Min(Entries(f)) + 1, ![f].zeroed = FALSE] /\ UNCHANGED ino
     ELSE SetAddr(f, NDIRECT, 0) /\ op' = [op EXCEPT ![f].zeroed = FALSE]
  /\ UNCHANGED <<blk, dino, named, dead, text, crashes>>

\* The end of itrunc: size = 0, iupdate. iput then writes the inode again with type = 0.
trunc_done(f) ==
  /\ At(f, "trunc") /\ NextFree(f) = 0 /\ ~op[f].zeroed
  /\ ino' = [ino EXCEPT ![f].size = 0] /\ dino' = [dino EXCEPT ![f] = ino'[f]]
  /\ text' = [text EXCEPT ![f] = <<>>] /\ op' = [op EXCEPT ![f] = [k |-> "truncated"]]
  /\ UNCHANGED <<bitmap, blk, named, dead, crashes, panicked>>

ifree(f) ==
  /\ At(f, "truncated") /\ dino' = [dino EXCEPT ![f] = ino[f]] /\ op' = [op EXCEPT ![f] = [k |-> "free"]]
  /\ UNCHANGED <<bitmap, blk, ino, named, dead, text, crashes, panicked>>

\* ialloc writes the type of a free inode, which has neither size nor blocks; create then
\* writes its name. (Fs has the writes of create one by one.)
ialloc(f) ==
  /\ At(f, "free") /\ op' = [op EXCEPT ![f] = [k |-> "allocated"]]
  /\ dino' = [dino EXCEPT ![f] = NoBlocks] /\ ino' = [ino EXCEPT ![f] = NoBlocks]
  /\ UNCHANGED <<bitmap, blk, named, dead, text, crashes, panicked>>

create(f) ==
  /\ At(f, "allocated") /\ named' = named \cup {f} /\ Done(f)
  /\ UNCHANGED <<disk, ino, dead, text, crashes, panicked>>

\* Memory is lost, the disk stays; the kernel starts again.
Crash ==
  /\ crashes < MaxCrash /\ crashes' = crashes + 1 /\ panicked' = FALSE
  /\ ino' = dino
  /\ dead' = dead \cup {f \in Files \ named : op[f].k # "free"}
  /\ op' = [f \in Files |-> IF f \in dead' THEN [k |-> "dead"] ELSE IF f \in named THEN Idle ELSE [k |-> "free"]]
  /\ text' = [f \in Files |-> IF f \in named THEN Contents(dino[f]) ELSE <<>>]
  /\ UNCHANGED <<disk, named>>

-----------------------------------------------------------------------------
Map(f) == bmap_direct(f) \/ bmap_indirect(f) \/ bmap_entry(f) \/ bmap_write(f) \/ bmap_panic(f)
Step(f) == \/ \E off \in 0..ino[f].size, n \in Lengths, v \in Vals : writei(f, off, n, v)
           \/ Map(f) \/ write_block(f) \/ write_done(f)
           \/ unlink(f) \/ bfree_zero(f) \/ bfree_bit(f) \/ trunc_done(f) \/ ifree(f) \/ ialloc(f)
           \/ create(f)
Next == (\E f \in Files : Step(f)) \/ Crash
Spec == Init /\ [][Next]_vars

-----------------------------------------------------------------------------
\* The blocks that an inode on the disk leads to, with repetitions.
AllBlocks(i) == [k \in 0..MAXFILE |-> IF k = MAXFILE THEN Indirect(i) ELSE Lookup(i, k)]

(***************************************************************************)
(* Also after a crash, no block belongs to two files or twice to one file, *)
(* and the blocks of a file that has a name are marked as used: the next   *)
(* balloc cannot hand them out again.                                      *)
(***************************************************************************)
NoSharing == \A f, g \in named : \A j, k \in 0..MAXFILE :
  LET b == AllBlocks(dino[f])[j] IN
  b # 0 => b \in bitmap \ Used0 /\ (b = AllBlocks(dino[g])[k] => f = g /\ j = k)

(***************************************************************************)
(* A block that is marked free is zero on the disk: balloc does not clear  *)
(* the blocks that it hands out, and bmap takes the cells of a new         *)
(* indirect block for a list.                                              *)
(***************************************************************************)
FreeIsZero == \A b \in Blocks \ bitmap : blk[b] = Zero

(***************************************************************************)
(* readi returns what writei has written, at every offset and length, and  *)
(* refuses an offset beyond the end or a sum that overflows.               *)
(***************************************************************************)
ReadsBack == \A f \in named : op[f].k = "idle" =>
  /\ Contents(ino[f]) = text[f]
  /\ \A off \in 0..(WRAP - 1), n \in Lengths :
       readi(ino[f], off, n) = IF off > Len(text[f]) \/ off + n >= WRAP THEN Fails
                               ELSE Reads(SubSeq(text[f], off + 1, Min({off + n, Len(text[f])})))

(***************************************************************************)
(* While there is no crash, the blocks in use are those of the files.      *)
(***************************************************************************)
NoneLost == (crashes = 0 /\ \A f \in Files : op[f].k \in {"idle", "truncated", "free", "allocated"}) =>
  bitmap \ Used0 = UNION {{AllBlocks(ino[f])[k] : k \in 0..MAXFILE} : f \in named} \ {0}

(***************************************************************************)
(* After a crash a file has at least what it had when its last call        *)
(* returned, except for the cells that a write was about to change.        *)
(***************************************************************************)
Durable == crashes' > crashes => \A f \in named :
  IF op[f].k = "idle" THEN text'[f] = text[f]
  ELSE /\ Len(text'[f]) = Len(text[f])
       /\ \A k \in 1..Len(text[f]) :
            k \notin (op[f].off - op[f].tot + 1)..(op[f].off - op[f].tot + op[f].n) => text'[f][k] = text[f][k]

(***************************************************************************)
(* bfree never finds a block free, and bmap never runs past the largest    *)
(* file.                                                                   *)
(***************************************************************************)
NoPanic == panicked => NoSpace

(***************************************************************************)
(* The free map is right about every block, at every write of balloc,      *)
(* bfree, bmap and itrunc and after a crash between any two of them.       *)
(***************************************************************************)
BlocksSound == NoSharing /\ FreeIsZero /\ NoneLost /\ NoPanic
=============================================================================
