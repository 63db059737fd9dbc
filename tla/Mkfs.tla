------------------------------- MODULE Mkfs -------------------------------
(***************************************************************************)
(* mkfs (mkfs.c) builds the image of a file system: the super block, the   *)
(* inodes, one bitmap block and the data, for a root directory that lists  *)
(* the files on the command line. The kernel finds the parts of the image  *)
(* by its own formulas (fs.h) and block lists (fs.c bmap). A block is a    *)
(* function of cells; a cell is an inode, a directory entry <<inum, name>>,*)
(* a byte <<file, position>>, or a bit or block number n as <<n, 0>>.      *)
(***************************************************************************)
EXTENDS Integers, SequencesExt

CONSTANTS BSIZE, NDIRECT,      \* the indirect block has BSIZE entries
          IPB, BPB,
          ninodes, size,
          MaxFiles, MaxLen     \* bounds: the files, and their lengths

VARIABLES argv,                \* the lengths of the files
          img, freeblock, usedblocks, freeinode,
          pc, ret, i, pos,     \* main: where it is, after iappend; the file and the position read
          inum, din, data      \* iappend: its inode, the copy of it, what is still to be written
vars == <<argv, img, freeblock, usedblocks, freeinode, pc, ret, i, pos, inum, din, data>>

ROOTINO == 1
MAXFILE == NDIRECT + BSIZE
nbits == size \div BPB + 1
Num(n) == <<n, 0>>
zeroes == [c \in 0 .. BSIZE - 1 |-> Num(0)]
NoInode == [type |-> "none", nlink |-> 0, size |-> 0, addrs |-> [a \in 0 .. NDIRECT |-> 0]]
dot == 0
dotdot == -1

i2b(n) == n \div IPB + 2
Meta == ninodes \div IPB + 3 + nbits

\* The zeroed image, with the empty inodes where they belong.
Init == /\ argv \in UNION {[1 .. n -> 0 .. MaxLen] : n \in 0 .. MaxFiles}
        /\ img = [b \in 0 .. size - 1 |-> IF b \in 2 .. i2b(ninodes) THEN [c \in 0 .. IPB - 1 |-> NoInode] ELSE zeroes]
        /\ freeblock = Meta /\ usedblocks = Meta /\ freeinode = 1
        /\ pc = "root" /\ ret = "root" /\ i = 0 /\ pos = 0 /\ inum = 0 /\ din = NoInode /\ data = <<>>

rinode(n) == img[i2b(n)][n % IPB]
winode(n, ip) == [img EXCEPT ![i2b(n)][n % IPB] = ip]

ialloc(type) == /\ freeinode' = freeinode + 1
                /\ img' = winode(freeinode, [NoInode EXCEPT !.type = type, !.nlink = 1])

\* Calls iappend(n, d) and goes on at r.
iappend(n, d, r) == inum' = n /\ din' = img'[i2b(n)][n % IPB] /\ data' = d /\ ret' = r /\ pc' = "append"

-----------------------------------------------------------------------------
main_root ==
  /\ pc = "root"
  /\ ialloc("T_DIR") /\ iappend(freeinode, <<<<freeinode, dot>>>>, "dotdot")
  /\ UNCHANGED <<argv, freeblock, usedblocks, i, pos>>

main_dotdot ==
  /\ pc = "dotdot"
  /\ UNCHANGED img /\ iappend(ROOTINO, <<<<ROOTINO, dotdot>>>>, "file")
  /\ UNCHANGED <<argv, freeblock, usedblocks, freeinode, i, pos>>

main_file ==
  /\ pc = "file" /\ i < Len(argv)
  /\ i' = i + 1 /\ pos' = 0
  /\ ialloc("T_FILE") /\ iappend(ROOTINO, <<<<freeinode, i'>>>>, "read")
  /\ UNCHANGED <<argv, freeblock, usedblocks>>

\* read may return less than the buffer holds.
main_read ==
  /\ pc = "read" /\ pos < argv[i]
  /\ \E cc \in 1 .. BSIZE :
       /\ pos + cc <= argv[i] /\ pos' = pos + cc
       /\ UNCHANGED img /\ iappend(i + 1, [k \in 1 .. cc |-> <<i, pos + k>>], "read")
  /\ UNCHANGED <<argv, freeblock, usedblocks, freeinode, i>>

main_close ==
  /\ pc = "read" /\ pos = argv[i] /\ pc' = "file"
  /\ UNCHANGED <<argv, img, freeblock, usedblocks, freeinode, ret, i, pos, inum, din, data>>

balloc(used, im) ==
  [im EXCEPT ![ninodes \div IPB + 3] = [b \in 0 .. BPB - 1 |-> IF b < used THEN Num(1) ELSE Num(0)]]

\* The root directory is rounded up to whole blocks, one more if it fills its last one.
main_end ==
  /\ pc = "file" /\ i = Len(argv)
  /\ LET root == rinode(ROOTINO) IN
     IF usedblocks < BPB
     THEN /\ img' = balloc(usedblocks, winode(ROOTINO, [root EXCEPT !.size = (@ \div BSIZE + 1) * BSIZE]))
          /\ pc' = "exit"
     ELSE pc' = "abort" /\ UNCHANGED img
  /\ UNCHANGED <<argv, freeblock, usedblocks, freeinode, ret, i, pos, inum, din, data>>

-----------------------------------------------------------------------------
fbn == din.size \div BSIZE
need(a) == IF a = 0 THEN 1 ELSE 0
\* The indirect block, the new one if there was none.
ind == IF din.addrs[NDIRECT] = 0 THEN freeblock ELSE din.addrs[NDIRECT]

\* Mutation of n1: a block is written past its end.
n1_All == Len(data)

n1 == IF Len(data) < (fbn + 1) * BSIZE - din.size THEN Len(data) ELSE (fbn + 1) * BSIZE - din.size

\* Block b with the next n1 cells of data.
Filled(b) == [c \in 0 .. BSIZE - 1 |->
  LET k == c - (din.size - fbn * BSIZE) + 1 IN IF k \in 1 .. n1 THEN data[k] ELSE b[c]]
Taken(k) == freeblock' = freeblock + k /\ usedblocks' = usedblocks + k

\* assert(fbn < MAXFILE), and rsect fails past the end of the image.
Room == IF fbn < NDIRECT THEN din.addrs[fbn] # 0 \/ freeblock < size
        ELSE /\ fbn < MAXFILE /\ ind < size
             /\ img[ind][fbn - NDIRECT] # Num(0) \/ freeblock + need(din.addrs[NDIRECT]) < size

iappend_direct ==
  /\ pc = "append" /\ data # <<>> /\ fbn < NDIRECT /\ Room
  /\ LET x == IF din.addrs[fbn] = 0 THEN freeblock ELSE din.addrs[fbn] IN
     /\ Taken(need(din.addrs[fbn])) /\ img' = [img EXCEPT ![x] = Filled(@)]
     /\ din' = [din EXCEPT !.addrs[fbn] = x, !.size = @ + n1]
  /\ data' = SubSeq(data, n1 + 1, Len(data))
  /\ UNCHANGED <<argv, freeinode, pc, ret, i, pos, inum>>

iappend_indirect ==
  /\ pc = "append" /\ data # <<>> /\ fbn >= NDIRECT /\ Room
  /\ LET k == need(din.addrs[NDIRECT])
         old == img[ind][fbn - NDIRECT][1]
         x == IF old = 0 THEN freeblock + k ELSE old
     IN  /\ Taken(k + need(old))
         /\ img' = [img EXCEPT ![ind][fbn - NDIRECT] = Num(x), ![x] = Filled(@)]
         /\ din' = [din EXCEPT !.addrs[NDIRECT] = ind, !.size = @ + n1]
  /\ data' = SubSeq(data, n1 + 1, Len(data))
  /\ UNCHANGED <<argv, freeinode, pc, ret, i, pos, inum>>

iappend_fails ==
  /\ pc = "append" /\ data # <<>> /\ ~Room
  /\ pc' = "abort"
  /\ UNCHANGED <<argv, img, freeblock, usedblocks, freeinode, ret, i, pos, inum, din, data>>

iappend_done ==
  /\ pc = "append" /\ data = <<>>
  /\ img' = winode(inum, din) /\ pc' = ret
  /\ UNCHANGED <<argv, freeblock, usedblocks, freeinode, ret, i, pos, inum, din, data>>

Next == \/ main_root \/ main_dotdot \/ main_file \/ main_read \/ main_close \/ main_end
        \/ iappend_direct \/ iappend_indirect \/ iappend_fails \/ iappend_done

-----------------------------------------------------------------------------
\* How the kernel finds things: IBLOCK, BBLOCK, and bmap of a block that is there.
Dinode(n) == img[n \div IPB + 2][n % IPB]
Bit(b) == img[b \div BPB + ninodes \div IPB + 3][b % BPB][1]
Bmap(ip, bn) == IF bn < NDIRECT THEN ip.addrs[bn] ELSE img[ip.addrs[NDIRECT]][bn - NDIRECT][1]
Cell(ip, k) == img[Bmap(ip, k \div BSIZE)][k % BSIZE]
Files == {n \in 1 .. freeinode - 1 : Dinode(n).type # "none"}
\* The blocks of an inode; the root's size may count one that is not there.
Len0(n) == IF n = ROOTINO THEN Len(argv) + 2 ELSE Dinode(n).size
BlockNos(n) == {bn \in 0 .. MAXFILE - 1 : bn * BSIZE < Len0(n)}

(***************************************************************************)
(* The kernel finds in the image what was on the command line: a root      *)
(* directory with ".", ".." and every file by its name, inodes that have   *)
(* the lengths of the files, and their bytes in order, however the reads   *)
(* cut them and wherever the blocks lie.                                   *)
(***************************************************************************)
ImageReads == pc = "exit" =>
  LET root == Dinode(ROOTINO) IN
  /\ root.type = "T_DIR" /\ Cell(root, 0) = <<ROOTINO, dot>> /\ Cell(root, 1) = <<ROOTINO, dotdot>>
  /\ \A f \in 1 .. Len(argv) :
       LET e == Cell(root, f + 1)
           ip == Dinode(e[1])
       IN  /\ e[2] = f /\ ip.type = "T_FILE" /\ ip.nlink = 1 /\ ip.size = argv[f]
           /\ \A k \in 0 .. argv[f] - 1 : Cell(ip, k) = <<f, k + 1>>

(***************************************************************************)
(* The bitmap, where the kernel looks for it, marks the blocks in front of *)
(* the data and the blocks of the inodes, indirect ones included, and      *)
(* nothing else; no block belongs to two inodes.                           *)
(***************************************************************************)
BitmapExact == pc = "exit" =>
  LET Own(n) == {Bmap(Dinode(n), bn) : bn \in BlockNos(n)} \cup
                (IF \E bn \in BlockNos(n) : bn >= NDIRECT THEN {Dinode(n).addrs[NDIRECT]} ELSE {})
  IN  /\ \A b \in 0 .. size - 1 : Bit(b) = 1 <=> b < Meta \/ \E n \in Files : b \in Own(n)
      /\ \A m, n \in Files : m # n => Own(m) \cap Own(n) = {}
      /\ \A n \in Files : \A b \in Own(n) : b \in Meta .. size - 1
=============================================================================
