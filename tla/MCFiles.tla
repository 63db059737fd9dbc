------------------------------ MODULE MCFiles ------------------------------
(***************************************************************************)
(* The open files and the contents of files for TLC. The two modules share *)
(* no state, so a behaviour is one of three: "table" is the table of open  *)
(* files with its descriptors, "data" is one file with several lengths and *)
(* values, "crash" is two files that compete for blocks, with a crash.     *)
(***************************************************************************)
EXTENDS Integers

CONSTANTS p1, p2, NoProc, ip, o1, f1, f2

VARIABLES part,
          file, ofile, live, pipe, iref, ilock, todo, got, moved,
          bitmap, blk, dino, ino, named, dead, op, text, crashes,
          panicked

Table == INSTANCE FileTable WITH
  Procs <- {p1, p2}, NFILE <- 3, NOFILE <- 2, Inodes <- {ip}, Pipes <- {o1}, MaxOff <- 1
Data == INSTANCE FileData WITH
  Files <- {f1}, Vals <- {1, 2}, BSIZE <- 2, NDIRECT <- 1, BPB <- 3, Size <- 9,
  Used0 <- {0, 1}, WRAP <- 16, Lengths <- {0, 1, 3, 9, 15}, MaxCrash <- 0
Crash == INSTANCE FileData WITH
  Files <- {f1, f2}, Vals <- {1}, BSIZE <- 2, NDIRECT <- 1, BPB <- 5, Size <- 5,
  Used0 <- {0, 1}, WRAP <- 16, Lengths <- {3}, MaxCrash <- 1

tableVars == <<file, ofile, live, pipe, iref, ilock, todo, got, moved>>
dataVars == <<bitmap, blk, dino, ino, named, dead, op, text, crashes>>

Init == /\ part \in {"table", "data", "crash"} /\ Table!Init
        /\ IF part = "crash" THEN Crash!Init ELSE Data!Init
Next == /\ UNCHANGED part
        /\ \/ part = "table" /\ Table!Next /\ UNCHANGED dataVars
           \/ part = "data" /\ Data!Next /\ UNCHANGED tableVars
           \/ part = "crash" /\ Crash!Next /\ UNCHANGED tableVars
Spec == Init /\ [][Next]_<<part, tableVars, dataVars, panicked>>

(***************************************************************************)
(* The count of a file structure is the number of descriptors, of all      *)
(* processes, that refer to it, plus the reference of a call in progress;  *)
(* filedup and fileclose never see an unused file; and between system      *)
(* calls each pipe end and each inode reference belongs to open files,     *)
(* whatever failed in sys_open and pipealloc.                              *)
(***************************************************************************)
FilesSound == part = "table" => Table!FilesSound

(***************************************************************************)
(* Processes that share a file never transfer the same piece twice:        *)
(* fileread and filewrite advance the offset under the inode's lock.       *)
(***************************************************************************)
NoPieceTwice == Table!NoPieceTwice

(***************************************************************************)
(* readi returns what writei has written, at every offset and length, and  *)
(* refuses an offset beyond the end or a sum that overflows.               *)
(***************************************************************************)
ReadsBack == part = "data" => Data!ReadsBack

(***************************************************************************)
(* Also after a crash between two bwrites, no block belongs to two files,  *)
(* the blocks of a file that has a name are marked in the free map, and a  *)
(* block marked free is zero, as bmap expects of a new indirect block.     *)
(* Without a crash itrunc and failing calls lose no block. bfree never     *)
(* finds a block free; the only panic is that of a full disk.              *)
(***************************************************************************)
BlocksSound == /\ part = "data" => Data!BlocksSound
               /\ part = "crash" => Crash!BlocksSound

(***************************************************************************)
(* After a crash a file has at least what it had when its last call        *)
(* returned, except for the cells that a writei was about to change.       *)
(***************************************************************************)
Durable == [][part = "crash" => Crash!Durable]_<<part, dataVars>>
=============================================================================
