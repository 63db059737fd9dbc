------------------------------- MODULE MCUser -------------------------------
(***************************************************************************)
(* What runs outside the kernel, and the algorithms, for TLC. The modules  *)
(* share no state, so a behaviour is one of five: "malloc" allocates and   *)
(* frees, "parse" reads a command line, "run" runs one, "mkfs" makes an    *)
(* image and "lib" gives inputs to the algorithms.                         *)
(***************************************************************************)
EXTENDS Integers, Sequences

VARIABLES part,
          hdr, freep, brk, pc, p, prevp, nunits, bp, live, core,
          buf,
          todo, ofile, parent, cwd, want, npid, npipe, fails, cds, line, done,
          argv, img, freeblock, usedblocks, freeinode, mpc, ret, i, pos, inum, din, data,
          kind, in

Prog(n) == [type |-> "EXEC", argv |-> <<n>>]
Pipe(l, r) == [type |-> "PIPE", left |-> l, right |-> r]
List(l, r) == [type |-> "LIST", left |-> l, right |-> r]
Back(c) == [type |-> "BACK", cmd |-> c]
Redir(c, d) == [type |-> "REDIR", cmd |-> c, file |-> <<>>, fd |-> d]
\* a | b | c      a | b ; c      (a ; b) | c > f      a & ; b < f      (a | b) &      (empty)
Lines == {Pipe(Prog("a"), Pipe(Prog("b"), Prog("c"))), List(Pipe(Prog("a"), Prog("b")), Prog("c")),
          Pipe(List(Prog("a"), Prog("b")), Redir(Prog("c"), 1)), List(Back(Prog("a")), Redir(Prog("b"), 0)),
          Back(Pipe(Prog("a"), Prog("b"))), [type |-> "EXEC", argv |-> <<>>]}

Malloc == INSTANCE Umalloc WITH HDR <- 2, Core <- 3, Limit <- 8, Bytes <- {2, 4}
Parse == INSTANCE ShellParse WITH Letters <- {"a"}, MAXARGS <- 3, MaxLine <- 5, line <- buf
Run == INSTANCE ShellRun WITH Pids <- 1 .. 6, Commands <- Lines, MaxFails <- 2
Image == INSTANCE Mkfs WITH BSIZE <- 2, NDIRECT <- 1, IPB <- 2, BPB <- 15, ninodes <- 4, size <- 16,
                            MaxFiles <- 2, MaxLen <- 7, pc <- mpc
Lib == INSTANCE Library WITH B <- 4, DIRSIZ <- 2, MaxIn <- [text |-> 6, path |-> 6, bytes |-> 5]

mallocVars == <<hdr, freep, brk, pc, p, prevp, nunits, bp, live, core>>
runVars == <<todo, ofile, parent, cwd, want, npid, npipe, fails, cds, line, done>>
imageVars == <<argv, img, freeblock, usedblocks, freeinode, mpc, ret, i, pos, inum, din, data>>
libVars == <<kind, in>>
vars == <<part, mallocVars, buf, runVars, imageVars, libVars>>

\* In the other parts a module stays in one of its initial states.
Init == /\ part \in {"malloc", "parse", "run", "mkfs", "lib"}
        /\ Malloc!Init /\ Parse!Init /\ Run!Init /\ Image!Init /\ Lib!Init
        /\ part # "run" => ofile[1][0] # Run!NoFile /\ ofile[1][2] # Run!NoFile
        /\ part # "mkfs" => argv = <<>>
        /\ part # "lib" => kind = "text"
RunStep(S) == part = "run" /\ S /\ UNCHANGED <<part, mallocVars, buf, imageVars, libVars>>
Next == /\ UNCHANGED part
        /\ \/ part = "malloc" /\ Malloc!Next /\ UNCHANGED <<buf, runVars, imageVars, libVars>>
           \/ part = "parse" /\ Parse!Next /\ UNCHANGED <<mallocVars, runVars, imageVars, libVars>>
           \/ RunStep(Run!Next)
           \/ part = "mkfs" /\ Image!Next /\ UNCHANGED <<mallocVars, buf, runVars, libVars>>
           \/ part = "lib" /\ Lib!Next /\ UNCHANGED <<mallocVars, buf, runVars, imageVars>>
\* A process that does not wait for another executes its instructions.
Spec == Init /\ [][Next]_vars /\ \A q \in 1 .. 6 : WF_vars(RunStep(Run!Step(q)))

(***************************************************************************)
(* Between calls of malloc and free every unit that morecore got is in     *)
(* exactly one block, of the program or of the free list: blocks do not    *)
(* overlap, none is lost, the list never leads out of the heap, and free   *)
(* merges what malloc has split: no two free blocks are neighbours.        *)
(***************************************************************************)
HeapSound == Malloc!HeapSound

(***************************************************************************)
(* The shell's parser accepts exactly the lines of the grammar, with the   *)
(* one tree the grammar gives them: one character of lookahead is enough,  *)
(* and redirections among the arguments do not get in their way. After     *)
(* nulterminate every argument and file name, read up to its NUL, is the   *)
(* word of the line: no NUL cuts another word short.                       *)
(***************************************************************************)
Parses == Parse!Parses /\ Parse!Terminated

(***************************************************************************)
(* A program that runcmd starts has its input and output where the command *)
(* line says and nothing else open but descriptor 2: no end of a pipe is   *)
(* left over from the shells above it; and it runs in the directory that   *)
(* cd chose before the line was read. What comes after ";" begins when     *)
(* all of the command before it has ended, except in the background, as    *)
(* long as no call of runcmd fails.                                        *)
(***************************************************************************)
StartsRight == Run!Plumbed /\ Run!InOrder

(***************************************************************************)
(* The shell comes back to its prompt: every process it waits for ends,    *)
(* since no one but its writers keeps a pipe open for those who read it to *)
(* the end, and no one but its readers for those who fill it.              *)
(***************************************************************************)
PromptAgain == Run!PromptAgain

(***************************************************************************)
(* The kernel finds in an image of mkfs what was on the command line: a    *)
(* root directory with ".", ".." and every file, inodes with the lengths   *)
(* of the files, and their bytes in order, however the reads cut them. The *)
(* bitmap, where the kernel looks for it, marks the blocks in front of the *)
(* data and the blocks of the inodes, indirect ones included, and nothing  *)
(* else; no block belongs to two inodes.                                   *)
(***************************************************************************)
ImageReads == Image!ImageReads /\ Image!BitmapExact

(***************************************************************************)
(* The algorithms compute what they stand for, on every short input: match *)
(* of grep decides the language of its patterns; skipelem takes a path     *)
(* apart at its slashes; memmove copies overlapping ranges; checksum and   *)
(* udp_checksum verify at a receiver; printint prints every number, the    *)
(* smallest negative one included; atoi reads the digits in front, so that *)
(* it reads back a number that is not negative, takes a negative one for   *)
(* 0, and wraps one that is too large.                                     *)
(***************************************************************************)
Computes == Lib!Matches /\ Lib!Splits /\ Lib!Overlaps /\ Lib!Checksums /\ Lib!PrintsBack
=============================================================================
