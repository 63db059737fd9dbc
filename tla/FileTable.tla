----------------------------- MODULE FileTable -----------------------------
(***************************************************************************)
(* Open files: the table of file structures (file.c), the descriptors of   *)
(* processes and the system calls on them (sysfile.c), fork and exit as    *)
(* far as they copy and drop descriptors (proc.c), and the pipe ends and   *)
(* inodes that files refer to. One action is one critical section of       *)
(* ftable.lock or of an inode's lock; todo[p] lists the calls that process *)
(* p still has to make in the system call it is in.                        *)
(***************************************************************************)
EXTENDS Naturals, Sequences, FiniteSetsExt, SequencesExt

CONSTANTS Procs, NoProc,
          NFILE, NOFILE,
          Inodes,            \* inodes that paths lead to
          Pipes,             \* pages that kalloc can give to pipes
          MaxOff             \* bound: the largest offset

VARIABLES file,     \* ftable
          ofile,    \* proc->ofile; 0: closed
          live,     \* the processes that exist
          pipe,     \* pipe[o]: its open ends; {}: the page is free
          iref,     \* references that files and calls have to an inode
          ilock,    \* the process that has the inode locked
          todo,     \* the rest of each process's system call
          got,      \* the files and the object that the call has got so far
          moved,    \* history: the offsets transferred through each file since it was opened
          panicked

vars == <<file, ofile, live, pipe, iref, ilock, todo, got, moved, panicked>>
objects == <<pipe, iref, ilock>>

Files == 1..NFILE
Fds == 1..NOFILE
Unused == [ref |-> 0, type |-> "FD_NONE", obj |-> "none", end |-> "none", off |-> 0]

Init ==
  /\ file = [f \in Files |-> Unused] /\ moved = [f \in Files |-> {}]
  /\ ofile = [p \in Procs |-> [fd \in Fds |-> 0]]
  /\ live = {CHOOSE p \in Procs : TRUE}
  /\ pipe = [o \in Pipes |-> {}]
  /\ iref = [o \in Inodes |-> 0] /\ ilock = [o \in Inodes |-> NoProc]
  /\ todo = [p \in Procs |-> <<>>] /\ got = [p \in Procs |-> <<>>]
  /\ panicked = FALSE

Call(p, c) == ~panicked /\ todo[p] # <<>> /\ Head(todo[p])[1] = c
Arg(p, k) == Head(todo[p])[k]
Then(p, s) == todo' = [todo EXCEPT ![p] = s \o Tail(@)]
Fail(p, s) == todo' = [todo EXCEPT ![p] = s]
Begin(p, s) == /\ p \in live /\ todo[p] = <<>> /\ ~panicked
               /\ todo' = [todo EXCEPT ![p] = s] /\ got' = [got EXCEPT ![p] = <<>>]
Done(p) == got' = [got EXCEPT ![p] = <<>>]
Got(p, x) == got' = [got EXCEPT ![p] = Append(@, x)]
FreeFds(p) == {fd \in Fds : ofile[p][fd] = 0}
FirstFd(p) == Min(FreeFds(p))
Open(p, fd) == ofile[p][fd] # 0

-----------------------------------------------------------------------------
\* filealloc and fdalloc as the calls below use them; bad is the error path.
filealloc(p, c, bad) ==
  LET free == {f \in Files : file[f].ref = 0} IN
  /\ Call(p, c)
  /\ IF free = {} THEN Fail(p, bad) /\ Done(p) /\ UNCHANGED file
     ELSE /\ file' = [file EXCEPT ![Min(free)].ref = 1]
          /\ Got(p, Min(free)) /\ Then(p, <<>>)
  /\ UNCHANGED <<ofile, live, objects, moved, panicked>>

filedup(p) ==
  LET f == Arg(p, 2) child == Arg(p, 3) fd == Arg(p, 4) IN
  /\ Call(p, "filedup")
  /\ panicked' = (file[f].ref < 1)
  /\ file' = [file EXCEPT ![f].ref = @ + 1]
  /\ ofile' = [ofile EXCEPT ![child][fd] = f] /\ Then(p, <<>>)
  /\ UNCHANGED <<live, objects, got, moved>>

\* ref and type are reset; the rest is not looked at again before it is set.
Dropped(r) == Unused

\* The section of fileclose under ftable.lock. The object is closed after it.
fileclose(p) ==
  LET f == Arg(p, 2) IN
  /\ Call(p, "fileclose")
  /\ panicked' = (file[f].ref < 1)
  /\ IF file[f].ref > 1
     THEN file' = [file EXCEPT ![f].ref = @ - 1] /\ Then(p, <<>>) /\ UNCHANGED moved
     ELSE /\ file' = [file EXCEPT ![f] = Dropped(@)]
          /\ moved' = [moved EXCEPT ![f] = {}]
          /\ Then(p, CASE file[f].type = "FD_PIPE" -> << <<"pipeclose", file[f].obj, file[f].end>> >>
                       [] file[f].type = "FD_INODE" -> << <<"iput", file[f].obj>> >>
                       [] OTHER -> <<>>)
  /\ UNCHANGED <<ofile, live, objects, got>>

pipeclose(p) ==
  /\ Call(p, "pipeclose")
  /\ pipe' = [pipe EXCEPT ![Arg(p, 2)] = @ \ {Arg(p, 3)}] /\ Then(p, <<>>)
  /\ UNCHANGED <<file, ofile, live, iref, ilock, got, moved, panicked>>

iput(p) ==
  /\ Call(p, "iput")
  /\ iref' = [iref EXCEPT ![Arg(p, 2)] = @ - 1] /\ Then(p, <<>>)
  /\ ilock' = [ilock EXCEPT ![Arg(p, 2)] = IF @ = p THEN NoProc ELSE @]
  /\ UNCHANGED <<file, ofile, live, pipe, got, moved, panicked>>

-----------------------------------------------------------------------------
sys_dup(p, fd) ==
  /\ Begin(p, IF ~Open(p, fd) \/ FreeFds(p) = {} THEN <<>>
              ELSE << <<"filedup", ofile[p][fd], p, FirstFd(p)>> >>)
  /\ UNCHANGED <<file, ofile, live, objects, moved, panicked>>

sys_close(p, fd) ==
  /\ Open(p, fd)
  /\ Begin(p, << <<"fileclose", ofile[p][fd]>> >>)
  /\ ofile' = [ofile EXCEPT ![p][fd] = 0]
  /\ UNCHANGED <<file, live, objects, moved, panicked>>

\* sys_open after namei or create: the inode is referenced and locked.
sys_open(p, o) ==
  /\ ilock[o] = NoProc
  /\ Begin(p, << <<"open_file", o>>, <<"open_fd", o>> >>)
  /\ iref' = [iref EXCEPT ![o] = @ + 1] /\ ilock' = [ilock EXCEPT ![o] = p]
  /\ UNCHANGED <<file, ofile, live, pipe, moved, panicked>>

open_file(p) == filealloc(p, "open_file", << <<"iput", Arg(p, 2)>> >>)

open_fd(p) ==
  LET o == Arg(p, 2) f == got[p][1] IN
  /\ Call(p, "open_fd")
  /\ IF FreeFds(p) = {}
     THEN Then(p, << <<"fileclose", f>>, <<"iput", o>> >>) /\ UNCHANGED <<file, ofile, ilock>>
     ELSE /\ ofile' = [ofile EXCEPT ![p][FirstFd(p)] = f]
          /\ file' = [file EXCEPT ![f] = [ref |-> @.ref, type |-> "FD_INODE", obj |-> o, end |-> "none", off |-> 0]]
          /\ ilock' = [ilock EXCEPT ![o] = NoProc] /\ Then(p, <<>>)
  /\ Done(p) /\ UNCHANGED <<live, pipe, iref, moved, panicked>>

sys_pipe(p) ==
  /\ Begin(p, << <<"pipe_rf">>, <<"pipe_wf">>, <<"pipe_page">>, <<"pipe_fd0">> >>)
  /\ UNCHANGED <<file, ofile, live, objects, moved, panicked>>

\* pipealloc.
CloseGot(p) == [k \in 1..Len(got[p]) |-> <<"fileclose", got[p][k]>>]
pipe_rf(p) == filealloc(p, "pipe_rf", <<>>)
pipe_wf(p) == filealloc(p, "pipe_wf", CloseGot(p))

\* kalloc can also fail because of what others have taken.
pipe_page(p) ==
  LET free == {o \in Pipes : pipe[o] = {}}
      end(o, e) == [ref |-> 1, type |-> "FD_PIPE", obj |-> o, end |-> e, off |-> 0] IN
  /\ Call(p, "pipe_page")
  /\ \/ Fail(p, CloseGot(p)) /\ Done(p) /\ UNCHANGED <<file, pipe>>
     \/ UNCHANGED got /\ \E o \in free :
          /\ pipe' = [pipe EXCEPT ![o] = {"r", "w"}] /\ Then(p, <<>>)
          /\ file' = [file EXCEPT ![got[p][1]] = end(o, "r"), ![got[p][2]] = end(o, "w")]
  /\ UNCHANGED <<ofile, live, iref, ilock, moved, panicked>>

\* fdalloc(rf) takes over the reference of rf; without it both files are closed.
pipe_fd0(p) ==
  /\ Call(p, "pipe_fd0")
  /\ IF FreeFds(p) = {}
     THEN Then(p, CloseGot(p)) /\ Done(p) /\ UNCHANGED ofile
     ELSE /\ ofile' = [ofile EXCEPT ![p][FirstFd(p)] = got[p][1]]
          /\ got' = [got EXCEPT ![p] = Tail(@)]
          /\ Then(p, << <<"pipe_fd1", FirstFd(p)>> >>)
  /\ UNCHANGED <<file, live, objects, moved, panicked>>

\* Mutation of pipe_fd1: the error path does not clear ofile[fd0].
pipe_fd1_Keep(p) ==
  LET fd0 == Arg(p, 2) IN
  /\ Call(p, "pipe_fd1")
  /\ IF FreeFds(p) = {}
     THEN Then(p, << <<"fileclose", ofile[p][fd0]>> >> \o CloseGot(p)) /\ UNCHANGED ofile
     ELSE ofile' = [ofile EXCEPT ![p][FirstFd(p)] = got[p][1]] /\ Then(p, <<>>)
  /\ Done(p) /\ UNCHANGED <<file, live, objects, moved, panicked>>

\* fdalloc(wf); without it the first descriptor is cleared and both files are closed.
pipe_fd1(p) ==
  LET fd0 == Arg(p, 2) IN
  /\ Call(p, "pipe_fd1")
  /\ IF FreeFds(p) = {}
     THEN /\ ofile' = [ofile EXCEPT ![p][fd0] = 0]
          /\ Then(p, << <<"fileclose", ofile[p][fd0]>> >> \o CloseGot(p))
     ELSE ofile' = [ofile EXCEPT ![p][FirstFd(p)] = got[p][1]] /\ Then(p, <<>>)
  /\ Done(p) /\ UNCHANGED <<file, live, objects, moved, panicked>>

\* Mutation of Transfer: the inode is not locked, so it may be in use by another process.
Transfer_Unlocked(p, o) == UNCHANGED ilock

Transfer(p, o) == ilock[o] = NoProc /\ ilock' = [ilock EXCEPT ![o] = p]

\* fileread and filewrite of one unit; filestat and fileioctl, which leave the
\* offset alone. Files of a pipe are the business of module Pipe.
fileio(p, fd, moves) ==
  LET f == ofile[p][fd] o == file[f].obj IN
  /\ Open(p, fd)
  /\ file[f].type = "FD_INODE" /\ Transfer(p, o)
  /\ Begin(p, << <<"io", f, o, moves, file[f].off>> >>)
  /\ UNCHANGED <<file, ofile, live, pipe, iref, moved, panicked>>

\* readi or writei is done: the offset is advanced by what it returned.
io_done(p) ==
  LET f == Arg(p, 2) off == Arg(p, 5) IN
  /\ Call(p, "io")
  /\ \/ UNCHANGED <<file, moved>>
     \/ /\ Arg(p, 4) /\ off < MaxOff
        /\ file' = [file EXCEPT ![f].off = @ + 1]
        /\ moved' = [moved EXCEPT ![f] = @ \cup {off}]
  /\ ilock' = [ilock EXCEPT ![Arg(p, 3)] = NoProc] /\ Then(p, <<>>)
  /\ UNCHANGED <<ofile, live, pipe, iref, got, panicked>>

\* fork copies the descriptors; the child runs when all of them are copied.
fork(p, q) ==
  /\ q \notin live /\ todo[q] = <<>> /\ \A x \in live : <<"run", q>> \notin Range(todo[x])
  /\ Begin(p, [k \in 1..Cardinality(Fds \ FreeFds(p)) |->
                 LET fd == SetToSortSeq(Fds \ FreeFds(p), <)[k]
                 IN <<"filedup", ofile[p][fd], q, fd>>] \o << <<"run", q>> >>)
  /\ UNCHANGED <<file, ofile, live, objects, moved, panicked>>

run(p) ==
  /\ Call(p, "run") /\ live' = live \cup {Arg(p, 2)} /\ Then(p, <<>>)
  /\ UNCHANGED <<file, ofile, objects, got, moved, panicked>>

\* exit closes the descriptors one after the other.
exit(p) ==
  /\ Cardinality(live) > 1
  /\ Begin(p, FlattenSeq([k \in 1..NOFILE |->
       IF Open(p, k) THEN << <<"fileclose", ofile[p][k]>>, <<"clear", k>> >> ELSE <<>>]))
  /\ live' = live \ {p}
  /\ UNCHANGED <<file, ofile, objects, moved, panicked>>

clear(p) ==
  /\ Call(p, "clear") /\ ofile' = [ofile EXCEPT ![p][Arg(p, 2)] = 0] /\ Then(p, <<>>)
  /\ UNCHANGED <<file, live, objects, got, moved, panicked>>

-----------------------------------------------------------------------------
Start(p) == \/ \E fd \in Fds : sys_dup(p, fd) \/ sys_close(p, fd) \/ fileio(p, fd, TRUE) \/ fileio(p, fd, FALSE)
            \/ \E o \in Inodes : sys_open(p, o)
            \/ \E q \in Procs : fork(p, q)
            \/ sys_pipe(p) \/ exit(p)
Step(p) == \/ filedup(p) \/ fileclose(p) \/ pipeclose(p) \/ iput(p) \/ open_file(p) \/ open_fd(p)
           \/ pipe_rf(p) \/ pipe_wf(p) \/ pipe_page(p) \/ pipe_fd0(p) \/ pipe_fd1(p)
           \/ io_done(p) \/ run(p) \/ clear(p)
Next == \E p \in Procs : Start(p) \/ Step(p)
Spec == Init /\ [][Next]_vars

-----------------------------------------------------------------------------
\* The references that the rest of p's system call will consume.
Pending(p, f) == Cardinality({k \in 1..Len(todo[p]) : todo[p][k] = <<"fileclose", f>>
                                /\ (k = Len(todo[p]) \/ todo[p][k + 1][1] # "clear")})
Allocating == {"open_file", "open_fd", "pipe_wf", "pipe_page", "pipe_fd0", "pipe_fd1"}
Owned(p, f) == IF \E k \in 1..Len(todo[p]) : todo[p][k][1] \in Allocating
               THEN Cardinality({k \in 1..Len(got[p]) : got[p][k] = f}) ELSE Pending(p, f)
Cleared(p, fd) == \E k \in 1..Len(todo[p]) :
  todo[p][k] = <<"clear", fd>> /\ (k = 1 \/ todo[p][k - 1][1] # "fileclose")
Quiet == \A p \in Procs : todo[p] = <<>>

(***************************************************************************)
(* The count of a file structure is the number of descriptors, of all      *)
(* processes, that refer to it, plus the reference of a call in progress:  *)
(* no descriptor is left with a structure that another open reuses.        *)
(***************************************************************************)
RefsCount == \A f \in Files : file[f].ref =
  Cardinality({x \in Procs \X Fds : ofile[x[1]][x[2]] = f /\ ~Cleared(x[1], x[2])})
  + MapThenSumSet(LAMBDA p : Owned(p, f), Procs)

(***************************************************************************)
(* filedup and fileclose never see a file that is not in use.              *)
(***************************************************************************)
NoPanic == ~panicked

(***************************************************************************)
(* Between system calls nothing is lost, whatever failed: each pipe end    *)
(* and each inode reference belongs to files that are open, an end that is *)
(* gone belongs to none, and a process that has exited has no descriptor.  *)
(***************************************************************************)
NothingLost == Quiet =>
  /\ \A o \in Pipes : pipe[o] = {file[f].end : f \in {g \in Files : file[g].ref > 0 /\ file[g].obj = o}}
  /\ \A o \in Inodes : /\ iref[o] = Cardinality({f \in Files : file[f].ref > 0 /\ file[f].obj = o})
                       /\ ilock[o] = NoProc
  /\ \A f \in Files : file[f].ref > 0 => file[f].type # "FD_NONE"
  /\ \A p \in Procs \ live : FreeFds(p) = Fds

(***************************************************************************)
(* Processes that share a file (dup, fork) share its offset and never      *)
(* transfer the same piece twice: fileread and filewrite advance it under  *)
(* the inode's lock.                                                       *)
(***************************************************************************)
NoPieceTwice == \A f \in Files : file[f].type = "FD_INODE" => Cardinality(moved[f]) = file[f].off

(***************************************************************************)
(* The table of open files is exact while dup, close, fork, exit and       *)
(* failing opens and pipes interleave.                                     *)
(***************************************************************************)
FilesSound == RefsCount /\ NothingLost /\ NoPanic
=============================================================================
