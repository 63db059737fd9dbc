------------------------------ MODULE ShellRun ------------------------------
(***************************************************************************)
(* The shell runs a command (sh.c main, runcmd): the processes it forks    *)
(* for lists, pipes and background commands, the descriptors they close    *)
(* and duplicate, and the children they wait for; its built-in cd and the  *)
(* end of its input. Each process does its system calls one at a time; the *)
(* calls are those of sysfile.c and proc.c, seen from outside. A program   *)
(* that reads from a pipe reads it to the end of file, and one that writes *)
(* to a pipe may fill it; the others run for as long as they like.         *)
(***************************************************************************)
EXTENDS Naturals, SequencesExt

CONSTANTS Pids,        \* 1 is the shell, 2 and up are forked in this order
          Commands,    \* the trees that parsecmd may return
          MaxFails     \* bound: system calls that fail

VARIABLES todo,      \* the calls that a process has still to make; <<>> if it does not exist
          ofile,     \* its descriptors
          parent,
          cwd,       \* its current directory: how many cds of the shell it is away from the first
          want,      \* where its input comes from and its output goes to by the command line
          npid, npipe, fails,
          cds,       \* history: the cd commands of the shell that succeeded
          line,      \* the commands that have been read, and the cds before them
          done       \* the programs that have ended
vars == <<todo, ofile, parent, cwd, want, npid, npipe, fails, cds, line, done>>

shell == 1
NoFile == <<"none", 0>>
con == <<"console", 0>>
Fds == 0 .. 4

Do(op) == [op |-> op]
DoFd(op, fd) == [op |-> op, fd |-> fd]
DoCmd(op, cmd) == [op |-> op, cmd |-> cmd]

\* The shell inherits descriptors; init gives it three.
Init == /\ \E n \in 0 .. 3 : ofile = [p \in Pids |-> [fd \in Fds |-> IF p = shell /\ fd < n THEN con ELSE NoFile]]
        /\ todo = [p \in Pids |-> IF p = shell THEN <<Do("console")>> ELSE <<>>]
        /\ parent = [p \in Pids |-> 0] /\ want = [p \in Pids |-> <<con, con>>]
        /\ cwd = [p \in Pids |-> 0] /\ cds = 0
        /\ npid = 1 /\ npipe = 0 /\ fails = 0 /\ line = [cmds |-> {}, dir |-> 0] /\ done = {}

-----------------------------------------------------------------------------
Is(p, op) == todo[p] # <<>> /\ Head(todo[p]).op = op
Arg(p) == Head(todo[p])
Then(p, ops) == [todo EXCEPT ![p] = ops \o Tail(@)]
Free(p) == {fd \in Fds : ofile[p][fd] = NoFile}
Lowest(p) == CHOOSE fd \in Free(p) : \A e \in Free(p) : fd <= e

\* main: open("console") until it gives a descriptor above 2, and close that one; or until it
\* fails, which the shell takes for the same ("Assumes three file descriptors open").
open_console(p) ==
  /\ Is(p, "console")
  /\ LET fd == Lowest(p) IN
     IF fd < 3 THEN ofile' = [ofile EXCEPT ![p][fd] = con] /\ UNCHANGED todo
     ELSE todo' = Then(p, <<Do("getcmd")>>) /\ UNCHANGED ofile
  /\ UNCHANGED <<cwd, cds, parent, want, npid, npipe, fails, line, done>>

\* main: a line is read and parsed by a child that runs it, and the child is waited for (bound: one line).
getcmd(p, cmd) ==
  /\ Is(p, "getcmd") /\ npid = 1
  /\ todo' = Then(p, <<[op |-> "fork", run |-> <<DoCmd("run", cmd)>>, want |-> want[p]], Do("wait"), Do("getcmd")>>)
  /\ line' = [cmds |-> {cmd}, dir |-> cds]
  /\ UNCHANGED <<cwd, cds, ofile, parent, want, npid, npipe, fails, done>>

\* main: "cd" is done by the shell itself; when chdir fails it says so and goes on (bound: one cd).
getcmd_cd(p) ==
  /\ Is(p, "getcmd") /\ cds = 0
  /\ todo' = Then(p, <<Do("chdir"), Do("getcmd")>>)
  /\ UNCHANGED <<cwd, cds, ofile, parent, want, npid, npipe, fails, line, done>>

chdir(p) ==
  /\ Is(p, "chdir") /\ todo' = Then(p, <<>>)
  /\ \/ cwd' = [cwd EXCEPT ![p] = @ + 1] /\ cds' = cds + 1 /\ UNCHANGED fails
     \/ fails < MaxFails /\ fails' = fails + 1 /\ UNCHANGED <<cwd, cds>>
  /\ UNCHANGED <<ofile, parent, want, npid, npipe, line, done>>

\* main: the end of the input.
getcmd_eof(p) ==
  /\ Is(p, "getcmd") /\ todo' = [todo EXCEPT ![p] = <<Do("exit")>>]
  /\ UNCHANGED <<cwd, cds, ofile, parent, want, npid, npipe, fails, line, done>>

\* fork1: the child begins with what it does after the fork.
fork(p) ==
  LET c == npid + 1 IN
  /\ Is(p, "fork") /\ c \in Pids
  /\ todo' = [Then(p, <<>>) EXCEPT ![c] = Arg(p).run \o <<Do("exit")>>]
  /\ ofile' = [ofile EXCEPT ![c] = ofile[p]] /\ cwd' = [cwd EXCEPT ![c] = cwd[p]]
  /\ parent' = [parent EXCEPT ![c] = p]
  /\ want' = [want EXCEPT ![c] = Arg(p).want] /\ npid' = c
  /\ UNCHANGED <<cds, npipe, fails, line, done>>

\* fork1 panics, pipe panics, open and exec print an error: the process exits.
call_fails(p) ==
  /\ Is(p, "fork") \/ Is(p, "pipe") \/ Is(p, "open") \/ Is(p, "exec")
  /\ fails < MaxFails /\ fails' = fails + 1
  /\ todo' = [todo EXCEPT ![p] = <<Do("exit")>>]
  /\ UNCHANGED <<cwd, cds, ofile, parent, want, npid, npipe, line, done>>

close(p) ==
  /\ Is(p, "close")
  /\ ofile' = [ofile EXCEPT ![p][Arg(p).fd] = NoFile] /\ todo' = Then(p, <<>>)
  /\ UNCHANGED <<cwd, cds, parent, want, npid, npipe, fails, line, done>>

dup(p) ==
  /\ Is(p, "dup")
  /\ ofile' = [ofile EXCEPT ![p][Lowest(p)] = ofile[p][Arg(p).fd]] /\ todo' = Then(p, <<>>)
  /\ UNCHANGED <<cwd, cds, parent, want, npid, npipe, fails, line, done>>

\* open of a redirection takes the lowest descriptor, the one just closed.
open(p) ==
  /\ Is(p, "open")
  /\ ofile' = [ofile EXCEPT ![p][Lowest(p)] = <<"file", 0>>] /\ todo' = Then(p, <<>>)
  /\ UNCHANGED <<cwd, cds, parent, want, npid, npipe, fails, line, done>>

\* wait returns when a child has exited, and at once if there are no children.
wait(p) ==
  /\ Is(p, "wait")
  /\ \/ /\ \A c \in Pids : parent[c] # p
        /\ todo' = Then(p, <<>>) /\ UNCHANGED parent
     \/ \E c \in Pids : /\ parent[c] = p /\ Is(c, "zombie")
                        /\ todo' = [Then(p, <<>>) EXCEPT ![c] = <<>>] /\ parent' = [parent EXCEPT ![c] = 0]
  /\ UNCHANGED <<cwd, cds, ofile, want, npid, npipe, fails, line, done>>

\* exit closes everything and leaves the children to init, which waits for them.
exit(p) ==
  /\ Is(p, "exit")
  /\ ofile' = [ofile EXCEPT ![p] = [fd \in Fds |-> NoFile]]
  /\ todo' = [c \in Pids |-> IF c = p THEN IF parent[p] = 0 THEN <<>> ELSE <<Do("zombie")>>
                             ELSE IF parent[c] = p /\ Is(c, "zombie") THEN <<>> ELSE todo[c]]
  /\ parent' = [c \in Pids |-> IF parent[c] = p THEN 0 ELSE parent[c]]
  /\ UNCHANGED <<cwd, cds, want, npid, npipe, fails, line, done>>

-----------------------------------------------------------------------------
Fork(ops, w) == [op |-> "fork", run |-> ops, want |-> w]

\* runcmd's switch; what it does not say ends in exit.
Calls(p, cmd) ==
  CASE cmd.type = "EXEC" -> IF cmd.argv = <<>> THEN <<>> ELSE <<DoCmd("exec", cmd)>>
    [] cmd.type = "REDIR" -> <<DoFd("close", cmd.fd), Do("open"), DoCmd("run", cmd.cmd)>>
    [] cmd.type = "LIST" -> <<Fork(<<DoCmd("run", cmd.left)>>, want[p]), Do("wait"), DoCmd("run", cmd.right)>>
    [] cmd.type = "PIPE" -> <<DoCmd("pipe", cmd)>>
    [] cmd.type = "BACK" -> <<Fork(<<DoCmd("run", cmd.cmd)>>, want[p])>>

runcmd(p) ==
  /\ Is(p, "run")
  /\ LET cmd == Arg(p).cmd IN
     /\ todo' = Then(p, Calls(p, cmd))
     /\ want' = IF cmd.type = "REDIR" THEN [want EXCEPT ![p][cmd.fd + 1] = <<"file", 0>>] ELSE want
  /\ UNCHANGED <<cwd, cds, ofile, parent, npid, npipe, fails, line, done>>

\* Mutation of PipeCalls: the left side keeps the end for reading.
PipeCalls_Keep(cmd, r, w, in, out) ==
  <<Fork(<<DoFd("close", 1), DoFd("dup", w), DoFd("close", w), DoCmd("run", cmd.left)>>, <<in, <<"w", npipe + 1>>>>),
    Fork(<<DoFd("close", 0), DoFd("dup", r), DoFd("close", r), DoFd("close", w), DoCmd("run", cmd.right)>>, <<<<"r", npipe + 1>>, out>>),
    DoFd("close", r), DoFd("close", w), Do("wait"), Do("wait")>>

\* Mutation of PipeCalls: the parent closes its ends after it has waited.
PipeCalls_Late(cmd, r, w, in, out) ==
  <<Fork(<<DoFd("close", 1), DoFd("dup", w), DoFd("close", r), DoFd("close", w), DoCmd("run", cmd.left)>>, <<in, <<"w", npipe + 1>>>>),
    Fork(<<DoFd("close", 0), DoFd("dup", r), DoFd("close", r), DoFd("close", w), DoCmd("run", cmd.right)>>, <<<<"r", npipe + 1>>, out>>),
    Do("wait"), Do("wait"), DoFd("close", r), DoFd("close", w)>>

\* What follows pipe(p) for p = {r, w}.
PipeCalls(cmd, r, w, in, out) ==
  <<Fork(<<DoFd("close", 1), DoFd("dup", w), DoFd("close", r), DoFd("close", w), DoCmd("run", cmd.left)>>, <<in, <<"w", npipe + 1>>>>),
    Fork(<<DoFd("close", 0), DoFd("dup", r), DoFd("close", r), DoFd("close", w), DoCmd("run", cmd.right)>>, <<<<"r", npipe + 1>>, out>>),
    DoFd("close", r), DoFd("close", w), Do("wait"), Do("wait")>>

pipe(p) ==
  /\ Is(p, "pipe")
  /\ LET r == Lowest(p)
         w == CHOOSE fd \in Free(p) \ {r} : \A e \in Free(p) \ {r} : fd <= e
     IN  /\ todo' = Then(p, PipeCalls(Arg(p).cmd, r, w, want[p][1], want[p][2]))
         /\ ofile' = [ofile EXCEPT ![p][r] = <<"r", npipe + 1>>, ![p][w] = <<"w", npipe + 1>>]
  /\ npipe' = npipe + 1
  /\ UNCHANGED <<cwd, cds, parent, want, npid, fails, line, done>>

\* exec replaces the shell's child by the program. One that writes to a pipe may write more than it holds.
exec(p) ==
  /\ Is(p, "exec")
  /\ \E much \in {FALSE, ofile[p][1][1] = "w"} :
       todo' = [todo EXCEPT ![p] = <<[op |-> "prog", cmd |-> Arg(p).cmd, much |-> much]>>]
  /\ UNCHANGED <<cwd, cds, ofile, parent, want, npid, npipe, fails, line, done>>

\* A program ends. One that reads a pipe does so at the end of file; one that writes much
\* when a program reads it or nobody can.
Holders(end) == {q \in Pids : \E fd \in Fds : ofile[q][fd] = end}
prog(p) ==
  /\ Is(p, "prog")
  /\ ofile[p][0][1] = "r" => Holders(<<"w", ofile[p][0][2]>>) = {}
  /\ Arg(p).much => LET r == <<"r", ofile[p][1][2]>>
                    IN Holders(r) = {} \/ \E q \in Pids : Is(q, "prog") /\ ofile[q][0] = r
  /\ todo' = [todo EXCEPT ![p] = <<Do("exit")>>] /\ done' = done \cup ToSet(Arg(p).cmd.argv)
  /\ UNCHANGED <<cwd, cds, ofile, parent, want, npid, npipe, fails, line>>

Step(p) == \/ open_console(p) \/ fork(p) \/ close(p) \/ dup(p) \/ open(p) \/ wait(p) \/ exit(p) \/ chdir(p)
           \/ runcmd(p) \/ pipe(p) \/ exec(p) \/ prog(p)
Next == (\E p \in Pids : Step(p) \/ call_fails(p)) 
        \/ (\E cmd \in Commands : getcmd(shell, cmd)) \/ getcmd_cd(shell) \/ getcmd_eof(shell)

-----------------------------------------------------------------------------
(***************************************************************************)
(* A program starts with its input and output where the command line says  *)
(* and with nothing else open but descriptor 2: no end of a pipe is left   *)
(* over from the shells above it. The programs of the line run in the      *)
(* directory that cd has chosen before it.                                 *)
(***************************************************************************)
Plumbed == \A p \in Pids : Is(p, "prog") =>
  /\ ofile[p] = [fd \in Fds |-> CASE fd = 0 -> want[p][1] [] fd = 1 -> want[p][2] [] fd = 2 -> con [] OTHER -> NoFile]
  /\ cwd[p] = line.dir

\* The programs of a command, with or without those in the background, and its lists.
RECURSIVE Names(_, _), Lists(_)
Names(cmd, back) ==
  CASE cmd.type = "EXEC" -> ToSet(cmd.argv)
    [] cmd.type = "REDIR" -> Names(cmd.cmd, back)
    [] cmd.type = "BACK" -> IF back THEN Names(cmd.cmd, back) ELSE {}
    [] cmd.type \in {"PIPE", "LIST"} -> Names(cmd.left, back) \cup Names(cmd.right, back)
Lists(cmd) ==
  CASE cmd.type = "EXEC" -> {}
    [] cmd.type \in {"REDIR", "BACK"} -> Lists(cmd.cmd)
    [] cmd.type \in {"PIPE", "LIST"} ->
         Lists(cmd.left) \cup Lists(cmd.right) \cup (IF cmd.type = "LIST" THEN {cmd} ELSE {})

(***************************************************************************)
(* What comes after ";" begins when all of the command before it has       *)
(* ended, except in the background, as long as no call fails.              *)
(***************************************************************************)
InOrder == fails = 0 => \A cmd \in line.cmds, p \in Pids : \A l \in Lists(cmd) :
  Is(p, "prog") /\ ToSet(Arg(p).cmd.argv) \subseteq Names(l.right, TRUE) => Names(l.left, FALSE) \subseteq done

(***************************************************************************)
(* The shell comes back to its prompt: every process it waits for ends,    *)
(* since no one but its writers keeps a pipe open for those who read it to *)
(* the end, and no one but its readers for those who fill it.              *)
(***************************************************************************)
PromptAgain == Is(shell, "wait") ~> Is(shell, "getcmd")
=============================================================================
