--------------------------------- MODULE Fs ---------------------------------
(***************************************************************************)
(* Inodes, directories, path names (fs.c) and the system calls on names    *)
(* (sysfile.c), executed by concurrent processes.                          *)
(*                                                                         *)
(* todo[p] lists the calls that are left of p's system call; a step does   *)
(* the first and puts what it decides to do in front of the rest. A step   *)
(* is what happens under icache.lock, or one bread .. brelse: each write   *)
(* of the disk is a step of its own, so every state is one that a crash    *)
(* can leave on the disk. The cache entry of an inode is named by its      *)
(* number, as iget looks it up by number under icache.lock; entries whose  *)
(* ref is 0 are the free slots. Blocks and file contents are in FileData.  *)
(***************************************************************************)
EXTENDS Naturals, Sequences, FiniteSets

CONSTANTS Procs,
          NINODES,      \* sb.ninodes: inode numbers are 1 .. NINODES - 1
          NINODE,       \* slots of the inode cache
          Names,        \* names other than "." and ".."
          Scenes        \* where a behaviour starts, a set of records: tree[inum][name], the directories
                        \* on the disk; cwd[p], p's current directory; plan[p], the bound on what p does:
                        \* a sequence of sets of system calls, tuples <<name, path, ..>>

ROOTINO == 1
Inums == 1..(NINODES - 1)
Entry == Names \cup {".", ".."}
NoEntries == [n \in Entry |-> 0]

ASSUME FsAssumption ==
  /\ NINODES \in Nat /\ NINODE \in Nat
  /\ \A s \in Scenes : /\ s.tree \in [Inums -> [Entry -> 0..(NINODES - 1)]]
                       /\ \A p \in Procs : s.tree[s.cwd[p]]["."] = s.cwd[p]

VARIABLES dtype, dnlink, ents,      \* the disk: dinodes, and the contents of directories
          ref, flags, type, nlink,  \* the inode cache
          todo, res,                \* each process: what is left of its call; the result of a function
          file, cwd, plan,          \* its open file (0: none), current directory, the calls to come
          panicked,                 \* the message of the panic, or "no"
          strayed                   \* history: a lookup went up to a directory that is gone

disk == <<dtype, dnlink, ents>>
icache == <<ref, flags, type, nlink>>
user == <<file, cwd, plan>>
vars == <<disk, icache, todo, res, user, panicked, strayed>>

IsDir(tree, i) == tree[i]["."] = i
HasName(tree, i) == \E d \in Inums, n \in Names : tree[d][n] = i

Init == \E s \in Scenes :
  /\ dtype = [i \in Inums |-> IF IsDir(s.tree, i) THEN "T_DIR"
                              ELSE IF HasName(s.tree, i) THEN "T_FILE" ELSE "free"]
  /\ ents = s.tree
  /\ dnlink = [i \in Inums |-> Cardinality({<<d, n>> \in Inums \X (Entry \ {"."}) : s.tree[d][n] = i})]
  /\ ref = [i \in Inums |-> Cardinality({p \in Procs : s.cwd[p] = i})]
  /\ flags = [i \in Inums |-> IF ref[i] > 0 /\ i # ROOTINO THEN {"I_VALID"} ELSE {}]
  /\ type = dtype /\ nlink = dnlink
  /\ todo = [p \in Procs |-> <<>>] /\ res = [p \in Procs |-> 0]
  /\ file = [p \in Procs |-> 0] /\ cwd = s.cwd
  /\ plan = s.plan
  /\ panicked = "no" /\ strayed = FALSE

-----------------------------------------------------------------------------
Call(p, f) == todo[p] # <<>> /\ Head(todo[p])[1] = f
Arg(p, i) == Head(todo[p])[i]
Do(p, s) == todo' = [todo EXCEPT ![p] = s \o Tail(@)]
Return(p, s, r) == Do(p, s) /\ res' = [res EXCEPT ![p] = r]
Check(bad, message) == panicked' = IF bad THEN message ELSE panicked
iunlockput(i) == << <<"iunlock", i>>, <<"iput", i>> >>

\* iget and idup count a reference; iget of an inode that is not cached takes a free slot.
Cached == {i \in Inums : ref[i] > 0}
iget(i) ==
  /\ ref' = [ref EXCEPT ![i] = @ + 1]
  /\ flags' = IF ref[i] = 0 THEN [flags EXCEPT ![i] = {}] ELSE flags
  /\ Check(ref[i] = 0 /\ Cardinality(Cached) >= NINODE, "iget: no inodes")

-----------------------------------------------------------------------------
(* Locks and references *)

ilock(p) == LET i == Arg(p, 2) IN
  /\ Call(p, "ilock")
  /\ "I_BUSY" \notin flags[i]
  /\ Check(ref[i] < 1, "ilock")
  /\ flags' = [flags EXCEPT ![i] = @ \cup {"I_BUSY"}]
  /\ Do(p, IF "I_VALID" \in flags[i] THEN <<>> ELSE << <<"iload", i>> >>)
  /\ UNCHANGED <<disk, ref, type, nlink, res, user>>

iload(p) == LET i == Arg(p, 2) IN
  /\ Call(p, "iload")
  /\ type' = [type EXCEPT ![i] = dtype[i]]
  /\ nlink' = [nlink EXCEPT ![i] = dnlink[i]]
  /\ flags' = [flags EXCEPT ![i] = @ \cup {"I_VALID"}]
  /\ Check(dtype[i] = "free", "ilock: no type")
  /\ Do(p, <<>>)
  /\ UNCHANGED <<disk, ref, res, user>>

\* wakeup(ip) lets the loop of ilock go on.
iunlock(p) == LET i == Arg(p, 2) IN
  /\ Call(p, "iunlock")
  /\ Check("I_BUSY" \notin flags[i] \/ ref[i] < 1, "iunlock")
  /\ flags' = [flags EXCEPT ![i] = @ \ {"I_BUSY"}]
  /\ Do(p, <<>>)
  /\ UNCHANGED <<disk, ref, type, nlink, res, user>>

\* Mutation of Unused: other references are not looked at.
Unused_AnyRef(i) == "I_VALID" \in flags[i] /\ nlink[i] = 0

Unused(i) == ref[i] = 1 /\ "I_VALID" \in flags[i] /\ nlink[i] = 0

iput(p) == LET i == Arg(p, 2) IN
  /\ Call(p, "iput")
  /\ IF Unused(i)
       THEN /\ Check("I_BUSY" \in flags[i], "iput busy")
            /\ flags' = [flags EXCEPT ![i] = @ \cup {"I_BUSY"}]
            /\ Do(p, << <<"itrunc", i>>, <<"ifree", i>>, <<"iputend", i>> >>)
            /\ UNCHANGED ref
       ELSE /\ ref' = [ref EXCEPT ![i] = @ - 1]
            /\ Do(p, <<>>)
            /\ UNCHANGED <<flags, panicked>>
  /\ UNCHANGED <<disk, type, nlink, res, user>>

itrunc(p) == LET i == Arg(p, 2) IN
  /\ Call(p, "itrunc")
  /\ ents' = [ents EXCEPT ![i] = NoEntries]
  /\ Do(p, <<>>)
  /\ UNCHANGED <<dtype, dnlink, icache, res, user, panicked>>

iupdate(i, t, n) == dtype' = [dtype EXCEPT ![i] = t] /\ dnlink' = [dnlink EXCEPT ![i] = n]

ifree(p) == LET i == Arg(p, 2) IN
  /\ Call(p, "ifree")
  /\ type' = [type EXCEPT ![i] = "free"]
  /\ iupdate(i, "free", nlink[i])
  /\ Do(p, <<>>)
  /\ UNCHANGED <<ents, ref, flags, nlink, res, user, panicked>>

FreeFlags(i) == {}

iputend(p) == LET i == Arg(p, 2) IN
  /\ Call(p, "iputend")
  /\ flags' = [flags EXCEPT ![i] = FreeFlags(i)]
  /\ ref' = [ref EXCEPT ![i] = @ - 1]
  /\ Do(p, <<>>)
  /\ UNCHANGED <<disk, type, nlink, res, user, panicked>>

\* ip->nlink += n; iupdate(ip).
setlink(p) == LET i == Arg(p, 2) n == IF Arg(p, 3) = "++" THEN nlink[i] + 1 ELSE nlink[i] - 1 IN
  /\ Call(p, "setlink")
  /\ nlink' = [nlink EXCEPT ![i] = n]
  /\ iupdate(i, type[i], n)
  /\ Do(p, <<>>)
  /\ UNCHANGED <<ents, ref, flags, type, res, user, panicked>>

\* One write of a directory entry: dirlink, or the cleared entry of sys_unlink.
setent(p) == LET d == Arg(p, 2) IN
  /\ Call(p, "setent")
  /\ Check(Arg(p, 4) # 0 /\ ents[d][Arg(p, 3)] # 0, "create: dirlink")
  /\ ents' = [ents EXCEPT ![d][Arg(p, 3)] = Arg(p, 4)]
  /\ Do(p, <<>>)
  /\ UNCHANGED <<dtype, dnlink, icache, res, user>>

-----------------------------------------------------------------------------
(* Path names: <<"namex", i, path, parent>> looks path up from inode i.    *)

namex(p) == LET i == Arg(p, 2) path == Arg(p, 3) parent == Arg(p, 4) IN
  /\ Call(p, "namex")
  /\ IF path # <<>> THEN Do(p, << <<"ilock", i>>, <<"namex1", i, path, parent>> >>) /\ UNCHANGED res
     ELSE IF parent THEN Return(p, << <<"iput", i>> >>, 0)
     ELSE Return(p, <<>>, i)
  /\ UNCHANGED <<disk, icache, user, panicked>>

\* An element, with ip locked.
namex1(p) == LET i == Arg(p, 2) path == Arg(p, 3) parent == Arg(p, 4) next == ents[i][Head(path)] IN
  /\ Call(p, "namex1")
  /\ \/ /\ type[i] = "T_DIR" /\ parent /\ Len(path) = 1
        /\ Return(p, << <<"iunlock", i>> >>, i)
        /\ UNCHANGED <<ref, flags, panicked>>
     \/ /\ type[i] # "T_DIR" \/ (~(parent /\ Len(path) = 1) /\ next = 0)
        /\ Return(p, iunlockput(i), 0)
        /\ UNCHANGED <<ref, flags, panicked>>
     \/ /\ type[i] = "T_DIR" /\ ~(parent /\ Len(path) = 1) /\ next # 0
        /\ iget(next)
        /\ Do(p, iunlockput(i) \o << <<"namex", next, Tail(path), parent>> >>)
        /\ UNCHANGED res
  /\ UNCHANGED <<disk, type, nlink, user>>

Name(path) == path[Len(path)]

\* namei(path) or nameiparent(path), then the call "then". Paths that start with "/" start at the root.
Lookup(p, path, parent, then, rest) ==
  LET abs == path # <<>> /\ Head(path) = "/"
      i == IF abs THEN ROOTINO ELSE cwd[p]
  IN /\ iget(i)
     /\ todo' = [todo EXCEPT ![p] = << <<"namex", i, IF abs THEN Tail(path) ELSE path, parent>>, then >> \o rest]

-----------------------------------------------------------------------------
(* System calls *)

Start(p) ==
  /\ todo[p] = <<>> /\ plan[p] # <<>>
  /\ \E c \in Head(plan[p]) :
       /\ c[1] \in {"open", "create"} => file[p] = 0
       /\ Lookup(p, c[2], c[1] \notin {"open", "link", "chdir"}, <<c[1]>> \o Tail(c), <<>>)
  /\ plan' = [plan EXCEPT ![p] = Tail(@)]
  /\ UNCHANGED <<disk, type, nlink, res, file, cwd>>

close(p) ==
  /\ todo[p] = <<>> /\ file[p] # 0
  /\ todo' = [todo EXCEPT ![p] = << <<"iput", file[p]>> >>]
  /\ file' = [file EXCEPT ![p] = 0]
  /\ UNCHANGED <<disk, icache, res, cwd, plan, panicked>>

\* Steps that only decide how a call goes on.
Decide(p, f, s) == Call(p, f) /\ Do(p, s) /\ UNCHANGED <<disk, icache, res, user, panicked>>
IfFound(p, s) == IF res[p] = 0 THEN <<>> ELSE s

open(p) == Decide(p, "open", IfFound(p, << <<"ilock", res[p]>>, <<"open1", res[p]>> >>))

\* The inode is locked. filealloc or fdalloc may fail.
open1(p) == LET i == Arg(p, 2) IN
  /\ Call(p, "open1")
  /\ \/ Do(p, << <<"iunlock", i>> >>) /\ file' = [file EXCEPT ![p] = i]
     \/ Do(p, iunlockput(i)) /\ UNCHANGED file
  /\ UNCHANGED <<disk, icache, res, cwd, plan, panicked>>

\* create(path, type) for sys_open ("create"), sys_mkdir and sys_mknod.
NewType(c) == CASE c = "create" -> "T_FILE" [] c = "mkdir" -> "T_DIR" [] c = "mknod" -> "T_DEV"
Created(c, i) == IF c = "create" THEN << <<"open1", i>> >> ELSE iunlockput(i)

create(p) == \E c \in {"create", "mkdir", "mknod"} :
  Decide(p, c, IfFound(p, << <<"ilock", res[p]>>, <<"create1", c, res[p], Name(Arg(p, 2))>> >>))

create1(p) == LET c == Arg(p, 2) dp == Arg(p, 3) name == Arg(p, 4) i == ents[dp][name] IN
  /\ Call(p, "create1") /\ i # 0
  /\ iget(i)
  /\ Do(p, iunlockput(dp) \o << <<"ilock", i>>, <<"create2", c, i>> >>)
  /\ UNCHANGED <<disk, type, nlink, res, user>>

create2(p) == LET c == Arg(p, 2) i == Arg(p, 3) IN
  Decide(p, "create2", IF c = "create" /\ type[i] = "T_FILE" THEN << <<"open1", i>> >> ELSE iunlockput(i))

MakeDots(dp, i) == << <<"setlink", dp, "++">>, <<"setent", i, ".", i>>, <<"setent", i, "..", dp>> >>

\* ialloc marks a free dinode on the disk; the scan may find any that is free.
ialloc(p) == LET c == Arg(p, 2) dp == Arg(p, 3) name == Arg(p, 4) IN
  /\ Call(p, "create1") /\ ents[dp][name] = 0
  /\ \/ \E i \in Inums :
          /\ dtype[i] = "free"
          /\ iupdate(i, NewType(c), 0)
          /\ ents' = [ents EXCEPT ![i] = NoEntries]
          /\ Do(p, << <<"iget", i>>, <<"ilock", i>>, <<"setlink", i, "++">> >>
                   \o (IF c = "mkdir" THEN MakeDots(dp, i) ELSE <<>>)
                   \o << <<"setent", dp, name, i>> >> \o iunlockput(dp) \o Created(c, i))
          /\ UNCHANGED panicked
     \/ /\ \A i \in Inums : dtype[i] # "free"
        /\ panicked' = "ialloc: no inodes" /\ UNCHANGED <<disk, todo>>
  /\ UNCHANGED <<icache, res, user>>

ialloc1(p) ==
  /\ Call(p, "iget") /\ iget(Arg(p, 2)) /\ Do(p, <<>>)
  /\ UNCHANGED <<disk, type, nlink, res, user>>

unlink(p) == Decide(p, "unlink", IfFound(p, << <<"ilock", res[p]>>, <<"unlink1", res[p], Name(Arg(p, 2))>> >>))

\* Mutation of IsDots: ".." may be unlinked.
IsDots_Dot(name) == name = "."

IsDots(name) == name \in {".", ".."}

unlink1(p) == LET dp == Arg(p, 2) name == Arg(p, 3) i == ents[dp][name] IN
  /\ Call(p, "unlink1")
  /\ \/ /\ IsDots(name) \/ i = 0
        /\ Do(p, iunlockput(dp)) /\ UNCHANGED <<ref, flags, panicked>>
     \/ /\ ~IsDots(name) /\ i # 0
        /\ iget(i)
        /\ Do(p, << <<"ilock", i>>, <<"unlink2", dp, name, i>> >>)
  /\ UNCHANGED <<disk, type, nlink, res, user>>

isdirempty(i) == \A n \in Names : ents[i][n] = 0

NotEmpty(dp, i) == iunlockput(i) \o iunlockput(dp)

unlink2(p) == LET dp == Arg(p, 2) name == Arg(p, 3) i == Arg(p, 4) IN
  /\ Call(p, "unlink2")
  /\ Check(nlink[i] < 1, "unlink: nlink < 1")
  /\ Do(p, IF type[i] = "T_DIR" /\ ~isdirempty(i) THEN NotEmpty(dp, i)
           ELSE << <<"setent", dp, name, 0>> >>
                \o (IF type[i] = "T_DIR" THEN << <<"setlink", dp, "--">> >> ELSE <<>>)
                \o iunlockput(dp) \o << <<"setlink", i, "--">> >> \o iunlockput(i))
  /\ UNCHANGED <<disk, icache, res, user>>

link(p) == Decide(p, "link", IfFound(p, << <<"ilock", res[p]>>, <<"link1", res[p], Arg(p, 3)>> >>))

\* Mutation of LinkFirst: the new link is not counted.
LinkFirst_Never(i) == <<>>

\* nlink is counted before the name is written.
LinkFirst(i) == << <<"setlink", i, "++">> >>

link1(p) == LET i == Arg(p, 2) new == Arg(p, 3) IN
  Decide(p, "link1", IF type[i] = "T_DIR" THEN iunlockput(i)
                     ELSE LinkFirst(i) \o << <<"iunlock", i>>, <<"link2", i, new>> >>)

link2(p) == LET i == Arg(p, 2) new == Arg(p, 3) IN
  /\ Call(p, "link2")
  /\ Lookup(p, new, TRUE, <<"link3", i, Name(new)>>, Tail(todo[p]))
  /\ UNCHANGED <<disk, type, nlink, res, user>>

\* Mutation of LinkBad: the count stays raised.
LinkBad_NoUndo(i) == << <<"iput", i>> >>

LinkBad(i) == << <<"ilock", i>>, <<"setlink", i, "--">> >> \o iunlockput(i)

link3(p) == LET i == Arg(p, 2) IN
  Decide(p, "link3", IF res[p] = 0 THEN LinkBad(i)
                     ELSE << <<"ilock", res[p]>>, <<"link4", i, res[p], Arg(p, 3)>> >>)

\* dirlink: a name that is there is looked up (iget), put again, and the link fails.
link4(p) == LET i == Arg(p, 2) dp == Arg(p, 3) old == ents[dp][Arg(p, 4)] IN
  /\ Call(p, "link4")
  /\ \/ /\ old # 0
        /\ iget(old)
        /\ Do(p, << <<"iput", old>> >> \o iunlockput(dp) \o LinkBad(i))
     \/ /\ old = 0
        /\ Do(p, << <<"setent", dp, Arg(p, 4), i>> >> \o iunlockput(dp) \o << <<"iput", i>> >>)
        /\ UNCHANGED <<ref, flags, panicked>>
  /\ UNCHANGED <<disk, type, nlink, res, user>>

chdir(p) == Decide(p, "chdir", IfFound(p, << <<"ilock", res[p]>>, <<"chdir1", res[p]>> >>))

chdir1(p) == LET i == Arg(p, 2) IN
  Decide(p, "chdir1", IF type[i] # "T_DIR" THEN iunlockput(i)
                      ELSE << <<"iunlock", i>>, <<"iput", cwd[p]>>, <<"chdir2", i>> >>)

chdir2(p) ==
  /\ Call(p, "chdir2")
  /\ cwd' = [cwd EXCEPT ![p] = Arg(p, 2)]
  /\ Do(p, <<>>)
  /\ UNCHANGED <<disk, icache, res, file, plan, panicked>>

-----------------------------------------------------------------------------
Named(i) == i = ROOTINO \/ HasName(ents, i)

InodeStep(p) == ilock(p) \/ iload(p) \/ iunlock(p) \/ iput(p) \/ itrunc(p) \/ ifree(p) \/ iputend(p)
                \/ setlink(p) \/ setent(p) \/ namex(p) \/ namex1(p) \/ ialloc(p) \/ ialloc1(p)
CallStep(p) == open(p) \/ open1(p) \/ create(p) \/ create1(p) \/ create2(p) \/ unlink(p) \/ unlink1(p)
               \/ unlink2(p) \/ link(p) \/ link1(p) \/ link2(p) \/ link3(p) \/ link4(p) \/ chdir(p) \/ chdir1(p) \/ chdir2(p)

\* Step(p) also records whether p goes up to a directory that has no name any more.
GoesUp(p) == Call(p, "namex1") /\ Head(Arg(p, 3)) = ".." /\ ~Named(ents[Arg(p, 2)][".."])
Step(p) == /\ panicked = "no"
           /\ close(p) \/ InodeStep(p) \/ CallStep(p)
           /\ strayed' = (strayed \/ GoesUp(p))

Idle == \A p \in Procs : todo[p] = <<>> /\ file[p] = 0
Finished == Idle /\ (\A p \in Procs : plan[p] = <<>>) /\ UNCHANGED vars

Next == \/ \E p \in Procs : panicked = "no" /\ Start(p) /\ UNCHANGED strayed
        \/ \E p \in Procs : Step(p)
        \/ Finished

Spec == Init /\ [][Next]_vars
FairSpec == Spec /\ \A p \in Procs : WF_vars(Step(p))

-----------------------------------------------------------------------------
\* The names of an inode in all directories, ".." of directories that have a name included.
LinksTo(i) == Cardinality({<<d, n>> \in Inums \X Names : ents[d][n] = i})
              + Cardinality({d \in Inums : Named(d) /\ ents[d][".."] = i})

(***************************************************************************)
(* The assertions of fs.c and sysfile.c hold: no process locks a free      *)
(* inode ("ilock: no type"), frees one that is locked ("iput busy"),       *)
(* unlocks what it has not locked, unlinks a file without links, or finds  *)
(* its new name taken after it has looked. There is one way around them:   *)
(* a directory that was removed under a process keeps its "..", but not    *)
(* its parent. Once a lookup has gone up to a parent that was removed as   *)
(* well, ilock() may meet an inode without a type, and nothing else fails. *)
(***************************************************************************)
NoPanic == panicked = "no" \/ (strayed /\ panicked = "ilock: no type")

(***************************************************************************)
(* What a crash leaves: a name on the disk never refers to a free inode,   *)
(* and an inode never has more names than its link count says, between any *)
(* two writes of create, link, unlink and mkdir in any interleaving.  (It  *)
(* may have fewer: then the inode is lost, never a name dangling.)         *)
(***************************************************************************)
CrashSafe == \A i \in Inums : LinksTo(i) > 0 => dtype[i] # "free" /\ LinksTo(i) <= dnlink[i]

(***************************************************************************)
(* An inode that a process has open, or that is its current directory,     *)
(* keeps its dinode whoever unlinks its last name. (chdir() gives the old  *)
(* directory back before it stores the new one, and looks nothing up in    *)
(* between.)                                                               *)
(***************************************************************************)
InChdir(p) == \E k \in 1..Len(todo[p]) : todo[p][k][1] = "chdir2"
OpenIsAllocated == \A p \in Procs : /\ file[p] # 0 => dtype[file[p]] # "free"
                                    /\ ~InChdir(p) => dtype[cwd[p]] # "free"

(***************************************************************************)
(* A valid copy that nobody has locked agrees with the disk, although      *)
(* ialloc writes the dinode of an inode that may still be in the cache     *)
(* because another process is just freeing it.                             *)
(***************************************************************************)
CacheCoherent == \A i \in Inums :
  ref[i] > 0 /\ flags[i] = {"I_VALID"} => type[i] = dtype[i] /\ nlink[i] = dnlink[i]

(***************************************************************************)
(* When every call has returned, each reference is given back, on every    *)
(* error path: the count of an inode is the number of files and current    *)
(* directories that use it.                                                *)
(***************************************************************************)
RefsReturned == (\A p \in Procs : todo[p] = <<>>) =>
  \A i \in Inums : /\ ref[i] = Cardinality({p \in Procs : file[p] = i}) + Cardinality({p \in Procs : cwd[p] = i})
                   /\ "I_BUSY" \notin flags[i]

(***************************************************************************)
(* When every call has returned and nothing is open, the link count of a   *)
(* named inode is the number of its names: the counts that link, unlink    *)
(* and create raise first are taken back on every error path.              *)
(***************************************************************************)
LinksExact == (Idle /\ \A p \in Procs : cwd[p] = ROOTINO) =>
  \A i \in Inums : Named(i) => dnlink[i] = LinksTo(i)

(***************************************************************************)
(* What the inodes in memory and on the disk say of each other and of      *)
(* their users is right, on every path through namex, iput and the calls.  *)
(***************************************************************************)
InodesSound == OpenIsAllocated /\ CacheCoherent /\ RefsReturned /\ LinksExact

(***************************************************************************)
(* Every call returns, unless the kernel panics as NoPanic allows: the     *)
(* locks of parent and child directories, taken by unlink and    *)
(* create together and by namex one by one, never wait for each other.     *)
(***************************************************************************)
CallsReturn == \A p \in Procs : todo[p] # <<>> ~> (todo[p] = <<>> \/ panicked # "no")
=============================================================================
