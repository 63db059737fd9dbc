--------------------------------- MODULE Vm ---------------------------------
(***************************************************************************)
(* Physical pages (kalloc.c) and the address spaces built from them (vm.c) *)
(* by fork, exec, sbrk and wait. An address space is its page directory,   *)
(* the page tables that setupkvm makes (user addresses lie below USERTOP   *)
(* and share the first of them, so mapping a user page needs no new        *)
(* table), and the user pages. Each kalloc and kfree is a step of its own, *)
(* so that system calls of different processes compete for pages.          *)
(***************************************************************************)
EXTENDS Integers, FiniteSetsExt

CONSTANTS Procs, initproc, NPAGES,
          KTABS,            \* page tables for the kernel part
          PGSIZE, USERTOP,
          Sizes,            \* the values of n that sbrk is called with
          Images            \* the sizes of programs that exec loads

VARIABLES free,       \* kmem.freelist
          as,         \* proc->pgdir and proc->sz
          new,        \* the address space that fork or exec is building
          kstack, state,
          op,         \* the call that each process is in
          lost,       \* history: pages that setupkvm has dropped
          panicked

vars == <<free, as, new, kstack, state, op, lost, panicked>>

Pages == 1..NPAGES
NoPage == 0
Vas == 0..((USERTOP \div PGSIZE) - 1)
\* bare is history: sbrk has freed all pages of the space and called that a failure.
None == [dir |-> NoPage, tabs |-> {}, map |-> [v \in Vas |-> NoPage], sz |-> 0, bare |-> FALSE]
Idle == [k |-> "idle"]
RoundUp(a) == ((a + PGSIZE - 1) \div PGSIZE) * PGSIZE
Va(a) == a \div PGSIZE
UserPages(s) == {s.map[v] : v \in Vas} \ {NoPage}
PagesOf(s) == UserPages(s) \cup s.tabs \cup ({s.dir} \ {NoPage})

\* userinit: one process with one page.
Init ==
  /\ as = [q \in Procs |-> IF q = initproc THEN [None EXCEPT !.dir = 1, !.tabs = 2..(KTABS + 1),
                                                 !.sz = PGSIZE, !.map[0] = KTABS + 2] ELSE None]
  /\ free = (KTABS + 4)..NPAGES
  /\ kstack = [q \in Procs |-> IF q = initproc THEN KTABS + 3 ELSE NoPage]
  /\ state = [q \in Procs |-> IF q = initproc THEN "live" ELSE "unused"]
  /\ new = [q \in Procs |-> None] /\ op = [q \in Procs |-> Idle]
  /\ lost = {} /\ panicked = FALSE

Ready(p) == state[p] = "live" /\ op[p] = Idle /\ ~panicked
At(p, k) == op[p].k = k /\ ~panicked
Set(p, r) == op' = [op EXCEPT ![p] = r]
\* Pages are interchangeable, so it is of no matter which one is at the head of the list.
kalloc(pg) == free # {} /\ pg = Min(free) /\ free' = free \ {pg}
kfree(pgs) == free' = free \cup pgs
Map(s, v, pg) == [s EXCEPT !.map[v] = pg]

-----------------------------------------------------------------------------
\* growproc, n > 0 (on the process's own space) and allocuvm in exec (on the new one).
Grow(p, which, old, to, after) ==
  Set(p, [k |-> "grow", which |-> which, old |-> old, to |-> to, a |-> RoundUp(old), after |-> after])
Space(p) == IF op[p].which = "own" THEN as[p] ELSE new[p]

sbrk_grow(p, n) ==
  /\ Ready(p) /\ n > 0
  /\ IF as[p].sz + n > USERTOP THEN UNCHANGED op ELSE Grow(p, "own", as[p].sz, as[p].sz + n, "sbrk")
  /\ UNCHANGED <<free, as, new, kstack, state, lost, panicked>>

allocuvm_page(p) ==
  LET v == Va(op[p].a) IN
  /\ At(p, "grow") /\ op[p].a < op[p].to
  /\ \E pg \in Pages : /\ kalloc(pg)
                       /\ IF op[p].which = "own" THEN as' = [as EXCEPT ![p] = Map(@, v, pg)] /\ UNCHANGED new
                          ELSE new' = [new EXCEPT ![p] = Map(@, v, pg)] /\ UNCHANGED as
  /\ panicked' = (Space(p).map[v] # NoPage)          \* "remap"
  /\ Set(p, [op[p] EXCEPT !.a = @ + PGSIZE])
  /\ UNCHANGED <<kstack, state, lost>>

\* Mutation of allocuvm_fails: what was allocated so far stays.
allocuvm_fails_Keep(p) ==
  /\ At(p, "grow") /\ op[p].a < op[p].to /\ free = {}
  /\ Set(p, [k |-> "shrink", which |-> op[p].which, a |-> op[p].to, end |-> op[p].to, to |-> op[p].old,
             after |-> IF op[p].which = "own" THEN "failed" ELSE "freevm"])
  /\ UNCHANGED <<free, as, new, kstack, state, lost, panicked>>

\* Out of memory: deallocuvm(pgdir, newsz, oldsz), and the call fails.
allocuvm_fails(p) ==
  /\ At(p, "grow") /\ op[p].a < op[p].to /\ free = {}
  /\ Set(p, [k |-> "shrink", which |-> op[p].which, a |-> RoundUp(op[p].old), end |-> op[p].to, to |-> op[p].old,
             after |-> IF op[p].which = "own" THEN "failed" ELSE "freevm"])
  /\ UNCHANGED <<free, as, new, kstack, state, lost, panicked>>

\* sbrk is done; exec goes on with a one-page stack at the next page boundary, then commits.
allocuvm_done(p) ==
  LET stack == RoundUp(op[p].to) IN
  /\ At(p, "grow") /\ op[p].a >= op[p].to
  /\ CASE op[p].after = "sbrk" -> Set(p, Idle) /\ as' = [as EXCEPT ![p].sz = op[p].to] /\ UNCHANGED new
       [] op[p].after = "stack" ->
            /\ new' = [new EXCEPT ![p].sz = op[p].to] /\ UNCHANGED as
            /\ IF stack + PGSIZE > USERTOP THEN Set(p, [k |-> "freevm", what |-> PagesOf(new[p]), after |-> "idle"])
               ELSE Grow(p, "new", stack, stack + PGSIZE, "commit")
       [] OTHER -> /\ Set(p, [k |-> "commit"]) /\ UNCHANGED as
                   /\ new' = [new EXCEPT ![p].sz = op[p].to]
  /\ UNCHANGED <<free, kstack, state, lost, panicked>>

\* growproc, n < 0. A sum below 0 wraps and leaves the size alone. init calls no sbrk;
\* here it may, but it keeps its last byte.
sbrk_shrink(p, n) ==
  /\ Ready(p) /\ n < 0 /\ as[p].sz + n >= 0 /\ (p = initproc => as[p].sz + n > 0)
  /\ Set(p, [k |-> "shrink", which |-> "own", a |-> RoundUp(as[p].sz + n), end |-> as[p].sz, to |-> as[p].sz + n, after |-> "sbrk"])
  /\ UNCHANGED <<free, as, new, kstack, state, lost, panicked>>

deallocuvm_page(p) ==
  LET v == Va(op[p].a) pg == Space(p).map[v] IN
  /\ At(p, "shrink") /\ op[p].a < op[p].end
  /\ kfree({pg} \ {NoPage})
  /\ IF op[p].which = "own" THEN as' = [as EXCEPT ![p] = Map(@, v, NoPage)] /\ UNCHANGED new
     ELSE new' = [new EXCEPT ![p] = Map(@, v, NoPage)] /\ UNCHANGED as
  /\ Set(p, [op[p] EXCEPT !.a = @ + PGSIZE])
  /\ UNCHANGED <<kstack, state, lost, panicked>>

\* growproc takes the size 0 for a failure: it returns -1 without storing the size and without
\* switchuvm. The pages are free, and the process goes on for as long as the CPU still
\* translates its addresses: it may make any call.
deallocuvm_done(p) ==
  /\ At(p, "shrink") /\ op[p].a >= op[p].end
  /\ IF op[p].after = "freevm" THEN Set(p, [k |-> "freevm", what |-> PagesOf(new[p]), after |-> "idle"])
     ELSE Set(p, Idle)
  /\ as' = IF op[p].after # "sbrk" THEN as
           ELSE IF op[p].to > 0 THEN [as EXCEPT ![p].sz = op[p].to] ELSE [as EXCEPT ![p].bare = TRUE]
  /\ UNCHANGED <<free, new, kstack, state, lost, panicked>>

-----------------------------------------------------------------------------
\* fork and exec start with setupkvm; fork has a kernel stack by then (allocproc).
fork(p, q) ==
  /\ Ready(p) /\ state[q] = "unused"
  /\ \/ \E pg \in Pages : /\ kalloc(pg) /\ kstack' = [kstack EXCEPT ![q] = pg]
                          /\ state' = [state EXCEPT ![q] = "embryo"]
                          /\ Set(p, [k |-> "setup", child |-> q, for |-> "fork"])
     \/ free = {} /\ UNCHANGED <<free, kstack, state, op>>
  /\ UNCHANGED <<as, new, lost, panicked>>

exec(p, n) ==
  /\ Ready(p) /\ Set(p, [k |-> "setup", size |-> n, for |-> "exec"])
  /\ UNCHANGED <<free, as, new, kstack, state, lost, panicked>>

setupkvm_page(p) ==
  /\ At(p, "setup") /\ Cardinality(new[p].tabs) < KTABS
  /\ \E pg \in Pages :
       /\ kalloc(pg)
       /\ new' = [new EXCEPT ![p] = IF @.dir = NoPage THEN [@ EXCEPT !.dir = pg] ELSE [@ EXCEPT !.tabs = @ \cup {pg}]]
  /\ UNCHANGED <<as, kstack, state, op, lost, panicked>>

Abort(p) == IF op[p].for = "exec" THEN Set(p, Idle) /\ UNCHANGED <<free, kstack, state>>
            ELSE /\ kfree({kstack[op[p].child]})
                 /\ kstack' = [kstack EXCEPT ![op[p].child] = NoPage]
                 /\ state' = [state EXCEPT ![op[p].child] = "unused"]
                 /\ Set(p, Idle)

\* setupkvm returns 0 without freeing the directory and the tables it has.
setupkvm_fails(p) ==
  /\ At(p, "setup") /\ Cardinality(new[p].tabs) < KTABS /\ free = {}
  /\ lost' = lost \cup PagesOf(new[p]) /\ new' = [new EXCEPT ![p] = None]
  /\ Abort(p) /\ UNCHANGED <<as, panicked>>

setupkvm_done(p) ==
  /\ At(p, "setup") /\ Cardinality(new[p].tabs) = KTABS
  /\ IF op[p].for = "fork" THEN Set(p, [k |-> "copy", i |-> 0, child |-> op[p].child, for |-> "fork"])
     ELSE IF op[p].size > USERTOP THEN Set(p, [k |-> "freevm", what |-> PagesOf(new[p]), after |-> "idle"])
     ELSE Grow(p, "new", 0, op[p].size, "stack")
  /\ UNCHANGED <<free, as, new, kstack, state, lost, panicked>>

\* copyuvm
Copies(p) == At(p, "copy") /\ op[p].i < as[p].sz
Present(p) == as[p].map[Va(op[p].i)] # NoPage

copyuvm_page(p) ==
  /\ Copies(p) /\ Present(p)
  /\ \E pg \in Pages : kalloc(pg) /\ new' = [new EXCEPT ![p] = Map(@, Va(op[p].i), pg)]
  /\ Set(p, [op[p] EXCEPT !.i = @ + PGSIZE])
  /\ UNCHANGED <<as, kstack, state, lost, panicked>>

\* "copyuvm: page not present"
copyuvm_panics(p) ==
  /\ Copies(p) /\ ~Present(p) /\ panicked' = TRUE
  /\ UNCHANGED <<free, as, new, kstack, state, op, lost>>

copyuvm_fails(p) ==
  /\ Copies(p) /\ Present(p) /\ free = {}
  /\ Set(p, [k |-> "freevm", what |-> PagesOf(new[p]), after |-> "abort", child |-> op[p].child, for |-> "fork"])
  /\ UNCHANGED <<free, as, new, kstack, state, lost, panicked>>

fork_done(p) ==
  /\ At(p, "copy") /\ op[p].i >= as[p].sz
  /\ as' = [as EXCEPT ![op[p].child] = [new[p] EXCEPT !.sz = as[p].sz]]
  /\ new' = [new EXCEPT ![p] = None]
  /\ state' = [state EXCEPT ![op[p].child] = "live"] /\ Set(p, Idle)
  /\ UNCHANGED <<free, kstack, lost, panicked>>

\* exec: the file cannot be read, before or after the memory for it is there, or the
\* arguments cannot be pushed.
exec_fails(p) ==
  /\ At(p, "commit") \/ (At(p, "grow") /\ op[p].which = "new" /\ op[p].a = RoundUp(op[p].old))
  /\ Set(p, [k |-> "freevm", what |-> PagesOf(new[p]), after |-> "idle"])
  /\ UNCHANGED <<free, as, new, kstack, state, lost, panicked>>

exec_commit(p) ==
  /\ At(p, "commit")
  /\ as' = [as EXCEPT ![p] = new[p]] /\ new' = [new EXCEPT ![p] = None]
  /\ Set(p, [k |-> "freevm", what |-> PagesOf(as[p]), after |-> "idle"])
  /\ UNCHANGED <<free, kstack, state, lost, panicked>>

\* freevm frees the user pages, the tables and the directory; kfree does one at a time.
freevm_page(p) ==
  /\ At(p, "freevm") /\ op[p].what # {}
  /\ LET pg == Min(op[p].what) IN kfree({pg}) /\ Set(p, [op[p] EXCEPT !.what = @ \ {pg}])
  /\ new' = [new EXCEPT ![p] = None]
  /\ UNCHANGED <<as, kstack, state, lost, panicked>>

freevm_done(p) ==
  /\ At(p, "freevm") /\ op[p].what = {}
  /\ CASE op[p].after = "abort" -> Abort(p)
       [] op[p].after = "reaped" -> /\ Set(p, Idle) /\ state' = [state EXCEPT ![op[p].child] = "unused"]
                                    /\ UNCHANGED <<free, kstack>>
       [] OTHER -> Set(p, Idle) /\ UNCHANGED <<free, kstack, state>>
  /\ UNCHANGED <<as, new, lost, panicked>>

exit(p) ==
  /\ Ready(p) /\ p # initproc
  /\ state' = [state EXCEPT ![p] = "zombie"]
  /\ UNCHANGED <<free, as, new, kstack, op, lost, panicked>>

\* wait: the kernel stack, then the address space; the slot is free at the end.
wait(p, q) ==
  /\ Ready(p) /\ state[q] = "zombie" /\ state' = [state EXCEPT ![q] = "reaped"]
  /\ kfree({kstack[q]}) /\ kstack' = [kstack EXCEPT ![q] = NoPage]
  /\ Set(p, [k |-> "freevm", what |-> PagesOf(as[q]), after |-> "reaped", child |-> q])
  /\ as' = [as EXCEPT ![q] = None]
  /\ UNCHANGED <<new, lost, panicked>>

-----------------------------------------------------------------------------
Calls(p) == \/ \E n \in Sizes : sbrk_grow(p, n) \/ sbrk_shrink(p, n)
            \/ \E n \in Images : exec(p, n)
            \/ \E q \in Procs : fork(p, q) \/ wait(p, q)
            \/ exit(p)
Step(p) == \/ allocuvm_page(p) \/ allocuvm_fails(p) \/ allocuvm_done(p) \/ deallocuvm_page(p) \/ deallocuvm_done(p)
           \/ setupkvm_page(p) \/ setupkvm_fails(p) \/ setupkvm_done(p)
           \/ copyuvm_page(p) \/ copyuvm_panics(p) \/ copyuvm_fails(p) \/ fork_done(p)
           \/ exec_fails(p) \/ exec_commit(p) \/ freevm_page(p) \/ freevm_done(p)
\* panic never returns.
panic == panicked /\ UNCHANGED vars
Next == panic \/ \E p \in Procs : Calls(p) \/ Step(p)
Spec == Init /\ [][Next]_vars

-----------------------------------------------------------------------------
Dying(p) == IF op[p].k = "freevm" THEN op[p].what ELSE {}
NewPages(p) == IF op[p].k = "freevm" THEN {} ELSE PagesOf(new[p])
Owners == {<<"as", p>> : p \in Procs} \cup {<<"new", p>> : p \in Procs}
            \cup {<<"dying", p>> : p \in Procs} \cup {<<"kstack", p>> : p \in Procs}
            \cup {<<"free", NoPage>>, <<"lost", NoPage>>}
Owned(o) == CASE o[1] = "as" -> PagesOf(as[o[2]])
              [] o[1] = "new" -> NewPages(o[2])
              [] o[1] = "dying" -> Dying(o[2])
              [] o[1] = "kstack" -> {kstack[o[2]]} \ {NoPage}
              [] o[1] = "free" -> free
              [] OTHER -> lost

(***************************************************************************)
(* Every page is in exactly one place: on the free list, in one address    *)
(* space, in one that is being built or taken down, a kernel stack, or     *)
(* among those that setupkvm has dropped. No process shares a page with    *)
(* another, or with the allocator.                                         *)
(***************************************************************************)
OnePlace == /\ UNION {Owned(o) : o \in Owners} = Pages
            /\ \A o1, o2 \in Owners : o1 # o2 => Owned(o1) \cap Owned(o2) = {}
            /\ \A p \in Procs : \A v1, v2 \in Vas :
                 v1 # v2 /\ as[p].map[v1] # NoPage => as[p].map[v1] # as[p].map[v2]

(***************************************************************************)
(* Between its system calls, a process has exactly the pages below its     *)
(* size mapped, whatever failed before, unless it has given all of them    *)
(* back with sbrk.                                                         *)
(***************************************************************************)
MappedIsSize == \A p \in Procs : (state[p] = "live" /\ op[p] = Idle /\ ~as[p].bare) =>
  \A v \in Vas : as[p].map[v] # NoPage <=> v * PGSIZE < as[p].sz

(***************************************************************************)
(* No page is mapped over another, and copyuvm finds all the pages of the  *)
(* parent, unless the parent has given all of them back with sbrk, which   *)
(* leaves its size as it was ("copyuvm: page not present").                *)
(***************************************************************************)
NoPanic == panicked => \E p \in Procs : as[p].bare /\ op[p].k = "copy"

(***************************************************************************)
(* Memory is accounted for at every step of sbrk, fork, exec and wait,     *)
(* wherever it runs out.                                                   *)
(***************************************************************************)
MemorySound == OnePlace /\ MappedIsSize /\ NoPanic
=============================================================================
