------------------------------ MODULE Umalloc ------------------------------
(***************************************************************************)
(* malloc and free of the user library (umalloc.c): a circular list of     *)
(* free blocks sorted by address, first fit, neighbours merged by free.    *)
(* Addresses count headers; base lies below the heap. The program may move *)
(* the break itself between two calls.                                     *)
(***************************************************************************)
EXTENDS Naturals, FiniteSets

CONSTANTS HDR,       \* sizeof(Header)
          Core,      \* the units morecore asks for at least
          Limit,     \* bound: the units that sbrk has to give
          Bytes      \* the sizes asked for

VARIABLES hdr,            \* the headers in memory
          freep, brk,
          pc, p, prevp,   \* malloc's loop, and free's loop in p
          nunits,
          bp,             \* free's block; malloc waits for it if nunits > 0
          live, core      \* the blocks the program has, and the units got by morecore
vars == <<hdr, freep, brk, pc, p, prevp, nunits, bp, live, core>>

base == 1
Heap == 3
Addr == base .. Heap + Limit - 1

Init == /\ hdr = [a \in Addr |-> [ptr |-> 0, size |-> 0]] /\ freep = 0 /\ brk = Heap
        /\ pc = "idle" /\ p = 0 /\ prevp = 0 /\ nunits = 0 /\ bp = 0 /\ live = {} /\ core = {}

ptr(a) == hdr[a].ptr
size(a) == hdr[a].size
Units(a) == a .. a + size(a) - 1

Return == pc' = "idle" /\ nunits' = 0 /\ p' = 0 /\ prevp' = 0

-----------------------------------------------------------------------------
malloc(n) ==
  /\ pc = "idle" /\ pc' = "scan" /\ nunits' = (n + HDR - 1) \div HDR + 1
  /\ hdr' = IF freep = 0 THEN [hdr EXCEPT ![base] = [ptr |-> base, size |-> 0]] ELSE hdr
  /\ freep' = IF freep = 0 THEN base ELSE freep
  /\ prevp' = freep' /\ p' = hdr'[freep'].ptr
  /\ UNCHANGED <<brk, bp, live, core>>

malloc_take ==
  /\ pc = "scan" /\ size(p) >= nunits
  /\ LET q == p + size(p) - nunits IN
     /\ hdr' = IF size(p) = nunits THEN [hdr EXCEPT ![prevp].ptr = ptr(p)]
               ELSE [hdr EXCEPT ![p].size = @ - nunits, ![q].size = nunits]
     /\ live' = live \cup {q}
  /\ freep' = prevp /\ Return
  /\ UNCHANGED <<brk, bp, core>>

malloc_next ==
  /\ pc = "scan" /\ size(p) < nunits /\ p # freep
  /\ prevp' = p /\ p' = ptr(p)
  /\ UNCHANGED <<hdr, freep, brk, pc, nunits, bp, live, core>>

\* All the way round: morecore gets a block and frees it, or malloc returns 0.
morecore ==
  /\ pc = "scan" /\ size(p) < nunits /\ p = freep
  /\ LET nu == IF nunits < Core THEN Core ELSE nunits IN
     /\ brk + nu <= Heap + Limit
     /\ hdr' = [hdr EXCEPT ![brk].size = nu]
     /\ bp' = brk /\ brk' = brk + nu /\ core' = core \cup (brk .. brk + nu - 1)
  /\ p' = freep /\ pc' = "free"
  /\ UNCHANGED <<freep, prevp, nunits, live>>

morecore_fails ==
  /\ pc = "scan" /\ size(p) < nunits /\ p = freep
  /\ Return
  /\ UNCHANGED <<hdr, freep, brk, bp, live, core>>

-----------------------------------------------------------------------------
free(b) ==
  /\ pc = "idle" /\ b \in live
  /\ live' = live \ {b} /\ bp' = b /\ p' = freep /\ pc' = "free"
  /\ UNCHANGED <<hdr, freep, brk, prevp, nunits, core>>

\* The block belongs between p and the next one, or at the end of the list.
Place == (bp > p /\ bp < ptr(p)) \/ (p >= ptr(p) /\ (bp > p \/ bp < ptr(p)))

free_next ==
  /\ pc = "free" /\ ~Place
  /\ p' = ptr(p)
  /\ UNCHANGED <<hdr, freep, brk, pc, prevp, nunits, bp, live, core>>

\* Mutation of Link: the block is not merged with the one after it.
Link_Apart ==
  LET h1 == [hdr EXCEPT ![bp].ptr = ptr(p)]
  IN  IF p + h1[p].size = bp THEN [h1 EXCEPT ![p] = [ptr |-> h1[bp].ptr, size |-> @.size + h1[bp].size]]
      ELSE [h1 EXCEPT ![p].ptr = bp]

Link ==
  LET h1 == IF bp + size(bp) = ptr(p)
            THEN [hdr EXCEPT ![bp] = [ptr |-> ptr(ptr(p)), size |-> size(bp) + size(ptr(p))]]
            ELSE [hdr EXCEPT ![bp].ptr = ptr(p)]
  IN  IF p + h1[p].size = bp THEN [h1 EXCEPT ![p] = [ptr |-> h1[bp].ptr, size |-> @.size + h1[bp].size]]
      ELSE [h1 EXCEPT ![p].ptr = bp]

\* free returns, and morecore returns freep to malloc's loop, which goes to the next block.
free_link ==
  /\ pc = "free" /\ Place
  /\ hdr' = Link /\ freep' = p /\ bp' = 0
  /\ IF nunits > 0 THEN pc' = "scan" /\ prevp' = p /\ p' = hdr'[p].ptr /\ UNCHANGED nunits
     ELSE Return
  /\ UNCHANGED <<brk, live, core>>

\* The program's own sbrk(1 unit).
sbrk == /\ pc = "idle" /\ brk < Heap + Limit
        /\ brk' = brk + 1
        /\ UNCHANGED <<hdr, freep, pc, p, prevp, nunits, bp, live, core>>

Loop == malloc_take \/ malloc_next \/ morecore \/ morecore_fails \/ free_next \/ free_link
Next == (\E n \in Bytes : malloc(n)) \/ (\E b \in live : free(b)) \/ sbrk \/ Loop
-----------------------------------------------------------------------------
\* The blocks of the list in the order of the links, n of them after base.
Walk[n \in 0 .. Limit] == IF n = 0 THEN base ELSE ptr(Walk[n - 1])
OnList == {Walk[n] : n \in 0 .. Limit} \ {base}

(***************************************************************************)
(* Between calls every unit that morecore got is in exactly one block, of  *)
(* the program or of the free list: blocks do not overlap, none is lost,   *)
(* and the list never leads out of the heap.                               *)
(***************************************************************************)
Partition == pc = "idle" /\ freep # 0 =>
  /\ OnList \subseteq core /\ OnList \cap live = {}
  /\ UNION {Units(a) : a \in OnList \cup live} = core
  /\ \A a, b \in OnList \cup live : a # b => Units(a) \cap Units(b) = {}

(***************************************************************************)
(* No two free blocks are neighbours: free merges what it can, so that     *)
(* memory that was split by malloc and given back is whole again.          *)
(***************************************************************************)
Merged == pc = "idle" /\ freep # 0 => \A a, b \in OnList : a + size(a) # b

(***************************************************************************)
(* The heap stays whole through any sequence of malloc, free and sbrk.     *)
(***************************************************************************)
HeapSound == Partition /\ Merged
=============================================================================
