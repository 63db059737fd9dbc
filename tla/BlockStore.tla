----------------------------- MODULE BlockStore -----------------------------
(***************************************************************************)
(* What bread, bwrite and brelse promise the file system: a store with one *)
(* value per block, each block lent to one process at a time, which sees   *)
(* the last value written and may write another.                           *)
(***************************************************************************)
CONSTANTS Procs, Blocks, Vals, NoProc, NoVal

VARIABLES store, owner, view

Init ==
  /\ store \in [Blocks -> Vals]
  /\ owner = [k \in Blocks |-> NoProc]
  /\ view = [k \in Blocks |-> NoVal]

Acquire(p, k) ==
  /\ owner[k] = NoProc
  /\ owner' = [owner EXCEPT ![k] = p]
  /\ view' = [view EXCEPT ![k] = store[k]]
  /\ UNCHANGED store

Write(p, k, v) ==
  /\ owner[k] = p
  /\ store' = [store EXCEPT ![k] = v]
  /\ view' = [view EXCEPT ![k] = v]
  /\ UNCHANGED owner

Release(p, k) ==
  /\ owner[k] = p
  /\ owner' = [owner EXCEPT ![k] = NoProc]
  /\ view' = [view EXCEPT ![k] = NoVal]
  /\ UNCHANGED store

Next == \E p \in Procs, k \in Blocks :
          Acquire(p, k) \/ Release(p, k) \/ \E v \in Vals : Write(p, k, v)

Spec == Init /\ [][Next]_<<store, owner, view>>
=============================================================================
