-------------------------------- MODULE Fifo --------------------------------
(***************************************************************************)
(* What a pipe promises: a bounded first-in first-out queue of bytes with  *)
(* two ends that can be closed.                                            *)
(***************************************************************************)
EXTENDS Naturals, Sequences

CONSTANTS Vals, Capacity

VARIABLES q, ropen, wopen

Init == q = <<>> /\ ropen = TRUE /\ wopen = TRUE

Put == /\ Len(q) < Capacity /\ wopen
       /\ \E v \in Vals : q' = Append(q, v)
       /\ UNCHANGED <<ropen, wopen>>

Get == /\ q # <<>> /\ ropen
       /\ q' = Tail(q)
       /\ UNCHANGED <<ropen, wopen>>

CloseRead == ropen /\ ropen' = FALSE /\ UNCHANGED <<q, wopen>>
CloseWrite == wopen /\ wopen' = FALSE /\ UNCHANGED <<q, ropen>>

Next == Put \/ Get \/ CloseRead \/ CloseWrite

Spec == Init /\ [][Next]_<<q, ropen, wopen>>
=============================================================================
