---------------------------- MODULE MCBufCache ----------------------------
(* Instances of the buffer cache for TLC. At boot one block of the disk    *)
(* differs from the others.                                                *)
EXTENDS BufCacheProps

CONSTANT k1

MCDisks == {[k \in Blocks |-> IF k = k1 THEN v ELSE Zero] : v \in Vals \ {Zero}}
=============================================================================
