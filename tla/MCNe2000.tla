------------------------------ MODULE MCNe2000 ------------------------------
(***************************************************************************)
(* The network driver for TLC, in two scenes. A 16-bit card whose remote   *)
(* DMA is prompt sends five packets, some of them empty, through the two   *)
(* send buffers, while it receives two. A card of either width that takes  *)
(* its time receives four packets of two lengths through a ring of four    *)
(* pages, read into buffers that are too small or large enough, while one  *)
(* packet is written.                                                      *)
(***************************************************************************)
EXTENDS Ne2000

Scene == IF prompt THEN pc' # "curr" /\ Len(arrived') <= 2 /\ \A k \in DOMAIN arrived' : arrived'[k].len = 1
         ELSE Len(written') <= 1 /\ (pc' = "setup" => loc'[2] = 1)
MCInit == Init /\ (prompt => is16bit)
\* What follows once the driver has gone astray is not looked at.
MCNext == ~astray /\ Next /\ Scene
\* The CPU of the handler keeps running.
MCSpec == MCInit /\ [][MCNext]_vars /\ WF_vars(~astray /\ Handler /\ UNCHANGED card)
=============================================================================
