----------------------------- MODULE MCConsole -----------------------------
(***************************************************************************)
(* The console for TLC. Input and output share no state, so a behaviour is *)
(* one of two: "in" is two readers and a keyboard with a ring of three     *)
(* characters, "out" is two CPUs that print on a screen of 2 * 2 cells,    *)
(* followed until an echo overlaps with other output.                      *)
(***************************************************************************)
EXTENDS Console, TLC

CONSTANTS c1, c2, NoCpu

VARIABLES part,
          crt, cursor, index, conslock, locking, panicked, todo, cpc, pos, printed, mixed

Out == INSTANCE Cga WITH
  CPUs <- {c1, c2}, COLS <- 2, ROWS <- 2, Echo <- {c2}, Panics <- {c1},
  Texts <- c1 :> << <<"a", "nl">>, <<"b">> >> @@ c2 :> << <<"x", "y">>, <<"nl", "z">> >>,
  lock <- conslock, pc <- cpc

outVars == <<crt, cursor, index, conslock, locking, panicked, todo, cpc, pos, printed, mixed>>

MCInit == part \in {"in", "out"} /\ Init /\ Out!Init
MCNext == /\ UNCHANGED part
          /\ \/ part = "in" /\ Next /\ UNCHANGED outVars
             \/ part = "out" /\ ~mixed /\ Out!Next /\ UNCHANGED vars
MCSpec == MCInit /\ [][MCNext]_<<part, vars, outVars>> /\ Fairness

(***************************************************************************)
(* When nobody is printing and no CPU has panicked, the screen shows the   *)
(* last rows of what was printed and the cursor is behind it: cgaputc      *)
(* under cons.lock never overwrites, reads the cursor it left, and         *)
(* scrolling keeps the text, as long as no echo of consoleintr overlapped  *)
(* with other output.                                                      *)
(***************************************************************************)
ScreenShows == Out!ScreenShows /\ Out!CursorRead
=============================================================================
