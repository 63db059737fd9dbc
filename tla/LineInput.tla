----------------------------- MODULE LineInput -----------------------------
(***************************************************************************)
(* What reading from the console promises: the line that is being typed    *)
(* can be edited, finished lines are delivered byte by byte in order, and  *)
(* at most Room bytes are kept.                                            *)
(***************************************************************************)
EXTENDS Naturals, Sequences

CONSTANTS Chars, Room
VARIABLES line, ready     \* the line being typed; finished and undelivered bytes

Ends(c) == c \in {"nl", "eof"}

Init == line = <<>> /\ ready = <<>>

Type(c) == /\ Len(ready) + Len(line) < Room
           /\ IF Ends(c) \/ Len(ready) + Len(line) + 1 = Room
              THEN ready' = ready \o Append(line, c) /\ line' = <<>>
              ELSE line' = Append(line, c) /\ UNCHANGED ready
Erase == line # <<>> /\ line' = SubSeq(line, 1, Len(line) - 1) /\ UNCHANGED ready
KillLine == line # <<>> /\ line' = <<>> /\ UNCHANGED ready
Deliver == ready # <<>> /\ ready' = Tail(ready) /\ UNCHANGED line

Next == (\E c \in Chars : Type(c)) \/ Erase \/ KillLine \/ Deliver
Spec == Init /\ [][Next]_<<line, ready>>
=============================================================================
