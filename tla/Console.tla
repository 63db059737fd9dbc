------------------------------ MODULE Console ------------------------------
(***************************************************************************)
(* Console input (console.c): consoleintr puts characters into the ring    *)
(* input.buf at the edit index e and publishes whole lines by advancing w; *)
(* consoleread takes them out at r. The indices are unsigned and wrap at   *)
(* WRAP. A reader holds input.lock from one sleep to the next; an          *)
(* interrupt handles one character while it holds the lock.                *)
(***************************************************************************)
EXTENDS Naturals, Sequences

CONSTANTS Readers, NoProc,
          Chars,       \* characters, with "nl" (also made of CR) and "eof" (^D)
          INPUT_BUF, WRAP,
          MaxN,        \* bound: the largest n of a read
          Killable

ASSUME ConsoleAssumption == /\ INPUT_BUF \in Nat \ {0} /\ WRAP \in Nat /\ INPUT_BUF < WRAP
                            /\ WRAP % INPUT_BUF = 0 /\ MaxN \in Nat /\ NoProc \notin Readers

VARIABLES buf, r, w, e,       \* struct input
          lock,
          pc, n, target,      \* consoleread of each reader
          killed

input == <<buf, r, w, e>>
vars == <<input, lock, pc, n, target, killed>>

Minus(a, b) == (a + WRAP - b) % WRAP
Plus(a, b) == (a + b) % WRAP
Cell(k) == k % INPUT_BUF

Init == /\ buf = [k \in 0..(INPUT_BUF - 1) |-> "nul"] /\ r = 0 /\ w = 0 /\ e = 0
        /\ lock = NoProc /\ pc = [p \in Readers |-> "user"]
        /\ n = [p \in Readers |-> 0] /\ target = n
        /\ killed = [p \in Readers |-> FALSE]

\* Mutation of wakeup: nobody is woken.
wakeup_None(l) == l

wakeup(l) == [p \in Readers |-> IF l[p] = "sleep" THEN "woken" ELSE l[p]]

-----------------------------------------------------------------------------
Publishes(c, e2) == c \in {"nl", "eof"} \/ e2 = Plus(r, INPUT_BUF)

\* consoleintr: an ordinary character, backspace, kill line.
Key(c) ==
  /\ lock = NoProc
  /\ Minus(e, r) < INPUT_BUF
  /\ buf' = [buf EXCEPT ![Cell(e)] = c] /\ e' = Plus(e, 1)
  /\ IF Publishes(c, e') THEN w' = e' /\ pc' = wakeup(pc) ELSE UNCHANGED <<w, pc>>
  /\ UNCHANGED <<r, lock, n, target, killed>>

Backspace == /\ lock = NoProc /\ e # w
             /\ e' = Minus(e, 1)
             /\ UNCHANGED <<buf, r, w, lock, pc, n, target, killed>>

\* The loop stops at w or after a newline, whichever comes first.
KillLine == /\ lock = NoProc /\ e # w
            /\ LET stops == {k \in 0..Minus(e, w) : \/ k = Minus(e, w)
                                                    \/ buf[Cell(Minus(e, k + 1))] = "nl"}
                   k == CHOOSE x \in stops : \A y \in stops : x <= y
               IN e' = Minus(e, k)
            /\ UNCHANGED <<buf, r, w, lock, pc, n, target, killed>>

-----------------------------------------------------------------------------
Read(p, k) ==
  /\ pc[p] = "user" /\ lock = NoProc /\ lock' = p
  /\ n' = [n EXCEPT ![p] = k] /\ target' = [target EXCEPT ![p] = k]
  /\ pc' = [pc EXCEPT ![p] = "read"]
  /\ UNCHANGED <<input, killed>>

Loop(p) == pc[p] = "read" /\ lock = p /\ n[p] > 0
Return(p) == /\ lock' = NoProc /\ pc' = [pc EXCEPT ![p] = "user"]
             /\ n' = [n EXCEPT ![p] = 0] /\ target' = [target EXCEPT ![p] = 0]

ReadKilled(p) == Loop(p) /\ r = w /\ killed[p] /\ Return(p) /\ UNCHANGED <<input, killed>>

\* sleep(&input.r, &input.lock)
ReadSleep(p) == /\ Loop(p) /\ r = w /\ ~killed[p]
                /\ lock' = NoProc /\ pc' = [pc EXCEPT ![p] = "sleep"]
                /\ UNCHANGED <<input, n, target, killed>>
Wake(p) == /\ pc[p] = "woken" /\ lock = NoProc /\ lock' = p
           /\ pc' = [pc EXCEPT ![p] = "read"] /\ UNCHANGED <<input, n, target, killed>>

\* A byte goes to the caller; a newline ends the read.
ReadByte(p) ==
  LET c == buf[Cell(r)] IN
  /\ Loop(p) /\ r # w /\ c # "eof"
  /\ r' = Plus(r, 1)
  /\ IF c = "nl" THEN Return(p)
     ELSE n' = [n EXCEPT ![p] = @ - 1] /\ UNCHANGED <<lock, pc, target>>
  /\ UNCHANGED <<buf, w, e, killed>>

\* Mutation of ReadEof: ^D is consumed together with the bytes before it.
ReadEof_Consume(p) ==
  /\ Loop(p) /\ r # w /\ buf[Cell(r)] = "eof"
  /\ r' = Plus(r, 1) /\ Return(p) /\ UNCHANGED <<buf, w, e, killed>>

\* ^D ends the read; it stays for the next read unless nothing was read.
ReadEof(p) ==
  /\ Loop(p) /\ r # w /\ buf[Cell(r)] = "eof"
  /\ r' = IF n[p] < target[p] THEN r ELSE Plus(r, 1)
  /\ Return(p) /\ UNCHANGED <<buf, w, e, killed>>

ReadDone(p) == pc[p] = "read" /\ lock = p /\ n[p] = 0 /\ Return(p) /\ UNCHANGED <<input, killed>>

kill(p) == /\ p \in Killable /\ ~killed[p] /\ killed' = [killed EXCEPT ![p] = TRUE]
           /\ pc' = [pc EXCEPT ![p] = IF @ = "sleep" THEN "woken" ELSE @]
           /\ UNCHANGED <<input, lock, n, target>>

Reader(p) == ReadKilled(p) \/ ReadSleep(p) \/ ReadByte(p) \/ ReadEof(p) \/ ReadDone(p)
Next == \/ \E c \in Chars : Key(c)
        \/ Backspace \/ KillLine
        \/ \E p \in Readers : (\E k \in 1..MaxN : Read(p, k)) \/ Reader(p) \/ Wake(p) \/ kill(p)
Spec == Init /\ [][Next]_vars

-----------------------------------------------------------------------------
\* ^D is taken out of the ring only by a read that returns nothing else.
EofAlone == (r' # r /\ buf[Cell(r)] = "eof") => \E p \in Readers : lock = p /\ n[p] = target[p]

\* The characters at the indices from first up to last.
Between(first, last) == [k \in 1..Minus(last, first) |-> buf[Cell(first + k - 1)]]
lineBar == Between(w, e)
readyBar == Between(r, w)
Lines == INSTANCE LineInput WITH Room <- INPUT_BUF, line <- lineBar, ready <- readyBar

(***************************************************************************)
(* consoleintr and consoleread implement a line editor with a queue of     *)
(* lines: no byte is lost, repeated or reordered, also when the indices of *)
(* the ring wrap and when it is full, no finished line is changed, and     *)
(* every ^D shows as an end of file.                                       *)
(***************************************************************************)
ImplementsLines == Lines!Spec /\ [][EofAlone]_vars

Fairness == \A p \in Readers : WF_vars(Reader(p)) /\ SF_vars(Wake(p))

(***************************************************************************)
(* A reader does not sleep beside finished input for ever, and if lines    *)
(* keep coming and nobody else reads any more, its consoleread returns.    *)
(***************************************************************************)
ReadReturns == \A p \in Readers :
  /\ (pc[p] # "user" /\ r # w) ~> (pc[p] = "user" \/ r = w)
  /\ ([]<><<Key("nl")>>_vars /\ <>[](\A q \in Readers \ {p} : pc[q] = "user"))
       => (pc[p] # "user" ~> pc[p] = "user")
=============================================================================
