-------------------------------- MODULE Cga --------------------------------
(***************************************************************************)
(* Console output (console.c): CPUs that print through cprintf and         *)
(* consolewrite, which hold cons.lock, and through the echo of consoleintr,*)
(* which does not; cgaputc, which reads and writes the cursor through one  *)
(* pair of ports; and panic, which turns the locking off and freezes the   *)
(* other CPUs. Screen and cursor are those of COLS * ROWS cells; the hi    *)
(* and lo parts of the cursor stand for its two bytes (base COLS here).    *)
(***************************************************************************)
EXTENDS Naturals, Sequences

CONSTANTS CPUs, NoCpu,
          COLS, ROWS,
          Texts,           \* Texts[c]: the strings that CPU c prints, in order; "bs" is BACKSPACE
          Echo,            \* the CPUs that may print from consoleintr
          Panics           \* the CPUs that may panic

VARIABLES crt, cursor, index,   \* the screen; its cursor and the selected register (14: hi, 15: lo)
          lock, locking,        \* cons
          panicked,
          todo,                 \* the strings each CPU has still to print
          pc, pos,              \* its point in cgaputc, and pos there
          printed,              \* history: the characters printed so far, in order
          mixed                 \* history: an echo has overlapped with other output

vars == <<crt, cursor, index, lock, locking, panicked, todo, pc, pos, printed, mixed>>
screen == <<crt, cursor, index>>

Blank == [k \in 0..(ROWS * COLS + COLS) |-> " "]

Init == /\ crt = Blank /\ cursor = 0 /\ index = 14
        /\ lock = NoCpu /\ locking = TRUE /\ panicked = FALSE
        /\ todo = Texts /\ pc = [c \in CPUs |-> "out"] /\ pos = [c \in CPUs |-> 0]
        /\ printed = <<>> /\ mixed = FALSE

At(c, l) == pc[c] = l
Goto(c, l) == pc' = [pc EXCEPT ![c] = l]
Ch(c) == Head(Head(todo[c]))

-----------------------------------------------------------------------------
\* Mutation of Begin: nobody takes the lock.
Begin_NoLock(c) ==
  /\ At(c, "out") /\ todo[c] # <<>> /\ Goto(c, "putc")
  /\ UNCHANGED <<screen, lock, locking, panicked, todo, pos, printed, mixed>>

Printing(c) == pc[c] \notin {"out", "frozen"}

acquire(c) == lock = NoCpu /\ lock' = c

\* cprintf looks at cons.locking; consolewrite does not, so that it waits for a lock whose holder
\* is frozen (the CPU that panics makes no system call any more); the echo takes no lock.
cprintf(c) == IF locking THEN acquire(c) ELSE UNCHANGED lock
consolewrite(c) == (locking \/ c \notin Panics) /\ acquire(c)
echo(c) == c \in Echo /\ UNCHANGED lock

Begin(c) ==
  /\ At(c, "out") /\ todo[c] # <<>>
  /\ cprintf(c) \/ consolewrite(c) \/ echo(c)
  /\ mixed' = (mixed \/ (locking /\ \E d \in CPUs : Printing(d)))
  /\ Goto(c, "putc")
  /\ UNCHANGED <<screen, locking, panicked, todo, pos, printed>>

End(c) ==
  /\ At(c, "putc") /\ Head(todo[c]) = <<>>
  /\ todo' = [todo EXCEPT ![c] = Tail(@)] /\ Goto(c, "out")
  /\ lock' = IF lock = c THEN NoCpu ELSE lock
  /\ UNCHANGED <<screen, locking, panicked, pos, printed, mixed>>

\* consputc: freeze after a panic of another CPU, else cgaputc.
Freeze(c) ==
  /\ At(c, "putc") /\ Head(todo[c]) # <<>> /\ panicked /\ Goto(c, "frozen")
  /\ UNCHANGED <<screen, lock, locking, panicked, todo, pos, printed, mixed>>

SelectHi(c) ==
  /\ At(c, "putc") /\ Head(todo[c]) # <<>> /\ ~panicked
  /\ index' = 14 /\ Goto(c, "hi")
  /\ UNCHANGED <<crt, cursor, lock, locking, panicked, todo, pos, printed, mixed>>

\* inb(CRTPORT+1): the part of the cursor that is selected at the moment.
Port == IF index = 14 THEN cursor \div COLS ELSE cursor % COLS

ReadHi(c) ==
  /\ At(c, "hi") /\ pos' = [pos EXCEPT ![c] = Port * COLS] /\ Goto(c, "sel_lo")
  /\ UNCHANGED <<screen, lock, locking, panicked, todo, printed, mixed>>

SelectLo(c) ==
  /\ At(c, "sel_lo") /\ index' = 15 /\ Goto(c, "lo")
  /\ UNCHANGED <<crt, cursor, lock, locking, panicked, todo, pos, printed, mixed>>

ReadLo(c) ==
  /\ At(c, "lo") /\ pos' = [pos EXCEPT ![c] = @ + Port] /\ Goto(c, "put")
  /\ UNCHANGED <<screen, lock, locking, panicked, todo, printed, mixed>>

\* Where a character leads, before scrolling.
Advance(ch, x) == CASE ch = "nl" -> x + COLS - (x % COLS)
                    [] ch = "bs" -> IF x > 0 THEN x - 1 ELSE 0
                    [] OTHER -> x + 1
Shown(ch) == ch \notin {"nl", "bs"}

\* The rows move up by one and the cells from the new position x on are cleared.
Scrolled(s, x) == [k \in DOMAIN s |-> IF k >= x /\ k < ROWS * COLS THEN " "
                                      ELSE IF k < (ROWS - 1) * COLS THEN s[k + COLS] ELSE s[k]]

\* The screen and the position after a character that is put at x.
Put(s, x, ch) ==
  LET s1 == IF Shown(ch) THEN [s EXCEPT ![x] = ch] ELSE s
      y == Advance(ch, x)
  IN IF y \div COLS >= ROWS THEN <<Scrolled(s1, y - COLS), y - COLS>> ELSE <<s1, y>>

Store(c) ==
  LET res == Put(crt, pos[c], Ch(c)) IN
  /\ At(c, "put")
  /\ crt' = res[1] /\ pos' = [pos EXCEPT ![c] = res[2]]
  /\ Goto(c, "set_hi")
  /\ printed' = Append(printed, Ch(c))
  /\ UNCHANGED <<cursor, index, lock, locking, panicked, todo, mixed>>

SetHi(c) ==
  /\ At(c, "set_hi") /\ index' = 14
  /\ cursor' = (pos[c] \div COLS) * COLS + (cursor % COLS)
  /\ Goto(c, "set_lo")
  /\ UNCHANGED <<crt, lock, locking, panicked, todo, pos, printed, mixed>>

\* The rest of cgaputc: the low part, and a blank under the cursor.
SetLo(c) ==
  /\ At(c, "set_lo") /\ index' = 15
  /\ cursor' = (cursor \div COLS) * COLS + (pos[c] % COLS)
  /\ crt' = [crt EXCEPT ![pos[c]] = " "]
  /\ todo' = [todo EXCEPT ![c] = <<Tail(Head(@))>> \o Tail(@)] /\ Goto(c, "putc")
  /\ UNCHANGED <<lock, locking, panicked, pos, printed, mixed>>

\* panic at a point outside of the console code: the lock is no longer used.
panic(c) ==
  /\ c \in Panics /\ At(c, "out") /\ locking
  /\ locking' = FALSE
  /\ UNCHANGED <<screen, lock, panicked, todo, pc, pos, printed, mixed>>

\* The message is out: the other CPUs are stopped.
Panicked(c) ==
  /\ c \in Panics /\ At(c, "out") /\ ~locking /\ todo[c] = <<>> /\ ~panicked
  /\ panicked' = TRUE /\ Goto(c, "frozen")
  /\ UNCHANGED <<screen, lock, locking, todo, pos, printed, mixed>>

cgaputc(c) == SelectHi(c) \/ ReadHi(c) \/ SelectLo(c) \/ ReadLo(c) \/ Store(c) \/ SetHi(c) \/ SetLo(c)
Next == \E c \in CPUs : Begin(c) \/ End(c) \/ Freeze(c) \/ cgaputc(c) \/ panic(c) \/ Panicked(c)
Spec == Init /\ [][Next]_vars

-----------------------------------------------------------------------------
\* The rows that the characters printed so far make up, if none were scrolled away.
Rows == LET f[k \in 0..Len(printed)] ==      \* after k of them
          IF k = 0 THEN << <<>> >>
          ELSE LET t == f[k - 1]
                   last == t[Len(t)]
               IN IF printed[k] = "nl" THEN Append(t, <<>>)
                  ELSE LET t1 == [t EXCEPT ![Len(t)] = Append(last, printed[k])]
                       IN IF Len(last) + 1 = COLS THEN Append(t1, <<>>) ELSE t1
        IN f[Len(printed)]

Quiet == locking /\ ~mixed /\ \A c \in CPUs : At(c, "out")

(***************************************************************************)
(* When nobody is printing and no CPU has panicked, the screen shows the   *)
(* last rows of what was printed and the cursor is behind it: characters   *)
(* of two CPUs never overwrite each other, and scrolling keeps the text,   *)
(* as long as no echo, which takes no lock, overlapped with other output.  *)
(***************************************************************************)
ScreenShows == Quiet =>
  LET top == IF Len(Rows) > ROWS THEN Len(Rows) - ROWS ELSE 0 IN
  /\ cursor = (Len(Rows) - top - 1) * COLS + Len(Rows[Len(Rows)])
  /\ \A k \in 0..(ROWS * COLS - 1) :
       crt[k] = LET row == top + 1 + (k \div COLS)
                IN IF row <= Len(Rows) /\ (k % COLS) < Len(Rows[row]) THEN Rows[row][(k % COLS) + 1] ELSE " "

(***************************************************************************)
(* What cgaputc reads from the two ports is the position of the cursor:    *)
(* nobody selects the other half or moves the cursor in between, except an *)
(* echo.                                                                   *)
(***************************************************************************)
CursorRead == locking /\ ~mixed => \A c \in CPUs : At(c, "put") => pos[c] = cursor
=============================================================================
