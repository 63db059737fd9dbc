--------------------------- MODULE ConsoleProofs ---------------------------
(***************************************************************************)
(* The ring of console.c with its three wrapping indices is a line editor  *)
(* with a queue of finished lines, for every INPUT_BUF that divides the    *)
(* range of the indices and any number of readers. The invariant says that *)
(* the indices follow each other around the ring (r, w, e, never more than *)
(* INPUT_BUF from first to last) and that the line being typed has no      *)
(* newline, so that ^U stops only at w.                                    *)
(***************************************************************************)
EXTENDS Console, TLAPS

Ready == Minus(w, r)
Typed == Minus(e, w)
Kept == Minus(e, r)

TypeInv ==
  /\ buf \in [0..(INPUT_BUF - 1) -> Chars \cup {"nul"}]
  /\ r \in 0..(WRAP - 1) /\ w \in 0..(WRAP - 1) /\ e \in 0..(WRAP - 1)
  /\ lock \in Readers \cup {NoProc}
  /\ pc \in [Readers -> {"user", "read", "sleep", "woken"}]
  /\ n \in [Readers -> Nat] /\ target \in [Readers -> Nat] /\ killed \in [Readers -> BOOLEAN]

\* w is between r and e.
OrderInv == Kept = Ready + Typed /\ Kept <= INPUT_BUF

\* The line being typed has no newline yet.
TypedInv == \A k \in 1..Typed : buf[Cell(w + k - 1)] # "nl"

\* A read has not delivered more than it was asked for.
CountInv == \A p \in Readers : n[p] <= target[p]

\* A reader sleeps only if there is no finished line, and it was not killed.
SleepInv == \A p \in Readers : pc[p] = "sleep" => r = w /\ ~killed[p]

IInv == TypeInv /\ OrderInv /\ TypedInv /\ CountInv /\ SleepInv

-----------------------------------------------------------------------------
(* Division with remainder, in the form that the solver uses.               *)
LEMMA Quotient ==
  ASSUME NEW P \in Nat \ {0}, NEW a \in Nat
  PROVE  (a % P) \in 0..(P - 1) /\ \E k \in Nat : a = P * k + (a % P)
  <1>1. (a % P) \in 0..(P - 1) /\ a \div P \in Nat /\ a = P * (a \div P) + (a % P)
    OBVIOUS
  <1> QED BY <1>1, Zenon

(* The remainder of a multiple of P plus something less than P.             *)
LEMMA Remainder ==
  ASSUME NEW P \in Nat \ {0}, NEW k \in Nat, NEW x \in 0..(P - 1)
  PROVE  (P * k + x) % P = x
  OBVIOUS

(* Two indices less than INPUT_BUF apart use different cells of the ring.   *)
LEMMA Apart ==
  ASSUME NEW a \in Nat, NEW b \in Nat, a < b, b < a + INPUT_BUF
  PROVE  Cell(a) # Cell(b)
  <1> DEFINE P == INPUT_BUF
  <1>0. P \in Nat \ {0}
    BY ConsoleAssumption
  <1> SUFFICES ASSUME a % P = b % P PROVE FALSE
    BY Zenon DEF Cell
  <1>1. PICK k \in Nat : a = P * k + (a % P)
    BY <1>0, Quotient, Zenon
  <1>2. PICK m \in Nat : b = P * m + (b % P)
    BY <1>0, Quotient, Zenon
  <1>3. (a % P) \in Nat
    BY <1>0, Quotient
  <1>4. b - a = P * (m - k)
    BY <1>0, <1>1, <1>2, <1>3
  <1>5. P \in Nat /\ a < b /\ b < a + P
    BY <1>0
  <1> HIDE DEF P
  <1> QED BY <1>4, <1>5

(* An index and the one that it wraps to use the same cell.                 *)
LEMMA SameCell ==
  ASSUME NEW a \in Nat
  PROVE  Cell(a) \in 0..(INPUT_BUF - 1) /\ Cell(a + WRAP) = Cell(a)
  <1> DEFINE P == INPUT_BUF
             W == WRAP
  <1>0. P \in Nat \ {0} /\ W \in Nat /\ W % P = 0
    BY ConsoleAssumption, Zenon
  <1> HIDE DEF P, W
  <1>1. PICK k \in Nat : a = P * k + (a % P)
    BY <1>0, Quotient, Zenon
  <1>2. PICK m \in Nat : W = P * m + (W % P)
    BY <1>0, Quotient, Zenon
  <1>3. a % P \in 0..(P - 1)
    BY <1>0, Quotient, Zenon
  <1>4. a + W = P * (k + m) + (a % P)
    BY <1>0, <1>1, <1>2, <1>3
  <1>5. k + m \in Nat
    OBVIOUS
  <1>6. (P * (k + m) + (a % P)) % P = a % P
    BY <1>0, <1>3, <1>5, Remainder, Zenon
  <1>7. (a + W) % P = a % P
    BY <1>4, <1>6, Zenon
  <1> QED BY <1>3, <1>7, Zenon DEF Cell, P, W

(* Unsigned addition and subtraction of indices.                            *)
LEMMA Wrapped ==
  ASSUME NEW a \in 0..(WRAP - 1), NEW b \in 0..WRAP
  PROVE  /\ Plus(a, b) = IF a + b < WRAP THEN a + b ELSE a + b - WRAP
         /\ Minus(a, b) = IF a >= b THEN a - b ELSE a + WRAP - b
         /\ Plus(a, b) \in 0..(WRAP - 1) /\ Minus(a, b) \in 0..(WRAP - 1)
  <1> DEFINE W == WRAP
  <1>0. W \in Nat \ {0}
    BY ConsoleAssumption
  <1>1. W \in Nat \ {0} => \A x \in Nat : x < 2 * W => x % W = IF x < W THEN x ELSE x - W
    <2> HIDE DEF W
    <2> QED OBVIOUS
  <1>2. a + b \in Nat /\ a + b < 2 * W /\ a + W - b \in Nat /\ a + W - b < 2 * W
    BY <1>0
  <1>3. (a + b) % W = IF a + b < W THEN a + b ELSE a + b - W
    BY <1>0, <1>1, <1>2
  <1>4. (a + W - b) % W = IF a + W - b < W THEN a + W - b ELSE a + W - b - W
    BY <1>0, <1>1, <1>2
  <1>5. Plus(a, b) = (a + b) % W /\ Minus(a, b) = (a + W - b) % W
    BY Zenon DEF Plus, Minus
  <1> HIDE DEF W
  <1>6. a \in 0..(W - 1) /\ b \in 0..W
    BY DEF W
  <1> QED BY <1>0, <1>3, <1>4, <1>5, <1>6 DEF W

(* One index is k ahead of another.                                         *)
LEMMA Ahead ==
  ASSUME NEW x \in 0..(WRAP - 1), NEW y \in 0..(WRAP - 1), NEW k \in 0..(WRAP - 1)
  PROVE  x = Plus(y, k) <=> Minus(x, y) = k
  <1>1. WRAP \in Nat /\ k \in 0..WRAP /\ y \in 0..WRAP
    BY ConsoleAssumption
  <1>2. /\ Plus(y, k) = IF y + k < WRAP THEN y + k ELSE y + k - WRAP
        /\ Minus(x, y) = IF x >= y THEN x - y ELSE x + WRAP - y
    BY <1>1, Wrapped, Zenon
  <1> QED BY <1>1, <1>2

-----------------------------------------------------------------------------
(* The three distances, and the cells that w and e stand for, counted from  *)
(* r.                                                                       *)
LEMMA Distances ==
  ASSUME TypeInv, OrderInv
  PROVE  /\ WRAP \in Nat /\ INPUT_BUF \in Nat \ {0} /\ INPUT_BUF < WRAP
         /\ r \in 0..(WRAP - 1) /\ w \in 0..(WRAP - 1) /\ e \in 0..(WRAP - 1)
         /\ Ready = IF w >= r THEN w - r ELSE w + WRAP - r
         /\ Typed = IF e >= w THEN e - w ELSE e + WRAP - w
         /\ Kept = IF e >= r THEN e - r ELSE e + WRAP - r
         /\ Ready \in Nat /\ Typed \in Nat /\ Kept = Ready + Typed /\ Kept <= INPUT_BUF
         /\ \A j \in Nat : Cell(w + j) = Cell(r + Ready + j) /\ Cell(e + j) = Cell(r + Kept + j)
  <1>1. /\ WRAP \in Nat /\ INPUT_BUF \in Nat \ {0} /\ INPUT_BUF < WRAP
        /\ r \in 0..(WRAP - 1) /\ w \in 0..(WRAP - 1) /\ e \in 0..(WRAP - 1)
    BY ConsoleAssumption, Zenon DEF TypeInv
  <1>2. r \in 0..WRAP /\ w \in 0..WRAP /\ e \in 0..WRAP
    BY <1>1
  <1>3. /\ Ready = IF w >= r THEN w - r ELSE w + WRAP - r
        /\ Typed = IF e >= w THEN e - w ELSE e + WRAP - w
        /\ Kept = IF e >= r THEN e - r ELSE e + WRAP - r
    BY <1>1, <1>2, Wrapped, Zenon DEF Ready, Typed, Kept
  <1>4. Ready \in Nat /\ Typed \in Nat /\ Kept = Ready + Typed /\ Kept <= INPUT_BUF
    BY <1>1, <1>3 DEF OrderInv
  <1>5. ASSUME NEW j \in Nat
        PROVE  Cell(w + j) = Cell(r + Ready + j) /\ Cell(e + j) = Cell(r + Kept + j)
    <2>1. w + j \in Nat /\ e + j \in Nat
      BY <1>1
    <2>2. Cell(w + j + WRAP) = Cell(w + j) /\ Cell(e + j + WRAP) = Cell(e + j)
      BY <2>1, SameCell, Zenon
    <2>3. /\ r + Ready + j = w + j \/ r + Ready + j = w + j + WRAP
          /\ r + Kept + j = e + j \/ r + Kept + j = e + j + WRAP
      BY <1>1, <1>3
    <2> QED BY <2>2, <2>3, Zenon
  <1> QED BY <1>1, <1>3, <1>4, <1>5, Zenon

\* s is made of the characters in len cells of b from first on.
Stretch(s, b, first, len) ==
  /\ s \in Seq(Chars \cup {"nul"}) /\ Len(s) = len
  /\ \A k \in 1..len : s[k] = b[Cell(first + k - 1)]

(* The refinement mapping takes such stretches of the ring.                 *)
LEMMA StretchSeq ==
  ASSUME NEW b \in [0..(INPUT_BUF - 1) -> Chars \cup {"nul"}], NEW first \in Nat, NEW len \in Nat
  PROVE  Stretch([k \in 1..len |-> b[Cell(first + k - 1)]], b, first, len)
  <1>1. ASSUME NEW k \in 1..len PROVE b[Cell(first + k - 1)] \in Chars \cup {"nul"}
    <2>1. first + k - 1 \in Nat
      OBVIOUS
    <2>2. Cell(first + k - 1) \in 0..(INPUT_BUF - 1)
      BY <2>1, SameCell, Zenon
    <2> QED BY <2>2, Zenon
  <1> QED BY <1>1 DEF Stretch

(* The elements of two sequences, one behind the other.                     *)
LEMMA Concat ==
  ASSUME NEW S, NEW a \in Seq(S), NEW f \in Seq(S)
  PROVE  /\ a \o f \in Seq(S) /\ Len(a \o f) = Len(a) + Len(f)
         /\ \A k \in 1..(Len(a) + Len(f)) : (a \o f)[k] = IF k <= Len(a) THEN a[k] ELSE f[k - Len(a)]
  <1>1. a \o f \in Seq(S)
    OBVIOUS
  <1>2. Len(a \o f) = Len(a) + Len(f)
    OBVIOUS
  <1>3. ASSUME NEW k \in 1..(Len(a) + Len(f)) PROVE (a \o f)[k] = IF k <= Len(a) THEN a[k] ELSE f[k - Len(a)]
    OBVIOUS
  <1> QED BY <1>1, <1>2, <1>3, Zenon

\* d is a, then b, then c.
Follows(d, a, b, c) ==
  /\ Len(d) = Len(a) + Len(b) + 1 /\ \A k \in 1..Len(a) : d[k] = a[k]
  /\ (\A k \in 1..Len(b) : d[Len(a) + k] = b[k]) /\ d[Len(a) + Len(b) + 1] = c

(* A finished line behind the lines that are ready.                         *)
LEMMA Joined ==
  ASSUME NEW S, NEW a \in Seq(S), NEW b \in Seq(S), NEW c \in S, NEW d \in Seq(S),
         Follows(d, a, b, c)
  PROVE  d = a \o Append(b, c)
  <1>0. /\ Len(d) = Len(a) + Len(b) + 1 /\ \A k \in 1..Len(a) : d[k] = a[k]
        /\ (\A k \in 1..Len(b) : d[Len(a) + k] = b[k]) /\ d[Len(a) + Len(b) + 1] = c
    BY Zenon DEF Follows
  <1> DEFINE f == Append(b, c)
  <1>1. f \in Seq(S) /\ Len(f) = Len(b) + 1 /\ (\A k \in 1..Len(b) : f[k] = b[k]) /\ f[Len(b) + 1] = c
    OBVIOUS
  <1>2. Len(a) \in Nat /\ Len(b) \in Nat
    OBVIOUS
  <1> HIDE DEF f
  <1> DEFINE g == a \o f
  <1>3. /\ g \in Seq(S) /\ Len(g) = Len(a) + Len(f)
        /\ \A k \in 1..(Len(a) + Len(f)) : g[k] = IF k <= Len(a) THEN a[k] ELSE f[k - Len(a)]
    BY <1>1, Concat, Zenon
  <1> HIDE DEF g
  <1>4. ASSUME NEW k \in 1..Len(d) PROVE d[k] = g[k]
    <2>1. k \in 1..(Len(a) + Len(f))
      BY <1>0, <1>1, <1>2
    <2>2. CASE k <= Len(a)
      <3>1. k \in 1..Len(a)
        BY <2>2, <1>2
      <3> QED BY <1>0, <1>3, <2>1, <2>2, <3>1, Zenon
    <2>3. CASE k > Len(a) /\ k < Len(a) + Len(b) + 1
      <3>1. k - Len(a) \in 1..Len(b) /\ Len(a) + (k - Len(a)) = k /\ ~(k <= Len(a))
        BY <2>3, <1>2
      <3>2. d[k] = b[k - Len(a)] /\ f[k - Len(a)] = b[k - Len(a)]
        <4>1. d[Len(a) + (k - Len(a))] = b[k - Len(a)] /\ f[k - Len(a)] = b[k - Len(a)]
          BY <1>0, <1>1, <3>1, Zenon
        <4> QED BY <3>1, <4>1, Zenon
      <3> QED BY <1>3, <2>1, <3>1, <3>2, Zenon
    <2>4. CASE k = Len(a) + Len(b) + 1
      <3>1. k - Len(a) = Len(b) + 1 /\ ~(k <= Len(a))
        BY <2>4, <1>2
      <3> QED BY <1>0, <1>1, <1>3, <2>1, <2>4, <3>1, Zenon
    <2>5. \A x, y \in Nat : \A z \in 1..(x + (y + 1)) : z <= x \/ (z > x /\ z < x + y + 1) \/ z = x + y + 1
      OBVIOUS
    <2>6. k <= Len(a) \/ (k > Len(a) /\ k < Len(a) + Len(b) + 1) \/ k = Len(a) + Len(b) + 1
      BY <1>1, <1>2, <2>1, <2>5, Zenon
    <2> QED BY <2>2, <2>3, <2>4, <2>6, Zenon
  <1>5. Len(d) = Len(g)
    BY <1>0, <1>1, <1>2, <1>3
  <1>6. d = g
    BY <1>3, <1>4, <1>5
  <1> QED BY <1>6, Zenon DEF f, g

(* The distance is 0 exactly between equal indices.                         *)
LEMMA Zero ==
  ASSUME NEW x \in 0..(WRAP - 1), NEW y \in 0..(WRAP - 1)
  PROVE  Minus(x, x) = 0 /\ (Minus(x, y) = 0 <=> x = y)
  <1>1. WRAP \in Nat /\ x \in 0..WRAP /\ y \in 0..WRAP
    BY ConsoleAssumption
  <1>2. /\ Minus(x, x) = IF x >= x THEN x - x ELSE x + WRAP - x
        /\ Minus(x, y) = IF x >= y THEN x - y ELSE x + WRAP - y
    BY <1>1, Wrapped, Zenon
  <1> QED BY <1>1, <1>2

(* How the distance changes when one of the two indices moves on.           *)
LEMMA Forward ==
  ASSUME NEW x \in 0..(WRAP - 1), NEW y \in 0..(WRAP - 1)
  PROVE  /\ Plus(x, 1) \in 0..(WRAP - 1)
         /\ Minus(x, y) < WRAP - 1 => Minus(Plus(x, 1), y) = Minus(x, y) + 1
         /\ x # y => Minus(x, Plus(y, 1)) = Minus(x, y) - 1
  <1>0. WRAP \in Nat /\ 1 < WRAP
    BY ConsoleAssumption
  <1>1. 1 \in 0..WRAP /\ y \in 0..WRAP
    BY <1>0
  <1>2. /\ Minus(x, y) = IF x >= y THEN x - y ELSE x + WRAP - y
        /\ Plus(x, 1) = IF x + 1 < WRAP THEN x + 1 ELSE x + 1 - WRAP
        /\ Plus(y, 1) = IF y + 1 < WRAP THEN y + 1 ELSE y + 1 - WRAP
    BY <1>1, Wrapped, Zenon
  <1>3. Plus(x, 1) \in 0..(WRAP - 1) /\ Plus(y, 1) \in 0..WRAP
    BY <1>0, <1>2
  <1>4. /\ Minus(Plus(x, 1), y) = IF Plus(x, 1) >= y THEN Plus(x, 1) - y ELSE Plus(x, 1) + WRAP - y
        /\ Minus(x, Plus(y, 1)) = IF x >= Plus(y, 1) THEN x - Plus(y, 1) ELSE x + WRAP - Plus(y, 1)
    BY <1>1, <1>3, Wrapped, Zenon
  <1>5. Minus(x, y) < WRAP - 1 => Minus(Plus(x, 1), y) = Minus(x, y) + 1
    BY <1>0, <1>2, <1>4
  <1>6. x # y => Minus(x, Plus(y, 1)) = Minus(x, y) - 1
    BY <1>0, <1>2, <1>4
  <1> QED BY <1>3, <1>5, <1>6, Zenon

-----------------------------------------------------------------------------
(* consoleintr with an ordinary character: it goes to a cell that nothing   *)
(* unread uses, behind the line, and the line is published exactly when it  *)
(* is finished or the ring is full.                                         *)
LEMMA KeyStep ==
  ASSUME IInv, NEW c \in Chars, Key(c)
  PROVE  IInv' /\ Lines!Type(c)
  <1> DEFINE P == INPUT_BUF
  <1>0. TypeInv /\ OrderInv /\ TypedInv /\ CountInv /\ SleepInv
    BY Zenon DEF IInv
  <1>1. /\ Kept < P /\ buf' = [buf EXCEPT ![Cell(e)] = c] /\ e' = Plus(e, 1)
        /\ r' = r /\ lock' = lock /\ n' = n /\ target' = target /\ killed' = killed
        /\ IF Publishes(c, e') THEN w' = e' /\ pc' = wakeup(pc) ELSE w' = w /\ pc' = pc
    BY Zenon DEF Key, Kept
  <1>2. /\ P \in Nat \ {0} /\ P < WRAP /\ WRAP \in Nat
        /\ Ready \in Nat /\ Typed \in Nat /\ Kept = Ready + Typed
    BY <1>0, Distances, Zenon
  <1>i. r \in 0..(WRAP - 1) /\ w \in 0..(WRAP - 1) /\ e \in 0..(WRAP - 1)
    BY <1>0, Zenon DEF TypeInv
  <1>e. e' \in 0..(WRAP - 1)
    BY <1>1, <1>i, Forward, Zenon
  <1>c. \A j \in Nat : Cell(w + j) = Cell(r + Ready + j) /\ Cell(e + j) = Cell(r + Kept + j)
    BY <1>0, Distances, Zenon
  <1>3. Minus(e', r) = Kept + 1 /\ Minus(e', w) = Typed + 1 /\ Minus(e', e') = 0
    <2>1. Kept < WRAP - 1 /\ Typed < WRAP - 1
      BY <1>1, <1>2
    <2>2. Minus(e, r) < WRAP - 1 => Minus(Plus(e, 1), r) = Minus(e, r) + 1
      BY <1>i, Forward, Zenon
    <2>3. Minus(e, w) < WRAP - 1 => Minus(Plus(e, 1), w) = Minus(e, w) + 1
      BY <1>i, Forward, Zenon
    <2>4. Minus(e', e') = 0
      BY <1>e, Zero, Zenon
    <2> QED BY <2>1, <2>2, <2>3, <2>4, <1>1, Zenon DEF Kept, Typed
  <1>4. Publishes(c, e') <=> Lines!Ends(c) \/ Ready + Typed + 1 = P
    <2>1. P \in 0..(WRAP - 1)
      BY <1>2
    <2>2. e' = Plus(r, P) <=> Kept + 1 = P
      <3>1. e' = Plus(r, P) <=> Minus(e', r) = P
        BY <1>i, <1>e, <2>1, Ahead
      <3> QED BY <1>3, <3>1, Zenon
    <2>3. Ready + Typed + 1 = Kept + 1
      BY <1>2
    <2> QED BY <2>2, <2>3, Zenon DEF Publishes, Lines!Ends
  <1>5. Cell(e) \in 0..(P - 1) /\ Cell(e) = Cell(r + Kept)
    <2>1. e \in Nat /\ e + 0 = e /\ r + Kept + 0 = r + Kept /\ 0 \in Nat
      BY <1>i, <1>2
    <2> QED BY <2>1, <1>c, SameCell
  <1>6. ASSUME NEW j \in 0..(Kept - 1) PROVE buf'[Cell(r + j)] = buf[Cell(r + j)]
    <2>1. r + j \in Nat /\ r + Kept \in Nat /\ r + j < r + Kept /\ r + Kept < r + j + P
      BY <1>i, <1>1, <1>2
    <2>2. Cell(r + j) # Cell(e) /\ Cell(r + j) \in 0..(P - 1)
      BY <2>1, <1>5, Apart, SameCell, Zenon
    <2> QED BY <1>0, <1>1, <2>2, Zenon DEF TypeInv
  <1>7. buf'[Cell(r + Kept)] = c /\ buf' \in [0..(P - 1) -> Chars \cup {"nul"}]
    BY <1>0, <1>1, <1>5, Zenon DEF TypeInv
  <1>8. TypeInv' /\ CountInv'
    <2>1. w' \in 0..(WRAP - 1)
      BY <1>i, <1>e, <1>1, <1>2, Zenon
    <2>2. pc' \in [Readers -> {"user", "read", "sleep", "woken"}]
      BY <1>0, <1>1, Zenon DEF TypeInv, wakeup
    <2> QED BY <1>i, <1>e, <1>0, <1>1, <1>2, <1>7, <2>1, <2>2, Zenon DEF TypeInv, CountInv
  <1>9. Kept' = Kept + 1
    BY <1>1, <1>3, Zenon DEF Kept
  <1> DEFINE fin == Publishes(c, e')
  <1> HIDE DEF fin
  <1>10. /\ fin => Ready' = Kept + 1 /\ Typed' = 0
         /\ ~fin => Ready' = Ready /\ Typed' = Typed + 1
    BY <1>1, <1>3, Zenon DEF Ready, Typed, fin
  <1>11. OrderInv'
    BY <1>1, <1>2, <1>9, <1>10 DEF OrderInv
  <1>12. SleepInv'
    <2>1. CASE fin
      <3>1. \A p \in Readers : pc'[p] # "sleep"
        BY <1>0, <1>1, <2>1, Zenon DEF fin, wakeup, TypeInv
      <3> QED BY <3>1, Zenon DEF SleepInv
    <2>2. CASE ~fin
      BY <1>0, <1>1, <2>2, Zenon DEF fin, SleepInv
    <2> QED BY <2>1, <2>2, Zenon
  <1>13. TypedInv' 
    <2>1. CASE fin
      <3>1. 1..Typed' = {}
        BY <1>10, <2>1
      <3> QED BY <3>1, Zenon DEF TypedInv
    <2>2. CASE ~fin
      <3>1. w' = w /\ Typed' = Typed + 1 /\ c # "nl"
        BY <1>1, <1>4, <1>10, <2>2, Zenon DEF fin, Publishes
      <3>2. ASSUME NEW k \in 1..(Typed + 1) PROVE buf'[Cell(w + k - 1)] # "nl"
        <4>1. /\ k - 1 \in Nat /\ w + (k - 1) = w + k - 1 /\ r + Ready + (k - 1) = r + (Ready + k - 1)
              /\ k <= Typed => Ready + k - 1 \in 0..(Kept - 1) /\ k \in 1..Typed
              /\ k > Typed => Ready + k - 1 = Kept
          BY <1>i, <1>2
        <4>2. Cell(w + k - 1) = Cell(r + (Ready + k - 1))
          BY <1>c, <4>1, Zenon
        <4>3. CASE k <= Typed
          BY <1>0, <1>6, <4>1, <4>2, <4>3, Zenon DEF TypedInv
        <4>4. CASE k > Typed
          BY <1>7, <3>1, <4>1, <4>2, <4>4, Zenon
        <4> QED BY <4>3, <4>4, <1>2
      <3> QED BY <3>1, <3>2, Zenon DEF TypedInv
    <2> QED BY <2>1, <2>2, Zenon
  <1>14. Stretch(readyBar, buf, r, Ready) /\ Stretch(lineBar, buf, w, Typed)
    <2>1. r \in Nat /\ w \in Nat /\ Ready \in Nat /\ Typed \in Nat
      BY <1>i, <1>2
    <2>2. buf \in [0..(P - 1) -> Chars \cup {"nul"}]
      BY <1>0, Zenon DEF TypeInv
    <2>3. readyBar = [k \in 1..Ready |-> buf[Cell(r + k - 1)]] /\ lineBar = [k \in 1..Typed |-> buf[Cell(w + k - 1)]]
      BY Zenon DEF readyBar, lineBar, Between, Ready, Typed
    <2>4. Stretch([k \in 1..Ready |-> buf[Cell(r + k - 1)]], buf, r, Ready)
      BY <2>1, <2>2, StretchSeq, Zenon
    <2>5. Stretch([k \in 1..Typed |-> buf[Cell(w + k - 1)]], buf, w, Typed)
      BY <2>1, <2>2, StretchSeq, Zenon
    <2> QED BY <2>3, <2>4, <2>5, Zenon
  <1>15. Stretch(readyBar', buf', r', Ready') /\ Stretch(lineBar', buf', w', Typed')
    <2>1. r' \in Nat /\ w' \in Nat /\ Ready' \in Nat /\ Typed' \in Nat
      <3>1. r' \in Nat
        BY <1>i, <1>1
      <3>2. w' \in Nat
        BY <1>8 DEF TypeInv
      <3>3. Ready' \in Nat /\ Typed' \in Nat
        BY <1>2, <1>10
      <3> QED BY <3>1, <3>2, <3>3
    <2>2. buf' \in [0..(P - 1) -> Chars \cup {"nul"}]
      BY <1>7, Zenon
    <2>3. /\ readyBar' = [k \in 1..Ready' |-> buf'[Cell(r' + k - 1)]]
          /\ lineBar' = [k \in 1..Typed' |-> buf'[Cell(w' + k - 1)]]
      BY Zenon DEF readyBar, lineBar, Between, Ready, Typed
    <2>4. Stretch([k \in 1..Ready' |-> buf'[Cell(r' + k - 1)]], buf', r', Ready')
      BY <2>1, <2>2, StretchSeq, Zenon
    <2>5. Stretch([k \in 1..Typed' |-> buf'[Cell(w' + k - 1)]], buf', w', Typed')
      BY <2>1, <2>2, StretchSeq, Zenon
    <2> QED BY <2>3, <2>4, <2>5, Zenon
  <1>16. /\ Len(readyBar) = Ready /\ Len(lineBar) = Typed
         /\ readyBar \in Seq(Chars \cup {"nul"}) /\ lineBar \in Seq(Chars \cup {"nul"})
         /\ readyBar' \in Seq(Chars \cup {"nul"}) /\ lineBar' \in Seq(Chars \cup {"nul"})
    BY <1>14, <1>15, Zenon DEF Stretch
  <1>17. ASSUME NEW k \in 1..Ready PROVE readyBar[k] = buf'[Cell(r + k - 1)]
    <2>1. k - 1 \in 0..(Kept - 1) /\ r + (k - 1) = r + k - 1
      BY <1>i, <1>2
    <2>2. buf'[Cell(r + (k - 1))] = buf[Cell(r + (k - 1))]
      BY <1>6, <2>1, Zenon
    <2>3. readyBar[k] = buf[Cell(r + k - 1)]
      BY <1>14, Zenon DEF Stretch
    <2> QED BY <2>1, <2>2, <2>3, Zenon
  <1>18. ASSUME NEW k \in 1..Typed PROVE lineBar[k] = buf'[Cell(r + (Ready + k) - 1)] /\ lineBar[k] = buf'[Cell(w + k - 1)]
    <2>1. /\ Ready + k - 1 \in 0..(Kept - 1) /\ r + (Ready + k) - 1 = r + (Ready + k - 1) /\ k - 1 \in Nat
          /\ w + (k - 1) = w + k - 1 /\ r + Ready + (k - 1) = r + (Ready + k - 1)
      BY <1>i, <1>2
    <2>2. buf'[Cell(r + (Ready + k - 1))] = buf[Cell(r + (Ready + k - 1))]
      BY <1>6, <2>1, Zenon
    <2>3. Cell(w + (k - 1)) = Cell(r + Ready + (k - 1))
      BY <1>c, <2>1, Zenon
    <2>4. lineBar[k] = buf[Cell(w + k - 1)]
      BY <1>14, Zenon DEF Stretch
    <2> QED BY <2>1, <2>2, <2>3, <2>4, Zenon
  <1>r. /\ Len(readyBar) + Len(lineBar) < P
        /\ fin <=> Lines!Ends(c) \/ Len(readyBar) + Len(lineBar) + 1 = P
    <2>1. Len(readyBar) + Len(lineBar) = Ready + Typed /\ Ready + Typed < P
      BY <1>1, <1>2, <1>16
    <2> QED BY <1>4, <2>1, Zenon DEF fin
  <1>19. ASSUME fin PROVE Lines!Type(c)
    <2>1. Stretch(readyBar', buf', r, Kept + 1) /\ Len(lineBar') = 0
      BY <1>1, <1>10, <1>15, <1>19, Zenon DEF Stretch
    <2>2. Follows(readyBar', readyBar, lineBar, c)
      <3>1. /\ \A k \in 1..Ready : k \in 1..(Kept + 1)
            /\ \A k \in 1..Typed : Ready + k \in 1..(Kept + 1)
            /\ Ready + Typed + 1 \in 1..(Kept + 1) /\ r + (Ready + Typed + 1) - 1 = r + Kept /\ Kept + 1 = Ready + Typed + 1
        BY <1>i, <1>2
      <3>2. Len(readyBar') = Kept + 1 /\ \A k \in 1..(Kept + 1) : readyBar'[k] = buf'[Cell(r + k - 1)]
        BY <2>1, Zenon DEF Stretch
      <3>3. \A k \in 1..Ready : readyBar'[k] = readyBar[k]
        BY <1>17, <3>1, <3>2, Zenon
      <3>4. \A k \in 1..Typed : readyBar'[Ready + k] = lineBar[k]
        BY <1>18, <3>1, <3>2, Zenon
      <3>5. readyBar'[Ready + Typed + 1] = c
        <4>1. readyBar'[Ready + Typed + 1] = buf'[Cell(r + (Ready + Typed + 1) - 1)]
          BY <3>1, <3>2, Zenon
        <4> QED BY <1>7, <3>1, <4>1, Zenon
      <3> QED BY <1>16, <3>1, <3>2, <3>3, <3>4, <3>5, Zenon DEF Follows
    <2>3. readyBar' = readyBar \o Append(lineBar, c)
      <3>1. c \in Chars \cup {"nul"}
        OBVIOUS
      <3> QED BY <1>16, <2>2, <3>1, Joined, Zenon
    <2>4. lineBar' = <<>>
      BY <1>16, <2>1
    <2> QED BY <1>r, <1>19, <2>3, <2>4, Zenon DEF Lines!Type
  <1>20. ASSUME ~fin PROVE Lines!Type(c)
    <2>1. /\ Stretch(readyBar', buf', r, Ready) /\ Stretch(lineBar', buf', w, Typed + 1)
      BY <1>1, <1>10, <1>15, <1>20, Zenon DEF fin
    <2>2. Len(readyBar') = Len(readyBar) /\ \A k \in 1..Len(readyBar) : readyBar'[k] = readyBar[k]
      BY <1>16, <1>17, <2>1, Zenon DEF Stretch
    <2>3. Len(lineBar') = Len(lineBar) + 1 /\ \A k \in 1..Len(lineBar) : lineBar'[k] = lineBar[k]
      <3>1. \A k \in 1..Typed : k \in 1..(Typed + 1)
        BY <1>2
      <3> QED BY <1>16, <1>18, <2>1, <3>1, Zenon DEF Stretch
    <2>4. lineBar'[Len(lineBar) + 1] = c
      <3>1. Typed + 1 \in 1..(Typed + 1) /\ w + (Typed + 1) - 1 = w + Typed /\ r + Ready + Typed = r + Kept
        BY <1>i, <1>2
      <3>2. Cell(w + Typed) = Cell(r + Kept)
        BY <1>2, <1>c, <3>1, Zenon
      <3>3. lineBar'[Typed + 1] = buf'[Cell(w + (Typed + 1) - 1)]
        BY <2>1, <3>1, Zenon DEF Stretch
      <3> QED BY <1>7, <1>16, <3>1, <3>2, <3>3, Zenon
    <2>5. lineBar' = Append(lineBar, c)
      BY <1>16, <2>3, <2>4
    <2>6. readyBar' = readyBar
      BY <1>16, <2>2
    <2> QED BY <1>r, <1>20, <2>5, <2>6, Zenon DEF Lines!Type
  <1>21. Lines!Type(c)
    BY <1>19, <1>20, Zenon
  <1> QED BY <1>8, <1>11, <1>12, <1>13, <1>21, Zenon DEF IInv

(* Backspace and kill line take characters from the end of the line being   *)
(* typed; kill line takes all of them, since none is a newline.             *)
LEMMA EraseStep ==
  ASSUME IInv, NEW x \in 1..Typed, e' = Minus(e, x), UNCHANGED <<buf, r, w, lock, pc, n, target, killed>>
  PROVE  /\ IInv' /\ readyBar' = readyBar /\ Len(lineBar) = Typed
         /\ lineBar' = SubSeq(lineBar, 1, Typed - x)
  <1>0. TypeInv /\ OrderInv /\ TypedInv /\ CountInv /\ SleepInv
    BY Zenon DEF IInv
  <1>1. /\ INPUT_BUF \in Nat /\ INPUT_BUF < WRAP /\ WRAP \in Nat
        /\ r \in 0..(WRAP - 1) /\ w \in 0..(WRAP - 1) /\ e \in 0..(WRAP - 1)
        /\ Ready = IF w >= r THEN w - r ELSE w + WRAP - r
        /\ Typed = IF e >= w THEN e - w ELSE e + WRAP - w
        /\ Kept = IF e >= r THEN e - r ELSE e + WRAP - r
        /\ Ready \in Nat /\ Typed \in Nat /\ Kept = Ready + Typed /\ Kept <= INPUT_BUF
    BY <1>0, Distances, Zenon
  <1>2. e' = (IF e >= x THEN e - x ELSE e + WRAP - x) /\ e' \in 0..(WRAP - 1)
    <2>1. x \in 0..WRAP
      BY <1>1
    <2> QED BY <1>1, <2>1, Wrapped, Zenon
  <1>3. /\ Kept' = IF e' >= r THEN e' - r ELSE e' + WRAP - r
        /\ Typed' = IF e' >= w THEN e' - w ELSE e' + WRAP - w
        /\ Ready' = Ready
    <2>1. r \in 0..WRAP /\ w \in 0..WRAP
      BY <1>1
    <2> QED BY <1>1, <1>2, <2>1, Wrapped, Zenon DEF Kept, Typed, Ready
  <1>4. Kept' = Kept - x /\ Typed' = Typed - x
    BY <1>1, <1>2, <1>3
  <1>5. TypeInv' /\ CountInv' /\ SleepInv'
    BY <1>0, <1>2, Zenon DEF TypeInv, CountInv, SleepInv
  <1>6. OrderInv'
    BY <1>1, <1>3, <1>4 DEF OrderInv
  <1>7. Typed' \in Nat /\ Typed' = Typed - x /\ 1..Typed' \subseteq 1..Typed
    BY <1>1, <1>4
  <1>8. TypedInv'
    BY <1>0, <1>7, Zenon DEF TypedInv
  <1>9. readyBar' = readyBar
    BY Zenon DEF readyBar, Between
  <1>10. lineBar = [k \in 1..Typed |-> buf[Cell(w + k - 1)]] /\ lineBar' = [k \in 1..Typed' |-> buf[Cell(w + k - 1)]]
    BY Zenon DEF lineBar, Between, Typed
  <1>11. Len(lineBar) = Typed /\ lineBar' = SubSeq(lineBar, 1, Typed - x)
    BY <1>1, <1>7, <1>10
  <1> QED BY <1>5, <1>6, <1>8, <1>9, <1>11, Zenon DEF IInv

(* ^H deletes the last character of the line.                               *)
LEMMA BackspaceStep ==
  ASSUME IInv, Backspace
  PROVE  IInv' /\ Lines!Erase
  <1>1. TypeInv /\ OrderInv /\ e # w /\ e' = Minus(e, 1) /\ UNCHANGED <<buf, r, w, lock, pc, n, target, killed>>
    BY Zenon DEF IInv, Backspace
  <1>2. 1 \in 1..Typed
    <2>1. Typed \in Nat /\ Typed # 0
      <3>1. w \in 0..(WRAP - 1) /\ e \in 0..(WRAP - 1)
        BY <1>1, Zenon DEF TypeInv
      <3>2. Minus(e, w) = 0 <=> e = w
        BY <3>1, Zero, Zenon
      <3>3. Typed \in Nat
        BY <1>1, Distances, Zenon
      <3> QED BY <1>1, <3>2, <3>3, Zenon DEF Typed
    <2> QED BY <2>1
  <1>3. /\ IInv' /\ readyBar' = readyBar /\ Len(lineBar) = Typed
        /\ lineBar' = SubSeq(lineBar, 1, Typed - 1)
    BY <1>1, <1>2, EraseStep, Zenon
  <1>4. lineBar # <<>>
    BY <1>2, <1>3
  <1> QED BY <1>3, <1>4, Zenon DEF Lines!Erase

(* ^U deletes the whole line.                                               *)
LEMMA KillLineStep ==
  ASSUME IInv, KillLine
  PROVE  IInv' /\ Lines!KillLine
  <1> DEFINE stops == {k \in 0..Typed : k = Typed \/ buf[Cell(Minus(e, k + 1))] = "nl"}
             least == CHOOSE x \in stops : \A y \in stops : x <= y
  <1>1. TypeInv /\ OrderInv /\ TypedInv /\ e # w /\ UNCHANGED <<buf, r, w, lock, pc, n, target, killed>>
    BY Zenon DEF IInv, KillLine
  <1>2. e' = Minus(e, least)
    BY Zenon DEF KillLine, Typed
  <1>3. /\ WRAP \in Nat /\ w \in 0..(WRAP - 1) /\ e \in 0..(WRAP - 1)
        /\ Typed = IF e >= w THEN e - w ELSE e + WRAP - w
        /\ Typed \in Nat
    BY <1>1, Distances, Zenon
  <1>4. ASSUME NEW k \in 0..(Typed - 1) PROVE buf[Cell(Minus(e, k + 1))] # "nl"
    <2>1. k + 1 \in 0..WRAP /\ Typed - k \in 1..Typed /\ w + (Typed - k) - 1 \in Nat
      BY <1>3
    <2>2. Minus(e, k + 1) = IF e >= k + 1 THEN e - (k + 1) ELSE e + WRAP - (k + 1)
      BY <1>3, <2>1, Wrapped, Zenon
    <2>3. /\ Minus(e, k + 1) \in Nat
          /\ \/ w + (Typed - k) - 1 = Minus(e, k + 1)
             \/ w + (Typed - k) - 1 = Minus(e, k + 1) + WRAP
      BY <1>3, <2>1, <2>2
    <2>4. Cell(w + (Typed - k) - 1) = Cell(Minus(e, k + 1))
      BY <2>3, SameCell, Zenon
    <2> QED BY <1>1, <2>1, <2>4, Zenon DEF TypedInv
  <1>5. stops = {Typed}
    <2>1. Typed \in 0..Typed /\ \A k \in 0..Typed : k # Typed => k \in 0..(Typed - 1)
      BY <1>3
    <2> QED BY <1>4, <2>1, Zenon
  <1> HIDE DEF stops
  <1>6. least = Typed
    <2>1. Typed <= Typed
      BY <1>3
    <2> QED BY <1>5, <2>1
  <1>7. Typed \in 1..Typed
    <2>1. Typed # 0
      BY <1>1, <1>3, Zero, Zenon DEF Typed
    <2> QED BY <1>3, <2>1
  <1>8. /\ IInv' /\ readyBar' = readyBar /\ Len(lineBar) = Typed
        /\ lineBar' = SubSeq(lineBar, 1, Typed - Typed)
    BY <1>1, <1>2, <1>6, <1>7, EraseStep, Zenon
  <1>9. lineBar # <<>> /\ lineBar' = <<>>
    BY <1>3, <1>7, <1>8
  <1> QED BY <1>8, <1>9, Zenon DEF Lines!KillLine

(* consoleread takes the character at r, the first that is ready.           *)
LEMMA TakeStep ==
  ASSUME TypeInv, OrderInv, TypedInv, r # w, r' = Plus(r, 1), UNCHANGED <<buf, w, e>>
  PROVE  r' \in 0..(WRAP - 1) /\ OrderInv' /\ TypedInv' /\ Lines!Deliver
  <1>1. /\ INPUT_BUF \in Nat /\ INPUT_BUF < WRAP /\ WRAP \in Nat
        /\ r \in 0..(WRAP - 1) /\ w \in 0..(WRAP - 1) /\ e \in 0..(WRAP - 1)
        /\ Ready \in Nat /\ Typed \in Nat /\ Kept = Ready + Typed /\ Kept <= INPUT_BUF
    BY Distances, Zenon
  <1>2. r' \in 0..(WRAP - 1) /\ Ready' = Ready - 1 /\ Ready # 0
    <2>1. r \in 0..(WRAP - 1) /\ w \in 0..(WRAP - 1)
      BY <1>1, Zenon
    <2>2. Plus(r, 1) \in 0..(WRAP - 1)
      BY <2>1, Forward, Zenon
    <2>3. Minus(w, Plus(r, 1)) = Minus(w, r) - 1
      BY <2>1, Forward, Zenon
    <2>4. Minus(w, r) # 0
      BY <2>1, Zero, Zenon
    <2> QED BY <2>2, <2>3, <2>4, Zenon DEF Ready
  <1>3. Kept' = Kept - 1
    <2>1. e # r
      <3>1. e = r => Kept = 0
        BY <1>1, Zero, Zenon DEF Kept
      <3> QED BY <1>1, <1>2, <3>1
    <2>2. r \in 0..(WRAP - 1) /\ e \in 0..(WRAP - 1)
      BY <1>1, Zenon
    <2>3. Minus(e, Plus(r, 1)) = Minus(e, r) - 1
      BY <2>1, <2>2, Forward, Zenon
    <2> QED BY <2>3, Zenon DEF Kept
  <1>4. Typed' = Typed /\ lineBar' = lineBar
    BY Zenon DEF Typed, lineBar, Between
  <1>5. OrderInv' /\ TypedInv'
    <2>1. OrderInv'
      BY <1>1, <1>2, <1>3, <1>4 DEF OrderInv
    <2>2. TypedInv'
      BY <1>4, Zenon DEF TypedInv
    <2> QED BY <2>1, <2>2, Zenon
  <1>6. buf \in [0..(INPUT_BUF - 1) -> Chars \cup {"nul"}]
    BY Zenon DEF TypeInv
  <1>7. r \in Nat /\ r' \in Nat /\ Ready \in Nat /\ Ready' \in Nat /\ Ready' + 1 = Ready
    BY <1>1, <1>2
  <1>8. Stretch(readyBar, buf, r, Ready)
    <2>1. Stretch([k \in 1..Ready |-> buf[Cell(r + k - 1)]], buf, r, Ready)
      BY <1>6, <1>7, StretchSeq, Zenon
    <2> QED BY <2>1, Zenon DEF readyBar, Between, Ready
  <1>9. Stretch(readyBar', buf, r', Ready')
    <2>1. Stretch([k \in 1..Ready' |-> buf[Cell(r' + k - 1)]], buf, r', Ready')
      BY <1>6, <1>7, StretchSeq, Zenon
    <2> QED BY <2>1, Zenon DEF readyBar, Between, Ready
  <1>10. ASSUME NEW k \in 1..Ready' PROVE readyBar'[k] = readyBar[k + 1]
    <2>1. k + 1 \in 1..Ready /\ r' + k - 1 \in Nat
      <3>1. \A x, y \in Nat : \A z \in 1..y : z + 1 \in 1..(y + 1) /\ x + z - 1 \in Nat
        OBVIOUS
      <3> QED BY <1>7, <3>1, Zenon
    <2>2. 1 \in 0..WRAP
      BY <1>1
    <2>3. r' = IF r + 1 < WRAP THEN r + 1 ELSE r + 1 - WRAP
      BY <1>1, <2>2, Wrapped, Zenon
    <2>4. r + (k + 1) - 1 = r' + k - 1 \/ r + (k + 1) - 1 = (r' + k - 1) + WRAP
      BY <1>1, <2>3
    <2>5. Cell(r + (k + 1) - 1) = Cell(r' + k - 1)
      BY <2>1, <2>4, SameCell, Zenon
    <2>6. readyBar[k + 1] = buf[Cell(r + (k + 1) - 1)]
      BY <1>8, <2>1, Zenon DEF Stretch
    <2> QED BY <1>9, <2>5, <2>6, Zenon DEF Stretch
  <1>11. readyBar # <<>> /\ readyBar' = Tail(readyBar)
    <2>1. Len(readyBar) = Len(readyBar') + 1 /\ Len(readyBar') \in Nat /\ \A k \in 1..Len(readyBar') : readyBar'[k] = readyBar[k + 1]
      BY <1>7, <1>8, <1>9, <1>10, Zenon DEF Stretch
    <2>2. readyBar \in Seq(Chars \cup {"nul"}) /\ readyBar' \in Seq(Chars \cup {"nul"})
      BY <1>8, <1>9, Zenon DEF Stretch
    <2> QED BY <2>1, <2>2
  <1> QED BY <1>2, <1>4, <1>5, <1>11, Zenon DEF Lines!Deliver

(* A step that leaves the ring alone.                                       *)
LEMMA StillStep ==
  ASSUME OrderInv, TypedInv, UNCHANGED input
  PROVE  OrderInv' /\ TypedInv' /\ UNCHANGED <<lineBar, readyBar>>
  BY Zenon DEF input, OrderInv, TypedInv, Kept, Ready, Typed, lineBar, readyBar, Between

(* A read that ends.                                                        *)
LEMMA ReturnStep ==
  ASSUME TypeInv, CountInv, NEW p \in Readers, Return(p)
  PROVE  /\ lock' \in Readers \cup {NoProc} /\ pc' \in [Readers -> {"user", "read", "sleep", "woken"}]
         /\ n' \in [Readers -> Nat] /\ target' \in [Readers -> Nat] /\ CountInv'
         /\ \A q \in Readers : pc'[q] = "sleep" => pc[q] = "sleep"
  <1>1. /\ lock' = NoProc /\ pc' = [pc EXCEPT ![p] = "user"]
        /\ n' = [n EXCEPT ![p] = 0] /\ target' = [target EXCEPT ![p] = 0]
    BY Zenon DEF Return
  <1>2. /\ pc \in [Readers -> {"user", "read", "sleep", "woken"}] /\ n \in [Readers -> Nat]
        /\ target \in [Readers -> Nat]
    BY Zenon DEF TypeInv
  <1>3. CountInv'
    BY <1>1, <1>2 DEF CountInv
  <1>4. \A q \in Readers : pc'[q] = "sleep" => pc[q] = "sleep"
    BY <1>1, <1>2
  <1> QED BY <1>1, <1>2, <1>3, <1>4

(* Every step keeps the invariant, is a step of the line editor or leaves   *)
(* it alone, and takes ^D out of the ring only in a read that returns       *)
(* nothing else.                                                            *)
LEMMA NextStep ==
  ASSUME IInv, [Next]_vars
  PROVE  IInv' /\ [Lines!Next]_<<lineBar, readyBar>> /\ [EofAlone]_vars
  <1>0. TypeInv /\ OrderInv /\ TypedInv /\ CountInv /\ SleepInv
    BY Zenon DEF IInv
  <1>1. ASSUME UNCHANGED input, TypeInv', CountInv', SleepInv'
        PROVE  IInv' /\ [Lines!Next]_<<lineBar, readyBar>> /\ [EofAlone]_vars
    <2>1. r' = r
      BY <1>1, Zenon DEF input
    <2> QED BY <1>0, <1>1, <2>1, StillStep, Zenon DEF IInv, EofAlone
  <1>2. CASE UNCHANGED vars
    <2>1. UNCHANGED input /\ UNCHANGED <<lock, pc, n, target, killed>>
      BY <1>2, Zenon DEF vars
    <2> QED BY <1>0, <1>1, <2>1, Zenon DEF TypeInv, CountInv, SleepInv, input
  <1>3. ASSUME NEW c \in Chars, Key(c)
        PROVE  IInv' /\ [Lines!Next]_<<lineBar, readyBar>> /\ [EofAlone]_vars
    <2>1. r' = r
      BY <1>3, Zenon DEF Key
    <2> QED BY <1>3, <2>1, KeyStep, Zenon DEF Lines!Next, EofAlone
  <1>4. CASE Backspace \/ KillLine
    <2>1. r' = r
      BY <1>4, Zenon DEF Backspace, KillLine
    <2> QED BY <1>4, <2>1, BackspaceStep, KillLineStep, Zenon DEF Lines!Next, EofAlone
  <1>5. ASSUME NEW p \in Readers, NEW k \in 1..MaxN, Read(p, k)
        PROVE  IInv' /\ [Lines!Next]_<<lineBar, readyBar>> /\ [EofAlone]_vars
    <2>1. /\ UNCHANGED input /\ killed' = killed /\ lock' = p /\ pc' = [pc EXCEPT ![p] = "read"]
          /\ n' = [n EXCEPT ![p] = k] /\ target' = [target EXCEPT ![p] = k]
      BY <1>5, Zenon DEF Read
    <2>2. k \in Nat /\ k <= k
      BY ConsoleAssumption
    <2>3. TypeInv'
      BY <1>0, <2>1, <2>2, Zenon DEF TypeInv, input
    <2>4. CountInv' /\ SleepInv'
      BY <1>0, <2>1, <2>2, Zenon DEF TypeInv, CountInv, SleepInv, input
    <2> QED BY <1>1, <2>1, <2>3, <2>4, Zenon
  <1>6. ASSUME NEW p \in Readers, ReadKilled(p) \/ ReadDone(p)
        PROVE  IInv' /\ [Lines!Next]_<<lineBar, readyBar>> /\ [EofAlone]_vars
    <2>1. UNCHANGED input /\ killed' = killed /\ Return(p)
      BY <1>6, Zenon DEF ReadKilled, ReadDone
    <2>2. TypeInv' /\ CountInv' /\ SleepInv'
      BY <1>0, <2>1, ReturnStep, Zenon DEF TypeInv, SleepInv, input
    <2> QED BY <1>1, <2>1, <2>2, Zenon
  <1>7. ASSUME NEW p \in Readers, ReadSleep(p)
        PROVE  IInv' /\ [Lines!Next]_<<lineBar, readyBar>> /\ [EofAlone]_vars
    <2>1. /\ UNCHANGED input /\ UNCHANGED <<n, target, killed>> /\ lock' = NoProc /\ r = w /\ ~killed[p]
          /\ pc' = [pc EXCEPT ![p] = "sleep"]
      BY <1>7, Zenon DEF ReadSleep
    <2>2. TypeInv' /\ CountInv' /\ SleepInv'
      BY <1>0, <2>1, Zenon DEF TypeInv, CountInv, SleepInv, input
    <2> QED BY <1>1, <2>1, <2>2, Zenon
  <1>8. ASSUME NEW p \in Readers, Wake(p)
        PROVE  IInv' /\ [Lines!Next]_<<lineBar, readyBar>> /\ [EofAlone]_vars
    <2>1. UNCHANGED input /\ UNCHANGED <<n, target, killed>> /\ lock' = p /\ pc' = [pc EXCEPT ![p] = "read"]
      BY <1>8, Zenon DEF Wake
    <2>2. TypeInv' /\ CountInv' /\ SleepInv'
      BY <1>0, <2>1, Zenon DEF TypeInv, CountInv, SleepInv, input
    <2> QED BY <1>1, <2>1, <2>2, Zenon
  <1>9. ASSUME NEW p \in Readers, kill(p)
        PROVE  IInv' /\ [Lines!Next]_<<lineBar, readyBar>> /\ [EofAlone]_vars
    <2>1. /\ UNCHANGED input /\ UNCHANGED <<lock, n, target>> /\ killed' = [killed EXCEPT ![p] = TRUE]
          /\ pc' = [pc EXCEPT ![p] = IF pc[p] = "sleep" THEN "woken" ELSE pc[p]]
      BY <1>9, Zenon DEF kill
    <2>2. TypeInv'
      BY <1>0, <2>1, Zenon DEF TypeInv, input
    <2>3. CountInv' /\ SleepInv'
      BY <1>0, <2>1, Zenon DEF TypeInv, CountInv, SleepInv, input
    <2> QED BY <1>1, <2>1, <2>2, <2>3, Zenon
  <1>10. ASSUME NEW p \in Readers, ReadByte(p)
         PROVE  IInv' /\ [Lines!Next]_<<lineBar, readyBar>> /\ [EofAlone]_vars
    <2>1. /\ Loop(p) /\ r # w /\ buf[Cell(r)] # "eof" /\ r' = Plus(r, 1) /\ UNCHANGED <<buf, w, e>> /\ killed' = killed
          /\ Return(p) \/ (n' = [n EXCEPT ![p] = n[p] - 1] /\ UNCHANGED <<lock, pc, target>>)
      BY <1>10, Zenon DEF ReadByte
    <2>2. r' \in 0..(WRAP - 1) /\ OrderInv' /\ TypedInv' /\ Lines!Deliver
      BY <1>0, <2>1, TakeStep, Zenon
    <2>3. /\ lock' \in Readers \cup {NoProc} /\ pc' \in [Readers -> {"user", "read", "sleep", "woken"}]
          /\ n' \in [Readers -> Nat] /\ target' \in [Readers -> Nat] /\ CountInv'
          /\ \A q \in Readers : pc'[q] = "sleep" => pc[q] = "sleep"
      <3>1. CASE Return(p)
        BY <1>0, <3>1, ReturnStep, Zenon
      <3>2. CASE n' = [n EXCEPT ![p] = n[p] - 1] /\ UNCHANGED <<lock, pc, target>>
        <4>1. /\ lock \in Readers \cup {NoProc} /\ pc \in [Readers -> {"user", "read", "sleep", "woken"}]
              /\ n \in [Readers -> Nat] /\ target \in [Readers -> Nat]
          BY <1>0, Zenon DEF TypeInv
        <4>2. n' \in [Readers -> Nat] /\ n[p] - 1 <= n[p]
          BY <2>1, <3>2, <4>1 DEF Loop
        <4>3. CountInv'
          BY <1>0, <3>2, <4>1, <4>2 DEF CountInv
        <4> QED BY <3>2, <4>1, <4>2, <4>3, Zenon
      <3> QED BY <2>1, <3>1, <3>2, Zenon
    <2>4. \A q \in Readers : pc[q] # "sleep"
      BY <1>0, <2>1, Zenon DEF SleepInv
    <2>5. TypeInv' /\ SleepInv'
      BY <1>0, <2>1, <2>2, <2>3, <2>4, Zenon DEF TypeInv, SleepInv
    <2> QED BY <2>1, <2>2, <2>3, <2>5, Zenon DEF IInv, Lines!Next, EofAlone
  <1>11. ASSUME NEW p \in Readers, ReadEof(p)
         PROVE  IInv' /\ [Lines!Next]_<<lineBar, readyBar>> /\ [EofAlone]_vars
    <2>1. /\ Loop(p) /\ r # w /\ r' = (IF n[p] < target[p] THEN r ELSE Plus(r, 1)) /\ UNCHANGED <<buf, w, e>>
          /\ killed' = killed /\ Return(p)
      BY <1>11, Zenon DEF ReadEof
    <2>2. /\ lock' \in Readers \cup {NoProc} /\ pc' \in [Readers -> {"user", "read", "sleep", "woken"}]
          /\ n' \in [Readers -> Nat] /\ target' \in [Readers -> Nat] /\ CountInv'
          /\ \A q \in Readers : pc'[q] = "sleep" => pc[q] = "sleep"
      BY <1>0, <2>1, ReturnStep, Zenon
    <2>3. SleepInv'
      BY <1>0, <2>1, <2>2, Zenon DEF SleepInv
    <2>4. CASE n[p] < target[p]
      <3>1. UNCHANGED input
        BY <2>1, <2>4, Zenon DEF input
      <3>2. TypeInv'
        BY <1>0, <2>1, <2>2, <3>1, Zenon DEF TypeInv, input
      <3> QED BY <1>1, <2>2, <2>3, <3>1, <3>2, Zenon
    <2>5. CASE ~(n[p] < target[p])
      <3>1. r' \in 0..(WRAP - 1) /\ OrderInv' /\ TypedInv' /\ Lines!Deliver
        BY <1>0, <2>1, <2>5, TakeStep, Zenon
      <3>2. TypeInv'
        BY <1>0, <2>1, <2>2, <3>1, Zenon DEF TypeInv
      <3>3. n[p] = target[p]
        BY <1>0, <2>5 DEF TypeInv, CountInv
      <3> QED BY <2>1, <2>2, <2>3, <3>1, <3>2, <3>3, Zenon DEF IInv, Lines!Next, EofAlone, Loop
    <2> QED BY <2>4, <2>5, Zenon
  <1> QED BY <1>2, <1>3, <1>4, <1>5, <1>6, <1>7, <1>8, <1>9, <1>10, <1>11, Zenon DEF Next, Reader

(* The ring starts empty.                                                   *)
LEMMA InitStep ==
  ASSUME Init
  PROVE  IInv /\ Lines!Init
  <1>1. /\ buf = [k \in 0..(INPUT_BUF - 1) |-> "nul"] /\ r = 0 /\ w = 0 /\ e = 0 /\ lock = NoProc
        /\ pc = [p \in Readers |-> "user"] /\ n = [p \in Readers |-> 0] /\ target = n
        /\ killed = [p \in Readers |-> FALSE]
    BY Zenon DEF Init
  <1>2. 0 \in 0..(WRAP - 1) /\ INPUT_BUF \in Nat
    BY ConsoleAssumption
  <1>3. TypeInv
    <2>1. n \in [Readers -> Nat]
      BY <1>1
    <2> QED BY <1>1, <1>2, <2>1, Zenon DEF TypeInv
  <1>4. Ready = 0 /\ Typed = 0 /\ Kept = 0
    <2>1. Minus(0, 0) = 0
      BY <1>2, Zero, Zenon
    <2> QED BY <1>1, <2>1, Zenon DEF Ready, Typed, Kept
  <1>5. OrderInv /\ TypedInv
    BY <1>2, <1>4 DEF OrderInv, TypedInv
  <1>6. CountInv /\ SleepInv
    BY <1>1 DEF CountInv, SleepInv
  <1>7. readyBar = <<>> /\ lineBar = <<>>
    BY <1>4 DEF readyBar, lineBar, Between, Ready, Typed
  <1> QED BY <1>3, <1>5, <1>6, <1>7, Zenon DEF IInv, Lines!Init

(***************************************************************************)
(* consoleintr and consoleread implement a line editor with a queue of     *)
(* finished lines, for every INPUT_BUF that divides the range of the       *)
(* indices and any number of readers: no character is lost, overwritten,   *)
(* delivered twice or out of order, the keys of the editor touch only the  *)
(* line being typed, and ^D leaves the ring only as an end of file.        *)
(***************************************************************************)
THEOREM ConsoleIsLineInput == Spec => ImplementsLines
  <1> QED BY InitStep, NextStep, PTL DEF Spec, ImplementsLines, Lines!Spec

(***************************************************************************)
(* No reader sleeps beside a finished line, or after it was killed: the    *)
(* wakeup of consoleintr is not lost, also when another reader runs first. *)
(***************************************************************************)
THEOREM ReadersWoken == Spec => []SleepInv
  <1>1. IInv => SleepInv
    BY Zenon DEF IInv
  <1> QED BY <1>1, InitStep, NextStep, PTL DEF Spec
=============================================================================
