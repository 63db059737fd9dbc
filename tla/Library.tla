------------------------------ MODULE Library ------------------------------
(***************************************************************************)
(* The algorithms without state that the rest leans on: the matcher of     *)
(* grep (grep.c), path elements (fs.c), overlapping copies (string.c),     *)
(* numbers as digits (printf.c, console.c, ulib.c) and Internet checksums  *)
(* (net.c). The input grows cell by cell; each property compares an        *)
(* algorithm, on every way of cutting the input into arguments, with a     *)
(* definition of what it should compute.                                   *)
(***************************************************************************)
EXTENDS Integers, FiniteSetsExt, SequencesExt

CONSTANTS B,               \* a byte has B values, a word B * B
          DIRSIZ,
          MaxIn            \* bound: the length of the input, for each kind

VARIABLES kind, in
vars == <<kind, in>>

Alphabet == [text |-> {"a", "b", ".", "*", "^", "$"}, path |-> {"/", "x", "y"}, bytes |-> 0 .. B - 1]
Init == kind \in DOMAIN Alphabet /\ in = <<>>
Next == /\ Len(in) < MaxIn[kind] /\ \E c \in Alphabet[kind] : in' = Append(in, c)
        /\ UNCHANGED kind

Until(k) == SubSeq(in, 1, k)
From(s, k) == SubSeq(s, k, Len(s))
Starts(s, c) == s # <<>> /\ Head(s) = c

-----------------------------------------------------------------------------
RECURSIVE matchhere(_, _)

\* Mutation of matchstar: a star needs one instance.
RECURSIVE matchstar_Plus(_, _, _)
matchstar_Plus(c, re, text) ==
  /\ text # <<>> /\ (Head(text) = c \/ c = ".")
  /\ matchhere(re, Tail(text)) \/ matchstar_Plus(c, re, Tail(text))

RECURSIVE matchstar(_, _, _)
matchstar(c, re, text) ==
  \/ matchhere(re, text)
  \/ text # <<>> /\ (Head(text) = c \/ c = ".") /\ matchstar(c, re, Tail(text))

matchhere(re, text) ==
  IF re = <<>> THEN TRUE
  ELSE IF Starts(Tail(re), "*") THEN matchstar(Head(re), From(re, 3), text)
  ELSE IF re = <<"$">> THEN text = <<>>
  ELSE text # <<>> /\ Head(re) \in {".", Head(text)} /\ matchhere(Tail(re), Tail(text))

match(re, text) == IF Starts(re, "^") THEN matchhere(Tail(re), text)
                   ELSE \E k \in 1 .. Len(text) + 1 : matchhere(re, From(text, k))

\* skipelem: the name and the rest of the path; no name at the end.
NoElem == [name |-> <<>>, rest |-> <<>>]
Slashes(s) == CHOOSE k \in 0 .. Len(s) : (\A j \in 1 .. k : s[j] = "/") /\ ~Starts(From(s, k + 1), "/")
Word(s) == CHOOSE k \in 0 .. Len(s) : (\A j \in 1 .. k : s[j] # "/") /\ (k = Len(s) \/ s[k + 1] = "/")

skipelem(path) ==
  LET s == From(path, Slashes(path) + 1)
      len == Word(s)
      t == From(s, len + 1)
  IN  IF s = <<>> THEN NoElem
      ELSE [name |-> SubSeq(s, 1, Min({len, DIRSIZ})), rest |-> From(t, Slashes(t) + 1)]

\* The kernel's memmove in memory m: from the back if the end of the source overlaps.
memmove(m, d, s, n) ==
  FoldLeft(LAMBDA x, k : [x EXCEPT ![d + k - 1] = x[s + k - 1]], m,
           [k \in 1 .. n |-> IF s < d /\ s + n > d THEN n + 1 - k ELSE k])

\* The sum of the words of s, low byte first, and of a last odd byte.
Words(s) == FoldLeft(+, 0, [k \in 1 .. Len(s) |-> IF k % 2 = 1 THEN s[k] ELSE B * s[k]])
W == B * B

fold(sum) == LET s1 == (sum % W) + sum \div W IN W - 1 - (((s1 % W) + s1 \div W) % W)
checksum(s) == fold(Words(s))
swap(w) == (w % B) * B + w \div B

\* udp_checksum for addresses of two words each, a protocol, ports and data.
udp_checksum(src, dst, protocol, sport, dport, d) ==
  LET length == swap(Len(d) + 8)
  IN  fold(src[1] + src[2] + dst[1] + dst[2] + swap(protocol) + length + (sport + dport + length + 0) + Words(d))

minus == -1

RECURSIVE digits(_, _)
digits(x, base) == (IF x < base THEN <<>> ELSE digits(x \div base, base)) \o <<x % base>>

\* x = -xx and x = xx are unsigned.
printint(xx, base, sgn, width) ==
  IF sgn /\ xx < 0 THEN <<minus>> \o digits((-xx) % width, base) ELSE digits(xx % width, base)

\* An int of two's complement with the bits of n.
AsInt(n, width) == LET m == n % width IN IF 2 * m >= width THEN m - width ELSE m

\* atoi: the digits up to the first other character, added up in an int that wraps.
Digits(s) == CHOOSE k \in 0 .. Len(s) : (\A j \in 1 .. k : s[j] \in 0 .. 9) /\ (k = Len(s) \/ s[k + 1] \notin 0 .. 9)
atoi(s, width) == FoldLeft(LAMBDA n, d : AsInt(n * 10 + d, width), 0, SubSeq(s, 1, Digits(s)))

-----------------------------------------------------------------------------
(***************************************************************************)
(* A pattern as items, and the positions that can be reached from a set of *)
(* positions by matching an item.                                          *)
(***************************************************************************)
RECURSIVE Items(_)
Items(re) == IF re = <<>> \/ re = <<"$">> THEN <<>>
             ELSE IF Starts(Tail(re), "*") THEN <<<<Head(re), TRUE>>>> \o Items(From(re, 3))
             ELSE <<<<Head(re), FALSE>>>> \o Items(Tail(re))
Anchored(re) == re # <<>> /\ Last(re) = "$"
Fits(item, c) == item[1] \in {".", c}
Reach(text, P, item) ==
  IF item[2] THEN {q \in 1 .. Len(text) + 1 : \E p \in P : p <= q /\ \A k \in p .. q - 1 : Fits(item, text[k])}
  ELSE {p + 1 : p \in {r \in P : r <= Len(text) /\ Fits(item, text[r])}}

(***************************************************************************)
(* match() of grep accepts a text exactly when some part of it is matched  *)
(* by the items of the pattern one after the other, at its beginning for   *)
(* "^" and up to its end for "$".                                          *)
(***************************************************************************)
Matches == kind = "text" => \A k \in 0 .. Len(in) :
  LET re == Until(k)
      text == From(in, k + 1)
      body == IF Starts(re, "^") THEN Tail(re) ELSE re
      P == FoldLeft(LAMBDA Q, item : Reach(text, Q, item), IF Starts(re, "^") THEN {1} ELSE 1 .. Len(text) + 1, Items(body))
  IN  match(re, text) <=> IF Anchored(body) THEN Len(text) + 1 \in P ELSE P # {}

RECURSIVE Elements(_)
Elements(path) == LET e == skipelem(path) IN IF e = NoElem THEN <<>> ELSE <<e.name>> \o Elements(e.rest)
\* The maximal runs without "/" by their first positions.
RunStarts == SetToSortSeq({i \in 1 .. Len(in) : in[i] # "/" /\ (i = 1 \/ in[i - 1] = "/")}, <)

(***************************************************************************)
(* Taking elements off a path one by one gives the names between the       *)
(* slashes, cut to DIRSIZ, and the rest is empty exactly after the last,   *)
(* which is how namex knows where to stop for the parent.                  *)
(***************************************************************************)
Splits == kind = "path" =>
  LET R == RunStarts IN
  /\ Elements(in) = [k \in 1 .. Len(R) |-> LET s == From(in, R[k]) IN SubSeq(s, 1, Min({Word(s), DIRSIZ}))]
  /\ R # <<>> => (skipelem(in).rest = <<>> <=> Len(R) = 1)

(***************************************************************************)
(* memmove copies as if the whole source had been read first, however the  *)
(* two ranges overlap.                                                     *)
(***************************************************************************)
Overlaps == kind = "bytes" => \A n \in 0 .. Len(in) : \A d, s \in 1 .. Len(in) - n + 1 :
  memmove(in, d, s, n) = [k \in 1 .. Len(in) |-> IF k \in d .. d + n - 1 THEN in[s + k - d] ELSE in[k]]

\* The sum in ones' complement: the checksum makes it all ones.
Verifies(sum, c) == (sum + c) % (W - 1) = 0 /\ sum + c > 0

(***************************************************************************)
(* A receiver that adds up the words with the checksum among them gets all *)
(* ones, for an IP header and for a UDP packet behind its pseudo header:   *)
(* two additions of the carry are enough.                                  *)
(***************************************************************************)
Checksums == kind = "bytes" =>
  /\ checksum(in) \in 0 .. W - 1 /\ Verifies(Words(in), checksum(in))
  /\ Len(in) >= 2 =>
       LET src == <<W - 1, in[1]>>
           dst == <<in[2] * B, W - 2>>
           d == From(in, 3)
           len == swap(Len(d) + 8)
       IN  Verifies(src[1] + src[2] + dst[1] + dst[2] + swap(1) + len + in[1] + in[2] + len + Words(d),
                    udp_checksum(src, dst, 1, in[1], in[2], d))

\* The input as an int of Len(in) bytes, and the number that a sequence of digits stands for.
Width == B ^ Len(in)
Unsigned == FoldLeft(LAMBDA n, d : n * B + d, 0, in)
Signed == AsInt(Unsigned, Width)
Value(s, base) == FoldLeft(LAMBDA n, d : n * base + d, 0, s)

(***************************************************************************)
(* printint prints every number, the smallest negative one included, with  *)
(* its sign in base 10 and as its bit pattern in base 16. atoi reads a     *)
(* printed number that is not negative back, whatever follows its digits;  *)
(* of a negative one it reads 0, because it stops at the sign; and what    *)
(* does not fit an int wraps to the number with the same bits.             *)
(***************************************************************************)
PrintsBack == kind = "bytes" /\ in # <<>> =>
  LET s == printint(Signed, 10, TRUE, Width)
      u == printint(Signed, 10, FALSE, Width)
  IN  /\ Signed = IF Head(s) = minus THEN -Value(Tail(s), 10) ELSE Value(s, 10)
      /\ Value(printint(Signed, 16, FALSE, Width), 16) = Unsigned
      /\ atoi(s \o <<minus>> \o in, Width) = IF Signed < 0 THEN 0 ELSE Signed
      /\ atoi(u, Width) = Signed
=============================================================================
