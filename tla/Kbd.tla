--------------------------------- MODULE Kbd ---------------------------------
(***************************************************************************)
(* The keyboard driver (kbd.c, the tables of kbd.h). Keys go down and up;  *)
(* the keyboard sends one or two bytes for each, and kbdgetc decodes them  *)
(* one at a time as interrupts come in. A key is its scan code and whether *)
(* the code is sent after 0xE0; the tables are cut to a few keys of every  *)
(* kind. A key that is held down repeats; a lock key that repeats toggles  *)
(* its lock each time, so that repetition is left out for those. Bytes are *)
(* read in the order in which they are sent, so it is no matter how many   *)
(* are on their way: a key moves when the bytes of the one before are read.*)
(***************************************************************************)
EXTENDS Integers, Sequences, FiniteSets, TLC

CONSTANT MaxDown             \* bound: keys held at once

VARIABLES wire,              \* bytes that the controller has yet to deliver, each with the event it ends
          shift,             \* the static flags of kbdgetc
          c,                 \* what kbdgetc returned last
          down, odd, twins, key   \* the keys held; CAPSLOCK was pressed an odd number of times; modifiers
                             \* that were held with two keys; the key just read

vars == <<wire, shift, c, down, odd, twins, key>>

E0 == 224
K(code, ext) == [code |-> code, ext |-> ext]
Keys == {K(30, FALSE), K(2, FALSE), K(42, FALSE), K(54, FALSE), K(29, FALSE), K(29, TRUE), K(58, FALSE),
         K(72, TRUE), K(72, FALSE)}
NoKey == K(0, FALSE)

\* The tables of kbd.h. Index 128 + code is for codes after 0xE0.
Lookup(tab, data, default) == IF data \in DOMAIN tab THEN tab[data] ELSE default
shiftcode == 29 :> {"CTL"} @@ 42 :> {"SHIFT"} @@ 54 :> {"SHIFT"} @@ 157 :> {"CTL"}
togglecode == 58 :> {"CAPSLOCK"}
normalmap == 2 :> "1" @@ 30 :> "a" @@ 72 :> "8" @@ 200 :> "UP"
shiftmap == 2 :> "!" @@ 30 :> "A" @@ 72 :> "8" @@ 200 :> "UP"
ctlmap == 30 :> "^A" @@ 200 :> "UP"
NO == "NO"

Init == /\ wire = <<>> /\ shift = {} /\ c = NO
        /\ down = {} /\ odd = FALSE /\ twins = {} /\ key = NoKey

-----------------------------------------------------------------------------
\* The keyboard (external).
Scan(k, up) == LET last == [b |-> k.code + (IF up THEN 128 ELSE 0), k |-> k, up |-> up]
               IN  IF k.ext THEN <<[b |-> E0, k |-> NoKey, up |-> FALSE], last>> ELSE <<last>>
Send(k, up) == wire = <<>> /\ wire' = Scan(k, up) /\ UNCHANGED <<shift, c, down, odd, twins, key>>
press(k) == k \notin down /\ Cardinality(down) < MaxDown /\ Send(k, FALSE)
repeat(k) == k \in down /\ k.code \notin DOMAIN togglecode /\ Send(k, FALSE)
release(k) == k \in down /\ Send(k, TRUE)

-----------------------------------------------------------------------------
Xor(s, t) == (s \ t) \cup (t \ s)
Upper == "a" :> "A"
Lower == "A" :> "a"

\* What kbdgetc does with one byte: the flags and the value returned.
Decoded(data) ==
  LET esc == "E0ESC" \in shift
      made == IF esc THEN data + 128 ELSE data
      freed == IF esc THEN data ELSE data - 128
      sh == Xor((shift \ {"E0ESC"}) \cup Lookup(shiftcode, made, {}), Lookup(togglecode, made, {}))
      ch == Lookup(IF "CTL" \in sh THEN ctlmap ELSE IF "SHIFT" \in sh THEN shiftmap ELSE normalmap, made, NO)
  IN  IF data = E0 THEN [shift |-> shift \cup {"E0ESC"}, c |-> NO]
      ELSE IF data >= 128 THEN [shift |-> shift \ (Lookup(shiftcode, freed, {}) \cup {"E0ESC"}), c |-> NO]
      ELSE [shift |-> sh, c |-> IF "CAPSLOCK" \in sh THEN Lookup(Upper @@ Lower, ch, ch) ELSE ch]

\* Mutation of kbdgetc: a release leaves E0ESC set.
kbdgetc_Esc == /\ shift' = Decoded(wire[1].b).shift \cup (IF wire[1].b \in 128 .. 223 THEN shift \cap {"E0ESC"} ELSE {})
               /\ c' = Decoded(wire[1].b).c

kbdgetc == /\ shift' = Decoded(wire[1].b).shift /\ c' = Decoded(wire[1].b).c

\* The keys that set flag m.
Of(m) == {k \in Keys : m \in Lookup(shiftcode, k.code + (IF k.ext THEN 128 ELSE 0), {})}

\* A byte of the keyboard is ready; the other variables follow the keys.
kbdintr ==
  /\ wire # <<>> /\ wire' = Tail(wire) /\ kbdgetc
  /\ LET e == wire[1] IN
     /\ down' = IF e.k = NoKey THEN down ELSE IF e.up THEN down \ {e.k} ELSE down \cup {e.k}
     /\ odd' = (odd # (e.k = K(58, FALSE) /\ ~e.up))
     /\ twins' = {m \in {"SHIFT", "CTL"} : LET n == Cardinality(down' \cap Of(m))
                                            IN  n > 1 \/ (m \in twins /\ n = 1)}
     /\ key' = IF e.up THEN NoKey ELSE e.k

Next == kbdintr \/ \E k \in Keys : press(k) \/ repeat(k) \/ release(k)

-----------------------------------------------------------------------------
Held(m) == down \cap Of(m) # {}
\* What a key means when the keys of `down' are held.
Meaning(k) ==
  CASE k = K(30, FALSE) -> IF Held("CTL") THEN "^A" ELSE IF Held("SHIFT") # odd THEN "A" ELSE "a"
    [] k = K(2, FALSE) -> IF Held("CTL") THEN NO ELSE IF Held("SHIFT") THEN "!" ELSE "1"
    [] k = K(72, FALSE) -> IF Held("CTL") THEN NO ELSE "8"
    [] k = K(72, TRUE) -> "UP"
    [] OTHER -> NO

\* What kbdgetc returns for a key is its meaning, and its flags are the keys held.
KeyMeaning == twins = {} => /\ c = Meaning(key)
                            /\ \A m \in {"SHIFT", "CTL"} : m \in shift <=> Held(m)
                            /\ "CAPSLOCK" \in shift <=> odd
=============================================================================
