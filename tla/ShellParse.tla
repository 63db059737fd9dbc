----------------------------- MODULE ShellParse -----------------------------
(***************************************************************************)
(* The shell's parser (sh.c): recursive descent with one character of      *)
(* lookahead, from a line to a tree of commands whose words are pairs of   *)
(* positions in the line, and nulterminate, which ends every word in       *)
(* place. A line is what has been typed so far; its end reads as NUL.      *)
(***************************************************************************)
EXTENDS Naturals, SequencesExt

CONSTANTS Letters,    \* the characters of words
          MAXARGS,
          MaxLine     \* bound: the length of a line

VARIABLE line

whitespace == {" "}
symbols == {"<", "|", ">", "&", ";", "(", ")"}
NUL == "NUL"

Init == line = <<>>
type(c) == Len(line) < MaxLine /\ line' = Append(line, c)
Next == \E c \in Letters \cup whitespace \cup symbols : type(c)

-----------------------------------------------------------------------------
es == Len(line) + 1
At(s) == IF s < es THEN line[s] ELSE NUL
\* The first position from s on, up to es, whose character is not in C.
Past(s, C) == CHOOSE i \in s .. es : (i = es \/ line[i] \notin C) /\ \A j \in s .. i - 1 : line[j] \in C

gettoken(ps) ==
  LET q == Past(ps, whitespace)
      append == At(q) = ">" /\ At(q + 1) = ">"
      word == At(q) \notin symbols \cup {NUL}
      eq == IF word THEN Past(q, Letters) ELSE IF append THEN q + 2 ELSE IF At(q) = NUL THEN q ELSE q + 1
  IN  [tok |-> IF word THEN "a" ELSE IF append THEN "+" ELSE At(q), q |-> q, eq |-> eq, s |-> Past(eq, whitespace)]

peek(ps, toks) == At(Past(ps, whitespace)) \in toks
next(ps) == gettoken(ps).s

Word(t) == <<t.q, t.eq>>
execcmd(argv) == [type |-> "EXEC", argv |-> argv]
redircmd(cmd, r) == [type |-> "REDIR", cmd |-> cmd, file |-> r.file, fd |-> r.fd]
pipecmd(l, r) == [type |-> "PIPE", left |-> l, right |-> r]
listcmd(l, r) == [type |-> "LIST", left |-> l, right |-> r]
backcmd(cmd) == [type |-> "BACK", cmd |-> cmd]
\* "<" opens for reading as 0, ">" and ">>" alike for writing as 1.
Redir(tok, w) == [file |-> Word(w), fd |-> IF tok.tok = "<" THEN 0 ELSE 1]
Wrap(cmd, rs) == FoldLeft(redircmd, cmd, rs)

\* What a parsing function returns: the command and *ps; panic ends the shell's child.
panic == [cmd |-> execcmd(<<>>), s |-> 0]
Ok(cmd, s) == [cmd |-> cmd, s |-> s]

\* parseredirs, with the redirections that it wraps around the command; s = 0 if a file is missing.
RECURSIVE parseredirs(_, _)
parseredirs(rs, ps) ==
  IF ~peek(ps, {"<", ">"}) THEN [rs |-> rs, s |-> ps]
  ELSE LET tok == gettoken(ps)
           w == gettoken(tok.s)
       IN  IF w.tok # "a" THEN [rs |-> rs, s |-> 0] ELSE parseredirs(Append(rs, Redir(tok, w)), w.s)

\* parseexec's loop after parseredirs has returned r.
RECURSIVE args(_, _)
args(argv, r) ==
  LET t == gettoken(r.s) IN
  IF r.s = 0 THEN panic
  ELSE IF peek(r.s, {"|", ")", "&", ";"}) \/ t.tok = NUL THEN Ok(Wrap(execcmd(argv), r.rs), r.s)
  ELSE IF t.tok # "a" \/ Len(argv) + 1 >= MAXARGS THEN panic
  ELSE args(Append(argv, Word(t)), parseredirs(r.rs, t.s))

Redirected(cmd, r) == IF r.s = 0 THEN panic ELSE Ok(Wrap(cmd, r.rs), r.s)
Piped(l, r) == IF r.s = 0 THEN panic ELSE Ok(pipecmd(l.cmd, r.cmd), r.s)
Listed(l, r) == IF r.s = 0 THEN panic ELSE Ok(listcmd(l.cmd, r.cmd), r.s)

RECURSIVE parseline(_), parsepipe(_), bar(_), amps(_), semicolon(_)
\* parseblock after parseline has returned l.
closing(l) == IF l.s = 0 \/ ~peek(l.s, {")"}) THEN panic ELSE Redirected(l.cmd, parseredirs(<<>>, next(l.s)))
parseblock(ps) == closing(parseline(next(ps)))

parseexec(ps) == IF peek(ps, {"("}) THEN parseblock(ps) ELSE args(<<>>, parseredirs(<<>>, ps))

\* parsepipe after parseexec has returned l.
bar(l) == IF l.s = 0 \/ ~peek(l.s, {"|"}) THEN l ELSE Piped(l, parsepipe(next(l.s)))
parsepipe(ps) == bar(parseexec(ps))

\* parseline's loop over "&", and the rest of it.
amps(l) == IF l.s = 0 \/ ~peek(l.s, {"&"}) THEN l ELSE amps(Ok(backcmd(l.cmd), next(l.s)))
semicolon(l) == IF l.s = 0 \/ ~peek(l.s, {";"}) THEN l ELSE Listed(l, parseline(next(l.s)))
parseline(ps) == semicolon(amps(parsepipe(ps)))

parsecmd == LET l == parseline(1) IN IF l.s # 0 /\ Past(l.s, whitespace) = es THEN l ELSE panic

\* Mutation of nulterminate: the file of a redirection is forgotten.
RECURSIVE nulterminate_Args(_)
nulterminate_Args(cmd) ==
  CASE cmd.type = "EXEC" -> {cmd.argv[i][2] : i \in DOMAIN cmd.argv}
    [] cmd.type \in {"REDIR", "BACK"} -> nulterminate_Args(cmd.cmd)
    [] cmd.type \in {"PIPE", "LIST"} -> nulterminate_Args(cmd.left) \cup nulterminate_Args(cmd.right)

\* The positions that nulterminate sets to NUL.
RECURSIVE nulterminate(_)
nulterminate(cmd) ==
  CASE cmd.type = "EXEC" -> {cmd.argv[i][2] : i \in DOMAIN cmd.argv}
    [] cmd.type = "REDIR" -> nulterminate(cmd.cmd) \cup {cmd.file[2]}
    [] cmd.type = "BACK" -> nulterminate(cmd.cmd)
    [] cmd.type \in {"PIPE", "LIST"} -> nulterminate(cmd.left) \cup nulterminate(cmd.right)

-----------------------------------------------------------------------------
\* The line as tokens.
RECURSIVE Lex(_)
Lex(ps) == LET t == gettoken(ps) IN IF t.tok = NUL THEN <<>> ELSE <<t>> \o Lex(t.s)

(***************************************************************************)
(* The grammar of commands: the trees that derive a sequence of tokens.    *)
(*   Line -> Back | Back ; Line      Back -> Pipe | Back &                 *)
(*   Pipe -> Exec | Exec "|" Pipe    Exec -> (word | redir)* | ( Line ) redir* *)
(***************************************************************************)
Pos(ts, k) == {i \in DOMAIN ts : ts[i].tok = k}
Before(ts, i) == SubSeq(ts, 1, i - 1)
After(ts, i) == SubSeq(ts, i + 1, Len(ts))
Arrow(t) == t.tok \in {"<", ">", "+"}
File(ts, i) == i > 1 /\ Arrow(ts[i - 1])
Redirs(ts) == LET A == SelectSeq([i \in DOMAIN ts |-> i], LAMBDA i : Arrow(ts[i]))
              IN  [k \in DOMAIN A |-> Redir(ts[A[k]], ts[A[k] + 1])]
Argv(ts) == LET A == SelectSeq([i \in DOMAIN ts |-> i], LAMBDA i : ts[i].tok = "a" /\ ~File(ts, i))
            IN  [k \in DOMAIN A |-> Word(ts[A[k]])]
WellFormed(ts) == /\ \A i \in DOMAIN ts : ts[i].tok = "a" \/ (Arrow(ts[i]) /\ i < Len(ts) /\ ts[i + 1].tok = "a")
                  /\ Len(Argv(ts)) < MAXARGS

RECURSIVE Line(_), Back(_), Pipe(_), Exec(_)
Line(ts) == Back(ts) \cup UNION {{listcmd(l, r) : l \in Back(Before(ts, i)), r \in Line(After(ts, i))} : i \in Pos(ts, ";")}
Back(ts) == Pipe(ts) \cup IF ts # <<>> /\ Last(ts).tok = "&" THEN {backcmd(t) : t \in Back(Front(ts))} ELSE {}
Pipe(ts) == Exec(ts) \cup UNION {{pipecmd(l, r) : l \in Exec(Before(ts, i)), r \in Pipe(After(ts, i))} : i \in Pos(ts, "|")}
Exec(ts) ==
  IF WellFormed(ts) THEN {Wrap(execcmd(Argv(ts)), Redirs(ts))}
  ELSE IF ts[1].tok # "(" THEN {}
  ELSE UNION {{Wrap(t, Redirs(After(ts, i))) : t \in Line(SubSeq(ts, 2, i - 1))} :
              i \in {j \in Pos(ts, ")") : WellFormed(After(ts, j)) /\ Argv(After(ts, j)) = <<>>}}

(***************************************************************************)
(* The parser accepts exactly the lines of the grammar, with the one tree  *)
(* the grammar gives them: one character of lookahead is enough, and       *)
(* redirections among the arguments do not get in their way.               *)
(***************************************************************************)
Parses == LET p == parsecmd IN Line(Lex(1)) = IF p.s = 0 THEN {} ELSE {p.cmd}

RECURSIVE Words(_)
Words(cmd) == CASE cmd.type = "EXEC" -> ToSet(cmd.argv)
                [] cmd.type = "REDIR" -> Words(cmd.cmd) \cup {cmd.file}
                [] cmd.type = "BACK" -> Words(cmd.cmd)
                [] cmd.type \in {"PIPE", "LIST"} -> Words(cmd.left) \cup Words(cmd.right)

(***************************************************************************)
(* After nulterminate every argument and file name, read up to its NUL, is *)
(* the word of the line: the ends of other words never cut one short, and  *)
(* none runs on into the next.                                             *)
(***************************************************************************)
Terminated == LET p == parsecmd IN p.s # 0 => \A w \in Words(p.cmd) :
  /\ w[2] \in nulterminate(p.cmd) \cup {es}
  /\ \A i \in w[1] .. w[2] - 1 : i \notin nulterminate(p.cmd) /\ line[i] \in Letters
=============================================================================
