-------------------------------- MODULE MCFs --------------------------------
(* Instances of the file system for TLC: four scenes of two processes.    *)
EXTENDS Fs, TLC

CONSTANTS p1, p2

Dots(i, up) == "." :> i @@ ".." :> up
Disk(dirs) == [i \in Inums |-> IF i \in DOMAIN dirs THEN dirs[i] @@ NoEntries ELSE NoEntries]
Plan(s1, s2) == p1 :> s1 @@ p2 :> s2

\* A disk with the directory /a, and every pair of calls against every other.
Calls == { <<"mkdir", <<"/", "b">> >>, <<"create", <<"/", "a", "a">> >>, <<"link", <<"/", "a", "a">>, <<"b">> >>,
           <<"unlink", <<"/", "a", "a">> >>, <<"unlink", <<"/", "a">> >>, <<"chdir", <<"/", "a">> >>,
           <<"open", <<"a">> >>, <<"unlink", <<"a", "..">> >>, <<"mknod", <<"b">> >> }
Boot == [tree |-> Disk(1 :> (Dots(1, 1) @@ "a" :> 2) @@ 2 :> Dots(2, 1)),
         cwd |-> Plan(1, 1), plan |-> Plan(<<Calls, Calls>>, <<Calls>>)]

\* p2 is in /a/b when p1 removes it, and perhaps /a. Nested: p2 goes up while p1 makes something new.
\* Orphan: p2 makes a directory where it is, goes into it, and up.
Remove == << { <<"unlink", <<"/", "a", "b">> >> }, { <<"unlink", <<"/", "a">> >> } >>
Up == { <<"open", <<"..">> >> }
Nested == [tree |-> Disk(1 :> (Dots(1, 1) @@ "a" :> 2) @@ 2 :> (Dots(2, 1) @@ "b" :> 3) @@ 3 :> Dots(3, 2)),
           cwd |-> Plan(1, 3),
           plan |-> Plan(Remove \o << { <<"mkdir", <<"b">> >>, <<"mknod", <<"b">> >> } >>,
                         << Up \cup { <<"chdir", <<"/", "a", "b", "..">> >> }, Up >>)]
Orphan == [Nested EXCEPT !.plan = Plan(Remove, << { <<"mkdir", <<"a">> >> }, { <<"chdir", <<"a">> >> }, Up >>)]

\* /a/a and /b are files: p1 fails to link /a/a to /b while p2 removes the one, the other or both.
Linked == [tree |-> Disk(1 :> (Dots(1, 1) @@ "a" :> 2 @@ "b" :> 4) @@ 2 :> (Dots(2, 1) @@ "a" :> 3)),
           cwd |-> Plan(1, 1),
           plan |-> Plan(<<{ <<"link", <<"/", "a", "a">>, <<"b">> >> }, { <<"open", <<"b">> >> }>>,
                         LET gone == { <<"unlink", <<"/", "a", "a">> >>, <<"unlink", <<"b">> >>,
                                       <<"open", <<"b">> >> } IN <<gone, gone>>)]

MCScenes == {Boot, Nested, Orphan, Linked}
=============================================================================
