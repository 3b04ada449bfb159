--------------------------- MODULE MCCommandLine ---------------------------
(***************************************************************************)
(* Small instances of CommandLine for TLC.                                 *)
(***************************************************************************)
EXTENDS CommandLine, TLC

(* No file, an empty one, one with no list where the list should be, ours  *)
(* beside another program's hook under a matcher for several tools, an     *)
(* earlier version's, and ours for a tool that is not looked for.          *)
MCStartFiles ==
  LET doc(list, items) ==
        [list |-> list,
         matcher |-> [s \in Slot |-> IF s \in DOMAIN items THEN items[s][1]
                                     ELSE {}],
         hook |-> [q \in Place |->
                     IF /\ q[1] \in DOMAIN items
                        /\ q[2] + 1 \in DOMAIN items[q[1]]
                     THEN items[q[1]][q[2] + 1] ELSE None],
         rest |-> Blank]
  IN  {Absent, doc("none", <<>>), doc("other", <<>>),
       doc("list", <<<<{"Read", "Bash"}, "audit", "plain">>>>),
       doc("list", <<<<{"Read"}, "legacy">>, <<{"Read"}, "audit">>>>),
       doc("list", <<<<{"Bash"}, "plain", "audit">>>>)}

(* Two directories, one in the other, and one without files; and a file    *)
(* whose name looks like a range of another one.                           *)
MCDir == {"top", "sub", "empty"}
MCEnter(dir, word) == IF dir = "top" /\ word = "sub" THEN "sub" ELSE "empty"
MCExists   == {<<"top", "a">>, <<"top", "b">>, <<"top", "a:0:1">>,
               <<"sub", "a">>}
MCAbsolute == "/top/a" :> <<"top", "a">>
MCNameIn   == "HEAD:b" :> "b"
MCRanged(name, offset, limit) ==
  name \o ":" \o ToString(offset) \o ":" \o ToString(limit)

Call(name, word, range, session, cwd, command) ==
  [tool |-> name, word |-> word, offset |-> range[1], limit |-> range[2],
   session |-> session, cwd |-> cwd, command |-> command]

Line(outer, shells, inner, pipe) ==
  [outer |-> outer, shells |-> shells, inner |-> inner, pipe |-> pipe]

Cwd == {NoDir, "top", "sub"}

ReadCalls ==
  {Call("Read", w, range, s, cwd, Line(<<>>, 0, <<>>, <<>>)) :
     w \in {"a", "b", "/top/a", "a:0:1"}, s \in BOOLEAN, cwd \in Cwd,
     range \in (Numbers \cup {NoNumber}) \X (Numbers \cup {NoNumber})}

BashCall(cwd, line) ==
  Call("Bash", "a", <<NoNumber, NoNumber>>, TRUE, cwd, line)

(* One command with up to three words after it, two after echo and git.    *)
Words == {"a", "b", "HEAD:b", "-n", ">", ">b", "<", "2>"}
Args3 == UNION {[1..n -> Words] : n \in 0..3}
OneCommand ==
  {BashCall("top", Line(<<>>, 0, <<>>, <<<<verb>> \o args>>)) :
     verb \in {"cat", "tee"}, args \in Args3}
    \cup {BashCall("top", Line(<<>>, 0, <<>>, <<verb \o args>>)) :
            verb \in {<<"echo">>, <<"git", "show">>},
            args \in {w \in Args3 : Len(w) <= 2}}

(* Up to two commands with up to one word, in all directories, behind up   *)
(* to two cds and in up to two shells.                                     *)
Short == {<<"cat", "a">>, <<"cat", "/top/a">>, <<"cat", "a:0:1">>,
          <<"echo", "a">>, <<"git", "show", "b">>}
Pipelines ==
  {BashCall(cwd, Line(outer, shells, inner, pipe)) :
     cwd \in Cwd, outer \in {<<>>, <<"sub">>}, shells \in 0..2,
     inner \in {<<>>, <<"sub">>, <<"empty">>},
     pipe \in UNION {[1..n -> Short] : n \in 0..2}}

MCToolCalls ==
  ReadCalls \cup OneCommand \cup Pipelines
    \cup {[in EXCEPT !.tool = t] :
            in \in {BashCall("top", Line(<<>>, 0, <<>>, <<<<"cat", "a">>>>))},
            t \in {"shell", "Write"}}

MCFilters ==
  LET none == [bypass |-> {}, include |-> {}, exclude |-> {}]
      a    == {<<"top", "a">>}
  IN  {none, [none EXCEPT !.bypass = a], [none EXCEPT !.include = {a}],
       [none EXCEPT !.exclude = {a, {}}]}

Symmetry == Permutations(Proc)
=============================================================================
