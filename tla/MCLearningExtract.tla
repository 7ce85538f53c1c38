------------------------- MODULE MCLearningExtract -------------------------
(***************************************************************************)
(* Histories and queries for LearningExtract: logs of up to four commits   *)
(* of every shape, transcripts whose lines are out of order, malformed or  *)
(* outside the window, specs whose tasks touch the directories the commits *)
(* touch; answers of the indexes that exceed the limits.                   *)
(***************************************************************************)
EXTENDS LearningExtract

MCDirs == <<"a", "b", "c">>

File(dir) == [dir |-> dir, binary |-> FALSE]
Blob(dir) == [dir |-> dir, binary |-> TRUE]
Commit(sha, type, files, body, at) ==
  [sha |-> sha, type |-> type, scope |-> "s", files |-> files, body |-> body, at |-> at, committed |-> at]
\* A commit with a body has been rebased: its author is earlier than its committer.
Third(files, body) ==
  [Commit("3", "fix", files, body, 2) EXCEPT !.at = IF body THEN 1 ELSE 2]

Shapes == {<<File("b"), File("a"), File("b")>>, <<File("a"), File("b"), File("c")>>, <<Blob("a"), File("b")>>, <<>>}

Line(session, at, tools) == [session |-> session, at |-> at, tools |-> tools, ok |-> TRUE, huge |-> FALSE]
Bad(l) == [l EXCEPT !.ok = FALSE]
Huge(l) == [l EXCEPT !.huge = TRUE]

H(commits, lines, specs) == [commits |-> commits, lines |-> lines, specs |-> specs]

\* Logs, newest first.
Logs ==
  {<<Commit("4", "fix", f4, FALSE, 2), Third(f3, b3), Commit("2", "feat", f2, FALSE, 1),
     Commit("1", "fix", <<File("a"), File("b")>>, FALSE, 1)>> : f4 \in Shapes, f3 \in Shapes, f2 \in Shapes, b3 \in BOOLEAN}

Scripts ==
  {<<Line("x", t1, <<"Read", "Edit">>), Line("y", 1, <<"Read">>), l3, Line("x", 1, <<"Read", "Edit", "Read">>),
     Line("y", t2, <<"Edit", "Bash">>)>> :
     t1 \in {1, 2}, t2 \in {1, 2}, l3 \in {Line("x", 2, <<"Bash">>), Bad(Line("x", 2, <<"Bash">>)), Line("y", 0, <<>>), Huge(Line("x", 2, <<>>))}}

Spec1 == [path |-> "p", tasks |-> <<<<"a", "b">>, <<"a", "b", "a">>>>]
Spec2 == [path |-> "q", tasks |-> <<<<>>, <<"b">>, <<"a">>>>]

Recurring == {m \in Logs : m[1].files # <<>> /\ m[2].files = <<File("b"), File("a"), File("b")>>
                           /\ m[3].files = m[2].files /\ ~m[2].body}

\* The last ones extract twice, over more the second time.
MCHistories ==
  {<<H(<<>>, <<>>, <<>>)>>} \cup {<<H(l, <<>>, <<>>)>> : l \in Logs} \cup {<<H(<<>>, s, <<>>)>> : s \in Scripts}
  \cup {<<H(SubSeq(l, 3, 4), <<>>, <<Spec1>>), H(l, <<>>, <<Spec1, Spec2>>)>> : l \in Recurring}

Hit(kind, path, score, len, at) == [kind |-> kind, path |-> path, score |-> score, len |-> len, at |-> at]

Many == {Hit("skill", 1, 3, 2, 1), Hit("skill", 2, 3, 1, 1), Hit("skill", 3, 2, 2, 1), Hit("skill", 4, 2, 1, 1),
         Hit("skill", 5, 1, 1, 2), Hit("skill", 6, 1, 1, 2)}

MCRecallQueries ==
  [topK : {1, 3, 6}, maxTokens : {1, 3, 9}, minScore : {0, 2}, cutoff : {0, 2}, kind : {"", "memory"},
   patternScore : {2}, skills : {{}, Many},
   memories : {{Hit("memory", 7, 3, 2, 2), Hit("memory", 8, 1, 1, 1)}}]

MCBodies == UNION {[1..n -> {"u", "v"}] : n \in 0..3}

Skill(path, score, body) == [path |-> path, score |-> score, body |-> body, gone |-> FALSE]

MCSimilarQueries ==
  {[target |-> t, body |-> b, topK |-> k, minScore |-> m,
    skills |-> {Skill(1, 3, <<"v">>), Skill(2, s, c), [Skill(3, 2, <<"u", "v">>) EXCEPT !.gone = g]}] :
     t \in {0, 1}, b \in MCBodies, c \in MCBodies, k \in {1, 2}, m \in {0, 2}, s \in {1, 3}, g \in BOOLEAN}
=============================================================================
