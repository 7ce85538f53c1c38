-------------------------- MODULE MCLearningIndex --------------------------
(***************************************************************************)
(* Command sequences for LearningIndex, each aimed at one way the commands *)
(* meet: two overlapping reindexes, an index in use that is pruned, uses   *)
(* before and after the path is known, loops that overlap a reset.         *)
(***************************************************************************)
EXTENDS LearningIndex, TLC

CONSTANTS s1, m1

MCSkills == <<s1>>
MCMemories == <<m1>>

Cmd(op, since, paths) == [op |-> op, since |-> since, paths |-> paths]
Reindex(since) == Cmd("reindex", since, <<>>)
ReindexPath(a) == Cmd("reindexPath", 0, <<a>>)
TrackUse(paths) == Cmd("trackUse", 0, paths)
CompleteTask == Cmd("completeTask", 0, <<>>)
Reset == Cmd("reset", 0, <<>>)
List == Cmd("list", 0, <<>>)

Plan(commands, days, changes, kills) ==
  [commands |-> commands, left |-> [days |-> days, changes |-> changes, kills |-> kills]]

MCPlans ==
  {Plan(<<Reindex(0), Reindex(0)>>, 0, 1, 1), Plan(<<Reindex(0), Reindex(1)>>, 2, 1, 0),
   Plan(<<ReindexPath(m1), Reindex(0)>>, 0, 1, 0),
   Plan(<<Reindex(0), TrackUse(<<m1>>), Reindex(0)>>, 0, 1, 0),
   Plan(<<TrackUse(<<s1>>), ReindexPath(s1), TrackUse(<<s1, m1>>), List>>, 5, 0, 0),
   Plan(<<ReindexPath(s1), TrackUse(<<s1>>), TrackUse(<<s1>>), List>>, 5, 0, 0),
   Plan(<<CompleteTask, CompleteTask, CompleteTask, CompleteTask>>, 0, 0, 1),
   Plan(<<CompleteTask, CompleteTask, Reset, CompleteTask, CompleteTask>>, 0, 0, 1)}

Symmetry == Permutations(Procs)
=============================================================================
