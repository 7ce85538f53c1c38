------------------------ MODULE MCLearningDecisions ------------------------
(***************************************************************************)
(* Three invocations on one file: enough for a pending decision, its       *)
(* application and its rollback, for two that race for one file or copy,   *)
(* and for a rowid that is given out again.                                *)
(***************************************************************************)
EXTENDS LearningDecisions, TLC

CONSTANTS c1, c2, c3, f1

A(kind, id) == [kind |-> kind, path |-> f1, id |-> id]

MCAuthors == Cmds \cup {Original}
MCCalls ==
  {A(kind, 1) : kind \in {"new", "append", "replace", "pending", "refine"}}
    \cup {A("apply", 1), A("rollback", 1)}

\* The local variables of a command that has ended are not read again, but for
\* the copy it aimed at.
Ended(c) == pc[c] \in {"done", "dead"}
LiveState == <<second, files, rows, audit, pc, call, reply, disturbed,
  [c \in Cmds |-> IF Ended(c) THEN <<mine[c].path, mine[c].stamp>> ELSE mine[c]]>>

Perms == Permutations(Cmds)
=============================================================================
