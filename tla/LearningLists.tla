--------------------------- MODULE LearningLists ---------------------------
(***************************************************************************)
(* The loops over slices that the learn commands share (tools/learn).      *)
(***************************************************************************)
EXTENDS Integers, SequencesExt

\* The elements of s in S, in their order.
keepIn(out, x, S) == IF x \in S THEN Append(out, x) ELSE out
within(s, S) == FoldLeft(LAMBDA out, x : keepIn(out, x, S), <<>>, s)

firstOf(s, n) == SubSeq(s, 1, IF Len(s) < n THEN Len(s) ELSE n)
=============================================================================
