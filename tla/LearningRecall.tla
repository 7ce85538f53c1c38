--------------------------- MODULE LearningRecall ---------------------------
(***************************************************************************)
(* learn recall and learn similar (recall.go, cmd_similar.go, similar.go): *)
(* what they answer, given what the full-text indexes match.  A path is    *)
(* its rank in the order of paths; all patterns have the empty path, 0.    *)
(***************************************************************************)
EXTENDS LearningLists

\* BM25 order of one index; LIMIT comes before the minimal score.
ranksBefore(a, b) == a.score > b.score \/ (a.score = b.score /\ a.path < b.path)

\* A stable sort puts x after everything it does not rank before.
insertRanked(s, x) == InsertAt(s, 1 + Max({0} \cup {i \in DOMAIN s : ~ranksBefore(x, s[i])}), x)

queryFTSIndex(hits, limit, minScore) ==
  LET ranked == FoldSet(LAMBDA x, s : insertRanked(s, x), <<>>, hits)
  IN  within(firstOf(ranked, limit), {x \in hits : x.score >= minScore})

\* sort.SliceStable over the concatenated answers.
mergeRanked(all) == FoldLeft(insertRanked, <<>>, all)

indexesForKind(kind) == IF kind = "" THEN <<"skill", "memory", "pattern">> ELSE <<kind>>

perIndexLimit(topK) == IF topK < 5 THEN 5 ELSE topK

\* Mutant: what does not fit is skipped.
takeSkipping(out, x, topK, maxTokens) ==
  IF Len(out.matches) >= topK \/ out.used + x.len > maxTokens THEN out
  ELSE [out EXCEPT !.matches = Append(@, x), !.used = @ + x.len]

\* The first match that does not fit ends the answer.
take(out, x, topK, maxTokens) ==
  IF out.full \/ Len(out.matches) >= topK \/ out.used + x.len > maxTokens
    THEN [out EXCEPT !.full = TRUE]
    ELSE [out EXCEPT !.matches = Append(@, x), !.used = @ + x.len]

\* q.cutoff is the oldest indexed_at --since admits; patterns have none.
recallMatches(q, hits) ==
  LET all == mergeRanked(FlattenSeq([i \in DOMAIN indexesForKind(q.kind) |->
               queryFTSIndex(hits[indexesForKind(q.kind)[i]], perIndexLimit(q.topK), q.minScore)]))
      recent == within(all, {x \in ToSet(all) : x.kind = "pattern" \/ x.at >= q.cutoff})
  IN FoldLeft(LAMBDA out, x : take(out, x, q.topK, q.maxTokens),
              [matches |-> <<>>, used |-> 0, full |-> FALSE], recent).matches

-----------------------------------------------------------------------------
\* Mutant: the diagonal is read after it was overwritten.
cellNoSave(row, j, i, ra, rb) ==
  LET cost == IF ra[i] = rb[j] THEN 0 ELSE 1
      value == Min({row.prev[j] + 1, row.prev[j - 1] + 1, row.diag + cost})
  IN [prev |-> [row.prev EXCEPT ![j] = value], diag |-> value]

\* One cell of the single-row algorithm: prev[j] is read before it is written.
cell(row, j, i, ra, rb) ==
  LET cost == IF ra[i] = rb[j] THEN 0 ELSE 1
      value == Min({row.prev[j] + 1, row.prev[j - 1] + 1, row.diag + cost})
  IN [prev |-> [row.prev EXCEPT ![j] = value], diag |-> row.prev[j]]

upTo(n) == [i \in 1..n |-> i]

nextRow(prev, i, ra, rb) ==
  FoldLeft(LAMBDA row, j : cell(row, j, i, ra, rb),
           [prev |-> [prev EXCEPT ![0] = i], diag |-> prev[0]], upTo(Len(rb))).prev

levenshteinDistance(a, b) ==
  LET ra == IF Len(a) < Len(b) THEN b ELSE a
      rb == IF Len(a) < Len(b) THEN a ELSE b
  IN FoldLeft(LAMBDA prev, i : nextRow(prev, i, ra, rb), [j \in 0..Len(rb) |-> j], upTo(Len(ra)))[Len(rb)]

\* normalizedLevenshteinDistance, as a fraction: 0/1 for two empty bodies.
normalized(a, b) ==
  LET longest == Max({Len(a), Len(b)})
  IN IF longest = 0 THEN <<0, 1>> ELSE <<levenshteinDistance(a, b), longest>>

\* A row that a reindex deleted after the match has no body.
loadSkillBody(x) == IF x.gone THEN <<>> ELSE x.body

\* The target is read from disk, the others' bodies from the index; the target is
\* left out when the index spells its path as the caller did.
similar(q, hits) ==
  LET matches == queryFTSIndex(hits, q.topK + 1, q.minScore)
      rows == firstOf(within(matches, {x \in hits : x.path # q.target}), q.topK)
  IN [i \in DOMAIN rows |-> [path |-> rows[i].path, distance |-> normalized(q.body, loadSkillBody(rows[i]))]]
=============================================================================
