-------------------------- MODULE LearningExtract --------------------------
(***************************************************************************)
(* learn extract and the readers of what it leaves (tools/learn): it mines *)
(* its sources, replaces candidates.jsonl, and then writes the patterns    *)
(* and candidates tables row by row, while it may be killed at any point   *)
(* and run again over a longer history.                                    *)
(***************************************************************************)
EXTENDS LearningMining, LearningRecall

CONSTANTS
  Histories,   \* sequences of histories: what there is to mine in each extract
  Windows,     \* the --since windows, as the oldest admitted time
  RecallQueries, SimilarQueries,
  NoFile

ASSUME ExtractAssumption ==
  /\ MinPatternFreq \in Nat \ {0} /\ maxGitDirsPerCommit \in Nat
  /\ Dirs \in Seq(ToSet(Dirs))

\* A hash names one commit, a path one spec.
IsHistory(h) ==
  /\ h.commits \in Seq(ToSet(h.commits)) /\ h.lines \in Seq(ToSet(h.lines)) /\ h.specs \in Seq(ToSet(h.specs))
  /\ \A c \in ToSet(h.commits) : c.at \in Int /\ c.committed \in Int /\ c.files \in Seq(ToSet(c.files))
  /\ \A l \in ToSet(h.lines) : l.at \in Int /\ l.tools \in Seq(ToSet(l.tools))
  /\ \A d \in ToSet(h.specs) :
       d.tasks \in Seq(ToSet(d.tasks)) /\ \A tokens \in ToSet(d.tasks) : tokens \in Seq(ToSet(tokens))
  /\ \A i, j \in DOMAIN h.commits : h.commits[i].sha = h.commits[j].sha => i = j
  /\ \A i, j \in DOMAIN h.specs : h.specs[i].path = h.specs[j].path => i = j

ASSUME HistoriesAssumption ==
  /\ Windows \subseteq Int
  /\ \A hs \in Histories : hs # <<>> /\ hs \in Seq(ToSet(hs)) /\ \A h \in ToSet(hs) : IsHistory(h)

\* What the indexes match: path is their primary key, and all patterns have none, 0.
IsHits(hits) ==
  /\ IsFiniteSet(hits)
  /\ \A x \in hits : x.score \in Int /\ x.path \in Int

\* --top-k and --max-tokens are at least 1 (runSimilar, runRecall).
IsSimilarQuery(q) ==
  /\ q.topK \in Nat \ {0} /\ q.minScore \in Int
  /\ IsHits(q.skills) /\ \A x, y \in q.skills : x.path = y.path => x = y
  /\ \A body \in {q.body} \cup {x.body : x \in q.skills} : body \in Seq(ToSet(body))
  /\ \A x \in q.skills : x.gone \in BOOLEAN

IsRecallQuery(q) ==
  /\ q.topK \in Nat \ {0} /\ q.maxTokens \in Nat \ {0} /\ q.minScore \in Int /\ q.patternScore \in Int
  /\ q.cutoff \in Nat /\ q.kind \in {"", "skill", "memory", "pattern"}
  /\ \A kind \in {"skill", "memory"} :
       LET hits == IF kind = "skill" THEN q.skills ELSE q.memories
       IN  IsHits(hits) /\ \A x \in hits : x.kind = kind /\ x.len \in Nat /\ x.at \in Nat

ASSUME QueriesAssumption ==
  (\A q \in SimilarQueries : IsSimilarQuery(q)) /\ (\A q \in RecallQueries : IsRecallQuery(q))

VARIABLES
  now,        \* the time, one tick per extract
  history,    \* what the sources hold, and what they will hold
  extract,    \* the extract that runs or ran last
  file,       \* candidates.jsonl
  patterns,   \* the patterns table: signature to row
  audit,      \* the candidates table: pattern_id stands for the signature, rows that
              \* agree in all but their id are one
  published,  \* history: every candidate some file held
  answer      \* what recall or similar answered last

vars == <<now, history, extract, file, patterns, audit, published, answer>>

NoAnswer == [op |-> "none", q |-> <<>>, hits |-> {}, out |-> <<>>]
Idle == [pc |-> "idle", window |-> 0, readable |-> {}, mined |-> {}, left |-> {}]

Init ==
  /\ now = 1
  /\ history \in Histories
  /\ extract = Idle
  /\ file = NoFile /\ patterns = <<>> /\ audit = {} /\ published = {}
  /\ answer = NoAnswer

At(pc) == extract.pc = pc

\* Every source is read, or skipped with a warning.
Mine ==
  /\ At("idle")
  /\ \E window \in Windows, readable \in {{"transcripts", "specs", "git"}, {"transcripts", "git"}} :
       LET all == mined(history[1], readable, window, now) IN
       extract' = [pc |-> "mined", window |-> window, readable |-> readable, mined |-> all, left |-> all]
  /\ now' = now + 1 /\ answer' = NoAnswer
  /\ UNCHANGED <<history, file, patterns, audit, published>>

\* Temporary file, fsync, rename.
writeCandidatesFile ==
  /\ At("mined")
  /\ file' = extract.mined /\ published' = published \cup extract.mined
  /\ extract' = [extract EXCEPT !.pc = "upsert"]
  /\ UNCHANGED <<now, history, patterns, audit, answer>>

\* The order of the file: by kind, then by signature, in some fixed order.
kindRank == [k \in {"commit-pattern", "file-sequence", "tool-sequence"} |->
               CASE k = "commit-pattern" -> 1 [] k = "file-sequence" -> 2 [] OTHER -> 3]

nextCandidate == CHOOSE c \in extract.left : \A d \in extract.left : kindRank[c.kind] <= kindRank[d.kind]

\* Mutant: the conflict updates the time but not the count.
upsertedStale(c) ==
  IF c.signature \in DOMAIN patterns
    THEN [patterns EXCEPT ![c.signature].last = c.last]
    ELSE patterns @@ (c.signature :> [kind |-> c.kind, frequency |-> c.frequency, score |-> c.score,
                                      first |-> c.first, last |-> c.last])

\* ON CONFLICT(signature): kind and first_seen_at stay.
upserted(c) ==
  LET row == IF c.signature \in DOMAIN patterns
               THEN [patterns[c.signature] EXCEPT !.frequency = c.frequency, !.score = c.score, !.last = c.last]
               ELSE [kind |-> c.kind, frequency |-> c.frequency, score |-> c.score,
                     first |-> c.first, last |-> c.last]
  IN [sig \in DOMAIN patterns \cup {c.signature} |-> IF sig = c.signature THEN row ELSE patterns[sig]]

upsertPattern ==
  /\ At("upsert") /\ extract.left # {}
  /\ patterns' = upserted(nextCandidate)
  /\ extract' = [extract EXCEPT !.pc = "insert"]
  /\ UNCHANGED <<now, history, file, audit, published, answer>>

insertCandidate ==
  /\ At("insert")
  /\ LET c == nextCandidate IN
     /\ audit' = audit \cup {[signature |-> c.signature, contexts |-> c.contexts, score |-> c.score,
                              created |-> now]}
     /\ extract' = [extract EXCEPT !.pc = "upsert", !.left = @ \ {c}]
  /\ UNCHANGED <<now, history, file, patterns, published, answer>>

allPersisted ==
  /\ At("upsert") /\ extract.left = {}
  /\ extract' = [extract EXCEPT !.pc = "ended"]
  /\ UNCHANGED <<now, history, file, patterns, audit, published, answer>>

\* The extract is killed, or a write or a statement of it fails.
Kill ==
  /\ extract.pc \in {"mined", "upsert", "insert"}
  /\ extract' = [Idle EXCEPT !.pc = "killed"]
  /\ UNCHANGED <<now, history, file, patterns, audit, published, answer>>

\* The team works on, or not; extract will be run again.
Work ==
  /\ extract.pc \in {"ended", "killed"} /\ Len(history) > 1
  /\ history' = Tail(history)
  /\ extract' = Idle /\ answer' = NoAnswer
  /\ UNCHANGED <<now, file, patterns, audit, published>>

-----------------------------------------------------------------------------
\* Every pattern row matches, with the score the query gives it.
patternHits(q) ==
  {[kind |-> "pattern", path |-> 0, id |-> sig, score |-> q.patternScore, len |-> 0, at |-> 0] :
     sig \in DOMAIN patterns}

\* Bound: one answer at a time.
Recall ==
  /\ At("ended") /\ answer = NoAnswer
  /\ \E q \in RecallQueries :
       LET hits == [skill |-> q.skills, memory |-> q.memories, pattern |-> patternHits(q)] IN
       answer' = [op |-> "recall", q |-> q, out |-> recallMatches(q, hits),
                  hits |-> UNION {hits[indexesForKind(q.kind)[i]] : i \in DOMAIN indexesForKind(q.kind)}]
  /\ UNCHANGED <<now, history, extract, file, patterns, audit, published>>

\* Bound: asked where there is nothing to mine, on which the answer does not depend.
Similar ==
  /\ At("idle") /\ answer = NoAnswer /\ history[1] = [commits |-> <<>>, lines |-> <<>>, specs |-> <<>>]
  /\ \E q \in SimilarQueries : answer' = [op |-> "similar", q |-> q, hits |-> q.skills, out |-> similar(q, q.skills)]
  /\ UNCHANGED <<now, history, extract, file, patterns, audit, published>>

Next ==
  \/ Mine \/ writeCandidatesFile \/ upsertPattern \/ insertCandidate
  \/ allPersisted \/ Kill \/ Work \/ Recall \/ Similar

Spec == Init /\ [][Next]_vars

-----------------------------------------------------------------------------
(***************************************************************************)
(* Properties                                                              *)
(***************************************************************************)
\* What happened, source by source: no log, no sorting, no window arithmetic.
inWindow == within(history[1].commits, {c \in ToSet(history[1].commits) : c.committed >= extract.window})

commitSources ==
  {[source |-> c.sha, tokens |-> <<c.type, c.scope>> \o dirTokens(c.files)] :
     c \in {d \in ToSet(inWindow) : \A i \in DOMAIN d.files : ~d.files[i].binary}}

\* The tools a session used, unless its file is refused: line and place in it, in the
\* order of time and then of lines.
uses(s) ==
  LET lines == history[1].lines
      ofSession == {i \in DOMAIN lines : /\ lines[i].session = s /\ lines[i].ok /\ lines[i].at >= extract.window
                                         /\ s \notin refused(lines)}
  IN UNION {{<<i, j>> : j \in DOMAIN lines[i].tools} : i \in ofSession}

atOf(u) == history[1].lines[u[1]].at

before(u, v) == u[1] < v[1] \/ (u[1] = v[1] /\ u[2] < v[2])

earlier(u, v) == atOf(u) < atOf(v) \/ (atOf(u) = atOf(v) /\ before(u, v))

toolSources ==
  LET lines == history[1].lines
      tool(s, i) == LET u == CHOOSE v \in uses(s) : Cardinality({w \in uses(s) : earlier(w, v)}) = i - 1
                    IN lines[u[1]].tools[u[2]]
  IN {[source |-> s, tokens |-> [i \in 1..Cardinality(uses(s)) |-> tool(s, i)]] : s \in {l.session : l \in ToSet(lines)}}

specSources ==
  {[source |-> d.path, tokens |-> FlattenSeq(d.tasks)] : d \in ToSet(history[1].specs)}

sourcesOf(kind) ==
  CASE kind = "commit-pattern" -> IF "git" \in extract.readable THEN commitSources ELSE {}
    [] kind = "file-sequence" -> IF "specs" \in extract.readable THEN specSources ELSE {}
    [] OTHER -> IF "transcripts" \in extract.readable THEN toolSources ELSE {}

\* The places where sig occurs.
occurrences(sig, sources) ==
  UNION {{<<s.source, i>> : i \in {j \in DOMAIN s.tokens :
            j + Len(sig) - 1 <= Len(s.tokens) /\ SubSeq(s.tokens, j, j + Len(sig) - 1) = sig}} : s \in sources}

\* git log leaves no blank line after a commit without files.
onlyTheOldestIsEmpty == \A i \in 1..(Len(inWindow) - 1) : inWindow[i].files # <<>>

\* sort.Slice may reorder equal times, in a slice that is long and not in order.
timesKeepOrder ==
  \A s \in {l.session : l \in ToSet(history[1].lines)} :
    \/ Cardinality(uses(s)) <= maxInsertion
    \/ \A u, v \in uses(s) : before(u, v) => atOf(u) <= atOf(v)
    \/ \A u, v \in uses(s) : before(u, v) => atOf(u) # atOf(v)

runsOf(sources) == UNION {{SubSeq(s.tokens, i, j) : i \in DOMAIN s.tokens, j \in DOMAIN s.tokens} : s \in sources}

frequentIn(sources) ==
  {w \in runsOf(sources) : Len(w) \in extractNGramSizes /\ Cardinality(occurrences(w, sources)) >= MinPatternFreq}

CountsWindows(candidates, sources) ==
  /\ {c.signature : c \in candidates} = frequentIn(sources)
  /\ \A c \in candidates :
       /\ c.frequency = Cardinality(occurrences(c.signature, sources))
       /\ c.contexts = {o[1] : o \in occurrences(c.signature, sources)}
       /\ c.score[1] = c.frequency /\ c.first <= c.last
  /\ candidates # {} =>
       \E c \in candidates : c.score[1] = c.score[2] /\ \A d \in candidates : d.score[2] = c.score[2]

\* The mined candidates are the runs of two to four tokens that occur often
\* enough in what really happened, with their number and their sources, the most
\* frequent one of each kind with score 1; for commits as long as none but the
\* oldest is without files, whose header swallows the next commit, and for tools
\* as long as the order of equal times is kept (parseGitEntries, buildToolSequences,
\* mineKind).
CandidatesCountWindows ==
  At("mined") =>
    \A kind \in DOMAIN kindRank :
      (kind = "commit-pattern" => onlyTheOldestIsEmpty) /\ (kind = "tool-sequence" => timesKeepOrder) =>
        CountsWindows({c \in extract.mined : c.kind = kind}, sourcesOf(kind))

\* A pattern row always says what some file said of its signature, and nothing
\* half; when an extract has ended, every candidate of the file has its row and an
\* entry of this extract with its contexts and its score.  The row has the
\* candidate's own numbers unless another kind has the same signature: the
\* signature alone is UNIQUE, the first kind stays in the row, and neither table
\* tells the two apart (persistCandidates).
TablesFollowTheFile ==
  /\ \A sig \in DOMAIN patterns : \E c \in published :
       c.signature = sig /\ c.frequency = patterns[sig].frequency /\ c.score = patterns[sig].score
  /\ At("ended") =>
       \A c \in file :
         /\ c.signature \in DOMAIN patterns
         /\ \E a \in audit : a.created = now /\ a.signature = c.signature
                              /\ a.contexts = c.contexts /\ a.score = c.score
         /\ (\A d \in file : d.signature = c.signature => d = c) =>
              /\ patterns[c.signature].frequency = c.frequency
              /\ patterns[c.signature].score = c.score

total(matches) == FoldLeft(LAMBDA n, x : n + x.len, 0, matches)

\* recall answers with the best matches over all indexes: none left out is
\* better than one taken, and it ends only at top-k, at the budget or when there
\* is no more; with --since, as long as no index has more matches than the
\* limit, which is applied first (recallWithQuery).
RecallReturnsTheBest ==
  answer.op = "recall" =>
    LET q == answer.q
        out == answer.out
        wanted == {x \in answer.hits : x.score >= q.minScore /\ (x.kind = "pattern" \/ x.at >= q.cutoff)}
        others == wanted \ ToSet(out)
        best == {x \in others : \A y \in others : ~ranksBefore(y, x)}
        unlimited == \A kind \in {"skill", "memory", "pattern"} :
                       Cardinality({x \in answer.hits : x.kind = kind}) <= perIndexLimit(q.topK)
    IN q.cutoff = 0 \/ unlimited =>
         /\ ToSet(out) \subseteq wanted /\ Len(out) <= q.topK /\ total(out) <= q.maxTokens
         /\ \A i, j \in DOMAIN out : i < j => ~ranksBefore(out[j], out[i]) /\ out[i] # out[j]
         /\ \A x \in ToSet(out), y \in others : ~ranksBefore(y, x)
         /\ Len(out) = q.topK \/ others = {} \/ \E x \in best : total(out) + x.len > q.maxTokens

\* The edit distance by its recurrence.
editDistance(a, b) ==
  LET d[c \in (0..Len(a)) \X (0..Len(b))] ==
        LET i == c[1]
            j == c[2]
        IN IF i = 0 THEN j ELSE IF j = 0 THEN i
           ELSE Min({d[<<i - 1, j>>] + 1, d[<<i, j - 1>>] + 1, d[<<i - 1, j - 1>>] + IF a[i] = b[j] THEN 0 ELSE 1})
  IN d[<<Len(a), Len(b)>>]

\* similar lists top-k other skills, if there are so many, each with its exact
\* edit distance from the target, from nothing for a row that is gone; the others
\* are those whose path is spelled otherwise than the target's, against the
\* "always excluded" of cmd_similar.go:97 (runSimilar, levenshteinDistance).
SimilarIsExact ==
  answer.op = "similar" =>
    LET q == answer.q
        others == {x \in q.skills : x.path # q.target /\ x.score >= q.minScore}
    IN /\ Len(answer.out) = Min({q.topK, Cardinality(others)})
       /\ \A i \in DOMAIN answer.out : \E x \in others :
            /\ x.path = answer.out[i].path
            /\ answer.out[i].distance[1] = editDistance(q.body, loadSkillBody(x))
            /\ answer.out[i].distance[1] <= answer.out[i].distance[2]
=============================================================================
