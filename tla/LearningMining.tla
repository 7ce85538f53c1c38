--------------------------- MODULE LearningMining ---------------------------
(***************************************************************************)
(* What learn extract makes of its sources: the output of git log, the     *)
(* transcripts of sessions and the tasks of specs become sequences of      *)
(* tokens, whose windows of two to four tokens are counted (cmd_extract.go,*)
(* ingest_git.go, ingest_transcript.go).                                   *)
(***************************************************************************)
EXTENDS LearningLists

CONSTANTS
  Dirs,       \* the directories of the repository, in the order of sort.Strings
  maxGitDirsPerCommit,
  maxInsertion,   \* sort.Slice sorts slices up to this length by insertion, 12 in Go
  MinPatternFreq

extractNGramSizes == {2, 3, 4}

-----------------------------------------------------------------------------
(***************************************************************************)
(* git log --numstat --pretty=format:...                                   *)
(***************************************************************************)
\* A commit's header ends on its first line unless it has a body; its files
\* follow; a blank line separates it from the next commit, but only after files.
\* A file is its directory and whether the diff is binary.
rendered(c, isLast) ==
  <<[k |-> "head", c |-> c, ends |-> ~c.body]>>
  \o (IF c.body THEN <<[k |-> "text", ends |-> FALSE], [k |-> "text", ends |-> TRUE]>> ELSE <<>>)
  \o [i \in DOMAIN c.files |-> [k |-> "file", file |-> c.files[i], ends |-> FALSE]]
  \o (IF c.files = <<>> \/ isLast THEN <<>> ELSE <<[k |-> "blank", ends |-> FALSE]>>)

gitLog(commits) == FlattenSeq([i \in DOMAIN commits |-> rendered(commits[i], i = Len(commits))])

-----------------------------------------------------------------------------
(***************************************************************************)
(* The parser of that output                                               *)
(***************************************************************************)
dirTokens(files) == firstOf(within(Dirs, {files[i].dir : i \in DOMAIN files}), maxGitDirsPerCommit)

\* Lines without two tabs are no numstat.
numstatFiles(numstat) ==
  LET lines == within(numstat, {l \in ToSet(numstat) : l.k = "file"})
  IN [i \in DOMAIN lines |-> lines[i].file]

buildGitRecord(header, numstat) ==
  LET c == header[1].c
      files == numstatFiles(numstat)
  IN IF \E i \in DOMAIN files : files[i].binary
       THEN <<>>
       ELSE <<[source |-> c.sha, at |-> c.at, tokens |-> <<c.type, c.scope>> \o dirTokens(files)]>>

emptyEntry == [header |-> <<>>, numstat |-> <<>>, inHeader |-> TRUE, records |-> <<>>]

\* Mutant: the numstat buffer is not reset.
flushKeepsNumstat(st) ==
  IF st.header = <<>> THEN st
  ELSE [emptyEntry EXCEPT !.records = st.records \o buildGitRecord(st.header, st.numstat),
                          !.numstat = st.numstat]

flush(st) ==
  [emptyEntry EXCEPT !.records =
     IF st.header = <<>> THEN st.records ELSE st.records \o buildGitRecord(st.header, st.numstat)]

entryLine(st, l) ==
  IF st.inHeader THEN [st EXCEPT !.header = Append(@, l), !.inHeader = ~l.ends]
  ELSE IF l.k = "blank" THEN flush(st)
  ELSE [st EXCEPT !.numstat = Append(@, l)]

parseGitEntries(lines) == flush(FoldLeft(entryLine, emptyEntry, lines)).records

-----------------------------------------------------------------------------
(***************************************************************************)
(* From records to the sequences of each source                            *)
(***************************************************************************)
inOrder(entries) == \A i, j \in DOMAIN entries : i < j => entries[i].at <= entries[j].at

reorderings(entries) ==
  {[i \in DOMAIN entries |-> entries[p[i]]] : p \in Bijection(DOMAIN entries, DOMAIN entries)}

\* Insertion puts an entry after those of its time.
insertByTime(s, e) == InsertAt(s, 1 + Max({0} \cup {i \in DOMAIN s : s[i].at <= e.at}), e)

\* sort.Slice leaves what is in order; it keeps the order of equal times only
\* where it sorts by insertion.
byTime(entries) ==
  IF inOrder(entries) THEN entries
  ELSE IF Len(entries) <= maxInsertion THEN FoldLeft(insertByTime, <<>>, entries)
  ELSE CHOOSE s \in reorderings(entries) : inOrder(s)

sequenceOf(source, entries) ==
  LET es == byTime(entries) IN
  [source |-> source, tokens |-> FlattenSeq([i \in DOMAIN es |-> es[i].tokens]),
   first |-> es[1].at, last |-> es[Len(es)].at]

grouped(recs) ==
  {sequenceOf(s, within(recs, {r \in ToSet(recs) : r.source = s})) : s \in {r.source : r \in ToSet(recs)}}

\* A session is a file of its own.  A line the scanner has no room for (4 MB) ends
\* the reading of its file, and all of the file is skipped.
refused(lines) == {l.session : l \in {m \in ToSet(lines) : m.huge}}

\* A transcript line names the tools its message used, in order; a malformed or
\* oversized one (256 KB) is skipped, one before the window filtered out.
toolRecords(lines, windowStart) ==
  LET kept == within(lines, {l \in ToSet(lines) :
                l.ok /\ l.at >= windowStart /\ l.session \notin refused(lines)})
      records(l) == [i \in DOMAIN l.tools |-> [source |-> l.session, at |-> l.at, tokens |-> <<l.tools[i]>>]]
  IN FlattenSeq([i \in DOMAIN kept |-> records(kept[i])])

buildToolSequences(lines, windowStart) == grouped(toolRecords(lines, windowStart))

\* A done task is stamped with the time it is read, so no window excludes it.
buildFileSequences(specs, now) ==
  LET tasks == FlattenSeq([i \in DOMAIN specs |->
        [j \in DOMAIN specs[i].tasks |-> [source |-> specs[i].path, at |-> now, tokens |-> specs[i].tasks[j]]]])
  IN grouped(within(tasks, {r \in ToSet(tasks) : r.tokens # <<>>}))

\* git filters by --since itself, on the committer's date; the date in its output
\* is the author's, which a rebase keeps.
since(commits, windowStart) == within(commits, {c \in ToSet(commits) : c.committed >= windowStart})

buildCommitSequences(commits, windowStart) ==
  {[source |-> r.source, tokens |-> r.tokens, first |-> r.at, last |-> r.at] :
     r \in ToSet(parseGitEntries(gitLog(since(commits, windowStart))))}

-----------------------------------------------------------------------------
(***************************************************************************)
(* Counting                                                                *)
(***************************************************************************)
smaller(a, b) == IF a < b THEN a ELSE b
larger(a, b) == IF a < b THEN b ELSE a

\* The runs of n tokens of a source.
windowsIn(s, n) ==
  {[src |-> s, from |-> i, tokens |-> SubSeq(s.tokens, i, i + n - 1)] : i \in 1..(Len(s.tokens) - n + 1)}

windowsOf(sources) == UNION {windowsIn(s, n) : s \in sources, n \in extractNGramSizes}

tally(w, accs) ==
  LET old == accs[w.tokens]
      acc == IF w.tokens \in DOMAIN accs
               THEN [count |-> old.count + 1, contexts |-> old.contexts \cup {w.src.source},
                     first |-> smaller(old.first, w.src.first), last |-> larger(old.last, w.src.last)]
               ELSE [count |-> 1, contexts |-> {w.src.source}, first |-> w.src.first, last |-> w.src.last]
  IN [sig \in DOMAIN accs \cup {w.tokens} |-> IF sig = w.tokens THEN acc ELSE accs[sig]]

\* scorePattern, as a fraction.
scorePattern(count, maxCount) == <<count, maxCount>>

\* In whatever order: a tally does not depend on it.
accumulated(sources) == FoldSet(tally, <<>>, windowsOf(sources))

patternCandidate(kind, sig, acc, maxCount) ==
  [kind |-> kind, signature |-> sig, frequency |-> acc.count, contexts |-> acc.contexts,
   score |-> scorePattern(acc.count, maxCount), first |-> acc.first, last |-> acc.last]

mineKind(kind, sources) ==
  LET accs == accumulated(sources)
      kept == {sig \in DOMAIN accs : accs[sig].count >= MinPatternFreq}
      maxCount == Max({accs[sig].count : sig \in kept})
  IN {patternCandidate(kind, sig, accs[sig], maxCount) : sig \in kept}

\* readable: the sources whose directory can be read; the others yield nothing.
mined(h, readable, windowStart, now) ==
  LET from(name, sources) == IF name \in readable THEN sources ELSE {} IN
  mineKind("tool-sequence", from("transcripts", buildToolSequences(h.lines, windowStart)))
  \cup mineKind("file-sequence", from("specs", buildFileSequences(h.specs, now)))
  \cup mineKind("commit-pattern", from("git", buildCommitSequences(h.commits, windowStart)))
=============================================================================
