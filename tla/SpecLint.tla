------------------------------ MODULE SpecLint ------------------------------
(***************************************************************************)
(* The two readers of a development spec (.specs/NAME.md): the linter      *)
(* tools/validate-spec, which decides whether the tasks of the spec may be *)
(* executed batch by batch, and the ingester of tools/learn, which records *)
(* the tasks that were done.  Both read the file line by line; a line is   *)
(* abstracted to what their patterns recognise in it.                      *)
(***************************************************************************)
EXTENDS Integers, SequencesExt

CONSTANTS
  Forms,     \* sets of documents: form[i] is the set of lines that may come i-th
  Slug       \* the slug a spec may declare

IsSeq(s) == s \in Seq(ToSet(s))

\* What the patterns of the readers leave of a line.  A bullet may be indented;
\* a task line may lack the colon after its id; a file is spelled with or without
\* backticks, in a list with or without commas.
Bullets == {"req", "task", "files", "none", "tests", "depends"}

IsLine(l) ==
  /\ l.k \in Bullets => l.indented \in BOOLEAN
  /\ l.k = "task" => l.done \in BOOLEAN /\ l.colon \in BOOLEAN
  /\ l.k = "files" => l.commas \in BOOLEAN
  /\ l.k \in {"files", "shared"} => IsSeq(l.files)
  /\ l.k \in {"tests", "depends", "batch"} => IsSeq(l.ids)
  /\ l.k = "batch" => l.index \in Nat
  /\ l.k = "req" => l.noTest \in {"absent", "empty", "reason"}

ASSUME FormsAssumption ==
  \A f \in Forms : IsSeq(f) /\ \A i \in DOMAIN f : \A l \in f[i] : IsLine(l)

\* Sections the linter asks for; Status is a heading of its own.
requiredSectionNames ==
  {"Context", "Requirements", "Test Plan", "Design", "Tasks", "Parallel Batches",
   "Validation Criteria", "Execution Log"}

validStatuses == {"DRAFT", "APPROVED", "IN_PROGRESS", "DONE", "FAILED", "SUPERSEDED", "ARCHIVED"}
registeredTCTypes == {"D", "UC", "E2E", "S", "SH", "CT"}

VARIABLES
  form,      \* the form of the document
  doc,       \* the lines read so far
  m,         \* the linter: its model of the spec and where it is in the file
  learned,   \* the ingester: its records and where it is in the file
  errors,    \* the linter's errors, once it has read the whole file
  exit       \* its exit code, -1 before

lintVars == <<form, doc, m, learned, errors, exit>>

-----------------------------------------------------------------------------
(***************************************************************************)
(* The parser of the linter                                                *)
(***************************************************************************)
newTask(id) == [id |-> id, files |-> <<>>, tests |-> <<>>, depends |-> <<>>, execOnly |-> FALSE]

emptyModel ==
  [status |-> "", bare |-> TRUE, statusLineCount |-> 0, slug |-> "", slugLineCount |-> 0,
   sections |-> {}, reqs |-> <<>>, tcs |-> <<>>, tasks |-> <<>>, batches |-> <<>>,
   currentTask |-> <<>>, currentSection |-> "", fence |-> "",
   inComment |-> FALSE]

finalizeTask(p) == [p EXCEPT !.tasks = @ \o p.currentTask, !.currentTask = <<>>]

\* The linter's pattern of a task: done or not, indented or not.
declares(l) == l.k = "task" /\ l.colon

\* Backticks stay part of a file's name.
parseTaskSubItem(t, l) ==
  CASE l.k = "files"   -> [t EXCEPT !.files = @ \o l.files]
    [] l.k = "none"    -> [t EXCEPT !.execOnly = TRUE]
    [] l.k = "tests"   -> [t EXCEPT !.tests = @ \o l.ids]
    [] l.k = "depends" -> [t EXCEPT !.depends = @ \o l.ids]
    [] OTHER           -> t

\* A status or slug line is no section of its own.
parseHeading(p, l) == LET f == finalizeTask(p) IN
  CASE l.k = "status" /\ p.statusLineCount = 0 ->
         [f EXCEPT !.statusLineCount = 1, !.status = l.token, !.bare = l.bare]
    [] l.k = "status" /\ p.statusLineCount # 0 -> [f EXCEPT !.statusLineCount = @ + 1]
    [] l.k = "slug" /\ p.slugLineCount = 0 -> [f EXCEPT !.slugLineCount = 1, !.slug = l.slug]
    [] l.k = "slug" /\ p.slugLineCount # 0 -> [f EXCEPT !.slugLineCount = @ + 1]
    [] OTHER -> [f EXCEPT !.sections = @ \cup {l.name}, !.currentSection = l.name]

\* A shared-additive line belongs to the last batch line, wherever that was.
parseBody(p, l) == LET in(section) == p.currentSection = section IN
  CASE in("Requirements") /\ l.k = "req" -> [p EXCEPT !.reqs = Append(@, l)]
    [] in("Test Plan") /\ l.k = "tc"     -> [p EXCEPT !.tcs = Append(@, l)]
    [] in("Tasks") /\ declares(l) ->
         [finalizeTask(p) EXCEPT !.currentTask = <<newTask(l.id)>>]
    [] in("Tasks") /\ ~declares(l) /\ p.currentTask # <<>> ->
         [p EXCEPT !.currentTask[1] = parseTaskSubItem(@, l)]
    [] in("Parallel Batches") /\ l.k = "shared" /\ p.batches # <<>> ->
         [p EXCEPT !.batches[Len(p.batches)].sharedAdditive = @ \o l.files]
    [] OTHER -> p

Blank == [k |-> "blank"]

\* What is left of a line once comments are stripped, which fences prevent.
stripComments(p, l) ==
  IF p.fence = "" /\ (p.inComment \/ l.k \in {"comment", "endComment"}) THEN Blank ELSE l

commentAfter(p, l) ==
  IF p.fence # "" THEN p.inComment
  ELSE l.k = "comment" \/ (p.inComment /\ l.k # "endComment")

\* Batch lines count even inside a fence; fences are recognised even inside a
\* comment.
parseLine(p, l) ==
  IF l.k = "fence" /\ p.fence \in {"", l.mark}
  THEN [p EXCEPT !.fence = IF @ = "" THEN l.mark ELSE ""]
  ELSE LET seen == stripComments(p, l)
           q == [p EXCEPT !.inComment = commentAfter(p, l),
                          !.batches = IF seen.k # "batch" THEN @
                                      ELSE Append(@, [index |-> seen.index, taskIDs |-> seen.ids,
                                                      sharedAdditive |-> <<>>])]
       IN  IF q.fence # "" \/ q.inComment THEN q
           ELSE IF seen.k \in {"status", "slug", "section"} THEN parseHeading(q, seen)
           ELSE parseBody(q, seen)

-----------------------------------------------------------------------------
(***************************************************************************)
(* The validators: each gives the set of its findings                      *)
(***************************************************************************)
found(rule, subjects) == {<<rule, x>> : x \in subjects}
TaskIds(p) == {t.id : t \in ToSet(p.tasks)}
TCIds(p) == {tc.id : tc \in ToSet(p.tcs)}

validateRequiredSections(p) ==
  found("section", (requiredSectionNames \ p.sections)
                   \cup IF p.statusLineCount = 0 THEN {"Status"} ELSE {})

validateStatusHeader(p) ==
  found("status", IF p.statusLineCount # 1 \/ p.status \notin validStatuses \/ ~p.bare
                  THEN {p.status} ELSE {})

\* Only Slug, among the slugs a document may declare, is well formed.
validateSlugDeclared(p) ==
  found("slug", IF p.slugLineCount > 1 \/ (p.slugLineCount = 1 /\ p.slug # Slug)
                THEN {p.slug} ELSE {})

\* Mutant: an exemption needs no reason.
validateReqCoveredAnyReason(p) ==
  found("reqCovered", {r.id : r \in {r \in ToSet(p.reqs) :
    r.noTest = "absent" /\ \A tc \in ToSet(p.tcs) : tc.ref # r.id}})

validateReqCovered(p) ==
  found("reqCovered", {r.id : r \in {r \in ToSet(p.reqs) :
    IF r.noTest = "absent" THEN \A tc \in ToSet(p.tcs) : tc.ref # r.id
    ELSE r.noTest = "empty"}})

validateTaskHasFiles(p) ==
  found("files", {t.id : t \in {t \in ToSet(p.tasks) : ~t.execOnly /\ t.files = <<>>}})

validateTestsRefValid(p) ==
  found("testsRef", IF p.slug = "" THEN {}
    ELSE (UNION {ToSet(t.tests) : t \in ToSet(p.tasks)}) \ TCIds(p))

validateTCReferenced(p) ==
  found("tcReferenced", IF p.slug = "" THEN {}
    ELSE TCIds(p) \ UNION {ToSet(t.tests) : t \in ToSet(p.tasks)})

validateTCRefValid(p) ==
  found("tcRef", {tc.id : tc \in {tc \in ToSet(p.tcs) :
                    \A r \in ToSet(p.reqs) : r.id # tc.ref}})

validateDependsExist(p) ==
  found("dependsExist", (UNION {ToSet(t.depends) : t \in ToSet(p.tasks)}) \ TaskIds(p))

\* A map filled in the order of the tasks keeps the last of one id.
lastTask(p, id) == LET of == {i \in DOMAIN p.tasks : p.tasks[i].id = id} IN
  IF of = {} THEN newTask(id) ELSE p.tasks[Max(of)]

adjacency(p, id) == lastTask(p, id).depends

Nodes(p) == TaskIds(p) \cup UNION {ToSet(t.depends) : t \in ToSet(p.tasks)}
Colors(p) == [Nodes(p) -> {"white", "gray", "black"}]

\* The loop of dfs over the dependencies of a node: search[color][dep] is the call for a
\* white one.
visitDep(r, dep, search) ==
  IF r.cycle \/ r.color[dep] = "black" THEN r
  ELSE IF r.color[dep] = "gray" THEN [r EXCEPT !.cycle = TRUE]
  ELSE search[r.color][dep]

visitDeps(p, color, node, search) ==
  FoldLeft(LAMBDA r, dep : visitDep(r, dep, search), [cycle |-> FALSE, color |-> color], adjacency(p, node))

\* Mutant: a node that is done stays gray.
visitStaysGray(p, color, node, search) ==
  visitDeps(p, [color EXCEPT ![node] = "gray"], node, search)

visit(p, color, node, search) ==
  LET r == visitDeps(p, [color EXCEPT ![node] = "gray"], node, search)
  IN  IF r.cycle THEN r ELSE [r EXCEPT !.color[node] = "black"]

\* dfs, by the depth its recursion may reach.  Every call turns one more node
\* gray, so it never gets deeper than there are nodes.
dfs(p) ==
  LET search[depth \in 0..Cardinality(Nodes(p))] ==
        [color \in Colors(p) |-> [node \in Nodes(p) |->
           IF depth = 0 THEN [cycle |-> FALSE, color |-> color]
           ELSE visit(p, color, node, search[depth - 1])]]
  IN  search[Cardinality(Nodes(p))]

\* Every task not yet visited starts a search; a cycle blackens what was.
searchFrom(p, s, t) ==
  LET r == dfs(p)[s.color][t.id] IN
  IF s.color[t.id] # "white" THEN s
  ELSE IF ~r.cycle THEN [s EXCEPT !.color = r.color]
  ELSE [fs |-> s.fs \cup {<<"cycle", t.id>>},
        color |-> [n \in Nodes(p) |-> IF r.color[n] = "white" THEN "white" ELSE "black"]]

validateDependsDAG(p) ==
  FoldLeft(LAMBDA s, t : searchFrom(p, s, t), [fs |-> {}, color |-> [n \in Nodes(p) |-> "white"]], p.tasks).fs

\* Where batch lines list a task.
listings(p, id) ==
  UNION {{<<i, j>> : j \in {j \in DOMAIN p.batches[i].taskIDs : p.batches[i].taskIDs[j] = id}} :
           i \in DOMAIN p.batches}

validateBatchMembership(p) ==
  found("membership", {id \in TaskIds(p) : Cardinality(listings(p, id)) # 1})

\* The files the tasks of a batch list, each with its place: which task, which
\* line.
claims(p, b) == UNION {{<<i, j>> : j \in DOMAIN lastTask(p, b.taskIDs[i]).files} : i \in DOMAIN b.taskIDs}
claimed(p, b, c) == lastTask(p, b.taskIDs[c[1]]).files[c[2]]

claimedTwice(p, b) ==
  {claimed(p, b, c) : c \in {c \in claims(p, b) : \E d \in claims(p, b) \ {c} : claimed(p, b, d) = claimed(p, b, c)}}

\* Mutant: the shared-additive files of any batch excuse an overlap.
validateBatchFileOverlapAny(p) ==
  found("overlap", {b.index : b \in {b \in ToSet(p.batches) :
    claimedTwice(p, b) \ UNION {ToSet(c.sharedAdditive) : c \in ToSet(p.batches)} # {}}})

validateBatchFileOverlap(p) ==
  found("overlap", {b.index : b \in {b \in ToSet(p.batches) :
    claimedTwice(p, b) \ ToSet(b.sharedAdditive) # {}}})

\* The number of the last batch line that lists a task, if one does.
batchOf(p, id) == LET with == {i \in DOMAIN p.batches : id \in ToSet(p.batches[i].taskIDs)} IN
  IF with = {} THEN {} ELSE {p.batches[Max(with)].index}

validateBatchOrder(p) ==
  found("order", {t.id : t \in {t \in ToSet(p.tasks) :
    \E d \in ToSet(t.depends) : \E x \in batchOf(p, t.id), y \in batchOf(p, d) : y >= x}})

\* With a slug every id carries it; without one only test cases are looked at,
\* which may have a well-formed slug or none.
validateIDFormat(p) ==
  LET badTC(tc) == \/ tc.id.type \notin registeredTCTypes \/ tc.id.digits < 2
                   \/ tc.id.slug \notin IF p.slug = "" THEN {"", Slug} ELSE {p.slug}
  IN  found("format", {tc.id : tc \in {tc \in ToSet(p.tcs) : badTC(tc)}}
                      \cup {r.id : r \in {r \in ToSet(p.reqs) : p.slug # "" /\ r.id.slug # p.slug}})

validateIDUnique(p) ==
  LET twice(s) == {s[j].id : j \in {j \in DOMAIN s : \E i \in 1..(j - 1) : s[i].id = s[j].id}}
  IN  found("unique", twice(p.reqs) \cup twice(p.tcs))

\* The errors; the missing tests of a task and the missing link to a capability
\* are only warnings.
validate(p) ==
  validateRequiredSections(p) \cup validateStatusHeader(p) \cup validateSlugDeclared(p)
  \cup validateReqCovered(p) \cup validateTaskHasFiles(p) \cup validateDependsDAG(p)
  \cup validateDependsExist(p) \cup validateBatchMembership(p) \cup validateBatchFileOverlap(p)
  \cup validateBatchOrder(p) \cup validateIDFormat(p) \cup validateIDUnique(p)
  \cup validateTCRefValid(p) \cup validateTestsRefValid(p) \cup validateTCReferenced(p)

-----------------------------------------------------------------------------
(***************************************************************************)
(* The ingester of the learning loop                                       *)
(***************************************************************************)
nothingLearned ==
  [status |-> "", records |-> <<>>, block |-> <<>>, inExecLog |-> FALSE, entry |-> <<>>]

flushTask(q) == [q EXCEPT !.records = @ \o q.block, !.block = <<>>]
flushLog(q) == [q EXCEPT !.records = @ \o q.entry, !.entry = <<>>]

learnHeading(q, l) ==
  [(IF q.inExecLog THEN flushLog(flushTask(q)) ELSE flushTask(q)) EXCEPT
     !.inExecLog = l.k = "section" /\ l.name = "Execution Log",
     !.status = IF l.k = "status" /\ l.bare THEN l.token ELSE @]

learnLog(q, l) ==
  CASE l.k = "log" ->
         [flushLog(q) EXCEPT !.entry = <<[kind |-> "spec-tdd-step", id |-> l.id, tokens |-> <<>>]>>]
    [] l.k = "tdd" /\ q.entry # <<>> ->
         [q EXCEPT !.entry[1].tokens = <<"RED", "GREEN", "REFACTOR">>]
    [] OTHER -> q

\* The ingester's pattern of a task: done, at the margin, colon or not.
takes(l) == l.k = "task" /\ l.done /\ ~l.indented

\* Only commas separate files here, and the backticks go.
splitFiles(l) ==
  IF l.commas \/ Len(l.files) <= 1 THEN [i \in DOMAIN l.files |-> l.files[i].path]
  ELSE <<"several paths as one">>

\* Every bullet at the margin ends a block, a task that is not done like any other.
endsBlock(l) == l.k \in {"blank", "log"} \/ (l.k \in Bullets /\ ~l.indented)

\* Mutant: a task that is not done leaves the block open.
learnBodyRunsOn(q, l) ==
  IF takes(l)
  THEN [flushTask(q) EXCEPT !.block = <<[kind |-> "spec-task", id |-> l.id, tokens |-> <<>>]>>]
  ELSE CASE l.k = "files" /\ l.indented /\ q.block # <<>> -> [q EXCEPT !.block[1].tokens = @ \o splitFiles(l)]
         [] l.k = "none" /\ l.indented /\ q.block # <<>>  -> [q EXCEPT !.block[1].tokens = Append(@, "(none)")]
         [] l.k # "task" /\ endsBlock(l) -> flushTask(q)
         [] OTHER -> q

\* Fences and comments mean nothing here, and "(none)" is a file like any other.
learnBody(q, l) ==
  IF takes(l)
  THEN [flushTask(q) EXCEPT !.block = <<[kind |-> "spec-task", id |-> l.id, tokens |-> <<>>]>>]
  ELSE CASE l.k = "files" /\ l.indented /\ q.block # <<>> -> [q EXCEPT !.block[1].tokens = @ \o splitFiles(l)]
         [] l.k = "none" /\ l.indented /\ q.block # <<>>  -> [q EXCEPT !.block[1].tokens = Append(@, "(none)")]
         [] endsBlock(l) -> flushTask(q)
         [] OTHER -> q

learnLine(q, l) ==
  IF l.k \in {"status", "slug", "section"} THEN learnHeading(q, l)
  ELSE IF q.inExecLog THEN learnLog(q, l)
  ELSE learnBody(q, l)

\* The status record comes first; "spec-status-transition" only once execution
\* has begun.
learnEnd(q) ==
  LET r == IF q.inExecLog THEN flushLog(flushTask(q)) ELSE flushTask(q) IN
  IF q.status \in {"IN_PROGRESS", "DONE", "FAILED"}
  THEN [r EXCEPT !.records = <<[kind |-> "spec-status-transition", id |-> "", tokens |-> <<q.status>>]>> \o @]
  ELSE r

-----------------------------------------------------------------------------
LintInit ==
  /\ form \in Forms
  /\ doc = <<>>
  /\ m = emptyModel
  /\ learned = nothingLearned
  /\ errors = {}
  /\ exit = -1

ReadLine ==
  /\ Len(doc) < Len(form)
  /\ \E l \in form[Len(doc) + 1] :
       /\ doc' = Append(doc, l)
       /\ m' = parseLine(m, l)
       /\ learned' = learnLine(learned, l)
  /\ UNCHANGED <<form, errors, exit>>

\* runLint: the exit code follows from the errors alone.
EndOfFile ==
  /\ exit = -1
  /\ Len(doc) = Len(form)
  /\ m' = finalizeTask(m)
  /\ learned' = learnEnd(learned)
  /\ errors' = validate(m')
  /\ exit' = IF errors' = {} THEN 0 ELSE 1
  /\ UNCHANGED <<form, doc>>

LintNext == ReadLine \/ EndOfFile
LintSpec == LintInit /\ [][LintNext]_lintVars

-----------------------------------------------------------------------------
(***************************************************************************)
(* Properties                                                              *)
(***************************************************************************)
Distinct(s, key(_)) == \A i, j \in DOMAIN s : key(s[i]) = key(s[j]) => i = j

\* A spec the linter passes can be executed batch by batch: every task runs in
\* exactly one batch, after everything it depends on, and no two tasks that run
\* side by side write one file unless it is shared-additive (validate.go:394-481).
\* No rule forbids two tasks of one id or two batches of one number, so that is
\* assumed.
CleanSpecRunsInBatches ==
  exit = 0 /\ Distinct(m.tasks, LAMBDA t : t.id) /\ Distinct(m.batches, LAMBDA b : b.index) =>
    \A t \in ToSet(m.tasks) :
      \E b \in ToSet(m.batches) :
        /\ t.id \in ToSet(b.taskIDs)
        /\ \A c \in ToSet(m.batches) \ {b} : t.id \notin ToSet(c.taskIDs)
        /\ \A d \in ToSet(t.depends) : \E c \in ToSet(m.batches) :
             d \in ToSet(c.taskIDs) /\ c.index < b.index /\ d \in TaskIds(m)
        /\ \A u \in ToSet(m.tasks) : u.id # t.id /\ u.id \in ToSet(b.taskIDs) =>
             ToSet(t.files) \cap ToSet(u.files) \subseteq ToSet(b.sharedAdditive)

\* The search for cycles reports one exactly when the dependencies have one,
\* whatever the order of declarations: some tasks of which each depends on one of
\* them (validate.go:322-374).
DagCheckIsExact == exit # -1 =>
  ((\E id \in TaskIds(m) : <<"cycle", id>> \in errors)
   <=> \E C \in SUBSET TaskIds(m) : C # {} /\ \A a \in C : ToSet(adjacency(m, a)) \cap C # {})

\* In a spec with a slug that the linter passes, every requirement without an
\* exemption is tested by a declared test case that some task must run
\* (validate.go:187-268, 593-607).
CleanSpecTracesRequirements ==
  exit = 0 /\ m.slug # "" =>
    \A r \in ToSet(m.reqs) : r.noTest = "reason" \/
      \E tc \in ToSet(m.tcs), t \in ToSet(m.tasks) :
        tc.ref = r.id /\ tc.id \in ToSet(t.tests) /\ tc.id.slug = m.slug

\* The ids the ingester takes from lines that declare nothing to the linter: they
\* lack the colon, or stand outside the tasks.
underTasks(d, i) ==
  \E j \in 1..i : d[j] = [k |-> "section", name |-> "Tasks"] /\ \A n \in (j + 1)..i : d[n].k # "section"

undeclared(d) ==
  {d[i].id : i \in {i \in DOMAIN d : takes(d[i]) /\ ~(declares(d[i]) /\ underTasks(d, i))}}

\* Neither a task that only the linter sees, nor a list of files that only the
\* linter takes apart.
readAlike(l) == (declares(l) => ~l.indented) /\ (l.k = "files" => l.commas \/ Len(l.files) <= 1)

\* What the learning loop remembers of a spec that hides nothing in fences or
\* comments: each remembered task is one the linter read, but for those whose own
\* line is not of the linter's form; and where both readers take all lines alike, each
\* remembered file but the sentinel is a file of that task (ingest_spec.go:63-284,
\* parser.go:58-225).
LearnedTasksAreDeclared ==
  exit # -1 /\ (\A i \in DOMAIN doc : doc[i].k \notin {"fence", "comment"}) =>
    \A r \in ToSet(learned.records) : r.kind = "spec-task" /\ r.id \notin undeclared(doc) =>
      \E t \in ToSet(m.tasks) :
        /\ t.id = r.id
        /\ (\A i \in DOMAIN doc : readAlike(doc[i])) =>
             ToSet(r.tokens) \ {"(none)"} \subseteq {f.path : f \in ToSet(t.files)}
=============================================================================
