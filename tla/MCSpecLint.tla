----------------------------- MODULE MCSpecLint -----------------------------
(***************************************************************************)
(* Documents for SpecLint: three forms, each with its fixed lines and the  *)
(* lines that vary.  "batches" varies dependencies, files and batches of   *)
(* three tasks; "traces" the slug, the requirements and their test cases;  *)
(* "hidden" what the two readers take differently: fences, comments and    *)
(* headings among the tasks, tasks without a colon, indented tasks, files  *)
(* without commas or at the margin.                                        *)
(***************************************************************************)
EXTENDS SpecLint

One(l) == {l}
Section(name) == One([k |-> "section", name |-> name])
Status(token) == [k |-> "status", token |-> token, bare |-> TRUE]
Bullet(l) == [indented |-> TRUE] @@ l
Task(id, done) == [k |-> "task", id |-> id, done |-> done, colon |-> TRUE, indented |-> FALSE]
Ticked(ps) == [i \in DOMAIN ps |-> [path |-> ps[i], ticks |-> TRUE]]
Files(ps) == Bullet([k |-> "files", files |-> Ticked(ps), commas |-> Len(ps) > 1])
None == Bullet([k |-> "none"])
Depends(ids) == Bullet([k |-> "depends", ids |-> ids])
Batch(n, ids) == [k |-> "batch", index |-> n, ids |-> ids]
Shared(ps) == [k |-> "shared", files |-> Ticked(ps)]
Tests(ids) == Bullet([k |-> "tests", ids |-> ids])
Simple(k) == [k |-> k]
Fence(mark) == [k |-> "fence", mark |-> mark]

Req(slug, n) == [slug |-> slug, n |-> n]
TC(slug, type, n, digits) == [slug |-> slug, type |-> type, n |-> n, digits |-> digits]
ReqLine(id, noTest) == [k |-> "req", id |-> id, noTest |-> noTest, indented |-> FALSE]
TCLine(id, ref) == [k |-> "tc", id |-> id, ref |-> ref]

Top == <<One(Status("APPROVED")), Section("Context"), Section("Design"),
         Section("Validation Criteria")>>

batches ==
  Top \o <<Section("Requirements"), Section("Test Plan"), Section("Execution Log"), Section("Tasks"),
    One(Task("T1", TRUE)), {Files(<<"f">>), Files(<<"f", "g">>)},
    {Depends(<<>>), Depends(<<"T2">>), Depends(<<"T3", "T1">>)},
    One(Task("T2", FALSE)), {Files(<<"f">>), None},
    {Depends(<<>>), Depends(<<"T1">>), Depends(<<"T3">>), Depends(<<"T4">>)},
    {Task("T3", TRUE), Task("T1", TRUE)}, One(Files(<<"g">>)),
    {Depends(<<>>), Depends(<<"T1", "T2">>), Depends(<<"T2">>)},
    Section("Parallel Batches"),
    {Batch(1, <<"T1">>), Batch(2, <<"T1", "T2">>), Batch(2, <<"T1", "T3">>)},
    {Shared(<<"f">>), Simple("blank")},
    {Batch(1, <<"T2", "T3">>), Batch(2, <<"T2", "T3">>), Batch(1, <<"T3">>), Batch(1, <<"T2">>)},
    {Shared(<<"f", "g">>), Simple("blank")}>>

tc1 == TC(Slug, "D", 1, 2)
tc2 == TC(Slug, "UC", 2, 2)

traces ==
  <<{Status("DONE"), Status("OPEN"), [Status("DONE") EXCEPT !.bare = FALSE]},
    {Simple("blank"), [k |-> "slug", slug |-> Slug], [k |-> "slug", slug |-> "bad slug"], Status("DRAFT")},
    Section("Context"), Section("Design"), Section("Validation Criteria"),
    Section("Requirements"),
    {ReqLine(Req(Slug, 1), nt) : nt \in {"absent", "reason", "empty"}},
    {ReqLine(Req(Slug, 1), "absent"), ReqLine(Req(Slug, 2), "absent"), ReqLine(Req("OTHER", 2), "reason")},
    Section("Test Plan"),
    {Simple("blank"), TCLine(tc1, Req(Slug, 1)), TCLine(tc1, Req(Slug, 3)),
      TCLine([tc1 EXCEPT !.digits = 1], Req(Slug, 1))},
    {TCLine(tc2, Req(Slug, 2)), TCLine(tc1, Req(Slug, 2)), TCLine([tc2 EXCEPT !.type = "X"], Req(Slug, 2)),
      TCLine([tc2 EXCEPT !.slug = "lower"], Req(Slug, 2))},
    Section("Tasks"), One(Task("T1", TRUE)), {Files(<<"f">>), Files(<<>>), None},
    {Tests(<<tc1>>), Tests(<<tc1, tc2>>), Tests(<<tc2>>)},
    Section("Parallel Batches"), One(Batch(1, <<"T1">>)), Section("Execution Log") \cup One(Simple("blank"))>>

Loose ==
  {Fence("backticks"), Fence("tildes"), Simple("comment"), Simple("endComment"), Simple("blank"),
   Task("T1", TRUE), Task("T2", FALSE), Files(<<"f">>), Files(<<"g">>), Batch(1, <<"T1">>),
   [k |-> "section", name |-> "Notes"], [Task("T2", TRUE) EXCEPT !.colon = FALSE],
   [Task("T2", FALSE) EXCEPT !.indented = TRUE], [Files(<<"f", "g">>) EXCEPT !.commas = FALSE],
   [Files(<<"g">>) EXCEPT !.indented = FALSE]}

hidden ==
  Top \o <<Section("Requirements"), Section("Test Plan"), Section("Parallel Batches"), Section("Tasks"),
            One(Task("T1", TRUE)), Loose, Loose, Loose, Loose,
            Section("Execution Log"), {[k |-> "log", id |-> "T1"], Task("T1", TRUE)},
            {Simple("tdd"), [k |-> "log", id |-> "T2"]}>>

MCForms == {batches, traces, hidden}
=============================================================================
