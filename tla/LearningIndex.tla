--------------------------- MODULE LearningIndex ---------------------------
(***************************************************************************)
(* The index of the learning loop (tools/learn): which skills and memories *)
(* there are, when they were last used, and how many loops have completed. *)
(* reindex, track-use, complete-task and nudge-tick are processes of their *)
(* own that meet in one SQLite file; a statement is atomic, a command is   *)
(* not, and the markdown files change under all of them.                   *)
(***************************************************************************)
EXTENDS Naturals, FiniteSets, Sequences

CONSTANTS
  Skills, Memories,   \* the paths, each a sequence in the order of sort.Strings
  Bodies,             \* what a file may hold
  Procs,              \* processes that may run at the same time
  Plans,              \* what happens: the commands, in the order they are started, and
                      \* the bounds: days, changes of files and kills
  TTLDays, NudgeThreshold,
  MaxRun,             \* bound: days a command may take
  Nothing             \* no file, no row, no use

PathsOf(s) == {s[i] : i \in DOMAIN s}
Artifacts == PathsOf(Skills) \cup PathsOf(Memories)

\* ok says the frontmatter of a file parses.
File == [body : Bodies, ok : BOOLEAN, mtime : Nat]
Row == [body : Bodies, at : Nat]

\* A command: the subcommand, --since-mtime, and the paths it is given.
Command == [op : {"reindex", "completeTask", "reset", "list"}, since : Nat, paths : {<<>>}]
             \cup [op : {"reindexPath", "trackUse"}, since : Nat, paths : Seq(Artifacts) \ {<<>>}]

ASSUME IndexAssumption ==
  /\ Skills \in Seq(PathsOf(Skills)) /\ Memories \in Seq(PathsOf(Memories))
  /\ PathsOf(Skills) \cap PathsOf(Memories) = {}
  /\ IsFiniteSet(Procs)
  /\ \A plan \in Plans : /\ plan.commands \in Seq(Command)
                         /\ plan.left \in [{"days", "changes", "kills"} -> Nat]
  /\ TTLDays \in Nat \ {0} /\ NudgeThreshold \in Nat \ {0} /\ MaxRun \in Nat
  /\ Nothing \notin File \cup Row \cup Nat

VARIABLES
  disk,       \* disk[a]: the file
  retired,    \* the paths with a counterpart under _deprecated/
  index,      \* index[a]: the row of skill_index or memory_index
  usage,      \* usage[a]: last_used_at of its usage row
  events,     \* the number of rows of the events table
  counter,    \* nudge_state.counter
  now,        \* the day
  todo,       \* the commands yet to start
  left,       \* the days, changes and kills yet to come
  proc,       \* proc[p]: the command p runs or ran last
  quiet,      \* history: finished or running reindexes nobody has interfered with
  reported,   \* history: reported[a] is the last day a session reported a use
  epoch,      \* history: how many resets there were
  loops,      \* history: complete-tasks counted and ended since the last reset
  signalled   \* history: one of them has signalled

files == <<disk, retired>>
nudges == <<events, counter, epoch, loops, signalled>>
vars == <<files, index, usage, nudges, now, todo, left, proc, quiet, reported>>

-----------------------------------------------------------------------------
\* A process: its command, and what it holds of the files, the tables and the counter.
Idle == [pc |-> "done", op |-> "none", at |-> 0, since |-> 0, paths |-> <<>>, toRead |-> {},
         held |-> Nothing, rows |-> {}, epoch |-> 0, count |-> 0, failed |-> FALSE, report |-> {}]

Init ==
  /\ \E b \in Bodies : disk \in [Artifacts -> {[body |-> b, ok |-> TRUE, mtime |-> 0], Nothing}]
  /\ retired = {}
  /\ index = [a \in Artifacts |-> Nothing]
  /\ usage = [a \in Artifacts |-> Nothing]
  /\ reported = [a \in Artifacts |-> Nothing]
  /\ events = 0 /\ counter = 0 /\ epoch = 0 /\ loops = 0 /\ signalled = FALSE
  /\ now = 0 /\ quiet = {}
  /\ \E plan \in Plans : todo = plan.commands /\ left = plan.left
  /\ proc = [p \in Procs |-> Idle]

Running(p) == proc[p].pc # "done"
At(p, pc) == proc[p].pc = pc
Goto(p, pc) == proc' = [proc EXCEPT ![p].pc = pc]
Fail(p) == proc' = [proc EXCEPT ![p].pc = "done", ![p].failed = TRUE]

\* A step of p that writes the index or the usage disturbs every other reindex.
Disturbs(p) == quiet' = quiet \cap {p}

firstStep == [reindex |-> "scanSkills", reindexPath |-> "stat", trackUse |-> "bump",
              completeTask |-> "insertEvent", reset |-> "markNudgeRun", list |-> "list"]

Start(p) ==
  /\ ~Running(p) /\ todo # <<>>
  /\ LET c == todo[1] IN
     /\ proc' = [proc EXCEPT ![p] =
          [Idle EXCEPT !.pc = firstStep[c.op], !.op = c.op, !.at = now, !.since = c.since, !.paths = c.paths]]
     /\ quiet' = IF c.op = "reindex" THEN quiet \cup {p} ELSE quiet \ {p}
  /\ todo' = Tail(todo)
  /\ UNCHANGED <<files, index, usage, nudges, now, left, reported>>

-----------------------------------------------------------------------------
(***************************************************************************)
(* reindex: scan the two directories, read and upsert file by file, then   *)
(* drop the rows whose file is gone                                        *)
(***************************************************************************)
fileExists(a) == disk[a] # Nothing

mtimeMatches(a, since, day) == since = 0 \/ day <= disk[a].mtime + since

\* The files p is to look at: all of them, or those written of late.
isLooked(p, a) == fileExists(a) /\ mtimeMatches(a, proc[p].since, proc[p].at)
scanned(paths, p) == {a \in paths : isLooked(p, a)}

\* The skills come before the memories, both sorted.
scanOrder == Skills \o Memories
isNext(p, a) ==
  \E i \in DOMAIN scanOrder : /\ scanOrder[i] = a /\ a \in proc[p].toRead
                              /\ \A j \in 1..(i - 1) : scanOrder[j] \notin proc[p].toRead

scanSkillFiles(p) ==
  /\ At(p, "scanSkills")
  /\ proc' = [proc EXCEPT ![p].pc = "scanMemory", ![p].toRead = scanned(PathsOf(Skills), p)]
  /\ UNCHANGED <<files, index, usage, nudges, now, todo, left, quiet, reported>>

scanMemoryFiles(p) ==
  /\ At(p, "scanMemory")
  /\ proc' = [proc EXCEPT ![p].pc = "parse", ![p].toRead = @ \cup scanned(PathsOf(Memories), p)]
  /\ UNCHANGED <<files, index, usage, nudges, now, todo, left, quiet, reported>>

\* reindex --path takes a file there is, and skips a deprecated one.
statPath(p) ==
  /\ At(p, "stat")
  /\ LET a == proc[p].paths[1] IN
       IF fileExists(a) THEN proc' = [proc EXCEPT ![p].pc = "parse", ![p].toRead = {a}] ELSE Fail(p)
  /\ UNCHANGED <<files, index, usage, nudges, now, todo, left, quiet, reported>>

\* A skill and a memory must both begin with a frontmatter that is YAML.
parses(a) == fileExists(a) /\ disk[a].ok

\* Mutant: a file that does not parse is skipped.
parseFileLenient(p) ==
  /\ At(p, "parse")
  /\ \E a \in Artifacts :
       /\ isNext(p, a)
       /\ proc' = IF parses(a) THEN [proc EXCEPT ![p].pc = "upsert", ![p].held = disk[a].body]
                               ELSE [proc EXCEPT ![p].toRead = @ \ {a}]
  /\ UNCHANGED <<files, index, usage, nudges, now, todo, left, quiet, reported>>

\* The next file is read; one that is gone or does not parse ends the command.
parseFile(p) ==
  /\ At(p, "parse")
  /\ \E a \in Artifacts :
       /\ isNext(p, a)
       /\ IF parses(a)
            THEN proc' = [proc EXCEPT ![p].pc = "upsert", ![p].held = disk[a].body]
            ELSE Fail(p)
  /\ UNCHANGED <<files, index, usage, nudges, now, todo, left, quiet, reported>>

upsert(p) ==
  /\ At(p, "upsert")
  /\ \E a \in Artifacts :
       /\ isNext(p, a)
       /\ index' = [index EXCEPT ![a] = [body |-> proc[p].held, at |-> proc[p].at]]
       /\ proc' = [proc EXCEPT ![p].pc = "parse", ![p].toRead = @ \ {a}, ![p].held = Nothing]
  /\ Disturbs(p)
  /\ UNCHANGED <<files, usage, nudges, now, todo, left, reported>>

allUpserted(p) ==
  /\ At(p, "parse") /\ proc[p].toRead = {}
  /\ Goto(p, IF proc[p].op = "reindex" THEN "listSkills" ELSE "done")
  /\ UNCHANGED <<files, index, usage, nudges, now, todo, left, quiet, reported>>

listRows(p) ==
  /\ proc[p].pc \in {"listSkills", "listMemory"}
  /\ LET skills == At(p, "listSkills")
         paths == PathsOf(IF skills THEN Skills ELSE Memories) IN
     proc' = [proc EXCEPT ![p].pc = IF skills THEN "pruneSkills" ELSE "pruneMemory",
                          ![p].rows = {a \in paths : index[a] # Nothing}]
  /\ UNCHANGED <<files, index, usage, nudges, now, todo, left, quiet, reported>>

afterPrune == [pruneSkills |-> "listMemory", pruneMemory |-> "done"]

\* The rows come in no stated order.
checkOrphan(p, a) ==
  /\ proc[p].pc \in DOMAIN afterPrune /\ proc[p].held = Nothing /\ a \in proc[p].rows
  /\ IF fileExists(a) \/ a \in retired
       THEN proc' = [proc EXCEPT ![p].rows = @ \ {a}]
       ELSE proc' = [proc EXCEPT ![p].held = a]
  /\ UNCHANGED <<files, index, usage, nudges, now, todo, left, quiet, reported>>

\* The usage row references the index row, foreign keys are on.
deleteOrphan(p) ==
  /\ proc[p].pc \in DOMAIN afterPrune /\ proc[p].held # Nothing
  /\ LET a == proc[p].held IN
       IF usage[a] # Nothing
         THEN Fail(p) /\ UNCHANGED <<index, quiet>>
         ELSE /\ index' = [index EXCEPT ![a] = Nothing]
              /\ proc' = [proc EXCEPT ![p].rows = @ \ {a}, ![p].held = Nothing]
              /\ Disturbs(p)
  /\ UNCHANGED <<files, usage, nudges, now, todo, left, reported>>

allChecked(p) ==
  /\ proc[p].pc \in DOMAIN afterPrune /\ proc[p].held = Nothing /\ proc[p].rows = {}
  /\ Goto(p, afterPrune[proc[p].pc])
  /\ UNCHANGED <<files, index, usage, nudges, now, todo, left, quiet, reported>>

-----------------------------------------------------------------------------
(***************************************************************************)
(* track-use, complete-task, nudge-tick                                    *)
(***************************************************************************)
\* Mutant: DO UPDATE leaves last_used_at alone.
bumpedUsageOnce(a, day) ==
  IF index[a] = Nothing \/ usage[a] # Nothing THEN usage ELSE [usage EXCEPT ![a] = day]

\* INSERT ... SELECT ... ON CONFLICT: a path that is in no index is skipped.
bumpedUsage(a, day) == IF index[a] = Nothing THEN usage ELSE [usage EXCEPT ![a] = day]

trackUse(p) ==
  /\ At(p, "bump")
  /\ LET a == proc[p].paths[1] IN
     /\ usage' = bumpedUsage(a, proc[p].at)
     /\ reported' = [reported EXCEPT ![a] = IF @ = Nothing \/ @ < proc[p].at THEN proc[p].at ELSE @]
  /\ proc' = [proc EXCEPT ![p].pc = IF Len(proc[p].paths) = 1 THEN "done" ELSE "bump", ![p].paths = Tail(@)]
  /\ Disturbs(p)
  /\ UNCHANGED <<files, index, nudges, now, todo, left>>

insertEvent(p) ==
  /\ At(p, "insertEvent")
  /\ events' = events + 1
  /\ Goto(p, "increment")
  /\ UNCHANGED <<files, index, usage, counter, epoch, loops, signalled, now, todo, left, quiet, reported>>

incrementNudgeCounter(p) ==
  /\ At(p, "increment")
  /\ counter' = counter + 1
  /\ proc' = [proc EXCEPT ![p].pc = "signal", ![p].count = counter + 1, ![p].epoch = epoch]
  /\ UNCHANGED <<files, index, usage, events, epoch, loops, signalled, now, todo, left, quiet, reported>>

\* Mutant: only the loop that reaches the threshold signals.
nudgeDueOnce(newCounter) == newCounter = NudgeThreshold

nudgeDue(newCounter) == newCounter >= NudgeThreshold

signal(p) ==
  /\ At(p, "signal")
  /\ LET current == proc[p].epoch = epoch IN
     /\ loops' = IF current THEN loops + 1 ELSE loops
     /\ signalled' = (signalled \/ (current /\ nudgeDue(proc[p].count)))
  /\ Goto(p, "done")
  /\ UNCHANGED <<files, index, usage, events, counter, epoch, now, todo, left, quiet, reported>>

markNudgeRun(p) ==
  /\ At(p, "markNudgeRun")
  /\ counter' = 0 /\ epoch' = epoch + 1 /\ loops' = 0 /\ signalled' = FALSE
  /\ Goto(p, "done")
  /\ UNCHANGED <<files, index, usage, events, now, todo, left, quiet, reported>>

listDeprecationCandidates(day) ==
  {a \in Artifacts : /\ index[a] # Nothing /\ index[a].at + 2 * TTLDays <= day
                     /\ usage[a] = Nothing \/ usage[a] + TTLDays <= day}

nudgeTick(p) ==
  /\ At(p, "list")
  /\ proc' = [proc EXCEPT ![p].pc = "done", ![p].report = listDeprecationCandidates(proc[p].at)]
  /\ UNCHANGED <<files, index, usage, nudges, now, todo, left, quiet, reported>>

-----------------------------------------------------------------------------
(***************************************************************************)
(* Kills, time, and those who write the files                              *)
(***************************************************************************)
Spend(what) == left[what] > 0 /\ left' = [left EXCEPT ![what] = @ - 1]

\* p is killed, or one of its statements fails (a locked or broken database): the
\* command ends where it stands, and what it has written stays.
Crash(p) ==
  /\ Running(p) /\ Spend("kills")
  /\ proc' = [proc EXCEPT ![p] = Idle]
  /\ quiet' = quiet \ {p}
  /\ UNCHANGED <<files, index, usage, nudges, now, todo, reported>>

NextDay ==
  /\ Spend("days") /\ \A p \in Procs : Running(p) => now < proc[p].at + MaxRun
  /\ now' = now + 1
  /\ UNCHANGED <<files, index, usage, nudges, todo, proc, quiet, reported>>

Changed == Spend("changes") /\ quiet' = {}

Write(a) ==
  /\ Changed
  /\ \E b \in Bodies, ok \in BOOLEAN : disk' = [disk EXCEPT ![a] = [body |-> b, ok |-> ok, mtime |-> now]]
  /\ UNCHANGED <<retired, index, usage, nudges, now, todo, proc, reported>>

\* Deleted, or moved to the time-stamped name apply-decision gives a deprecated
\* file, which is none of the names the pruning looks for.
Delete(a) ==
  /\ Changed /\ fileExists(a)
  /\ disk' = [disk EXCEPT ![a] = Nothing]
  /\ UNCHANGED <<retired, index, usage, nudges, now, todo, proc, reported>>

\* Moved to _deprecated/ under its own name.
Retire(a) ==
  /\ Changed /\ fileExists(a)
  /\ disk' = [disk EXCEPT ![a] = Nothing] /\ retired' = retired \cup {a}
  /\ UNCHANGED <<index, usage, nudges, now, todo, proc, reported>>

Next ==
  \/ \E p \in Procs :
       \/ Start(p) \/ Crash(p)
       \/ scanSkillFiles(p) \/ scanMemoryFiles(p) \/ statPath(p)
       \/ parseFile(p) \/ upsert(p) \/ allUpserted(p)
       \/ listRows(p) \/ deleteOrphan(p) \/ allChecked(p)
       \/ \E a \in Artifacts : checkOrphan(p, a)
       \/ trackUse(p) \/ insertEvent(p) \/ incrementNudgeCounter(p) \/ signal(p)
       \/ markNudgeRun(p) \/ nudgeTick(p)
  \/ NextDay
  \/ \E a \in Artifacts : Write(a) \/ Delete(a) \/ Retire(a)

Spec == Init /\ [][Next]_vars

-----------------------------------------------------------------------------
(***************************************************************************)
(* Properties                                                              *)
(***************************************************************************)
\* What a reindex leaves when nothing else touched the files and the tables
\* since it began and its statements succeed, whatever failed or was killed
\* before it: every file it was to look at has its row, with the file's body;
\* every row has its file or a retired counterpart.  It fails only over a file
\* that does not parse or a used row whose file is gone (runReindex).  When a row
\* was indexed is left open: the help calls a second run a no-op, the upsert
\* renews the time (cmd_reindex.go:60-61, store.go:275).
IndexMirrorsDisk ==
  \A p \in quiet :
    LET looked == {a \in Artifacts : isLooked(p, a)}
        orphans == {a \in Artifacts : index[a] # Nothing /\ ~fileExists(a) /\ a \notin retired}
    IN At(p, "done") =>
         IF proc[p].failed
           THEN (\E a \in looked : ~disk[a].ok) \/ (\E a \in orphans : usage[a] # Nothing)
           ELSE /\ \A a \in looked : index[a] # Nothing /\ index[a].body = disk[a].body
                /\ orphans = {}

\* nudge-tick proposes to deprecate nothing that a session reported as used
\* within the time to live, give or take the days a command may run; also not
\* when the use came before the index knew the path (ListDeprecationCandidates).
ProposedIsUnused ==
  [][\A p \in Procs : At(p, "list") =>
       \A a \in proc'[p].report :
         reported[a] # Nothing => reported[a] + TTLDays <= proc[p].at + MaxRun]_vars

\* Once NudgeThreshold loops were counted and ended since the last reset, one of
\* them has said so, whichever others overlapped it or were killed; and no loop
\* is counted that is not among the events (runCompleteTask).
NudgesCountLoops ==
  /\ loops >= NudgeThreshold => signalled
  /\ counter <= events
=============================================================================
