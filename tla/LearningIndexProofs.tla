------------------------ MODULE LearningIndexProofs ------------------------
(***************************************************************************)
(* What holds of the index, the usage and the nudge counter for any files, *)
(* any number of processes and any sequence of commands.                   *)
(***************************************************************************)
EXTENDS LearningIndex, FiniteSetTheorems, SequenceTheorems, TLAPS

Indexing == {"scanSkills", "scanMemory", "stat", "parse", "upsert",
             "listSkills", "pruneSkills", "listMemory", "pruneMemory"}

Process ==
  [pc : Indexing \cup {"done", "bump", "insertEvent", "increment", "signal", "markNudgeRun", "list"},
   op : {"reindex", "reindexPath", "trackUse", "completeTask", "reset", "list", "none"},
   at : Nat, since : Nat, paths : Seq(Artifacts), toRead : SUBSET Artifacts,
   held : Bodies \cup Artifacts \cup {Nothing}, rows : SUBSET Artifacts,
   epoch : Nat, count : Nat, failed : BOOLEAN, report : SUBSET Artifacts]

\* What the program counter of a process says of the rest of it.
WellFormed(c) ==
  /\ c.pc \in {"stat", "bump"} => c.paths # <<>>
  /\ c.pc = "upsert" => c.held \in Bodies
  /\ c.pc = "list" => c.report = {}

TypeOK ==
  /\ disk \in [Artifacts -> File \cup {Nothing}] /\ retired \subseteq Artifacts
  /\ index \in [Artifacts -> Row \cup {Nothing}]
  /\ usage \in [Artifacts -> Nat \cup {Nothing}] /\ reported \in [Artifacts -> Nat \cup {Nothing}]
  /\ events \in Nat /\ counter \in Nat /\ epoch \in Nat /\ loops \in Nat /\ signalled \in BOOLEAN
  /\ now \in Nat /\ todo \in Seq(Command) /\ left \in [{"days", "changes", "kills"} -> Nat]
  /\ quiet \subseteq Procs
  /\ proc \in [Procs -> Process] /\ \A p \in Procs : WellFormed(proc[p])

-----------------------------------------------------------------------------
\* No command outlives the days it may take.
Timely == \A p \in Procs : Running(p) => proc[p].at <= now /\ now <= proc[p].at + MaxRun

\* A use that was reported is as old as the row's dates say, or older.
UsesAreDated ==
  \A a \in Artifacts :
    /\ usage[a] # Nothing => index[a] # Nothing
    /\ reported[a] # Nothing =>
         /\ reported[a] <= now
         /\ index[a] # Nothing =>
              reported[a] <= (IF usage[a] = Nothing THEN index[a].at ELSE usage[a]) + MaxRun

-----------------------------------------------------------------------------
\* The loops that have their count and have yet to look at it.
Counted(p) == At(p, "signal") /\ proc[p].epoch = epoch
Incrementing == {p \in Procs : At(p, "increment")}
Below == {i \in 1..(NudgeThreshold - 1) : \E p \in Procs : Counted(p) /\ proc[p].count = i}

EventsCoverLoops == counter + Cardinality(Incrementing) <= events

\* Each has a count of its own ...
CountsDiffer ==
  /\ \A p \in Procs : At(p, "signal") => proc[p].epoch <= epoch
  /\ \A p \in Procs : Counted(p) => proc[p].count \in 1..counter
  /\ \A p, q \in Procs : Counted(p) /\ Counted(q) /\ proc[p].count = proc[q].count => p = q

\* ... so that as long as none has signalled the ended ones and those that will
\* not signal are as many as there are counts below the threshold.
LoopsBelow ==
  ~signalled => /\ loops + Cardinality(Below) <= counter
                /\ loops + Cardinality(Below) <= NudgeThreshold - 1

-----------------------------------------------------------------------------
\* What an undisturbed reindex has done by the time it is at pc.
SkillPaths == PathsOf(Skills)
MemoryPaths == PathsOf(Memories)

isOrphan(a) == index[a] # Nothing /\ ~fileExists(a) /\ a \notin retired
isMirrored(p, a) == index[a] = [body |-> disk[a].body, at |-> proc[p].at]

AllMirrored(p) == \A a \in Artifacts : isLooked(p, a) => isMirrored(p, a)
NoOrphans(paths) == \A a \in paths : ~isOrphan(a)

Scanning(p) ==
  /\ At(p, "scanSkills") => proc[p].toRead = {}
  /\ At(p, "scanMemory") => proc[p].toRead = {a \in SkillPaths : isLooked(p, a)}

Reading(p) ==
  proc[p].pc \in {"parse", "upsert"} =>
    /\ \A a \in proc[p].toRead : isLooked(p, a)
    /\ \A a \in Artifacts : isLooked(p, a) => a \in proc[p].toRead \/ isMirrored(p, a)
    /\ At(p, "upsert") => \A a \in Artifacts : isNext(p, a) => proc[p].held = disk[a].body

Pruning(p) ==
  /\ proc[p].pc \in {"listSkills", "pruneSkills", "listMemory", "pruneMemory"} => AllMirrored(p)
  /\ proc[p].pc \in {"listMemory", "pruneMemory"} => NoOrphans(SkillPaths)

Checking(p, paths) ==
  /\ proc[p].rows \subseteq paths
  /\ \A a \in paths : isOrphan(a) => a \in proc[p].rows
  /\ \A a \in proc[p].rows : index[a] # Nothing
  /\ proc[p].held # Nothing => proc[p].held \in proc[p].rows /\ isOrphan(proc[p].held)

Ended(p) ==
  At(p, "done") =>
    IF proc[p].failed
      THEN \/ \E a \in Artifacts : isLooked(p, a) /\ ~disk[a].ok
           \/ \E a \in Artifacts : isOrphan(a) /\ usage[a] # Nothing
      ELSE AllMirrored(p) /\ NoOrphans(Artifacts)

Stage(p) ==
  /\ proc[p].op = "reindex" /\ proc[p].pc \in (Indexing \ {"stat"}) \cup {"done"}
  /\ Running(p) => ~proc[p].failed
  /\ proc[p].pc \notin {"upsert", "pruneSkills", "pruneMemory", "done"} => proc[p].held = Nothing
  /\ Scanning(p) /\ Reading(p) /\ Pruning(p)
  /\ At(p, "pruneSkills") => Checking(p, SkillPaths)
  /\ At(p, "pruneMemory") => Checking(p, MemoryPaths)
  /\ Ended(p)

Undisturbed == \A p \in quiet : Stage(p)

IInv == TypeOK /\ Timely /\ UsesAreDated /\ EventsCoverLoops /\ CountsDiffer /\ LoopsBelow /\ Undisturbed
-----------------------------------------------------------------------------
(***************************************************************************)
(* What a step makes of the process that takes it                          *)
(***************************************************************************)
MovesTo(p, c) == c \in Process /\ WellFormed(c) /\ proc' = [proc EXCEPT ![p] = c]

LEMMA Movement ==
  ASSUME TypeOK, NEW p \in Procs, NEW c, MovesTo(p, c)
  PROVE  /\ proc' \in [Procs -> Process] /\ \A q \in Procs : WellFormed(proc'[q])
         /\ proc'[p] = c /\ \A q \in Procs \ {p} : proc'[q] = proc[q]
  BY DEF TypeOK, MovesTo

LEMMA Settings ==
  ASSUME NEW c \in Process
  PROVE  /\ c.at \in Nat /\ c.since \in Nat /\ c.paths \in Seq(Artifacts)
         /\ c.toRead \subseteq Artifacts /\ c.rows \subseteq Artifacts /\ c.report \subseteq Artifacts
         /\ c.epoch \in Nat /\ c.count \in Nat /\ c.failed \in BOOLEAN
  BY DEF Process

\* A command ends or fails.
Ends(c) == [c EXCEPT !.pc = "done"]
Fails(c) == [c EXCEPT !.pc = "done", !.failed = TRUE]

LEMMA EndStep ==
  ASSUME TypeOK, NEW p \in Procs
  PROVE  /\ Fail(p) => MovesTo(p, Fails(proc[p]))
         /\ Goto(p, "done") => MovesTo(p, Ends(proc[p]))
<1> DEFINE r == proc[p]
<1>1. r \in Process
  BY DEF TypeOK
<1>2. Fails(r) \in Process /\ Ends(r) \in Process /\ WellFormed(Fails(r)) /\ WellFormed(Ends(r))
  BY <1>1 DEF Process, WellFormed, Fails, Ends
<1>3. /\ Fail(p) => proc' = [proc EXCEPT ![p] = Fails(r)]
      /\ Goto(p, "done") => proc' = [proc EXCEPT ![p] = Ends(r)]
  BY DEF TypeOK, Fail, Goto, Fails, Ends
<1> QED
  BY <1>2, <1>3 DEF MovesTo

LEMMA ScanSkillFilesStep ==
  ASSUME TypeOK, NEW p \in Procs, scanSkillFiles(p)
  PROVE  MovesTo(p, [proc[p] EXCEPT !.pc = "scanMemory", !.toRead = scanned(SkillPaths, p)])
<1> DEFINE r == proc[p]
           d == [r EXCEPT !.pc = "scanMemory", !.toRead = scanned(SkillPaths, p)]
<1>1. r \in Process /\ WellFormed(r)
  BY DEF TypeOK
<1>2. d \in Process /\ WellFormed(d)
  BY <1>1 DEF Process, WellFormed, Indexing, scanned, Artifacts, SkillPaths
<1>3. proc' = [proc EXCEPT ![p] = d]
  BY DEF TypeOK, scanSkillFiles, SkillPaths
<1> QED
  BY <1>2, <1>3 DEF MovesTo

LEMMA ScanMemoryFilesStep ==
  ASSUME TypeOK, NEW p \in Procs, scanMemoryFiles(p)
  PROVE  MovesTo(p, [proc[p] EXCEPT !.pc = "parse", !.toRead = @ \cup scanned(MemoryPaths, p)])
<1> DEFINE r == proc[p]
           d == [r EXCEPT !.pc = "parse", !.toRead = @ \cup scanned(MemoryPaths, p)]
<1>1. r \in Process /\ WellFormed(r)
  BY DEF TypeOK
<1>2. d \in Process /\ WellFormed(d)
  BY <1>1 DEF Process, WellFormed, Indexing, scanned, Artifacts, MemoryPaths
<1>3. proc' = [proc EXCEPT ![p] = d]
  BY DEF TypeOK, scanMemoryFiles, MemoryPaths
<1> QED
  BY <1>2, <1>3 DEF MovesTo

LEMMA AllUpsertedStep ==
  ASSUME TypeOK, NEW p \in Procs, allUpserted(p), proc[p].op = "reindex"
  PROVE  MovesTo(p, [proc[p] EXCEPT !.pc = "listSkills"])
<1> DEFINE r == proc[p]
           d == [r EXCEPT !.pc = "listSkills"]
<1>1. r \in Process /\ WellFormed(r)
  BY DEF TypeOK
<1>2. d \in Process /\ WellFormed(d)
  BY <1>1 DEF Process, WellFormed, Indexing
<1>3. proc' = [proc EXCEPT ![p] = d]
  BY DEF TypeOK, allUpserted, Goto
<1> QED
  BY <1>2, <1>3 DEF MovesTo

LEMMA InsertEventStep ==
  ASSUME TypeOK, NEW p \in Procs, insertEvent(p)
  PROVE  MovesTo(p, [proc[p] EXCEPT !.pc = "increment"])
<1> DEFINE r == proc[p]
           d == [r EXCEPT !.pc = "increment"]
<1>1. r \in Process /\ WellFormed(r)
  BY DEF TypeOK
<1>2. d \in Process /\ WellFormed(d)
  BY <1>1 DEF Process, WellFormed, Indexing
<1>3. proc' = [proc EXCEPT ![p] = d]
  BY DEF TypeOK, insertEvent, Goto
<1> QED
  BY <1>2, <1>3 DEF MovesTo

LEMMA IncrementStep ==
  ASSUME TypeOK, NEW p \in Procs, incrementNudgeCounter(p)
  PROVE  MovesTo(p, [proc[p] EXCEPT !.pc = "signal", !.count = counter + 1, !.epoch = epoch])
<1> DEFINE r == proc[p]
           d == [r EXCEPT !.pc = "signal", !.count = counter + 1, !.epoch = epoch]
<1>1. r \in Process /\ WellFormed(r)
  BY DEF TypeOK
<1>2. counter + 1 \in Nat /\ epoch \in Nat
  BY <1>1 DEF TypeOK
<1>3. d \in Process /\ WellFormed(d)
  BY <1>1, <1>2 DEF Process, WellFormed, Indexing
<1>4. proc' = [proc EXCEPT ![p] = d]
  BY DEF TypeOK, incrementNudgeCounter
<1> QED
  BY <1>3, <1>4 DEF MovesTo

LEMMA NudgeTickStep ==
  ASSUME TypeOK, NEW p \in Procs, nudgeTick(p)
  PROVE  MovesTo(p, [proc[p] EXCEPT !.pc = "done", !.report = listDeprecationCandidates(proc[p].at)])
<1> DEFINE r == proc[p]
           d == [r EXCEPT !.pc = "done", !.report = listDeprecationCandidates(r.at)]
<1>1. r \in Process /\ WellFormed(r)
  BY DEF TypeOK
<1>2. d \in Process /\ WellFormed(d)
  BY <1>1 DEF Process, WellFormed, Indexing, listDeprecationCandidates
<1>3. proc' = [proc EXCEPT ![p] = d]
  BY DEF TypeOK, nudgeTick
<1> QED
  BY <1>2, <1>3 DEF MovesTo

LEMMA IdleIsProcess == Idle \in Process /\ WellFormed(Idle)
<1>1. <<>> \in Seq(Artifacts) /\ {} \in SUBSET Artifacts /\ FALSE \in BOOLEAN
  OBVIOUS
<1>2. Idle \in Process
  BY <1>1 DEF Idle, Process
<1> QED
  BY <1>2 DEF Idle, WellFormed

LEMMA CrashStep ==
  ASSUME TypeOK, NEW p \in Procs, Crash(p)
  PROVE  MovesTo(p, Idle)
<1> DEFINE r == proc[p]
           d == Idle
<1>1. r \in Process /\ WellFormed(r)
  BY DEF TypeOK
<1>2. d \in Process /\ WellFormed(d)
  BY <1>1, IdleIsProcess DEF Process, WellFormed, Indexing
<1>3. proc' = [proc EXCEPT ![p] = d]
  BY DEF TypeOK, Crash
<1> QED
  BY <1>2, <1>3 DEF MovesTo

LEMMA StatPathStep ==
  ASSUME TypeOK, NEW p \in Procs, statPath(p), fileExists(proc[p].paths[1])
  PROVE  MovesTo(p, [proc[p] EXCEPT !.pc = "parse", !.toRead = {proc[p].paths[1]}])
<1> DEFINE r == proc[p]
           d == [r EXCEPT !.pc = "parse", !.toRead = {r.paths[1]}]
<1>1. r \in Process /\ WellFormed(r)
  BY DEF TypeOK
<1>2. r.paths[1] \in Artifacts
  BY <1>1 DEF statPath, At, WellFormed, Process
<1>3. d \in Process /\ WellFormed(d)
  BY <1>1, <1>2 DEF Process, WellFormed, Indexing
<1>4. proc' = [proc EXCEPT ![p] = d]
  BY DEF TypeOK, statPath
<1> QED
  BY <1>3, <1>4 DEF MovesTo

LEMMA ParseFileStep ==
  ASSUME TypeOK, NEW p \in Procs, NEW a \in Artifacts, parses(a), disk[a].body \in Bodies,
         proc' = [proc EXCEPT ![p].pc = "upsert", ![p].held = disk[a].body]
  PROVE  MovesTo(p, [proc[p] EXCEPT !.pc = "upsert", !.held = disk[a].body])
<1> DEFINE r == proc[p]
           d == [r EXCEPT !.pc = "upsert", !.held = disk[a].body]
<1>1. r \in Process /\ WellFormed(r)
  BY DEF TypeOK
<1>2. d \in Process /\ WellFormed(d)
  BY <1>1 DEF Process, WellFormed, Indexing
<1>3. proc' = [proc EXCEPT ![p] = d]
  BY DEF TypeOK, Process
<1> QED
  BY <1>2, <1>3 DEF MovesTo

LEMMA UpsertStep ==
  ASSUME TypeOK, NEW p \in Procs, NEW a \in Artifacts,
         proc' = [proc EXCEPT ![p].pc = "parse", ![p].toRead = @ \ {a}, ![p].held = Nothing]
  PROVE  MovesTo(p, [proc[p] EXCEPT !.pc = "parse", !.toRead = @ \ {a}, !.held = Nothing])
<1> DEFINE r == proc[p]
           d == [r EXCEPT !.pc = "parse", !.toRead = @ \ {a}, !.held = Nothing]
<1>1. r \in Process /\ WellFormed(r)
  BY DEF TypeOK
<1>2. d \in Process /\ WellFormed(d)
  BY <1>1 DEF Process, WellFormed, Indexing
<1>3. proc' = [proc EXCEPT ![p] = d]
  BY DEF TypeOK, Process
<1> QED
  BY <1>2, <1>3 DEF MovesTo

LEMMA ListSkillsStep ==
  ASSUME TypeOK, NEW p \in Procs, listRows(p), At(p, "listSkills")
  PROVE  MovesTo(p, [proc[p] EXCEPT !.pc = "pruneSkills", !.rows = {a \in SkillPaths : index[a] # Nothing}])
<1> DEFINE r == proc[p]
           d == [r EXCEPT !.pc = "pruneSkills", !.rows = {a \in SkillPaths : index[a] # Nothing}]
<1>1. r \in Process /\ WellFormed(r)
  BY DEF TypeOK
<1>2. d \in Process /\ WellFormed(d)
  BY <1>1 DEF Process, WellFormed, Indexing, Artifacts, SkillPaths
<1>3. proc' = [proc EXCEPT ![p] = d]
  BY DEF TypeOK, listRows, At, SkillPaths
<1> QED
  BY <1>2, <1>3 DEF MovesTo

LEMMA ListMemoryStep ==
  ASSUME TypeOK, NEW p \in Procs, listRows(p), At(p, "listMemory")
  PROVE  MovesTo(p, [proc[p] EXCEPT !.pc = "pruneMemory", !.rows = {a \in MemoryPaths : index[a] # Nothing}])
<1> DEFINE r == proc[p]
           d == [r EXCEPT !.pc = "pruneMemory", !.rows = {a \in MemoryPaths : index[a] # Nothing}]
<1>1. r \in Process /\ WellFormed(r)
  BY DEF TypeOK
<1>2. d \in Process /\ WellFormed(d)
  BY <1>1 DEF Process, WellFormed, Indexing, Artifacts, MemoryPaths
<1>3. proc' = [proc EXCEPT ![p] = d]
  BY DEF TypeOK, listRows, At, MemoryPaths
<1> QED
  BY <1>2, <1>3 DEF MovesTo

LEMMA KeepRowStep ==
  ASSUME TypeOK, NEW p \in Procs, NEW a \in proc[p].rows, proc[p].pc \in DOMAIN afterPrune,
         proc' = [proc EXCEPT ![p].rows = @ \ {a}]
  PROVE  MovesTo(p, [proc[p] EXCEPT !.rows = @ \ {a}])
<1> DEFINE r == proc[p]
           d == [r EXCEPT !.rows = @ \ {a}]
<1>1. r \in Process /\ WellFormed(r)
  BY DEF TypeOK
<1>2. d \in Process /\ WellFormed(d)
  BY <1>1 DEF Process, WellFormed, Indexing, afterPrune
<1>3. proc' = [proc EXCEPT ![p] = d]
  BY DEF TypeOK, Process
<1> QED
  BY <1>2, <1>3 DEF MovesTo

LEMMA TakeOrphanStep ==
  ASSUME TypeOK, NEW p \in Procs, NEW a \in proc[p].rows, proc[p].pc \in DOMAIN afterPrune,
         proc' = [proc EXCEPT ![p].held = a]
  PROVE  MovesTo(p, [proc[p] EXCEPT !.held = a])
<1> DEFINE r == proc[p]
           d == [r EXCEPT !.held = a]
<1>1. r \in Process /\ WellFormed(r)
  BY DEF TypeOK
<1>2. d \in Process /\ WellFormed(d)
  BY <1>1 DEF Process, WellFormed, Indexing, afterPrune
<1>3. proc' = [proc EXCEPT ![p] = d]
  BY DEF TypeOK, Process
<1> QED
  BY <1>2, <1>3 DEF MovesTo

LEMMA DropRowStep ==
  ASSUME TypeOK, NEW p \in Procs, NEW a, proc[p].pc \in DOMAIN afterPrune,
         proc' = [proc EXCEPT ![p].rows = @ \ {a}, ![p].held = Nothing]
  PROVE  MovesTo(p, [proc[p] EXCEPT !.rows = @ \ {a}, !.held = Nothing])
<1> DEFINE r == proc[p]
           d == [r EXCEPT !.rows = @ \ {a}, !.held = Nothing]
<1>1. r \in Process /\ WellFormed(r)
  BY DEF TypeOK
<1>2. d \in Process /\ WellFormed(d)
  BY <1>1 DEF Process, WellFormed, Indexing, afterPrune
<1>3. proc' = [proc EXCEPT ![p] = d]
  BY DEF TypeOK, Process
<1> QED
  BY <1>2, <1>3 DEF MovesTo

LEMMA SkillsCheckedStep ==
  ASSUME TypeOK, NEW p \in Procs, allChecked(p), At(p, "pruneSkills")
  PROVE  MovesTo(p, [proc[p] EXCEPT !.pc = "listMemory"])
<1> DEFINE r == proc[p]
           d == [r EXCEPT !.pc = "listMemory"]
<1>1. r \in Process /\ WellFormed(r)
  BY DEF TypeOK
<1>2. d \in Process /\ WellFormed(d)
  BY <1>1 DEF Process, WellFormed, Indexing
<1>3. proc' = [proc EXCEPT ![p] = d]
  BY DEF TypeOK, allChecked, At, Goto, afterPrune
<1> QED
  BY <1>2, <1>3 DEF MovesTo

LEMMA TrackUseStep ==
  ASSUME TypeOK, NEW p \in Procs, trackUse(p)
  PROVE  MovesTo(p, [proc[p] EXCEPT !.pc = IF Len(proc[p].paths) = 1 THEN "done" ELSE "bump", !.paths = Tail(@)])
<1> DEFINE r == proc[p]
           d == [r EXCEPT !.pc = IF Len(r.paths) = 1 THEN "done" ELSE "bump", !.paths = Tail(@)]
<1>1. r \in Process /\ WellFormed(r)
  BY DEF TypeOK
<1>2. Tail(r.paths) \in Seq(Artifacts) /\ (Len(r.paths) # 1 => Tail(r.paths) # <<>>)
  <2>1. r.paths \in Seq(Artifacts) /\ r.paths # <<>>
    BY <1>1 DEF trackUse, At, WellFormed, Process
  <2>2. Tail(r.paths) \in Seq(Artifacts) /\ Len(Tail(r.paths)) = Len(r.paths) - 1 /\ Len(r.paths) \in Nat
    BY <2>1, HeadTailProperties
  <2>3. Len(<<>>) = 0
    BY EmptySeq
  <2>4. ASSUME Tail(r.paths) = <<>> PROVE Len(r.paths) = 1
    <3>1. Len(Tail(r.paths)) = 0
      BY <2>3, <2>4, Zenon
    <3> QED
      BY <2>2, <3>1
  <2> QED
    BY <2>2, <2>4, Zenon
<1>3. d \in Process /\ WellFormed(d)
  <2>1. d.pc \in {"done", "bump"} /\ d.paths = Tail(r.paths) /\ (d.pc = "bump" => Len(r.paths) # 1)
    BY <1>1 DEF Process
  <2>2. d \in Process
    BY <1>1, <1>2 DEF Process
  <2> QED
    BY <1>2, <2>1, <2>2 DEF WellFormed
<1>4. proc' = [proc EXCEPT ![p] = d]
  BY DEF TypeOK, trackUse, At
<1> QED
  BY <1>3, <1>4 DEF MovesTo

LEMMA Commands ==
  ASSUME NEW c \in Command
  PROVE  /\ firstStep[c.op] \in Indexing \cup {"bump", "insertEvent", "markNudgeRun", "list"}
         /\ firstStep[c.op] # "upsert" /\ (firstStep[c.op] \in {"stat", "bump"} => c.paths # <<>>)
         /\ (firstStep[c.op] \in Indexing /\ c.op # "reindexPath" => c.op = "reindex")
         /\ c.op = "reindex" => firstStep[c.op] = "scanSkills"
         /\ c.op \in {"reindex", "reindexPath", "trackUse", "completeTask", "reset", "list"}
         /\ c.since \in Nat /\ c.paths \in Seq(Artifacts)
<1>1. CASE c \in [op : {"reindex", "completeTask", "reset", "list"}, since : Nat, paths : {<<>>}]
  <2>1. <<>> \in Seq(Artifacts)
    OBVIOUS
  <2>2. c.op \in {"reindex", "completeTask", "reset", "list"} /\ c.since \in Nat /\ c.paths = <<>>
    BY <1>1
  <2> QED
    BY <2>1, <2>2 DEF firstStep, Indexing
<1>2. CASE c \in [op : {"reindexPath", "trackUse"}, since : Nat, paths : Seq(Artifacts) \ {<<>>}]
  <2>1. c.op \in {"reindexPath", "trackUse"} /\ c.since \in Nat
        /\ c.paths \in Seq(Artifacts) /\ c.paths # <<>>
    BY <1>2
  <2> QED
    BY <2>1 DEF firstStep, Indexing
<1> QED
  BY <1>1, <1>2 DEF Command

Started(c) ==
  [Idle EXCEPT !.pc = firstStep[c.op], !.op = c.op, !.at = now, !.since = c.since, !.paths = c.paths]

LEMMA StartedWith ==
  ASSUME NEW c
  PROVE  /\ Started(c).pc = firstStep[c.op] /\ Started(c).op = c.op /\ Started(c).at = now
         /\ Started(c).since = c.since /\ Started(c).toRead = {} /\ Started(c).held = Nothing
         /\ Started(c).failed = FALSE /\ Started(c).report = {}
  BY DEF Started, Idle

LEMMA StartStep ==
  ASSUME TypeOK, NEW p \in Procs, Start(p)
  PROVE  todo[1] \in Command /\ MovesTo(p, Started(todo[1]))
<1> DEFINE c == todo[1]
<1>1. c \in Command
  BY DEF TypeOK, Start
<1> HIDE DEF c
<1>2. Idle \in Process /\ Idle.report = {} /\ now \in Nat
  BY IdleIsProcess DEF TypeOK, Idle
<1>3. firstStep[c.op] \in {"done", "bump", "insertEvent", "increment", "signal", "markNudgeRun", "list"} \cup Indexing
  BY <1>1, Commands
<1>4. Started(c) \in Process
  BY <1>1, <1>2, <1>3, Commands DEF Started, Process
<1>5. WellFormed(Started(c))
  BY <1>1, <1>2, Commands DEF Started, Process, WellFormed
<1>6. proc' = [proc EXCEPT ![p] = Started(c)]
  BY DEF Start, Started, c
<1> QED
  BY <1>1, <1>4, <1>5, <1>6 DEF MovesTo, c

-----------------------------------------------------------------------------
(***************************************************************************)
(* Type correctness                                                        *)
(***************************************************************************)
LEMMA InitTypeOK == Init => TypeOK
<1> SUFFICES ASSUME Init PROVE TypeOK
  OBVIOUS
<1>1. disk \in [Artifacts -> File \cup {Nothing}]
  <2>1. PICK b \in Bodies : disk \in [Artifacts -> {[body |-> b, ok |-> TRUE, mtime |-> 0], Nothing}]
    BY DEF Init
  <2>2. [body |-> b, ok |-> TRUE, mtime |-> 0] \in File
    BY DEF File
  <2> QED
    BY <2>1, <2>2
<1>2. proc \in [Procs -> Process] /\ \A p \in Procs : WellFormed(proc[p])
  BY IdleIsProcess DEF Init
<1>3. todo \in Seq(Command) /\ left \in [{"days", "changes", "kills"} -> Nat]
  BY IndexAssumption DEF Init
<1>4. /\ index \in [Artifacts -> Row \cup {Nothing}] /\ retired \subseteq Artifacts
      /\ usage \in [Artifacts -> Nat \cup {Nothing}] /\ reported \in [Artifacts -> Nat \cup {Nothing}]
  BY DEF Init
<1>5. /\ events \in Nat /\ counter \in Nat /\ epoch \in Nat /\ loops \in Nat /\ signalled \in BOOLEAN
      /\ now \in Nat /\ quiet \subseteq Procs
  BY DEF Init
<1> QED
  BY <1>1, <1>2, <1>3, <1>4, <1>5 DEF TypeOK

\* Everything but proc and index.
LEMMA TypeStep ==
  ASSUME TypeOK, NEW p \in Procs, NEW c, MovesTo(p, c), index' \in [Artifacts -> Row \cup {Nothing}],
         usage' \in [Artifacts -> Nat \cup {Nothing}], reported' \in [Artifacts -> Nat \cup {Nothing}],
         UNCHANGED nudges, quiet' \subseteq Procs, UNCHANGED <<files, now, todo, left>>
  PROVE  TypeOK'
<1>1. proc' \in [Procs -> Process] /\ \A q \in Procs : WellFormed(proc'[q])
  BY Movement
<1>2. signalled' \in BOOLEAN
  BY DEF TypeOK, nudges
<1>3. /\ disk' \in [Artifacts -> File \cup {Nothing}] /\ retired' \subseteq Artifacts
      /\ events' \in Nat /\ counter' \in Nat /\ epoch' \in Nat /\ loops' \in Nat /\ now' \in Nat
      /\ todo' \in Seq(Command) /\ left' \in [{"days", "changes", "kills"} -> Nat]
  BY DEF TypeOK, nudges, files
<1> QED
  BY <1>1, <1>2, <1>3, Zenon DEF TypeOK

LEMMA Rows ==
  ASSUME TypeOK
  PROVE  /\ index \in [Artifacts -> Row \cup {Nothing}] /\ quiet \subseteq Procs
         /\ usage \in [Artifacts -> Nat \cup {Nothing}] /\ reported \in [Artifacts -> Nat \cup {Nothing}]
  BY DEF TypeOK

\* The steps that change proc and nothing else.
Quietly == UNCHANGED <<files, index, usage, nudges, now, todo, left, quiet, reported>>

LEMMA QuietTypeStep ==
  ASSUME TypeOK, NEW p \in Procs, NEW c, MovesTo(p, c), Quietly
  PROVE  TypeOK'
  BY TypeStep, Rows DEF Quietly

\* checkOrphan keeps the row or finds the orphan.
LEMMA CheckStep ==
  ASSUME TypeOK, NEW p \in Procs, NEW a \in Artifacts, checkOrphan(p, a)
  PROVE  IF fileExists(a) \/ a \in retired
           THEN MovesTo(p, [proc[p] EXCEPT !.rows = @ \ {a}])
           ELSE MovesTo(p, [proc[p] EXCEPT !.held = a])
  BY KeepRowStep, TakeOrphanStep DEF checkOrphan

LEMMA ProcessTypeStep ==
  ASSUME TypeOK, NEW p \in Procs,
         \/ scanSkillFiles(p) \/ scanMemoryFiles(p) \/ statPath(p) \/ parseFile(p) \/ upsert(p)
         \/ allUpserted(p) \/ listRows(p) \/ deleteOrphan(p) \/ allChecked(p)
         \/ \E a \in Artifacts : checkOrphan(p, a)
         \/ trackUse(p) \/ nudgeTick(p)
  PROVE  TypeOK'
<1>1. CASE scanSkillFiles(p)
  BY <1>1, ScanSkillFilesStep, QuietTypeStep DEF scanSkillFiles, Quietly
<1>2. CASE scanMemoryFiles(p)
  BY <1>2, ScanMemoryFilesStep, QuietTypeStep DEF scanMemoryFiles, Quietly
<1>3. CASE statPath(p)
  BY <1>3, StatPathStep, EndStep, QuietTypeStep DEF statPath, Quietly
<1>4. CASE parseFile(p)
  <2>1. PICK a \in Artifacts : IF parses(a)
                                 THEN proc' = [proc EXCEPT ![p].pc = "upsert", ![p].held = disk[a].body]
                                 ELSE Fail(p)
    BY <1>4 DEF parseFile
  <2>2. parses(a) => disk[a].body \in Bodies
    BY DEF TypeOK, parses, fileExists, File
  <2> QED
    BY <1>4, <2>1, <2>2, ParseFileStep, EndStep, QuietTypeStep DEF parseFile, Quietly
<1>5. CASE upsert(p)
  <2>1. PICK a \in Artifacts :
          /\ index' = [index EXCEPT ![a] = [body |-> proc[p].held, at |-> proc[p].at]]
          /\ proc' = [proc EXCEPT ![p].pc = "parse", ![p].toRead = @ \ {a}, ![p].held = Nothing]
    BY <1>5 DEF upsert
  <2>2. [body |-> proc[p].held, at |-> proc[p].at] \in Row
    BY <1>5 DEF TypeOK, Process, WellFormed, upsert, At, Row
  <2>3. index' \in [Artifacts -> Row \cup {Nothing}]
    BY <2>1, <2>2, Rows
  <2> QED
    BY <1>5, <2>1, <2>3, UpsertStep, TypeStep, Rows DEF upsert, Disturbs
<1>6. CASE allUpserted(p)
  <2>1. CASE proc[p].op = "reindex"
    BY <1>6, <2>1, AllUpsertedStep, QuietTypeStep DEF allUpserted, Quietly
  <2>2. CASE proc[p].op # "reindex"
    BY <1>6, <2>2, EndStep, QuietTypeStep DEF allUpserted, Quietly
  <2> QED
    BY <2>1, <2>2
<1>7. CASE listRows(p)
  <2>1. At(p, "listSkills") \/ At(p, "listMemory")
    BY <1>7 DEF listRows, At
  <2> QED
    BY <1>7, <2>1, ListSkillsStep, ListMemoryStep, QuietTypeStep DEF listRows, Quietly
<1>8. CASE deleteOrphan(p)
  <2> DEFINE a == proc[p].held
  <2>1. CASE usage[a] # Nothing
    BY <1>8, <2>1, EndStep, TypeStep, Rows DEF deleteOrphan
  <2>2. CASE usage[a] = Nothing
    <3>1. index' \in [Artifacts -> Row \cup {Nothing}]
      BY <1>8, <2>2, Rows DEF deleteOrphan
    <3>2. MovesTo(p, [proc[p] EXCEPT !.rows = @ \ {a}, !.held = Nothing])
      BY <1>8, <2>2, DropRowStep DEF deleteOrphan
    <3> QED
      BY <1>8, <2>2, <3>1, <3>2, TypeStep, Rows DEF deleteOrphan, Disturbs
  <2> QED
    BY <2>1, <2>2
<1>9. CASE allChecked(p)
  <2>1. At(p, "pruneSkills") \/ At(p, "pruneMemory")
    BY <1>9 DEF allChecked, afterPrune, At
  <2>2. CASE At(p, "pruneMemory")
    <3>1. Goto(p, "done")
      BY <1>9, <2>2 DEF allChecked, afterPrune, At
    <3> QED
      BY <1>9, <3>1, EndStep, QuietTypeStep DEF allChecked, Quietly
  <2> QED
    BY <1>9, <2>1, <2>2, SkillsCheckedStep, QuietTypeStep DEF allChecked, Quietly
<1>10. CASE \E a \in Artifacts : checkOrphan(p, a)
  <2>1. PICK a \in Artifacts : checkOrphan(p, a)
    BY <1>10
  <2> QED
    BY <2>1, CheckStep, QuietTypeStep DEF checkOrphan, Quietly
<1>11. CASE trackUse(p)
  <2> DEFINE a == proc[p].paths[1]
  <2>1. proc[p].at \in Nat
    BY Settings DEF TypeOK
  <2>2. usage' \in [Artifacts -> Nat \cup {Nothing}]
    BY <1>11, <2>1, Rows DEF trackUse, bumpedUsage
  <2>3. reported' \in [Artifacts -> Nat \cup {Nothing}]
    BY <1>11, <2>1, Rows DEF trackUse
  <2> QED
    BY <1>11, <2>2, <2>3, TrackUseStep, TypeStep, Rows DEF trackUse, Disturbs
<1>12. CASE nudgeTick(p)
  BY <1>12, NudgeTickStep, QuietTypeStep DEF nudgeTick, Quietly
<1> QED
  BY <1>1, <1>2, <1>3, <1>4, <1>5, <1>6, <1>7, <1>8, <1>9, <1>10, <1>11, <1>12

LEMMA NudgeTypeStep ==
  ASSUME TypeOK, NEW p \in Procs,
         insertEvent(p) \/ incrementNudgeCounter(p) \/ signal(p) \/ markNudgeRun(p)
  PROVE  TypeOK'
<1>1. PICK c : MovesTo(p, c)
  BY InsertEventStep, IncrementStep, EndStep DEF signal, markNudgeRun
<1>2. proc' \in [Procs -> Process] /\ \A q \in Procs : WellFormed(proc'[q])
  BY <1>1, Movement
<1>3. /\ events' \in Nat /\ counter' \in Nat /\ epoch' \in Nat
      /\ loops' \in Nat /\ signalled' \in BOOLEAN
  <2>1. /\ events \in Nat /\ counter \in Nat /\ epoch \in Nat /\ loops \in Nat
        /\ signalled \in BOOLEAN
    BY DEF TypeOK
  <2>2. /\ events' \in Nat /\ counter' \in Nat /\ epoch' \in Nat /\ loops' \in Nat
    BY <2>1 DEF insertEvent, incrementNudgeCounter, signal, markNudgeRun
  <2>3. signalled' \in BOOLEAN
    BY <2>1 DEF insertEvent, incrementNudgeCounter, signal, markNudgeRun
  <2> QED
    BY <2>2, <2>3
<1>4. UNCHANGED <<files, index, usage, now, todo, left, quiet, reported>>
  BY DEF insertEvent, incrementNudgeCounter, signal, markNudgeRun
<1> QED
  BY <1>2, <1>3, <1>4, Zenon DEF TypeOK, files

LEMMA TypedPieces ==
  ASSUME TypeOK, NEW what \in {"days", "changes", "kills"}
  PROVE  /\ Spend(what) => left' \in [{"days", "changes", "kills"} -> Nat]
         /\ todo # <<>> => Tail(todo) \in Seq(Command)
  BY HeadTailProperties DEF TypeOK, Spend

LEMMA StartTypeStep ==
  ASSUME TypeOK, NEW p \in Procs, Start(p) \/ Crash(p)
  PROVE  TypeOK'
<1>1. PICK c : MovesTo(p, c)
  BY StartStep, CrashStep
<1>2. proc' \in [Procs -> Process] /\ \A q \in Procs : WellFormed(proc'[q])
  BY <1>1, Movement
<1>3. /\ todo' \in Seq(Command) /\ left' \in [{"days", "changes", "kills"} -> Nat]
      /\ quiet' \subseteq Procs
  BY TypedPieces DEF TypeOK, Start, Crash
<1>4. UNCHANGED <<files, index, usage, nudges, now, reported>>
  BY DEF Start, Crash
<1> QED
  BY <1>2, <1>3, <1>4, Zenon DEF TypeOK, files, nudges

LEMMA WorldTypeStep ==
  ASSUME TypeOK, NextDay \/ \E a \in Artifacts : Write(a) \/ Delete(a) \/ Retire(a)
  PROVE  TypeOK'
<1>1. CASE NextDay
  BY <1>1, TypedPieces DEF TypeOK, NextDay, files, nudges
<1>2. CASE \E a \in Artifacts : Write(a) \/ Delete(a) \/ Retire(a)
  <2>1. PICK a \in Artifacts : Write(a) \/ Delete(a) \/ Retire(a)
    BY <1>2
  <2>2. \A b \in Bodies, ok \in BOOLEAN : [body |-> b, ok |-> ok, mtime |-> now] \in File
    BY DEF TypeOK, File
  <2>3. disk' \in [Artifacts -> File \cup {Nothing}] /\ retired' \subseteq Artifacts
    BY <2>1, <2>2 DEF TypeOK, Write, Delete, Retire
  <2>4. left' \in [{"days", "changes", "kills"} -> Nat] /\ quiet' \subseteq Procs
    BY <2>1, TypedPieces DEF Write, Delete, Retire, Changed
  <2>5. UNCHANGED <<index, usage, nudges, now, todo, proc, reported>>
    BY <2>1 DEF Write, Delete, Retire
  <2> QED
    BY <2>3, <2>4, <2>5, Zenon DEF TypeOK, nudges
<1> QED
  BY <1>1, <1>2

LEMMA NextTypeOK == TypeOK /\ [Next]_vars => TypeOK'
<1> SUFFICES ASSUME TypeOK, [Next]_vars PROVE TypeOK'
  OBVIOUS
<1>1. CASE UNCHANGED vars
  BY <1>1, Zenon DEF vars, files, nudges, TypeOK
<1>2. CASE Next
  <2>1. CASE NextDay \/ \E a \in Artifacts : Write(a) \/ Delete(a) \/ Retire(a)
    BY <2>1, WorldTypeStep
  <2>2. ASSUME NEW p \in Procs, Start(p) \/ Crash(p) PROVE TypeOK'
    BY <2>2, StartTypeStep
  <2>3. ASSUME NEW p \in Procs,
               insertEvent(p) \/ incrementNudgeCounter(p) \/ signal(p) \/ markNudgeRun(p)
        PROVE  TypeOK'
    BY <2>3, NudgeTypeStep
  <2>4. ASSUME NEW p \in Procs,
               \/ scanSkillFiles(p) \/ scanMemoryFiles(p) \/ statPath(p) \/ parseFile(p) \/ upsert(p)
               \/ allUpserted(p) \/ listRows(p) \/ deleteOrphan(p) \/ allChecked(p)
               \/ \E a \in Artifacts : checkOrphan(p, a)
               \/ trackUse(p) \/ nudgeTick(p)
        PROVE  TypeOK'
    BY <2>4, ProcessTypeStep
  <2> QED
    BY <1>2, <2>1, <2>2, <2>3, <2>4, Zenon DEF Next
<1> QED
  BY <1>1, <1>2

\* The files, the tables, the counter and what every command holds keep their
\* types under every interleaving of the commands, their kills and the changes
\* of the files (runReindex, runTrackUse, runCompleteTask, runNudgeTick).
THEOREM TypeCorrect == Spec => []TypeOK
  BY InitTypeOK, NextTypeOK, PTL DEF Spec

-----------------------------------------------------------------------------
(***************************************************************************)
(* Time and uses                                                           *)
(***************************************************************************)
\* A command keeps what it was started with.
SameCommand(c, d) == c.op = d.op /\ c.at = d.at /\ c.since = d.since

LEMMA SameCommandStep ==
  ASSUME TypeOK, NEW p \in Procs,
         \/ scanSkillFiles(p) \/ scanMemoryFiles(p) \/ statPath(p) \/ parseFile(p) \/ upsert(p)
         \/ allUpserted(p) \/ listRows(p) \/ deleteOrphan(p) \/ allChecked(p)
         \/ \E a \in Artifacts : checkOrphan(p, a)
         \/ trackUse(p) \/ nudgeTick(p)
         \/ insertEvent(p) \/ incrementNudgeCounter(p) \/ signal(p) \/ markNudgeRun(p)
  PROVE  \E c : MovesTo(p, c) /\ SameCommand(c, proc[p]) /\ Running(p)
<1>0. proc[p] \in Process
  BY DEF TypeOK
<1> USE DEF SameCommand, Running, At
<1>1. CASE scanSkillFiles(p)
  BY <1>0, <1>1, ScanSkillFilesStep DEF scanSkillFiles, Process
<1>2. CASE scanMemoryFiles(p)
  BY <1>0, <1>2, ScanMemoryFilesStep DEF scanMemoryFiles, Process
<1>e. (Fail(p) \/ Goto(p, "done")) =>
        \E c : MovesTo(p, c) /\ c.op = proc[p].op /\ c.at = proc[p].at /\ c.since = proc[p].since
  <2>1. CASE Fail(p)
    <3>1. MovesTo(p, Fails(proc[p]))
      BY <2>1, EndStep
    <3>2. Fails(proc[p]).op = proc[p].op /\ Fails(proc[p]).at = proc[p].at /\ Fails(proc[p]).since = proc[p].since
      BY <1>0 DEF Process, Fails
    <3> QED
      BY <3>1, <3>2, Zenon
  <2>2. CASE Goto(p, "done")
    <3>1. MovesTo(p, Ends(proc[p]))
      BY <2>2, EndStep
    <3>2. Ends(proc[p]).op = proc[p].op /\ Ends(proc[p]).at = proc[p].at /\ Ends(proc[p]).since = proc[p].since
      BY <1>0 DEF Process, Ends
    <3> QED
      BY <3>1, <3>2, Zenon
  <2> QED
    BY <2>1, <2>2
<1>3. CASE statPath(p)
  BY <1>0, <1>3, <1>e, StatPathStep DEF statPath, Process
<1>4. CASE parseFile(p)
  <2>1. PICK a \in Artifacts : IF parses(a)
                                 THEN proc' = [proc EXCEPT ![p].pc = "upsert", ![p].held = disk[a].body]
                                 ELSE Fail(p)
    BY <1>4 DEF parseFile
  <2>2. parses(a) => disk[a].body \in Bodies
    BY DEF TypeOK, parses, fileExists, File
  <2> QED
    BY <1>0, <1>4, <1>e, <2>1, <2>2, ParseFileStep DEF parseFile, Process
<1>5. CASE upsert(p)
  <2>1. PICK a \in Artifacts :
          proc' = [proc EXCEPT ![p].pc = "parse", ![p].toRead = @ \ {a}, ![p].held = Nothing]
    BY <1>5 DEF upsert
  <2> QED
    BY <1>0, <1>5, <2>1, UpsertStep DEF upsert, Process
<1>6. CASE allUpserted(p)
  BY <1>0, <1>6, <1>e, AllUpsertedStep DEF allUpserted, Process
<1>7. CASE listRows(p)
  BY <1>0, <1>7, ListSkillsStep, ListMemoryStep DEF listRows, Process
<1>8. CASE deleteOrphan(p)
  BY <1>0, <1>8, <1>e, DropRowStep DEF deleteOrphan, Process, afterPrune
<1>9. CASE allChecked(p)
  <2>1. At(p, "pruneSkills") \/ (At(p, "pruneMemory") /\ Goto(p, "done"))
    BY <1>9 DEF allChecked, afterPrune
  <2> QED
    BY <1>0, <1>9, <1>e, <2>1, SkillsCheckedStep DEF Process
<1>10. CASE \E a \in Artifacts : checkOrphan(p, a)
  <2>1. PICK a \in Artifacts : checkOrphan(p, a)
    BY <1>10
  <2>2. Running(p)
    BY <2>1 DEF checkOrphan, afterPrune
  <2> QED
    BY <1>0, <2>1, <2>2, CheckStep DEF Process
<1>11. CASE trackUse(p)
  BY <1>0, <1>11, TrackUseStep DEF trackUse, Process
<1>12. CASE nudgeTick(p)
  BY <1>0, <1>12, NudgeTickStep DEF nudgeTick, Process
<1>13. CASE insertEvent(p)
  BY <1>0, <1>13, InsertEventStep DEF insertEvent, Process
<1>14. CASE incrementNudgeCounter(p)
  BY <1>0, <1>14, IncrementStep DEF incrementNudgeCounter, Process
<1>15. CASE signal(p)
  BY <1>15, <1>e DEF signal
<1>16. CASE markNudgeRun(p)
  BY <1>16, <1>e DEF markNudgeRun
<1> QED
  BY <1>1, <1>2, <1>3, <1>4, <1>5, <1>6, <1>7, <1>8, <1>9, <1>10, <1>11, <1>12, <1>13, <1>14, <1>15, <1>16

LEMMA InitTimely == Init => Timely /\ UsesAreDated
  BY DEF Init, Timely, UsesAreDated, Running, Idle

LEMMA NextTimely ==
  ASSUME TypeOK, Timely, [Next]_vars
  PROVE  Timely'
<1>1. CASE UNCHANGED vars
  BY <1>1 DEF vars, Timely, Running
<1>2. ASSUME NEW p \in Procs, Start(p) PROVE Timely'
  <2>1. MovesTo(p, Started(todo[1])) /\ now' = now /\ now \in Nat
    BY <1>2, StartStep DEF Start, TypeOK
  <2>2. proc'[p].at = now
    <3>1. proc'[p] = Started(todo[1])
      BY <2>1, Movement
    <3>2. Started(todo[1]).at = now
      BY StartedWith
    <3> QED
      BY <3>1, <3>2
  <2>3. ASSUME NEW q \in Procs, q # p PROVE proc'[q] = proc[q]
    BY <2>1, <2>3, Movement
  <2> QED
    BY <2>1, <2>2, <2>3, IndexAssumption DEF Timely, Running
<1>3. ASSUME NEW p \in Procs, Crash(p) PROVE Timely'
  <2>1. MovesTo(p, Idle) /\ now' = now
    BY <1>3, CrashStep DEF Crash
  <2>2. proc'[p].pc = "done" /\ \A q \in Procs \ {p} : proc'[q] = proc[q]
    BY <2>1, Movement DEF Idle
  <2> QED
    BY <2>1, <2>2 DEF Timely, Running
<1>4. ASSUME NEW p \in Procs,
             \/ scanSkillFiles(p) \/ scanMemoryFiles(p) \/ statPath(p) \/ parseFile(p) \/ upsert(p)
             \/ allUpserted(p) \/ listRows(p) \/ deleteOrphan(p) \/ allChecked(p)
             \/ \E a \in Artifacts : checkOrphan(p, a)
             \/ trackUse(p) \/ nudgeTick(p)
             \/ insertEvent(p) \/ incrementNudgeCounter(p) \/ signal(p) \/ markNudgeRun(p)
      PROVE  Timely'
  <2>1. PICK c : MovesTo(p, c) /\ SameCommand(c, proc[p]) /\ Running(p)
    BY <1>4, SameCommandStep
  <2>2. now' = now
    BY <1>4 DEF scanSkillFiles, scanMemoryFiles, statPath, parseFile, upsert, allUpserted, listRows,
                deleteOrphan, allChecked, checkOrphan, trackUse, nudgeTick, insertEvent,
                incrementNudgeCounter, signal, markNudgeRun
  <2>3. proc'[p].at = proc[p].at /\ \A q \in Procs \ {p} : proc'[q] = proc[q]
    BY <2>1, Movement DEF SameCommand
  <2> QED
    BY <2>1, <2>2, <2>3 DEF Timely, Running
<1>5. CASE NextDay
  <2>1. now' = now + 1 /\ proc' = proc /\ \A p \in Procs : Running(p) => now < proc[p].at + MaxRun
    BY <1>5 DEF NextDay
  <2>2. now \in Nat /\ \A p \in Procs : proc[p].at \in Nat
    BY Settings DEF TypeOK
  <2> QED
    BY <2>1, <2>2, IndexAssumption DEF Timely, Running
<1>6. ASSUME NEW a \in Artifacts, Write(a) \/ Delete(a) \/ Retire(a) PROVE Timely'
  BY <1>6 DEF Write, Delete, Retire, Timely, Running
<1> QED
  BY <1>1, <1>2, <1>3, <1>4, <1>5, <1>6, Zenon DEF Next

LEMMA NextDated ==
  ASSUME TypeOK, Timely, UsesAreDated, [Next]_vars
  PROVE  UsesAreDated'
<1>0. now \in Nat /\ MaxRun \in Nat /\ Nothing \notin Row /\ Nothing \notin Nat
  BY IndexAssumption DEF TypeOK
<1>1. CASE UNCHANGED <<index, usage, reported>> /\ (now' = now \/ now' = now + 1)
  BY <1>0, <1>1, Rows DEF UsesAreDated
<1>2. ASSUME NEW p \in Procs, upsert(p) PROVE UsesAreDated'
  <2>1. PICK a \in Artifacts :
          index' = [index EXCEPT ![a] = [body |-> proc[p].held, at |-> proc[p].at]]
    BY <1>2 DEF upsert
  <2>2. proc[p].at \in Nat /\ now <= proc[p].at + MaxRun
    BY <1>2, Settings DEF upsert, At, Timely, Running, TypeOK
  <2>3. proc[p].held \in Bodies
    BY <1>2 DEF upsert, At, TypeOK, WellFormed
  <2>4. index'[a] \in Row /\ index'[a].at = proc[p].at /\ \A b \in Artifacts \ {a} : index'[b] = index[b]
    BY <2>1, <2>2, <2>3, Rows DEF Row
  <2>5. UNCHANGED <<usage, reported, now>>
    BY <1>2 DEF upsert
  <2>6. ASSUME NEW b \in Artifacts
        PROVE  /\ usage'[b] # Nothing => index'[b] # Nothing
               /\ reported'[b] # Nothing =>
                    /\ reported'[b] <= now'
                    /\ index'[b] # Nothing =>
                         reported'[b] <= (IF usage'[b] = Nothing THEN index'[b].at ELSE usage'[b]) + MaxRun
    <3>1. CASE b = a
      BY <1>0, <2>2, <2>4, <2>5, <3>1, Rows DEF UsesAreDated
    <3>2. CASE b # a
      BY <2>4, <2>5, <3>2 DEF UsesAreDated
    <3> QED
      BY <3>1, <3>2
  <2> QED
    BY <2>6 DEF UsesAreDated
<1>3. ASSUME NEW p \in Procs, deleteOrphan(p) PROVE UsesAreDated'
  BY <1>3, Rows DEF UsesAreDated, deleteOrphan
<1>4. ASSUME NEW p \in Procs, trackUse(p) PROVE UsesAreDated'
  <2> DEFINE a == proc[p].paths[1]
             day == proc[p].at
  <2>1. day \in Nat /\ day <= now /\ now <= day + MaxRun
    BY <1>4, Settings DEF trackUse, At, Timely, Running, TypeOK
  <2>2. /\ UNCHANGED <<index, now>> /\ usage' = bumpedUsage(a, day)
        /\ reported' = [reported EXCEPT ![a] = IF @ = Nothing \/ @ < day THEN day ELSE @]
    BY <1>4 DEF trackUse
  <2> HIDE DEF a, day
  <2>3. ASSUME NEW b \in Artifacts
        PROVE  /\ usage'[b] # Nothing => index'[b] # Nothing
               /\ reported'[b] # Nothing =>
                    /\ reported'[b] <= now'
                    /\ index'[b] # Nothing =>
                         reported'[b] <= (IF usage'[b] = Nothing THEN index'[b].at ELSE usage'[b]) + MaxRun
    <3>1. CASE b # a
      BY <2>2, <3>1, Rows DEF UsesAreDated, bumpedUsage
    <3>2. CASE b = a
      <4>1. /\ usage'[b] = IF index[b] = Nothing THEN usage[b] ELSE day
            /\ reported'[b] = IF reported[b] = Nothing \/ reported[b] < day THEN day ELSE reported[b]
        BY <2>2, <3>2, Rows DEF bumpedUsage
      <4>2. reported[b] # Nothing => reported[b] <= now /\ reported[b] \in Nat
        BY Rows DEF UsesAreDated
      <4>3. reported'[b] \in Nat /\ reported'[b] <= now
        BY <2>1, <4>1, <4>2, <1>0
      <4>4. usage[b] # Nothing => index[b] # Nothing
        BY DEF UsesAreDated
      <4>5. index[b] # Nothing => usage'[b] = day /\ day # Nothing
        BY <4>1, <2>1, <1>0
      <4> QED
        BY <1>0, <2>1, <2>2, <4>1, <4>3, <4>4, <4>5
    <3> QED
      BY <3>1, <3>2
  <2> QED
    BY <2>3 DEF UsesAreDated
<1> QED
  <2>1. ASSUME NEW p \in Procs,
               \/ scanSkillFiles(p) \/ scanMemoryFiles(p) \/ statPath(p) \/ parseFile(p)
               \/ allUpserted(p) \/ listRows(p) \/ allChecked(p)
               \/ \E a \in Artifacts : checkOrphan(p, a)
               \/ nudgeTick(p) \/ Start(p) \/ Crash(p)
               \/ insertEvent(p) \/ incrementNudgeCounter(p) \/ signal(p) \/ markNudgeRun(p)
        PROVE  UNCHANGED <<index, usage, reported, now>>
    BY <2>1 DEF scanSkillFiles, scanMemoryFiles, statPath, parseFile, allUpserted, listRows,
                allChecked, checkOrphan, nudgeTick, insertEvent,
                incrementNudgeCounter, signal, markNudgeRun, Start, Crash
  <2>2. CASE NextDay
    BY <2>2, <1>1 DEF NextDay
  <2>3. ASSUME NEW a \in Artifacts, Write(a) \/ Delete(a) \/ Retire(a)
        PROVE  UNCHANGED <<index, usage, reported, now>>
    BY <2>3 DEF Write, Delete, Retire
  <2>4. CASE UNCHANGED vars
    BY <1>1, <2>4 DEF vars
  <2>5. UNCHANGED <<index, usage, reported, now>> => UsesAreDated'
    BY <1>1
  <2> QED
    BY <1>2, <1>3, <1>4, <2>1, <2>2, <2>3, <2>4, <2>5, Zenon DEF Next

\* A list of candidates is drawn up from dates that bound the reported uses.
LEMMA CandidatesUnused ==
  ASSUME TypeOK, UsesAreDated, NEW day \in Nat, NEW a \in listDeprecationCandidates(day)
  PROVE  reported[a] # Nothing => reported[a] + TTLDays <= day + MaxRun
<1>1. /\ a \in Artifacts /\ index[a] # Nothing /\ index[a].at + 2 * TTLDays <= day
      /\ usage[a] = Nothing \/ usage[a] + TTLDays <= day
  BY DEF listDeprecationCandidates
<1>2. /\ index[a].at \in Nat /\ TTLDays \in Nat /\ MaxRun \in Nat
      /\ usage[a] \in Nat \cup {Nothing} /\ reported[a] \in Nat \cup {Nothing}
  BY <1>1, Rows, IndexAssumption DEF Row
<1>3. reported[a] # Nothing =>
        reported[a] <= (IF usage[a] = Nothing THEN index[a].at ELSE usage[a]) + MaxRun
  BY <1>1 DEF UsesAreDated
<1> QED
  BY <1>1, <1>2, <1>3

LEMMA ListStep ==
  ASSUME TypeOK, UsesAreDated, [Next]_vars, NEW p \in Procs, At(p, "list"), NEW a \in proc'[p].report
  PROVE  reported[a] # Nothing => reported[a] + TTLDays <= proc[p].at + MaxRun
<1>0. proc[p].at \in Nat /\ proc[p].report = {} /\ proc[p] \in Process
  BY Settings DEF TypeOK, WellFormed, At
<1>1. CASE nudgeTick(p)
  <2>1. proc'[p] = [proc[p] EXCEPT !.pc = "done", !.report = listDeprecationCandidates(proc[p].at)]
    BY <1>1, NudgeTickStep, Movement
  <2>2. proc'[p].report = listDeprecationCandidates(proc[p].at)
    BY <2>1, <1>0 DEF Process
  <2> QED
    BY <2>2, <1>0, CandidatesUnused
<1>2. CASE Crash(p)
  <2>1. proc'[p] = Idle
    BY <1>2, CrashStep, Movement
  <2> QED
    BY <2>1 DEF Idle
<1>3. CASE ~nudgeTick(p) /\ ~Crash(p)
  <2>1. proc'[p] = proc[p]
    <3>1. ASSUME NEW q \in Procs \ {p}, NEW c, MovesTo(q, c) PROVE proc'[p] = proc[p]
      BY <3>1, Movement
    <3>2. ASSUME NEW q \in Procs,
                 \/ scanSkillFiles(q) \/ scanMemoryFiles(q) \/ statPath(q) \/ parseFile(q) \/ upsert(q)
                 \/ allUpserted(q) \/ listRows(q) \/ deleteOrphan(q) \/ allChecked(q)
                 \/ \E b \in Artifacts : checkOrphan(q, b)
                 \/ trackUse(q)
                 \/ insertEvent(q) \/ incrementNudgeCounter(q) \/ signal(q) \/ markNudgeRun(q)
          PROVE  proc'[p] = proc[p]
      <4>1. p # q
        BY <3>2 DEF At, afterPrune, scanSkillFiles, scanMemoryFiles, statPath, parseFile, upsert,
               allUpserted, listRows, deleteOrphan, allChecked, checkOrphan, trackUse, insertEvent,
               incrementNudgeCounter, signal, markNudgeRun
      <4> QED
        BY <3>1, <3>2, <4>1, SameCommandStep
    <3>3. ASSUME NEW q \in Procs, Start(q) \/ Crash(q) \/ nudgeTick(q) PROVE proc'[p] = proc[p]
      <4>1. p # q
        BY <1>3, <3>3 DEF At, Start, Running
      <4> QED
        BY <3>1, <3>3, <4>1, StartStep, CrashStep, NudgeTickStep
    <3>4. CASE NextDay \/ (\E b \in Artifacts : Write(b) \/ Delete(b) \/ Retire(b)) \/ UNCHANGED vars
      BY <3>4 DEF NextDay, Write, Delete, Retire, vars
    <3> QED
      BY <3>2, <3>3, <3>4, Zenon DEF Next
  <2> QED
    BY <2>1, <1>0
<1> QED
  BY <1>1, <1>2, <1>3

\* Whatever is proposed for deprecation was not reported as used within its time
\* to live, for any number of sessions that report uses while paths come and go
\* (runNudgeTick, ListDeprecationCandidates, IncrementSkillUsage).
THEOREM ProposalsAreUnused == Spec => ProposedIsUnused
<1>1. Init => TypeOK /\ Timely /\ UsesAreDated
  BY InitTypeOK, InitTimely
<1>2. TypeOK /\ Timely /\ UsesAreDated /\ [Next]_vars => (TypeOK /\ Timely /\ UsesAreDated)'
  BY NextTypeOK, NextTimely, NextDated
<1>3. TypeOK /\ UsesAreDated /\ [Next]_vars =>
        [\A p \in Procs : At(p, "list") =>
           \A a \in proc'[p].report :
             reported[a] # Nothing => reported[a] + TTLDays <= proc[p].at + MaxRun]_vars
  BY ListStep
<1> QED
  BY <1>1, <1>2, <1>3, PTL DEF Spec, ProposedIsUnused

-----------------------------------------------------------------------------
(***************************************************************************)
(* The nudge counter                                                       *)
(***************************************************************************)
LoopsOK == EventsCoverLoops /\ CountsDiffer /\ LoopsBelow

LEMMA FiniteLoops ==
  /\ IsFiniteSet(Incrementing) /\ Cardinality(Incrementing) \in Nat
  /\ IsFiniteSet(Below) /\ Cardinality(Below) \in Nat
<1>1. IsFiniteSet(Incrementing)
  BY IndexAssumption, FS_Subset DEF Incrementing
<1>2. IsFiniteSet(1..(NudgeThreshold - 1))
  BY IndexAssumption, FS_Interval
<1>3. IsFiniteSet(Below)
  BY <1>2, FS_Subset DEF Below
<1> QED
  BY <1>1, <1>3, FS_CardinalityType

LEMMA InitLoops == Init => LoopsOK
<1> SUFFICES ASSUME Init PROVE LoopsOK
  OBVIOUS
<1>1. Incrementing = {} /\ Below = {}
  BY DEF Init, Incrementing, Below, Counted, At, Idle
<1>2. Cardinality(Incrementing) = 0 /\ Cardinality(Below) = 0
  BY <1>1, FS_EmptySet
<1>3. EventsCoverLoops
  BY <1>2 DEF Init, EventsCoverLoops
<1>4. CountsDiffer
  BY DEF Init, CountsDiffer, Counted, At, Idle
<1>5. LoopsBelow
  BY <1>2, IndexAssumption DEF Init, LoopsBelow
<1> QED
  BY <1>3, <1>4, <1>5 DEF LoopsOK

\* A step that moves nobody into the counting part of complete-task.
LEMMA FewerLoops ==
  ASSUME TypeOK, TypeOK', LoopsOK, UNCHANGED nudges,
         \A q \in Procs : /\ At(q, "increment")' => At(q, "increment")
                          /\ At(q, "signal")' => At(q, "signal") /\ proc'[q] = proc[q]
  PROVE  LoopsOK'
<1>1. UNCHANGED events /\ UNCHANGED counter /\ UNCHANGED epoch /\ UNCHANGED loops /\ signalled' = signalled
  BY DEF nudges
<1>2. \A q \in Procs : Counted(q)' => Counted(q) /\ proc'[q] = proc[q]
  BY <1>1 DEF Counted, At
<1>3. Incrementing' \subseteq Incrementing /\ Below' \subseteq Below
  BY <1>2 DEF Incrementing, Below
<1>4. /\ Cardinality(Incrementing') <= Cardinality(Incrementing) /\ Cardinality(Incrementing') \in Nat
      /\ Cardinality(Below') <= Cardinality(Below) /\ Cardinality(Below') \in Nat
  BY <1>3, FiniteLoops, FS_Subset, FS_CardinalityType
<1>5. /\ counter \in Nat /\ events \in Nat /\ loops \in Nat /\ NudgeThreshold \in Nat
      /\ Cardinality(Incrementing) \in Nat /\ Cardinality(Below) \in Nat
  BY FiniteLoops, IndexAssumption DEF TypeOK
<1>6. EventsCoverLoops'
  BY <1>1, <1>4, <1>5 DEF LoopsOK, EventsCoverLoops
<1>7. CountsDiffer'
  BY <1>1, <1>2 DEF LoopsOK, CountsDiffer, At
<1>8. LoopsBelow'
  BY <1>1, <1>4, <1>5 DEF LoopsOK, LoopsBelow
<1> QED
  BY <1>6, <1>7, <1>8 DEF LoopsOK

LEMMA InsertEventLoops ==
  ASSUME TypeOK, LoopsOK, NEW p \in Procs, insertEvent(p)
  PROVE  LoopsOK'
<1>0. proc[p] \in Process /\ events \in Nat /\ counter \in Nat
  BY DEF TypeOK
<1>1. /\ proc'[p] = [proc[p] EXCEPT !.pc = "increment"]
      /\ \A q \in Procs \ {p} : proc'[q] = proc[q]
  BY InsertEventStep, Movement
<1>2. proc'[p].pc = "increment" /\ proc[p].pc = "insertEvent"
  BY <1>0, <1>1 DEF Process, insertEvent, At
<1>3. /\ events' = events + 1 /\ counter' = counter /\ epoch' = epoch /\ loops' = loops
      /\ signalled' = signalled
  BY DEF insertEvent
<1>4. Incrementing' = Incrementing \cup {p} /\ p \notin Incrementing
  BY <1>1, <1>2 DEF Incrementing, At
<1>5. \A q \in Procs : (Counted(q)' <=> Counted(q)) /\ (At(q, "signal")' => At(q, "signal") /\ q # p)
  BY <1>1, <1>2, <1>3 DEF Counted, At
<1>6. Below' = Below
  BY <1>1, <1>2, <1>5 DEF Below, Counted, At
<1>7. Cardinality(Incrementing') = Cardinality(Incrementing) + 1 /\ Cardinality(Incrementing) \in Nat
  BY <1>4, FiniteLoops, FS_AddElement
<1>8. EventsCoverLoops'
  BY <1>0, <1>3, <1>7 DEF LoopsOK, EventsCoverLoops
<1>9. CountsDiffer'
  BY <1>1, <1>2, <1>3, <1>5 DEF LoopsOK, CountsDiffer, Counted, At
<1>10. LoopsBelow'
  BY <1>3, <1>6 DEF LoopsOK, LoopsBelow
<1> QED
  BY <1>8, <1>9, <1>10 DEF LoopsOK

LEMMA IncrementLoops ==
  ASSUME TypeOK, LoopsOK, NEW p \in Procs, incrementNudgeCounter(p)
  PROVE  LoopsOK'
<1>0. /\ proc[p] \in Process /\ events \in Nat /\ counter \in Nat /\ epoch \in Nat /\ loops \in Nat
      /\ NudgeThreshold \in Nat \ {0}
  BY IndexAssumption DEF TypeOK
<1> DEFINE n == counter + 1
<1>n. n \in Nat
  BY <1>0
<1> HIDE DEF n
<1>1. /\ proc'[p] = [proc[p] EXCEPT !.pc = "signal", !.count = n, !.epoch = epoch]
      /\ \A q \in Procs \ {p} : proc'[q] = proc[q]
  BY IncrementStep, Movement DEF n
<1>2. proc'[p].pc = "signal" /\ proc'[p].count = n /\ proc'[p].epoch = epoch
  BY <1>0, <1>1 DEF Process
<1>p. proc[p].pc = "increment"
  BY DEF incrementNudgeCounter, At
<1>3. /\ events' = events /\ counter' = n /\ epoch' = epoch /\ loops' = loops
      /\ signalled' = signalled
  BY DEF incrementNudgeCounter, n
<1>4. Incrementing' = Incrementing \ {p} /\ p \in Incrementing
  <2>1. \A q \in Procs : At(q, "increment")' <=> At(q, "increment") /\ q # p
    BY <1>1, <1>2 DEF At
  <2> QED
    BY <2>1, <1>p DEF Incrementing, At
<1>5. Cardinality(Incrementing') = Cardinality(Incrementing) - 1 /\ Cardinality(Incrementing) \in Nat
  BY <1>4, FiniteLoops, FS_RemoveElement
<1>6. EventsCoverLoops'
  BY <1>0, <1>3, <1>5 DEF LoopsOK, EventsCoverLoops, n
<1>7. /\ Counted(p)' /\ ~Counted(p)
      /\ \A q \in Procs \ {p} : (Counted(q)' <=> Counted(q)) /\ (At(q, "signal")' <=> At(q, "signal"))
  BY <1>1, <1>2, <1>3, <1>p DEF Counted, At
<1>8. \A q \in Procs : Counted(q) => proc[q].count \in 1..counter
  BY DEF LoopsOK, CountsDiffer
<1>9. CountsDiffer'
  <2>1. ASSUME NEW q \in Procs, At(q, "signal")' PROVE proc'[q].epoch <= epoch'
    <3>1. CASE q = p
      BY <3>1, <1>0, <1>2, <1>3
    <3>2. CASE q # p
      BY <3>2, <2>1, <1>1, <1>3, <1>7 DEF LoopsOK, CountsDiffer
    <3> QED
      BY <3>1, <3>2
  <2>2. ASSUME NEW q \in Procs, Counted(q)' PROVE proc'[q].count \in 1..counter'
    <3>1. CASE q = p
      BY <3>1, <1>0, <1>2, <1>3 DEF n
    <3>2. CASE q # p
      <4>1. proc'[q] = proc[q] /\ proc[q].count \in 1..counter
        BY <3>2, <2>2, <1>1, <1>7, <1>8
      <4> QED
        BY <4>1, <1>0, <1>3 DEF n
    <3> QED
      BY <3>1, <3>2
  <2>3. ASSUME NEW q \in Procs \ {p}, Counted(q)' PROVE proc'[q].count # proc'[p].count
    <3>1. proc'[q] = proc[q] /\ proc[q].count \in 1..counter
      BY <2>3, <1>1, <1>7, <1>8
    <3> QED
      BY <3>1, <1>0, <1>2 DEF n
  <2>4. ASSUME NEW q \in Procs \ {p}, NEW o \in Procs \ {p}, Counted(q)', Counted(o)',
               proc'[q].count = proc'[o].count
        PROVE  q = o
    BY <2>4, <1>1, <1>7 DEF LoopsOK, CountsDiffer
  <2> QED
    BY <2>1, <2>2, <2>3, <2>4 DEF CountsDiffer
<1>10. LoopsBelow'
  <2>0. Cardinality(Below) \in Nat /\ IsFiniteSet(Below)
    BY FiniteLoops
  <2>b. \A i \in 1..(NudgeThreshold - 1) : i \in Below' <=> i \in Below \/ i = n
    BY <1>1, <1>2, <1>7 DEF Below
  <2>1. CASE n < NudgeThreshold
    <3>1. n \in 1..(NudgeThreshold - 1)
      BY <1>0, <2>1 DEF n
    <3>2. Below' = Below \cup {n}
      BY <2>b, <3>1 DEF Below
    <3>3. n \notin Below
      BY <1>0, <1>8 DEF Below, n
    <3>4. Cardinality(Below') = Cardinality(Below) + 1
      BY <2>0, <3>2, <3>3, FS_AddElement
    <3> QED
      BY <1>0, <1>3, <2>0, <2>1, <3>4 DEF LoopsOK, LoopsBelow, n
  <2>2. CASE ~(n < NudgeThreshold)
    <3>1. n \notin 1..(NudgeThreshold - 1)
      BY <1>0, <1>n, <2>2
    <3>2. Below' = Below
      BY <2>b, <3>1 DEF Below
    <3> QED
      BY <1>0, <1>3, <2>0, <3>2 DEF LoopsOK, LoopsBelow, n
  <2> QED
    BY <2>1, <2>2
<1> QED
  BY <1>6, <1>9, <1>10 DEF LoopsOK

LEMMA SignalLoops ==
  ASSUME TypeOK, LoopsOK, NEW p \in Procs, signal(p)
  PROVE  LoopsOK'
<1>0. /\ proc[p] \in Process /\ events \in Nat /\ counter \in Nat /\ epoch \in Nat /\ loops \in Nat
      /\ NudgeThreshold \in Nat \ {0} /\ proc[p].count \in Nat
  BY IndexAssumption, Settings DEF TypeOK
<1>1. proc'[p] = Ends(proc[p]) /\ \A q \in Procs \ {p} : proc'[q] = proc[q]
  BY EndStep, Movement DEF signal
<1>2. proc'[p].pc = "done" /\ proc[p].pc = "signal"
  BY <1>0, <1>1 DEF Process, signal, At, Ends
<1>3. events' = events /\ counter' = counter /\ epoch' = epoch
  BY DEF signal
<1>4. Incrementing' = Incrementing
  BY <1>1, <1>2 DEF Incrementing, At
<1>5. EventsCoverLoops'
  BY <1>3, <1>4 DEF LoopsOK, EventsCoverLoops
<1>6. /\ ~Counted(p)' /\ ~At(p, "signal")'
      /\ \A q \in Procs \ {p} : (Counted(q)' <=> Counted(q)) /\ (At(q, "signal")' <=> At(q, "signal"))
  BY <1>1, <1>2, <1>3 DEF Counted, At
<1>7. CountsDiffer'
  BY <1>1, <1>3, <1>6 DEF LoopsOK, CountsDiffer
<1>8. LoopsBelow'
  <2>0. Cardinality(Below) \in Nat /\ IsFiniteSet(Below) /\ Cardinality(Below') \in Nat
    BY FiniteLoops, FS_Subset, FS_CardinalityType, <1>6, <1>1 DEF Below
  <2>1. CASE proc[p].epoch # epoch
    <3>1. loops' = loops /\ (signalled' <=> signalled)
      BY <2>1 DEF signal
    <3>2. ~Counted(p)
      BY <2>1 DEF Counted
    <3>3. Below' = Below
      BY <3>2, <1>1, <1>6 DEF Below
    <3> QED
      BY <1>3, <3>1, <3>3 DEF LoopsOK, LoopsBelow
  <2>2. CASE proc[p].epoch = epoch /\ nudgeDue(proc[p].count)
    <3>1. signalled'
      BY <2>2 DEF signal
    <3> QED
      BY <3>1 DEF LoopsBelow
  <2>3. CASE proc[p].epoch = epoch /\ ~nudgeDue(proc[p].count)
    <3>1. loops' = loops + 1 /\ (signalled' <=> signalled)
      BY <2>3 DEF signal
    <3>2. Counted(p)
      BY <2>3, <1>2 DEF Counted, At
    <3>3. proc[p].count \in Below
      BY <1>0, <2>3, <3>2 DEF LoopsOK, CountsDiffer, Below, nudgeDue
    <3>4. \A q \in Procs \ {p} : Counted(q) => proc[q].count # proc[p].count
      BY <3>2 DEF LoopsOK, CountsDiffer
    <3>5. Below' = Below \ {proc[p].count}
      BY <1>1, <1>6, <3>4 DEF Below
    <3>6. Cardinality(Below') = Cardinality(Below) - 1
      BY <2>0, <3>3, <3>5, FS_RemoveElement
    <3> QED
      BY <1>0, <1>3, <2>0, <3>1, <3>6 DEF LoopsOK, LoopsBelow
  <2> QED
    BY <2>1, <2>2, <2>3
<1> QED
  BY <1>5, <1>7, <1>8 DEF LoopsOK

LEMMA ResetLoops ==
  ASSUME TypeOK, LoopsOK, NEW p \in Procs, markNudgeRun(p)
  PROVE  LoopsOK'
<1>0. /\ proc[p] \in Process /\ events \in Nat /\ counter \in Nat /\ epoch \in Nat
      /\ NudgeThreshold \in Nat \ {0} /\ \A q \in Procs : proc[q].epoch \in Nat
  BY IndexAssumption, Settings DEF TypeOK
<1>1. proc'[p] = Ends(proc[p]) /\ \A q \in Procs \ {p} : proc'[q] = proc[q]
  BY EndStep, Movement DEF markNudgeRun
<1>2. proc'[p].pc = "done" /\ proc[p].pc = "markNudgeRun"
  BY <1>0, <1>1 DEF Process, markNudgeRun, At, Ends
<1>3. events' = events /\ counter' = 0 /\ epoch' = epoch + 1 /\ loops' = 0
  BY DEF markNudgeRun
<1>4. Incrementing' = Incrementing
  BY <1>1, <1>2 DEF Incrementing, At
<1>5. EventsCoverLoops'
  BY <1>0, <1>3, <1>4, FiniteLoops DEF LoopsOK, EventsCoverLoops
<1>6. \A q \in Procs : At(q, "signal")' => proc'[q] = proc[q] /\ proc[q].epoch <= epoch
  BY <1>1, <1>2 DEF At, LoopsOK, CountsDiffer
<1>7. \A q \in Procs : ~Counted(q)'
  BY <1>0, <1>3, <1>6 DEF Counted
<1>8. CountsDiffer'
  BY <1>0, <1>3, <1>6, <1>7 DEF CountsDiffer
<1>9. Below' = {}
  BY <1>7 DEF Below
<1>10. Cardinality(Below') = 0
  BY <1>9, FS_EmptySet
<1>11. LoopsBelow'
  BY <1>0, <1>3, <1>10 DEF LoopsBelow
<1> QED
  BY <1>5, <1>8, <1>11 DEF LoopsOK

\* What is left of a step when the counter is not part of it.
LEMMA OtherLoops ==
  ASSUME TypeOK, TypeOK', LoopsOK, NEW p \in Procs,
         \/ scanSkillFiles(p) \/ scanMemoryFiles(p) \/ statPath(p) \/ parseFile(p) \/ upsert(p)
         \/ allUpserted(p) \/ listRows(p) \/ deleteOrphan(p) \/ allChecked(p)
         \/ \E a \in Artifacts : checkOrphan(p, a)
         \/ trackUse(p) \/ nudgeTick(p) \/ Start(p) \/ Crash(p)
  PROVE  LoopsOK'
<1>1. PICK c : MovesTo(p, c)
  BY SameCommandStep, StartStep, CrashStep
<1>2. proc'[p] = c /\ \A q \in Procs \ {p} : proc'[q] = proc[q]
  BY <1>1, Movement
<1>3. proc'[p].pc \notin {"increment", "signal"}
  <2>0. proc[p] \in Process /\ proc \in [Procs -> Process]
    BY DEF TypeOK
  <2> USE <2>0
  <2>1. CASE \/ scanSkillFiles(p) \/ scanMemoryFiles(p) \/ statPath(p) \/ parseFile(p) \/ upsert(p)
             \/ trackUse(p) \/ nudgeTick(p)
    <3>1. CASE scanSkillFiles(p) \/ scanMemoryFiles(p) \/ trackUse(p) \/ nudgeTick(p)
      BY <3>1 DEF scanSkillFiles, scanMemoryFiles, trackUse, nudgeTick, Process
    <3>2. CASE statPath(p) \/ parseFile(p)
      BY <3>2 DEF statPath, parseFile, Fail, Process
    <3>3. CASE upsert(p)
      <4>1. PICK a \in Artifacts :
              proc' = [proc EXCEPT ![p].pc = "parse", ![p].toRead = @ \ {a}, ![p].held = Nothing]
        BY <3>3 DEF upsert
      <4>2. proc'[p] = [proc[p] EXCEPT !.pc = "parse", !.toRead = @ \ {a}, !.held = Nothing]
        BY <4>1, UpsertStep, Movement
      <4> QED
        BY <4>2 DEF Process
    <3> QED
      BY <2>1, <3>1, <3>2, <3>3
  <2>2. CASE \/ allUpserted(p) \/ listRows(p) \/ deleteOrphan(p) \/ allChecked(p)
             \/ \E a \in Artifacts : checkOrphan(p, a)
    <3>1. CASE allUpserted(p) \/ listRows(p)
      BY <3>1 DEF allUpserted, listRows, Goto, Process
    <3>2. CASE deleteOrphan(p)
      BY <3>2 DEF deleteOrphan, afterPrune, Fail, Process
    <3>3. CASE allChecked(p)
      BY <3>3 DEF allChecked, afterPrune, Goto, Process
    <3>4. CASE \E a \in Artifacts : checkOrphan(p, a)
      BY <3>4 DEF checkOrphan, afterPrune, Process
    <3> QED
      BY <2>2, <3>1, <3>2, <3>3, <3>4
  <2>3. CASE Crash(p)
    BY <2>3 DEF Crash, Idle
  <2>4. CASE Start(p)
    <3>1. proc'[p] = Started(todo[1]) /\ todo[1] \in Command
      BY <2>4, StartStep, Movement
    <3>2. proc'[p].pc = firstStep[todo[1].op]
      BY <3>1, StartedWith, Zenon
    <3> QED
      BY <3>1, <3>2, Commands DEF Indexing
  <2> QED
    BY <2>1, <2>2, <2>3, <2>4
<1>4. UNCHANGED nudges
  BY DEF scanSkillFiles, scanMemoryFiles, statPath, parseFile, upsert, allUpserted, listRows,
         deleteOrphan, allChecked, checkOrphan, trackUse, nudgeTick, Start, Crash
<1> QED
  BY <1>2, <1>3, <1>4, FewerLoops DEF At

LEMMA NextLoops ==
  ASSUME TypeOK, TypeOK', LoopsOK, [Next]_vars
  PROVE  LoopsOK'
<1>1. CASE NextDay \/ (\E a \in Artifacts : Write(a) \/ Delete(a) \/ Retire(a)) \/ UNCHANGED vars
  <2>1. UNCHANGED <<nudges, proc>>
    BY <1>1 DEF NextDay, Write, Delete, Retire, vars
  <2> QED
    BY <2>1, FewerLoops DEF At
<1> QED
  BY <1>1, OtherLoops, InsertEventLoops, IncrementLoops, SignalLoops, ResetLoops DEF Next

\* For any threshold and any number of overlapping sessions: NudgeThreshold
\* counted and ended loops have been signalled, and no loop is counted that has
\* no event (runCompleteTask, IncrementNudgeCounter, MarkNudgeRun).
THEOREM LoopsAreSignalled == Spec => []NudgesCountLoops
<1>1. Init => TypeOK /\ LoopsOK
  BY InitTypeOK, InitLoops
<1>2. TypeOK /\ LoopsOK /\ [Next]_vars => (TypeOK /\ LoopsOK)'
  BY NextTypeOK, NextLoops
<1>3. TypeOK /\ LoopsOK => NudgesCountLoops
  <2> SUFFICES ASSUME TypeOK, LoopsOK PROVE NudgesCountLoops
    OBVIOUS
  <2>1. /\ loops \in Nat /\ counter \in Nat /\ events \in Nat /\ NudgeThreshold \in Nat
        /\ Cardinality(Below) \in Nat /\ Cardinality(Incrementing) \in Nat
    BY FiniteLoops, IndexAssumption DEF TypeOK
  <2>2. counter <= events
    BY <2>1 DEF LoopsOK, EventsCoverLoops
  <2>3. ~signalled => ~(loops >= NudgeThreshold)
    BY <2>1 DEF LoopsOK, LoopsBelow
  <2> QED
    BY <2>2, <2>3 DEF NudgesCountLoops
<1> QED
  BY <1>1, <1>2, <1>3, PTL DEF Spec

-----------------------------------------------------------------------------
(***************************************************************************)
(* An undisturbed reindex                                                  *)
(***************************************************************************)
LEMMA InitUndisturbed == Init => Undisturbed
  BY DEF Init, Undisturbed

\* What a process sees of the files and the tables while they stay as they are.
LEMMA SameView ==
  ASSUME NEW p, proc'[p].at = proc[p].at, proc'[p].since = proc[p].since, UNCHANGED files
  PROVE  /\ \A a : isLooked(p, a)' <=> isLooked(p, a)
         /\ index' = index => \A a : isOrphan(a)' <=> isOrphan(a)
         /\ index' = index => \A a : isMirrored(p, a)' <=> isMirrored(p, a)
         /\ disk' = disk
  BY DEF files, isLooked, isOrphan, isMirrored, fileExists, mtimeMatches

LEMMA KeepStage ==
  ASSUME NEW q, Stage(q), proc'[q] = proc[q], UNCHANGED <<files, index, usage>>
  PROVE  Stage(q)'
<1>1. /\ \A a : isLooked(q, a)' <=> isLooked(q, a)
      /\ \A a : isOrphan(a)' <=> isOrphan(a)
      /\ \A a : isMirrored(q, a)' <=> isMirrored(q, a)
      /\ disk' = disk /\ usage' = usage /\ index' = index
  BY SameView
<1>2. \A a : isNext(q, a)' <=> isNext(q, a)
  BY DEF isNext
<1>3. Scanning(q)'
  BY <1>1 DEF Stage, Scanning, At
<1>4. Reading(q)'
  BY <1>1, <1>2 DEF Stage, Reading, At
<1>5. Pruning(q)'
  BY <1>1 DEF Stage, Pruning, AllMirrored, NoOrphans
<1>6. \A paths : Checking(q, paths)' <=> Checking(q, paths)
  BY <1>1 DEF Checking
<1>7. Ended(q)'
  BY <1>1 DEF Stage, Ended, At, AllMirrored, NoOrphans
<1> QED
  BY <1>3, <1>4, <1>5, <1>6, <1>7 DEF Stage, At, Running

\* A step of p that reads leaves the others as they are.
LEMMA OnlyMine ==
  ASSUME TypeOK, Undisturbed, NEW p \in Procs, NEW c, MovesTo(p, c), UNCHANGED <<files, index, usage>>,
         quiet' \subseteq quiet, p \in quiet' => Stage(p)'
  PROVE  Undisturbed'
<1>1. ASSUME NEW q \in quiet', q # p PROVE Stage(q)'
  <2>1. Stage(q) /\ q \in Procs
    BY <1>1 DEF Undisturbed, TypeOK
  <2>2. proc'[q] = proc[q]
    BY <1>1, <2>1, Movement
  <2> QED
    BY <2>1, <2>2, KeepStage
<1> QED
  BY <1>1 DEF Undisturbed

LEMMA OneNext ==
  ASSUME NEW p, NEW a, NEW b, isNext(p, a), isNext(p, b)
  PROVE  a = b
<1>0. scanOrder \in Seq(Artifacts)
  <2>1. Skills \in Seq(Artifacts) /\ Memories \in Seq(Artifacts)
    BY IndexAssumption DEF Artifacts
  <2> QED
    BY <2>1, ConcatProperties DEF scanOrder
<1>1. PICK i \in DOMAIN scanOrder : scanOrder[i] = a /\ a \in proc[p].toRead
                                    /\ \A j \in 1..(i - 1) : scanOrder[j] \notin proc[p].toRead
  BY DEF isNext
<1>2. PICK k \in DOMAIN scanOrder : scanOrder[k] = b /\ b \in proc[p].toRead
                                    /\ \A j \in 1..(k - 1) : scanOrder[j] \notin proc[p].toRead
  BY DEF isNext
<1>3. i \in Nat \ {0} /\ k \in Nat \ {0}
  BY <1>0, LenProperties
<1>4. ~(i < k) /\ ~(k < i)
  BY <1>1, <1>2, <1>3
<1> QED
  BY <1>1, <1>2, <1>3, <1>4

LEMMA ScanStages ==
  ASSUME TypeOK, NEW p \in quiet, Stage(p), scanSkillFiles(p) \/ scanMemoryFiles(p)
  PROVE  Stage(p)'
<1>0. proc[p] \in Process /\ p \in Procs
  BY DEF TypeOK
<1>1. CASE scanSkillFiles(p)
  <2>1. proc'[p] = [proc[p] EXCEPT !.pc = "scanMemory", !.toRead = scanned(SkillPaths, p)]
    BY <1>0, <1>1, ScanSkillFilesStep, Movement
  <2>2. /\ proc'[p].pc = "scanMemory" /\ proc'[p].toRead = scanned(SkillPaths, p)
        /\ proc'[p].op = proc[p].op /\ proc'[p].at = proc[p].at /\ proc'[p].since = proc[p].since
        /\ proc'[p].failed = proc[p].failed /\ proc'[p].held = proc[p].held
    BY <1>0, <2>1 DEF Process
  <2>3. \A a : isLooked(p, a)' <=> isLooked(p, a)
    BY <1>1, <2>2, SameView DEF scanSkillFiles
  <2>4. Scanning(p)'
    BY <2>2, <2>3 DEF Scanning, At, scanned
  <2>5. proc[p].pc = "scanSkills"
    BY <1>1 DEF scanSkillFiles, At
  <2> QED
    BY <2>2, <2>4, <2>5 DEF Stage, Reading, Pruning, Ended, At, Running, Indexing
<1>2. CASE scanMemoryFiles(p)
  <2>1. proc'[p] = [proc[p] EXCEPT !.pc = "parse", !.toRead = @ \cup scanned(MemoryPaths, p)]
    BY <1>0, <1>2, ScanMemoryFilesStep, Movement
  <2>2. /\ proc'[p].pc = "parse" /\ proc'[p].toRead = proc[p].toRead \cup scanned(MemoryPaths, p)
        /\ proc'[p].op = proc[p].op /\ proc'[p].at = proc[p].at /\ proc'[p].since = proc[p].since
        /\ proc'[p].failed = proc[p].failed /\ proc'[p].held = proc[p].held
    BY <1>0, <2>1 DEF Process
  <2>3. \A a : isLooked(p, a)' <=> isLooked(p, a)
    BY <1>2, <2>2, SameView DEF scanMemoryFiles
  <2>4. proc[p].pc = "scanMemory" /\ proc[p].toRead = {a \in SkillPaths : isLooked(p, a)}
    BY <1>2 DEF scanMemoryFiles, At, Stage, Scanning
  <2>5. proc'[p].toRead = {a \in Artifacts : isLooked(p, a)}
    BY <2>2, <2>4 DEF scanned, Artifacts, SkillPaths, MemoryPaths
  <2>6. Reading(p)'
    BY <2>2, <2>3, <2>5 DEF Reading, At
  <2> QED
    BY <2>2, <2>4, <2>6 DEF Stage, Scanning, Pruning, Ended, At, Running, Indexing
<1> QED
  BY <1>1, <1>2

\* A quiet process that fails.
LEMMA FailStage ==
  ASSUME TypeOK, NEW p \in quiet, Stage(p), Fail(p), UNCHANGED <<files, index, usage>>,
         \/ \E a \in Artifacts : isLooked(p, a) /\ ~disk[a].ok
         \/ \E a \in Artifacts : isOrphan(a) /\ usage[a] # Nothing
  PROVE  Stage(p)'
<1>0. proc[p] \in Process /\ p \in Procs
  BY DEF TypeOK
<1>1. proc'[p] = Fails(proc[p])
  BY <1>0, EndStep, Movement
<1>2. /\ proc'[p].pc = "done" /\ proc'[p].op = proc[p].op /\ proc'[p].failed = TRUE
      /\ proc'[p].at = proc[p].at /\ proc'[p].since = proc[p].since
  BY <1>0, <1>1 DEF Process, Fails
<1>3. /\ \A a : isLooked(p, a)' <=> isLooked(p, a)
      /\ \A a : isOrphan(a)' <=> isOrphan(a)
      /\ disk' = disk /\ usage' = usage
  BY <1>2, SameView
<1>4. Ended(p)'
  BY <1>2, <1>3 DEF Ended, At
<1> QED
  BY <1>2, <1>4 DEF Stage, Scanning, Reading, Pruning, At, Running

LEMMA ParseStages ==
  ASSUME TypeOK, NEW p \in quiet, Stage(p), parseFile(p)
  PROVE  Stage(p)'
<1>0. proc[p] \in Process /\ p \in Procs
  BY DEF TypeOK
<1>1. PICK a \in Artifacts :
        /\ isNext(p, a)
        /\ IF parses(a) THEN proc' = [proc EXCEPT ![p].pc = "upsert", ![p].held = disk[a].body]
                        ELSE Fail(p)
  BY DEF parseFile
<1>2. /\ proc[p].pc = "parse" /\ UNCHANGED <<files, index, usage>> /\ a \in proc[p].toRead
      /\ proc[p].held = Nothing /\ Reading(p)
  BY <1>1 DEF parseFile, At, isNext, Stage
<1>3. isLooked(p, a)
  BY <1>2 DEF Reading
<1>4. CASE ~parses(a)
  <2>1. ~disk[a].ok
    BY <1>3, <1>4 DEF parses, isLooked
  <2> QED
    BY <1>1, <1>2, <1>3, <1>4, <2>1, FailStage
<1>5. CASE parses(a)
  <2>1. disk[a].body \in Bodies
    BY <1>5 DEF TypeOK, parses, fileExists, File
  <2>2. proc'[p] = [proc[p] EXCEPT !.pc = "upsert", !.held = disk[a].body]
    BY <1>0, <1>1, <1>5, <2>1, ParseFileStep, Movement
  <2>3. /\ proc'[p].pc = "upsert" /\ proc'[p].toRead = proc[p].toRead
        /\ proc'[p].op = proc[p].op /\ proc'[p].at = proc[p].at /\ proc'[p].since = proc[p].since
        /\ proc'[p].failed = proc[p].failed /\ proc'[p].held = disk[a].body
    BY <1>0, <2>2 DEF Process
  <2>4. /\ \A b : isLooked(p, b)' <=> isLooked(p, b)
        /\ \A b : isMirrored(p, b)' <=> isMirrored(p, b)
        /\ disk' = disk
    BY <1>2, <2>3, SameView
  <2>5. \A b : isNext(p, b)' => b = a
    <3>1. \A b : isNext(p, b)' <=> isNext(p, b)
      BY <2>3 DEF isNext
    <3> QED
      BY <1>1, <3>1, OneNext
  <2>6. Reading(p)'
    BY <1>2, <2>3, <2>4, <2>5 DEF Reading, At
  <2> QED
    BY <1>2, <2>3, <2>6 DEF Stage, Scanning, Pruning, Ended, At, Running, Indexing
<1> QED
  BY <1>4, <1>5

LEMMA UpsertStage ==
  ASSUME TypeOK, NEW p \in quiet, Stage(p), upsert(p)
  PROVE  Stage(p)'
<1>0. proc[p] \in Process /\ p \in Procs
  BY DEF TypeOK
<1>1. PICK a \in Artifacts :
        /\ isNext(p, a)
        /\ index' = [index EXCEPT ![a] = [body |-> proc[p].held, at |-> proc[p].at]]
        /\ proc' = [proc EXCEPT ![p].pc = "parse", ![p].toRead = @ \ {a}, ![p].held = Nothing]
  BY DEF upsert
<1>2. proc[p].pc = "upsert" /\ UNCHANGED files /\ Reading(p) /\ proc[p].held = disk[a].body
  BY <1>1 DEF upsert, At, Stage, Reading
<1>3. proc'[p] = [proc[p] EXCEPT !.pc = "parse", !.toRead = @ \ {a}, !.held = Nothing]
  BY <1>0, <1>1, UpsertStep, Movement
<1>4. /\ proc'[p].pc = "parse" /\ proc'[p].toRead = proc[p].toRead \ {a}
      /\ proc'[p].op = proc[p].op /\ proc'[p].at = proc[p].at /\ proc'[p].since = proc[p].since
      /\ proc'[p].failed = proc[p].failed /\ proc'[p].held = Nothing
  BY <1>0, <1>3 DEF Process
<1>5. (\A b : isLooked(p, b)' <=> isLooked(p, b)) /\ disk' = disk
  BY <1>2, <1>4, SameView
<1>6. isMirrored(p, a)' /\ \A b \in Artifacts \ {a} : isMirrored(p, b)' <=> isMirrored(p, b)
  BY <1>1, <1>2, <1>4, <1>5, Rows DEF isMirrored
<1>7. Reading(p)'
  BY <1>2, <1>4, <1>5, <1>6 DEF Reading, At
<1> QED
  BY <1>2, <1>4, <1>7 DEF Stage, Scanning, Pruning, Ended, At, Running, Indexing

LEMMA UpsertedStage ==
  ASSUME TypeOK, NEW p \in quiet, Stage(p), allUpserted(p)
  PROVE  Stage(p)'
<1>0. proc[p] \in Process /\ p \in Procs
  BY DEF TypeOK
<1>1. /\ proc[p].pc = "parse" /\ proc[p].toRead = {} /\ UNCHANGED <<files, index, usage>>
      /\ proc[p].op = "reindex" /\ Reading(p)
  BY DEF allUpserted, At, Stage
<1>2. proc'[p] = [proc[p] EXCEPT !.pc = "listSkills"]
  BY <1>0, <1>1, AllUpsertedStep, Movement
<1>3. /\ proc'[p].pc = "listSkills" /\ proc'[p].op = proc[p].op /\ proc'[p].at = proc[p].at
      /\ proc'[p].since = proc[p].since /\ proc'[p].failed = proc[p].failed
      /\ proc'[p].held = proc[p].held
  BY <1>0, <1>2 DEF Process
<1>4. /\ \A a : isLooked(p, a)' <=> isLooked(p, a)
      /\ \A a : isMirrored(p, a)' <=> isMirrored(p, a)
  BY <1>1, <1>3, SameView
<1>5. AllMirrored(p)'
  BY <1>1, <1>4 DEF Reading, AllMirrored
<1> QED
  BY <1>1, <1>3, <1>5 DEF Stage, Scanning, Reading, Pruning, Ended, At, Running, Indexing

\* A step of the pruning that leaves the tables alone keeps what is mirrored.
LEMMA PruneView ==
  ASSUME NEW p, Stage(p), UNCHANGED <<files, index, usage>>, proc'[p].op = proc[p].op,
         proc'[p].at = proc[p].at, proc'[p].since = proc[p].since, proc'[p].failed = proc[p].failed,
         proc[p].pc \in {"listSkills", "pruneSkills", "listMemory", "pruneMemory"}
  PROVE  /\ AllMirrored(p)' /\ proc'[p].op = "reindex" /\ ~proc'[p].failed
         /\ \A a : isOrphan(a)' <=> isOrphan(a)
         /\ \A paths : NoOrphans(paths)' <=> NoOrphans(paths)
<1>1. AllMirrored(p) /\ proc[p].op = "reindex" /\ ~proc[p].failed
  BY DEF Stage, Pruning, Running
<1>2. /\ \A a : isLooked(p, a)' <=> isLooked(p, a)
      /\ \A a : isMirrored(p, a)' <=> isMirrored(p, a)
      /\ \A a : isOrphan(a)' <=> isOrphan(a)
  BY SameView
<1>3. AllMirrored(p)'
  BY <1>1, <1>2 DEF AllMirrored
<1>4. \A paths : NoOrphans(paths)' <=> NoOrphans(paths)
  BY <1>2 DEF NoOrphans
<1> QED
  BY <1>1, <1>2, <1>3, <1>4

LEMMA ListStages ==
  ASSUME TypeOK, NEW p \in quiet, Stage(p), listRows(p)
  PROVE  Stage(p)'
<1>0. proc[p] \in Process /\ p \in Procs /\ UNCHANGED <<files, index, usage>>
  BY DEF TypeOK, listRows
<1>1. CASE At(p, "listSkills")
  <2>1. proc'[p] = [proc[p] EXCEPT !.pc = "pruneSkills", !.rows = {a \in SkillPaths : index[a] # Nothing}]
    BY <1>0, <1>1, ListSkillsStep, Movement
  <2>2. /\ proc'[p].pc = "pruneSkills" /\ proc'[p].rows = {a \in SkillPaths : index[a] # Nothing}
        /\ proc'[p].op = proc[p].op /\ proc'[p].at = proc[p].at /\ proc'[p].since = proc[p].since
        /\ proc'[p].failed = proc[p].failed /\ proc'[p].held = proc[p].held
    BY <1>0, <2>1 DEF Process
  <2>3. proc[p].held = Nothing
    BY <1>1 DEF At, Stage
  <2>4. /\ AllMirrored(p)' /\ proc'[p].op = "reindex" /\ ~proc'[p].failed
        /\ \A a : isOrphan(a)' <=> isOrphan(a)
    BY <1>0, <1>1, <2>2, PruneView DEF At
  <2>5. Checking(p, SkillPaths)'
    BY <1>0, <2>2, <2>3 DEF Checking, isOrphan
  <2> QED
    BY <2>2, <2>4, <2>5 DEF Stage, Scanning, Reading, Pruning, Ended, At, Running, Indexing
<1>2. CASE At(p, "listMemory")
  <2>1. proc'[p] = [proc[p] EXCEPT !.pc = "pruneMemory", !.rows = {a \in MemoryPaths : index[a] # Nothing}]
    BY <1>0, <1>2, ListMemoryStep, Movement
  <2>2. /\ proc'[p].pc = "pruneMemory" /\ proc'[p].rows = {a \in MemoryPaths : index[a] # Nothing}
        /\ proc'[p].op = proc[p].op /\ proc'[p].at = proc[p].at /\ proc'[p].since = proc[p].since
        /\ proc'[p].failed = proc[p].failed /\ proc'[p].held = proc[p].held
    BY <1>0, <2>1 DEF Process
  <2>3. proc[p].held = Nothing /\ NoOrphans(SkillPaths)
    BY <1>2 DEF At, Stage, Pruning
  <2>4. /\ AllMirrored(p)' /\ proc'[p].op = "reindex" /\ ~proc'[p].failed
        /\ (\A a : isOrphan(a)' <=> isOrphan(a)) /\ NoOrphans(SkillPaths)'
    BY <1>0, <1>2, <2>2, <2>3, PruneView DEF At
  <2>5. Checking(p, MemoryPaths)'
    BY <1>0, <2>2, <2>3 DEF Checking, isOrphan
  <2> QED
    BY <2>2, <2>4, <2>5 DEF Stage, Scanning, Reading, Pruning, Ended, At, Running, Indexing
<1> QED
  BY <1>1, <1>2 DEF listRows, At

\* The rows that are left to check, for the skills and for the memories.
Paths(p) == IF At(p, "pruneSkills") THEN SkillPaths ELSE MemoryPaths

LEMMA CheckStages ==
  ASSUME TypeOK, NEW p \in quiet, Stage(p), NEW a \in Artifacts, checkOrphan(p, a)
  PROVE  Stage(p)'
<1>0. /\ proc[p] \in Process /\ p \in Procs /\ UNCHANGED <<files, index, usage>>
      /\ proc[p].pc \in {"pruneSkills", "pruneMemory"} /\ proc[p].held = Nothing /\ a \in proc[p].rows
  BY DEF TypeOK, checkOrphan, afterPrune
<1>1. /\ proc'[p].pc = proc[p].pc /\ proc'[p].op = proc[p].op /\ proc'[p].at = proc[p].at
      /\ proc'[p].since = proc[p].since /\ proc'[p].failed = proc[p].failed
      /\ IF fileExists(a) \/ a \in retired
           THEN proc'[p].rows = proc[p].rows \ {a} /\ proc'[p].held = Nothing
           ELSE proc'[p].rows = proc[p].rows /\ proc'[p].held = a
  <2>1. IF fileExists(a) \/ a \in retired
          THEN proc'[p] = [proc[p] EXCEPT !.rows = @ \ {a}]
          ELSE proc'[p] = [proc[p] EXCEPT !.held = a]
    BY <1>0, CheckStep, Movement
  <2>2. CASE fileExists(a) \/ a \in retired
    BY <1>0, <2>1, <2>2 DEF Process
  <2>3. CASE ~(fileExists(a) \/ a \in retired)
    BY <1>0, <2>1, <2>3 DEF Process
  <2> QED
    BY <2>2, <2>3
<1>2. Checking(p, Paths(p)) /\ (At(p, "pruneMemory") => NoOrphans(SkillPaths))
  BY <1>0 DEF Stage, Pruning, Paths, At
<1>3. /\ AllMirrored(p)' /\ proc'[p].op = "reindex" /\ ~proc'[p].failed
      /\ (\A b : isOrphan(b)' <=> isOrphan(b)) /\ (NoOrphans(SkillPaths)' <=> NoOrphans(SkillPaths))
  BY <1>0, <1>1, PruneView
<1>4. Checking(p, Paths(p))'
  <2>1. Paths(p)' = Paths(p) /\ index' = index
    BY <1>0, <1>1 DEF Paths, At, SkillPaths, MemoryPaths
  <2>2. CASE fileExists(a) \/ a \in retired
    <3>1. ~isOrphan(a)
      BY <2>2 DEF isOrphan
    <3> QED
      BY <1>1, <1>2, <1>3, <2>1, <2>2, <3>1 DEF Checking
  <2>3. CASE ~(fileExists(a) \/ a \in retired)
    <3>1. isOrphan(a)
      BY <1>0, <1>2, <2>3 DEF isOrphan, Checking
    <3> QED
      BY <1>0, <1>1, <1>2, <1>3, <2>1, <2>3, <3>1 DEF Checking
  <2> QED
    BY <2>2, <2>3
<1>5. /\ At(p, "pruneSkills")' => Checking(p, SkillPaths)'
      /\ At(p, "pruneMemory")' => Checking(p, MemoryPaths)'
  BY <1>4 DEF Paths, At
<1> QED
  BY <1>0, <1>1, <1>2, <1>3, <1>5 DEF Stage, Scanning, Reading, Pruning, Ended, At, Running, Indexing

LEMMA DeleteStages ==
  ASSUME TypeOK, NEW p \in quiet, Stage(p), deleteOrphan(p)
  PROVE  Stage(p)'
<1> DEFINE a == proc[p].held
<1>0. /\ proc[p] \in Process /\ p \in Procs /\ UNCHANGED files /\ usage' = usage
      /\ proc[p].pc \in {"pruneSkills", "pruneMemory"} /\ a # Nothing
  BY DEF TypeOK, deleteOrphan, afterPrune
<1>1. Checking(p, Paths(p)) /\ (At(p, "pruneMemory") => NoOrphans(SkillPaths)) /\ AllMirrored(p)
      /\ proc[p].op = "reindex" /\ ~proc[p].failed
  BY <1>0 DEF Stage, Pruning, Paths, At, Running
<1>2. a \in proc[p].rows /\ isOrphan(a) /\ a \in Artifacts
  BY <1>0, <1>1, Settings DEF Checking
<1>3. CASE usage[a] # Nothing
  <2>1. Fail(p) /\ index' = index
    BY <1>3 DEF deleteOrphan
  <2> QED
    BY <1>0, <1>2, <1>3, <2>1, FailStage
<1>4. CASE usage[a] = Nothing
  <2>1. /\ index' = [index EXCEPT ![a] = Nothing]
        /\ proc' = [proc EXCEPT ![p].rows = @ \ {a}, ![p].held = Nothing]
    BY <1>4 DEF deleteOrphan
  <2>2. proc'[p] = [proc[p] EXCEPT !.rows = @ \ {a}, !.held = Nothing]
    <3>1. proc[p].pc \in DOMAIN afterPrune
      BY DEF deleteOrphan
    <3> QED
      BY <1>0, <2>1, <3>1, DropRowStep, Movement
  <2>3. /\ proc'[p].pc = proc[p].pc /\ proc'[p].op = proc[p].op /\ proc'[p].at = proc[p].at
        /\ proc'[p].since = proc[p].since /\ proc'[p].failed = proc[p].failed
        /\ proc'[p].rows = proc[p].rows \ {a} /\ proc'[p].held = Nothing
    BY <1>0, <2>2 DEF Process
  <2> HIDE DEF a
  <2>4. (\A b : isLooked(p, b)' <=> isLooked(p, b)) /\ disk' = disk /\ retired' = retired
    BY <1>0, <2>3, SameView DEF files
  <2>5. index'[a] = Nothing /\ \A b \in Artifacts \ {a} : index'[b] = index[b]
    BY <1>2, <2>1, Rows
  <2>6. ~isLooked(p, a)
    BY <1>2 DEF isLooked, isOrphan
  <2>7. AllMirrored(p)'
    <3>1. ASSUME NEW b \in Artifacts, isLooked(p, b)' PROVE isMirrored(p, b)'
      <4>1. isMirrored(p, b) /\ index'[b] = index[b]
        BY <1>1, <3>1, <2>4, <2>5, <2>6 DEF AllMirrored
      <4> QED
        BY <4>1, <2>3, <2>4 DEF isMirrored
    <3> QED
      BY <3>1 DEF AllMirrored
  <2>8. \A b \in Artifacts : isOrphan(b)' => isOrphan(b) /\ b # a
    <3>1. ASSUME NEW b \in Artifacts, isOrphan(b)' PROVE isOrphan(b) /\ b # a
      <4>1. b # a
        BY <2>5, <3>1 DEF isOrphan
      <4>2. index'[b] = index[b]
        BY <2>5, <4>1
      <4> QED
        BY <3>1, <4>1, <4>2, <2>4 DEF isOrphan, fileExists
    <3> QED
      BY <3>1
  <2>9. SkillPaths \subseteq Artifacts /\ Paths(p) \subseteq Artifacts /\ Paths(p)' = Paths(p)
    BY <2>3 DEF Artifacts, Paths, At, SkillPaths, MemoryPaths
  <2>10. NoOrphans(SkillPaths) => NoOrphans(SkillPaths)'
    BY <2>8, <2>9 DEF NoOrphans, SkillPaths
  <2>11. Checking(p, Paths(p))'
    <3>1. \A b \in Paths(p) : isOrphan(b)' => b \in proc'[p].rows
      BY <1>1, <2>3, <2>8, <2>9 DEF Checking
    <3>2. \A b \in proc'[p].rows : index'[b] # Nothing /\ b \in Paths(p)
      BY <1>1, <2>3, <2>5, <2>9 DEF Checking
    <3> QED
      BY <2>3, <2>9, <3>1, <3>2 DEF Checking
  <2>12. /\ At(p, "pruneSkills")' => Checking(p, SkillPaths)'
         /\ At(p, "pruneMemory")' => Checking(p, MemoryPaths)'
    BY <2>11 DEF Paths, At
  <2> QED
    BY <1>0, <1>1, <2>3, <2>7, <2>10, <2>12
       DEF Stage, Scanning, Reading, Pruning, Ended, At, Running, Indexing
<1> QED
  BY <1>3, <1>4

LEMMA CheckedStages ==
  ASSUME TypeOK, NEW p \in quiet, Stage(p), allChecked(p)
  PROVE  Stage(p)'
<1>0. /\ proc[p] \in Process /\ p \in Procs /\ UNCHANGED <<files, index, usage>>
      /\ proc[p].pc \in {"pruneSkills", "pruneMemory"} /\ proc[p].held = Nothing /\ proc[p].rows = {}
  BY DEF TypeOK, allChecked, afterPrune
<1>1. NoOrphans(Paths(p)) /\ (At(p, "pruneMemory") => NoOrphans(SkillPaths))
  BY <1>0 DEF Stage, Pruning, Paths, At, Checking, NoOrphans
<1>2. CASE At(p, "pruneSkills")
  <2>1. proc'[p] = [proc[p] EXCEPT !.pc = "listMemory"]
    BY <1>0, <1>2, SkillsCheckedStep, Movement
  <2>2. /\ proc'[p].pc = "listMemory" /\ proc'[p].op = proc[p].op /\ proc'[p].at = proc[p].at
        /\ proc'[p].since = proc[p].since /\ proc'[p].failed = proc[p].failed
        /\ proc'[p].held = proc[p].held
    BY <1>0, <2>1 DEF Process
  <2>3. /\ AllMirrored(p)' /\ proc'[p].op = "reindex" /\ ~proc'[p].failed /\ NoOrphans(SkillPaths)'
    BY <1>0, <1>1, <1>2, <2>2, PruneView DEF Paths
  <2> QED
    BY <1>0, <2>2, <2>3 DEF Stage, Scanning, Reading, Pruning, Ended, At, Running, Indexing
<1>3. CASE At(p, "pruneMemory")
  <2>1. Goto(p, "done")
    BY <1>3 DEF allChecked, afterPrune, At
  <2>2. proc'[p] = Ends(proc[p])
    BY <1>0, <2>1, EndStep, Movement
  <2>3. /\ proc'[p].pc = "done" /\ proc'[p].op = proc[p].op /\ proc'[p].at = proc[p].at
        /\ proc'[p].since = proc[p].since /\ proc'[p].failed = proc[p].failed
    BY <1>0, <2>2 DEF Process, Ends
  <2>4. NoOrphans(Artifacts)
    BY <1>1, <1>3 DEF NoOrphans, Paths, At, Artifacts, SkillPaths, MemoryPaths
  <2>5. AllMirrored(p)' /\ proc'[p].op = "reindex" /\ ~proc'[p].failed /\ NoOrphans(Artifacts)'
    BY <1>0, <2>3, <2>4, PruneView
  <2> QED
    BY <2>3, <2>5 DEF Stage, Scanning, Reading, Pruning, Ended, At, Running, Indexing
<1> QED
  BY <1>0, <1>2, <1>3 DEF At

-----------------------------------------------------------------------------
LEMMA NextUndisturbed ==
  ASSUME TypeOK, Undisturbed, [Next]_vars
  PROVE  Undisturbed'
<1>1. ASSUME NEW p \in Procs, Start(p) PROVE Undisturbed'
  <2>1. todo[1] \in Command /\ proc'[p] = Started(todo[1]) /\ \A q \in Procs \ {p} : proc'[q] = proc[q]
    BY <1>1, StartStep, Movement
  <2>2. /\ UNCHANGED <<files, index, usage>>
        /\ quiet' = IF todo[1].op = "reindex" THEN quiet \cup {p} ELSE quiet \ {p}
    BY <1>1 DEF Start
  <2>3. ASSUME NEW q \in quiet', q # p PROVE Stage(q)'
    <3>1. Stage(q) /\ q \in Procs
      BY <2>2, <2>3 DEF Undisturbed, TypeOK
    <3> QED
      BY <2>1, <2>2, <2>3, <3>1, KeepStage
  <2>4. ASSUME p \in quiet' PROVE Stage(p)'
    <3>1. todo[1].op = "reindex"
      BY <2>2, <2>4
    <3>2. /\ Started(todo[1]).pc = "scanSkills" /\ Started(todo[1]).op = "reindex"
          /\ Started(todo[1]).toRead = {} /\ Started(todo[1]).held = Nothing
          /\ Started(todo[1]).failed = FALSE
      BY <2>1, <3>1, StartedWith, Commands
    <3>3. /\ proc'[p].pc = "scanSkills" /\ proc'[p].op = "reindex" /\ proc'[p].toRead = {}
          /\ proc'[p].held = Nothing /\ proc'[p].failed = FALSE
      BY <2>1, <3>2
    <3> QED
      BY <3>3 DEF Stage, Scanning, Reading, Pruning, Ended, At, Running, Indexing
  <2> QED
    BY <2>3, <2>4 DEF Undisturbed
<1>2. ASSUME NEW p \in Procs, Crash(p) PROVE Undisturbed'
  <2>1. MovesTo(p, Idle) /\ UNCHANGED <<files, index, usage>> /\ quiet' = quiet \ {p}
    BY <1>2, CrashStep DEF Crash
  <2> QED
    BY <2>1, OnlyMine
<1>3. ASSUME NEW p \in Procs,
             \/ scanSkillFiles(p) \/ scanMemoryFiles(p) \/ parseFile(p) \/ allUpserted(p)
             \/ listRows(p) \/ allChecked(p) \/ \E a \in Artifacts : checkOrphan(p, a)
      PROVE  Undisturbed'
  <2>1. PICK c : MovesTo(p, c)
    BY <1>3, SameCommandStep
  <2>2. UNCHANGED <<files, index, usage>> /\ quiet' = quiet
    BY <1>3 DEF scanSkillFiles, scanMemoryFiles, parseFile, allUpserted, listRows, allChecked, checkOrphan
  <2>3. p \in quiet => Stage(p)'
    BY <1>3, ScanStages, ParseStages, UpsertedStage, ListStages, CheckedStages, CheckStages
       DEF Undisturbed
  <2> QED
    BY <2>1, <2>2, <2>3, OnlyMine
<1>4. ASSUME NEW p \in Procs,
             \/ statPath(p) \/ nudgeTick(p) \/ insertEvent(p) \/ incrementNudgeCounter(p)
             \/ signal(p) \/ markNudgeRun(p)
      PROVE  Undisturbed'
  <2>1. PICK c : MovesTo(p, c)
    BY <1>4, SameCommandStep
  <2>2. UNCHANGED <<files, index, usage>> /\ quiet' = quiet
    BY <1>4 DEF statPath, nudgeTick, insertEvent, incrementNudgeCounter, signal, markNudgeRun
  <2>3. proc[p].pc \in {"stat", "list", "insertEvent", "increment", "signal", "markNudgeRun"}
    BY <1>4 DEF statPath, nudgeTick, insertEvent, incrementNudgeCounter, signal, markNudgeRun, At
  <2>4. p \notin quiet
    BY <2>3 DEF Undisturbed, Stage, Indexing
  <2> QED
    BY <2>1, <2>2, <2>4, OnlyMine
<1>5. ASSUME NEW p \in Procs, upsert(p) PROVE Undisturbed'
  <2>1. quiet' = quiet \cap {p} /\ (p \in quiet => Stage(p)')
    BY <1>5, UpsertStage DEF upsert, Disturbs, Undisturbed
  <2> QED
    BY <2>1 DEF Undisturbed
<1>6. ASSUME NEW p \in Procs, deleteOrphan(p) PROVE Undisturbed'
  <2>1. p \in quiet => Stage(p)'
    BY <1>6, DeleteStages DEF Undisturbed
  <2>2. CASE usage[proc[p].held] # Nothing
    <3>1. MovesTo(p, Fails(proc[p])) /\ UNCHANGED <<files, index, usage>> /\ quiet' = quiet
      BY <1>6, <2>2, EndStep DEF deleteOrphan
    <3> QED
      BY <2>1, <3>1, OnlyMine
  <2>3. CASE usage[proc[p].held] = Nothing
    <3>1. quiet' = quiet \cap {p}
      BY <1>6, <2>3 DEF deleteOrphan, Disturbs
    <3> QED
      BY <2>1, <3>1 DEF Undisturbed
  <2> QED
    BY <2>2, <2>3
<1>7. ASSUME NEW p \in Procs, trackUse(p) PROVE Undisturbed'
  <2>1. quiet' = quiet \cap {p} /\ proc[p].pc = "bump"
    BY <1>7 DEF trackUse, Disturbs, At
  <2>2. p \notin quiet
    BY <2>1 DEF Undisturbed, Stage, Indexing
  <2> QED
    BY <2>1, <2>2 DEF Undisturbed
<1>8. CASE \E a \in Artifacts : Write(a) \/ Delete(a) \/ Retire(a)
  <2>1. quiet' = {}
    BY <1>8 DEF Write, Delete, Retire, Changed
  <2> QED
    BY <2>1 DEF Undisturbed
<1>9. CASE NextDay \/ UNCHANGED vars
  <2>1. UNCHANGED <<files, index, usage>> /\ quiet' = quiet /\ proc' = proc
    BY <1>9 DEF NextDay, vars
  <2> QED
    BY <2>1, KeepStage DEF Undisturbed
<1> QED
  BY <1>1, <1>2, <1>3, <1>4, <1>5, <1>6, <1>7, <1>8, <1>9, Zenon DEF Next

\* The invariant that shows the three properties, for any files, any number of
\* processes and any commands: types, the time a command may take, the dates of
\* the uses, the counts of the loops, and the stages of an undisturbed reindex.
THEOREM Inductive == Spec => []IInv
<1>1. Init => IInv
  BY InitTypeOK, InitTimely, InitLoops, InitUndisturbed DEF IInv, LoopsOK
<1>2. IInv /\ [Next]_vars => IInv'
  BY NextTypeOK, NextTimely, NextDated, NextLoops, NextUndisturbed DEF IInv, LoopsOK
<1> QED
  BY <1>1, <1>2, PTL DEF Spec

\* A reindex that nothing disturbs leaves an index that mirrors the files,
\* however many files there are and whatever else ran before it; and it fails
\* only over a file that does not parse or a used row without a file (runReindex).
THEOREM IndexIsMirror == Spec => []IndexMirrorsDisk
<1>1. IInv => IndexMirrorsDisk
  <2> SUFFICES ASSUME IInv, NEW p \in quiet, At(p, "done")
               PROVE  LET looked == {a \in Artifacts : isLooked(p, a)}
                          orphans == {a \in Artifacts : index[a] # Nothing /\ ~fileExists(a) /\ a \notin retired}
                      IN  IF proc[p].failed
                            THEN (\E a \in looked : ~disk[a].ok) \/ (\E a \in orphans : usage[a] # Nothing)
                            ELSE /\ \A a \in looked : index[a] # Nothing /\ index[a].body = disk[a].body
                                 /\ orphans = {}
    BY DEF IndexMirrorsDisk
  <2>1. Ended(p)
    BY DEF IInv, Undisturbed, Stage
  <2>2. ASSUME NEW a \in Artifacts, isLooked(p, a), isMirrored(p, a)
        PROVE  index[a] # Nothing /\ index[a].body = disk[a].body
    <3>1. disk[a] \in File /\ proc[p].at \in Nat
      BY <2>2 DEF IInv, TypeOK, isLooked, fileExists, Process
    <3>2. index[a] \in Row
      BY <2>2, <3>1 DEF isMirrored, File, Row
    <3> QED
      BY <2>2, <3>2, IndexAssumption DEF isMirrored
  <2> QED
    BY <2>1, <2>2 DEF Ended, AllMirrored, NoOrphans, isOrphan
<1> QED
  BY <1>1, Inductive, PTL

=============================================================================
