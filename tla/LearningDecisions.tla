------------------------- MODULE LearningDecisions -------------------------
(***************************************************************************)
(* The commands of the learning loop that decide on skill and memory       *)
(* files: record-decision, apply-decision, refine-apply and rollback of    *)
(* tools/learn.  Each is a process of its own; any number run at once on   *)
(* the same directory, and share its files, the decisions table of SQLite  *)
(* and audit.jsonl.  Nothing locks across two steps: they are cut at the   *)
(* system calls and the statements, and a process may die at each cut.     *)
(*                                                                         *)
(* Dry runs and usage errors in the flags change nothing and are left out. *)
(***************************************************************************)
EXTENDS LearningFiles, Sequences

CONSTANTS
  Cmds,          \* one member per command invocation
  Original,      \* who wrote what was there before
  Calls,         \* the invocations to choose from
  MaxId,         \* bound: the largest rowid
  NoRow,         \* sql.ErrNoRows
  Faults         \* which of FaultKinds happen

FaultKinds == {
  "db",          \* opening the store or a statement fails
  "fs",          \* a read, write, rename or remove fails
  "audit",       \* appending to audit.jsonl fails
  "crash" }      \* the process dies

Kinds == {"new", "append", "replace", "pending", "discard",
          "refine", "apply", "rollback"}
Ids == 1..MaxId
Call == [kind : Kinds, path : Paths, id : Ids]

\* decisions.action, as record-decision writes it.
ActionOf(kind) ==
  CASE kind = "new" -> "new-skill" [] kind \in {"append", "replace"} -> "update"
    [] kind = "pending" -> "pending-approval" [] OTHER -> "discard"

Row == [action : {"new-skill", "update", "discard", "pending-approval",
                  "applied", "rolled-back"}, path : Paths]

\* text is history: what the move took, or what the rollback put back.
AuditEntry == [action : {"applied", "rolled-back"}, id : Ids, path : Paths,
               stamp : Stamps, text : SUBSET Authors]

ASSUME DecisionsAssumption ==
  /\ Authors = Cmds \cup {Original}
  /\ Original \notin Cmds
  /\ MaxId \in Nat
  /\ Calls \subseteq Call
  /\ NoRow \notin Row
  /\ Faults \subseteq FaultKinds

VARIABLES
  second,        \* the wall clock, in the seconds a copy's name shows
  rows,          \* rows[id]: the decisions table
  audit,         \* the lines of audit.jsonl
  pc,            \* pc[c]: where command c stands
  call,          \* call[c]: its arguments
  mine,          \* mine[c]: its local variables
  reply,         \* reply[c]: how it ended; an error is, for the record, "torn"
                 \* when record-decision's write failed, "stuck" when its undo did
  disturbed      \* history: commands that ran while another one did

vars == <<second, files, rows, audit, pc, call, mine, reply, disturbed>>

\* before is history: the file at path when the command began.
Local == [id : Ids, path : Paths, stamp : Stamps \cup {0},
          text : SUBSET Authors, old : File \cup {NoFile},
          before : File \cup {NoFile}]

PCs == {"begun", "captured", "writing", "inserting", "undoing",
        "reading", "moving", "stamping", "copying", "removing", "marking",
        "deleting", "auditing", "found", "clear", "restoring", "cleaning",
        "recording", "done", "dead"}

TypeOK ==
  /\ second \in Stamps
  /\ files \in [Places -> File \cup {NoFile}]
  /\ rows \in [Ids -> Row \cup {NoRow}]
  /\ audit \in Seq(AuditEntry)
  /\ pc \in [Cmds -> PCs]
  /\ call \in [Cmds -> Calls]
  /\ mine \in [Cmds -> Local]
  /\ reply \in [Cmds -> {"none", "ok", "error", "torn", "stuck"}]
  /\ disturbed \subseteq Cmds

Init ==
  /\ second = 1
  /\ \E there \in SUBSET Paths :
       files = [x \in Places |-> IF x \in there THEN Plain({Original}) ELSE NoFile]
  /\ rows = [id \in Ids |-> NoRow]
  /\ audit = <<>>
  /\ pc = [c \in Cmds |-> "begun"]
  /\ call \in [Cmds -> Calls]
  /\ mine = [c \in Cmds |-> [id |-> call[c].id, path |-> call[c].path, stamp |-> 0,
                             text |-> {}, old |-> NoFile, before |-> NoFile]]
  /\ reply = [c \in Cmds |-> "none"]
  /\ disturbed = {}

-----------------------------------------------------------------------------
(***************************************************************************)
(* Helpers                                                                 *)
(***************************************************************************)
Kind(c) == call[c].kind
Path(c) == mine[c].path
Copy(c) == <<mine[c].path, mine[c].stamp>>
Text(c) == mine[c].text

At(c, place) == pc[c] = place
Goto(c, place) == pc' = [pc EXCEPT ![c] = place] /\ UNCHANGED reply
Finish(c, how) ==
  /\ pc' = [pc EXCEPT ![c] = "done"]
  /\ reply' = [reply EXCEPT ![c] = how]

Running == {c \in Cmds : pc[c] \notin {"begun", "done", "dead"}}
Enter(c) ==
  /\ At(c, "begun")
  /\ disturbed' = disturbed \cup (IF Running = {} THEN {} ELSE Running \cup {c})

Recorders == {"new", "append", "replace"}
Movers == {"refine", "apply"}

\* INTEGER PRIMARY KEY without AUTOINCREMENT: one more than the largest rowid in
\* the table, so that the id of a deleted last row is given out again.
NextId(id) ==
  /\ \A j \in Ids : j >= id => rows[j] = NoRow
  /\ id > 1 => rows[id - 1] # NoRow

AddRow(id, action, path) ==
  /\ NextId(id)
  /\ rows' = [rows EXCEPT ![id] = [action |-> action, path |-> path]]

\* The last line of the log about id is line i.
Latest(id, i) ==
  /\ audit[i].id = id
  /\ \A j \in DOMAIN audit : audit[j].id = id => j <= i

-----------------------------------------------------------------------------
(***************************************************************************)
(* Mutants: plausible bugs, each a changed form of a definition below.     *)
(***************************************************************************)
SavesAfterwards(c) ==
  /\ At(c, "writing")
  /\ Put(Path(c), Plain(Text(c)))
  /\ mine' = [mine EXCEPT ![c].old = Plain(Text(c))]
  /\ Goto(c, "inserting")
  /\ UNCHANGED <<second, rows, audit, call, disturbed>>
HeaderOnly(c) ==
  /\ At(c, "stamping")
  /\ Put(Copy(c), Stamped({}))
  /\ Goto(c, "marking")
  /\ UNCHANGED <<second, rows, audit, call, mine, disturbed>>
TakesCopyAway(c) ==
  /\ At(c, "clear")
  /\ Exists(Copy(c))
  /\ mine' = [mine EXCEPT ![c].text = files[Copy(c)].text]
  /\ Remove(Copy(c))
  /\ Goto(c, "restoring")
  /\ UNCHANGED <<second, rows, audit, call, disturbed>>
RemoveIsForced(c) ==
  /\ At(c, "cleaning")
  /\ Put(Copy(c), NoFile)
  /\ Goto(c, "recording")
  /\ UNCHANGED <<second, rows, audit, call, mine, disturbed>>

-----------------------------------------------------------------------------
(***************************************************************************)
(* record-decision: the file first, then the row; the file is put back     *)
(* when there is no row.                                                   *)
(***************************************************************************)
\* new-skill and new-memory refuse a file that is there.
StatTarget(c) ==
  /\ Enter(c)
  /\ Kind(c) = "new"
  /\ mine' = [mine EXCEPT ![c].text = {c}, ![c].before = files[Path(c)]]
  /\ IF Exists(Path(c)) THEN Finish(c, "error") ELSE Goto(c, "writing")
  /\ UNCHANGED <<second, files, rows, audit, call>>

\* update: the file is read for the undo, which may find none.
CaptureOld(c) ==
  /\ Enter(c)
  /\ Kind(c) \in {"append", "replace"}
  /\ mine' = [mine EXCEPT ![c].old = files[Path(c)], ![c].before = files[Path(c)]]
  /\ Goto(c, "captured")
  /\ UNCHANGED <<second, files, rows, audit, call>>

\* update: the file is read again; without a frontmatter it is refused.
Parses(x) == Exists(x) /\ files[x].text # {}

ReadOld(c) ==
  /\ At(c, "captured")
  /\ IF Parses(Path(c))
     THEN /\ mine' = [mine EXCEPT ![c].text = {c} \cup
                        (IF Kind(c) = "append" THEN files[Path(c)].text ELSE {})]
          /\ Goto(c, "writing")
     ELSE Finish(c, "error") /\ UNCHANGED mine
  /\ UNCHANGED <<second, files, rows, audit, call, disturbed>>

WriteTarget(c) ==
  /\ At(c, "writing")
  /\ Put(Path(c), Plain(Text(c)))
  /\ Goto(c, "inserting")
  /\ UNCHANGED <<second, rows, audit, call, mine, disturbed>>

\* The undo is not armed yet.
WriteTargetFails(c) ==
  /\ "fs" \in Faults
  /\ At(c, "writing")
  /\ PutFails(Path(c))
  /\ Finish(c, "torn")
  /\ UNCHANGED <<second, rows, audit, call, mine, disturbed>>

\* pending-approval and discard touch no file.
ReadyToInsert(c) ==
  \/ At(c, "inserting") /\ UNCHANGED disturbed
  \/ Enter(c) /\ Kind(c) \in {"pending", "discard"}

InsertDecision(c) ==
  /\ ReadyToInsert(c)
  /\ \E id \in Ids : AddRow(id, ActionOf(Kind(c)), Path(c))
  /\ Finish(c, "ok")
  /\ UNCHANGED <<second, files, audit, call, mine>>

InsertDecisionFails(c) ==
  /\ "db" \in Faults
  /\ ReadyToInsert(c)
  /\ IF Kind(c) \in Recorders THEN Goto(c, "undoing") ELSE Finish(c, "error")
  /\ UNCHANGED <<second, files, rows, audit, call, mine>>

\* os.Remove, or os.WriteFile of the bytes captured.
Undo(c) ==
  /\ At(c, "undoing")
  /\ Put(Path(c), mine[c].old)
  /\ Finish(c, "error")
  /\ UNCHANGED <<second, rows, audit, call, mine, disturbed>>

UndoFails(c) ==
  /\ "fs" \in Faults
  /\ At(c, "undoing")
  /\ UNCHANGED files \/ (mine[c].old # NoFile /\ Put(Path(c), Torn))
  /\ Finish(c, "stuck")
  /\ UNCHANGED <<second, rows, audit, call, mine, disturbed>>

-----------------------------------------------------------------------------
(***************************************************************************)
(* apply-decision and refine-apply, up to the move                         *)
(***************************************************************************)
Pending(id) == rows[id] # NoRow /\ rows[id].action = "pending-approval"

LoadDecision(c) ==
  /\ Enter(c)
  /\ Kind(c) = "apply"
  /\ IF Pending(mine[c].id)
     THEN /\ mine' = [mine EXCEPT ![c].path = rows[mine[c].id].path,
                                  ![c].stamp = second]
          /\ Goto(c, "reading")
     ELSE Finish(c, "error") /\ UNCHANGED mine
  /\ UNCHANGED <<second, files, rows, audit, call>>

InsertPending(c) ==
  /\ Enter(c)
  /\ Kind(c) = "refine"
  /\ \E id \in Ids :
       /\ AddRow(id, "pending-approval", Path(c))
       /\ mine' = [mine EXCEPT ![c].id = id, ![c].stamp = second]
  /\ Goto(c, "reading")
  /\ UNCHANGED <<second, files, audit, call>>

(***************************************************************************)
(* moveToDeprecated                                                        *)
(***************************************************************************)
\* refine-apply takes its row back, apply-decision leaves it pending.
MoveErrs(c) ==
  IF Kind(c) = "refine" THEN Goto(c, "deleting") ELSE Finish(c, "error")

ReadSource(c) ==
  /\ At(c, "reading")
  /\ IF Exists(Path(c))
     THEN /\ mine' = [mine EXCEPT ![c].text = files[Path(c)].text]
          /\ Goto(c, "moving")
     ELSE MoveErrs(c) /\ UNCHANGED mine
  /\ UNCHANGED <<second, files, rows, audit, call, disturbed>>

RenameSource(c) ==
  /\ At(c, "moving")
  /\ Rename(Path(c), Copy(c))
  /\ Goto(c, "stamping")
  /\ UNCHANGED <<second, rows, audit, call, mine, disturbed>>

\* Meant for another file system, taken for a source that is gone as well.
RenameFails(c) ==
  /\ At(c, "moving")
  /\ ~Exists(Path(c)) \/ "fs" \in Faults
  /\ Goto(c, "copying")
  /\ UNCHANGED <<second, files, rows, audit, call, mine, disturbed>>

StampHeader(c) ==
  /\ At(c, "stamping")
  /\ Put(Copy(c), Stamped(Text(c)))
  /\ Goto(c, "marking")
  /\ UNCHANGED <<second, rows, audit, call, mine, disturbed>>

\* The content is written back without the header, which may fail as well; the
\* move is reported as failed although the source is gone.
StampHeaderFails(c) ==
  /\ "fs" \in Faults
  /\ At(c, "stamping")
  /\ PutFails(Copy(c)) \/ Put(Copy(c), Plain(Text(c)))
  /\ MoveErrs(c)
  /\ UNCHANGED <<second, rows, audit, call, mine, disturbed>>

CopySource(c) ==
  /\ At(c, "copying")
  /\ Put(Copy(c), Stamped(Text(c)))
  /\ Goto(c, "removing")
  /\ UNCHANGED <<second, rows, audit, call, mine, disturbed>>

CopySourceFails(c) ==
  /\ "fs" \in Faults
  /\ At(c, "copying")
  /\ PutFails(Copy(c))
  /\ MoveErrs(c)
  /\ UNCHANGED <<second, rows, audit, call, mine, disturbed>>

RemoveSource(c) ==
  /\ At(c, "removing")
  /\ Remove(Path(c))
  /\ Goto(c, "marking")
  /\ UNCHANGED <<second, rows, audit, call, mine, disturbed>>

RemoveSourceFails(c) ==
  /\ At(c, "removing")
  /\ ~Exists(Path(c)) \/ "fs" \in Faults
  /\ MoveErrs(c)
  /\ UNCHANGED <<second, files, rows, audit, call, mine, disturbed>>

(***************************************************************************)
(* After the move                                                          *)
(***************************************************************************)
\* UPDATE decisions SET action='applied' WHERE id=?, which may find no row.
MarkApplied(c) ==
  /\ At(c, "marking")
  /\ rows' = [rows EXCEPT ![mine[c].id] =
       IF @ = NoRow THEN NoRow ELSE [@ EXCEPT !.action = "applied"]]
  /\ Goto(c, "auditing")
  /\ UNCHANGED <<second, files, audit, call, mine, disturbed>>

DropPending(c) ==
  /\ At(c, "deleting")
  /\ rows' = [rows EXCEPT ![mine[c].id] = NoRow]
  /\ Finish(c, "error")
  /\ UNCHANGED <<second, files, audit, call, mine, disturbed>>

\* The UPDATE, the DELETE, or the INSERT of refine-apply or rollback fails.
StatementFails(c) ==
  /\ "db" \in Faults
  /\ \/ pc[c] \in {"marking", "deleting", "recording"} /\ UNCHANGED disturbed
     \/ Enter(c) /\ Kind(c) \in Movers
  /\ Finish(c, "error")
  /\ UNCHANGED <<second, files, rows, audit, call, mine>>

AppendAudit(c) ==
  /\ At(c, "auditing")
  /\ audit' = Append(audit,
       [action |-> IF Kind(c) = "rollback" THEN "rolled-back" ELSE "applied",
        id |-> mine[c].id, path |-> Path(c), stamp |-> mine[c].stamp, text |-> Text(c)])
  /\ Finish(c, "ok")
  /\ UNCHANGED <<second, files, rows, call, mine, disturbed>>

\* A warning; the command succeeds.
AppendAuditFails(c) ==
  /\ "audit" \in Faults
  /\ At(c, "auditing")
  /\ Finish(c, "ok")
  /\ UNCHANGED <<second, files, rows, audit, call, mine, disturbed>>

-----------------------------------------------------------------------------
(***************************************************************************)
(* rollback                                                                *)
(***************************************************************************)
\* The latest line for the id must be a move.
LatestMove(id, i) == Latest(id, i) /\ audit[i].action = "applied"

FindMove(c) ==
  /\ Enter(c)
  /\ Kind(c) = "rollback"
  /\ \/ \E i \in DOMAIN audit :
          /\ LatestMove(mine[c].id, i)
          /\ mine' = [mine EXCEPT ![c].path = audit[i].path, ![c].stamp = audit[i].stamp]
          /\ Goto(c, "found")
     \/ /\ \A i \in DOMAIN audit : ~LatestMove(mine[c].id, i)
        /\ Finish(c, "error")
        /\ UNCHANGED mine
  /\ UNCHANGED <<second, files, rows, audit, call>>

\* Two stats; the first, of the copy, is repeated by the read that follows.
CheckPlaces(c) ==
  /\ At(c, "found")
  /\ IF Exists(Copy(c)) /\ ~Exists(Path(c)) THEN Goto(c, "clear") ELSE Finish(c, "error")
  /\ UNCHANGED <<second, files, rows, audit, call, mine, disturbed>>

ReadCopy(c) ==
  /\ At(c, "clear")
  /\ IF Exists(Copy(c))
     THEN /\ mine' = [mine EXCEPT ![c].text = files[Copy(c)].text]
          /\ Goto(c, "restoring")
     ELSE Finish(c, "error") /\ UNCHANGED mine
  /\ UNCHANGED <<second, files, rows, audit, call, disturbed>>

\* Without the header, whatever is at the path by now.
WriteBack(c) ==
  /\ At(c, "restoring")
  /\ Put(Path(c), Plain(Text(c)))
  /\ Goto(c, "cleaning")
  /\ UNCHANGED <<second, rows, audit, call, mine, disturbed>>

WriteBackFails(c) ==
  /\ "fs" \in Faults
  /\ At(c, "restoring")
  /\ PutFails(Path(c))
  /\ Finish(c, "error")
  /\ UNCHANGED <<second, rows, audit, call, mine, disturbed>>

RemoveCopy(c) ==
  /\ At(c, "cleaning")
  /\ Remove(Copy(c))
  /\ Goto(c, "recording")
  /\ UNCHANGED <<second, rows, audit, call, mine, disturbed>>

RemoveCopyFails(c) ==
  /\ At(c, "cleaning")
  /\ ~Exists(Copy(c)) \/ "fs" \in Faults
  /\ Finish(c, "error")
  /\ UNCHANGED <<second, files, rows, audit, call, mine, disturbed>>

InsertRolledBack(c) ==
  /\ At(c, "recording")
  /\ \E id \in Ids : AddRow(id, "rolled-back", Path(c))
  /\ Goto(c, "auditing")
  /\ UNCHANGED <<second, files, audit, call, mine, disturbed>>

-----------------------------------------------------------------------------
\* A read or a stat fails.
ReadFails(c) ==
  /\ "fs" \in Faults
  /\ \/ pc[c] \in {"captured", "found", "clear"} /\ Finish(c, "error")
        /\ UNCHANGED disturbed
     \/ Enter(c) /\ Kind(c) \in Recorders \cup {"rollback"} /\ Finish(c, "error")
     \/ At(c, "reading") /\ MoveErrs(c) /\ UNCHANGED disturbed
  /\ UNCHANGED <<second, files, rows, audit, call, mine>>

\* What c is about to write.
Target(c) ==
  CASE pc[c] \in {"writing", "restoring"} -> {Path(c)}
    [] pc[c] = "undoing" /\ mine[c].old # NoFile -> {Path(c)}
    [] pc[c] \in {"stamping", "copying"} -> {Copy(c)}
    [] OTHER -> {}

Crash(c) ==
  /\ "crash" \in Faults
  /\ c \in Running
  /\ UNCHANGED files \/ \E x \in Target(c) : Put(x, Torn)
  /\ Goto(c, "dead")
  /\ UNCHANGED <<second, rows, audit, call, mine, disturbed>>

Tick ==
  /\ second < MaxSecond
  /\ second' = second + 1
  /\ UNCHANGED <<files, rows, audit, pc, call, mine, reply, disturbed>>

RecordDecision(c) ==
  \/ StatTarget(c) \/ CaptureOld(c) \/ ReadOld(c)
  \/ WriteTarget(c) \/ WriteTargetFails(c)
  \/ InsertDecision(c) \/ InsertDecisionFails(c) \/ Undo(c) \/ UndoFails(c)

Deprecate(c) ==
  \/ LoadDecision(c) \/ InsertPending(c)
  \/ ReadSource(c) \/ RenameSource(c) \/ RenameFails(c)
  \/ StampHeader(c) \/ StampHeaderFails(c)
  \/ CopySource(c) \/ CopySourceFails(c) \/ RemoveSource(c) \/ RemoveSourceFails(c)
  \/ MarkApplied(c) \/ DropPending(c)

Rollback(c) ==
  \/ FindMove(c) \/ CheckPlaces(c) \/ ReadCopy(c)
  \/ WriteBack(c) \/ WriteBackFails(c) \/ RemoveCopy(c) \/ RemoveCopyFails(c)
  \/ InsertRolledBack(c)

Step(c) ==
  \/ RecordDecision(c) \/ Deprecate(c) \/ Rollback(c)
  \/ AppendAudit(c) \/ AppendAuditFails(c) \/ StatementFails(c) \/ ReadFails(c)

Next == Tick \/ \E c \in Cmds : Step(c) \/ Crash(c)

Spec == Init /\ [][Next]_vars

-----------------------------------------------------------------------------
(***************************************************************************)
(* Properties                                                              *)
(***************************************************************************)
\* Two moves within one second aimed at the same copy.
AimsAt(c, x) == Kind(c) \in Movers /\ mine[c].stamp # 0 /\ Copy(c) = x
Collided(x) == \E c, d \in Cmds : c # d /\ AimsAt(c, x) /\ AimsAt(d, x)

CopyOf(entry) == <<entry.path, entry.stamp>>

\* Every rollback in the audit log reverses an earlier move in it, and put back
\* the very text that move took away, whatever ran, failed or died in between,
\* unless a second move within the same second reused the copy's name
\* (cmd_rollback.go:90-140, cmd_apply_decision.go:202-230).
Reverses(j, i) ==
  /\ audit[i].action = "applied"
  /\ audit[i].id = audit[j].id
  /\ CopyOf(audit[i]) = CopyOf(audit[j])
  /\ Collided(CopyOf(audit[j])) \/ audit[i].text = audit[j].text

RollbackRestores == \A j \in DOMAIN audit :
  audit[j].action = "rolled-back" => \E i \in 1..(j - 1) : Reverses(j, i)

\* Of rollbacks that race for one copy, only one gets into the log: the others
\* find the copy gone when they remove it (cmd_rollback.go:106-142).
RestoredOnce == \A i, j \in DOMAIN audit :
  /\ audit[i].action = "rolled-back" /\ audit[j].action = "rolled-back"
  /\ CopyOf(audit[i]) = CopyOf(audit[j])
  /\ ~Collided(CopyOf(audit[i]))
  => i = j

\* What a record-decision that ran alone and reports an error leaves of its file:
\* what it found, unless a system call of its own on the file failed. A failed
\* write may leave a torn file as well, against the "no row, no file (clean)" of
\* the comment, but not the new text without its row, the orphan the comment is
\* about; a failed undo leaves that text or a torn one
\* (cmd_record_decision.go:131-139).
Leaves(c, how) ==
  CASE how = "error" -> {mine[c].before}
    [] how = "torn" -> {mine[c].before, Torn}
    [] how = "stuck" -> {Plain(Text(c)), Torn}

RecordIsAtomic ==
  [][\A c \in Cmds \ disturbed' :
       /\ Kind(c) \in Recorders
       /\ reply[c] = "none" /\ reply'[c] \notin {"none", "ok"}
       => At(c, "begun") \/ files'[Path(c)] \in Leaves(c, reply'[c])]_reply

\* No body anybody wrote vanishes from the disk, even in a crash, unless a
\* replacement or an undo discards it, a write fails or dies half way, a copy's
\* name is used twice, or commands overlap (cmd_apply_decision.go:212-217,
\* cmd_rollback.go:137-142).
OnDisk(a) == \E x \in Places : Exists(x) /\ a \in files[x].text

MayDiscard(c, a) ==
  \/ c \in disturbed
  \/ Kind(c) = "replace" \/ (Kind(c) \in Recorders /\ a = c)
  \/ \E x \in Places : files'[x] = Torn /\ files[x] # Torn
  \/ pc[c] \in {"moving", "copying"} /\ Exists(Copy(c))

TextSurvives ==
  [][\A a \in Authors : OnDisk(a) /\ ~OnDisk(a)' =>
       \E c \in Cmds : pc'[c] # pc[c] /\ MayDiscard(c, a)]_files
=============================================================================
