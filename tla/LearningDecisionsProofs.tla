---------------------- MODULE LearningDecisionsProofs ----------------------
(***************************************************************************)
(* Proofs about LearningDecisions, for any number of commands, files,      *)
(* seconds and failures.                                                   *)
(***************************************************************************)
EXTENDS LearningDecisions, TLAPS

\* Where a command stands tells its kind; a mover has its stamp once it began.
PlacesSane == \A c \in Cmds :
  /\ pc[c] = "begun" => mine[c].stamp = 0
  /\ pc[c] \in {"captured", "writing", "inserting", "undoing"} => Kind(c) \in Recorders
  /\ pc[c] \in {"reading", "moving", "stamping", "copying", "removing",
                "marking", "deleting"} => Kind(c) \in Movers /\ mine[c].stamp # 0
  /\ pc[c] \in {"found", "clear", "restoring", "cleaning", "recording"} =>
       Kind(c) = "rollback" /\ mine[c].stamp # 0
  /\ pc[c] = "auditing" => Kind(c) \in Movers \cup {"rollback"} /\ mine[c].stamp # 0

Applied(i) == audit[i].action = "applied"
RolledBack(i) == audit[i].action = "rolled-back"

\* A logged move was made by a command that is over.
MoverOver == \A i \in DOMAIN audit : Applied(i) =>
  \E d \in Cmds : AimsAt(d, CopyOf(audit[i])) /\ pc[d] = "done"

\* A copy that is in the log, and one that its mover has completed, holds the
\* text that was moved.
CopySound == \A i \in DOMAIN audit :
  LET x == CopyOf(audit[i]) IN
    Applied(i) /\ ~Collided(x) /\ Exists(x) => files[x].text = audit[i].text

MoverSound == \A d \in Cmds :
  /\ Kind(d) \in Movers
  /\ pc[d] \in {"removing", "marking", "auditing"}
  /\ ~Collided(Copy(d))
  /\ Exists(Copy(d))
  => files[Copy(d)].text = Text(d)

\* A rollback works from a logged move, and holds its text once it has read it.
HasRead(c) == pc[c] \in {"restoring", "cleaning", "recording", "auditing"}
WorksFrom(c, i) ==
  /\ Applied(i)
  /\ audit[i].id = mine[c].id
  /\ CopyOf(audit[i]) = Copy(c)
  /\ HasRead(c) => Collided(Copy(c)) \/ Text(c) = audit[i].text

RollbackSound == \A c \in Cmds :
  /\ Kind(c) = "rollback"
  /\ pc[c] \in {"found", "clear"} \/ HasRead(c)
  => \E i \in DOMAIN audit : WorksFrom(c, i)

\* The copy is gone once a rollback has removed it, and only one removes it.
HasRemoved(c) == Kind(c) = "rollback" /\ pc[c] \in {"recording", "auditing"}

GoneSound ==
  /\ \A c \in Cmds : HasRemoved(c) /\ ~Collided(Copy(c)) =>
       /\ ~Exists(Copy(c))
       /\ \A d \in Cmds : HasRemoved(d) /\ Copy(d) = Copy(c) => d = c
       /\ \A j \in DOMAIN audit : RolledBack(j) => CopyOf(audit[j]) # Copy(c)
  /\ \A j \in DOMAIN audit :
       RolledBack(j) /\ ~Collided(CopyOf(audit[j])) => ~Exists(CopyOf(audit[j]))

IInv ==
  /\ TypeOK
  /\ PlacesSane
  /\ MoverOver
  /\ CopySound
  /\ MoverSound
  /\ RollbackSound
  /\ GoneSound
  /\ RollbackRestores
  /\ RestoredOnce

-----------------------------------------------------------------------------
(***************************************************************************)
(* Type correctness                                                        *)
(***************************************************************************)
LEMMA FileTypes ==
  /\ \A t \in SUBSET Authors : Plain(t) \in File /\ Stamped(t) \in File
  /\ Torn \in File
  /\ Paths \subseteq Places /\ Copies \subseteq Places
BY DEF Plain, Stamped, Torn, File, Places

LEMMA Typed ==
  ASSUME TypeOK, NEW c \in Cmds
  PROVE  /\ c \in Authors
         /\ Path(c) \in Paths /\ Path(c) \in Places
         /\ Text(c) \in SUBSET Authors
         /\ mine[c].old \in File \cup {NoFile}
         /\ mine[c].before \in File \cup {NoFile}
         /\ mine[c].id \in Ids
         /\ mine[c].stamp # 0 => Copy(c) \in Copies /\ Copy(c) \in Places
BY DecisionsAssumption DEF TypeOK, Local, Path, Text, Copy, Copies, Places

LEMMA TypedText ==
  ASSUME TypeOK, NEW x \in Places, Exists(x)
  PROVE  files[x] \in File /\ files[x].text \in SUBSET Authors
BY FilesAssumption DEF TypeOK, Exists, File

LEMMA TypedEntry ==
  ASSUME TypeOK, NEW i \in DOMAIN audit
  PROVE  /\ audit[i].path \in Paths /\ audit[i].stamp \in Stamps
         /\ CopyOf(audit[i]) \in Copies /\ audit[i].stamp # 0
         /\ audit[i].action \in {"applied", "rolled-back"}
<1>1. audit[i] \in AuditEntry
  BY DEF TypeOK
<1> QED
  BY <1>1, FilesAssumption DEF AuditEntry, CopyOf, Copies, Stamps

\* What a command assigns to its local variables.
LEMMA TypedMine ==
  ASSUME mine \in [Cmds -> Local], NEW c \in Cmds
  PROVE  /\ \A t \in SUBSET Authors :
              [mine EXCEPT ![c].text = t] \in [Cmds -> Local]
         /\ \A t \in SUBSET Authors, f \in File \cup {NoFile} :
              [mine EXCEPT ![c].text = t, ![c].before = f] \in [Cmds -> Local]
         /\ \A f, g \in File \cup {NoFile} :
              [mine EXCEPT ![c].old = f, ![c].before = g] \in [Cmds -> Local]
         /\ \A p \in Paths, s \in Stamps :
              [mine EXCEPT ![c].path = p, ![c].stamp = s] \in [Cmds -> Local]
         /\ \A id \in Ids, s \in Stamps :
              [mine EXCEPT ![c].id = id, ![c].stamp = s] \in [Cmds -> Local]
<1>1. \A r \in Local : \A t \in SUBSET Authors : [r EXCEPT !.text = t] \in Local
  BY DEF Local
<1>2. \A r \in Local : \A t \in SUBSET Authors, f \in File \cup {NoFile} :
        [[r EXCEPT !.text = t] EXCEPT !.before = f] \in Local
  BY DEF Local
<1>3. \A r \in Local : \A f, g \in File \cup {NoFile} :
        [[r EXCEPT !.old = f] EXCEPT !.before = g] \in Local
  BY DEF Local
<1>4. \A r \in Local : \A p \in Paths, s \in Stamps :
        [[r EXCEPT !.path = p] EXCEPT !.stamp = s] \in Local
  <2>1. \A r \in Local, p \in Paths : [r EXCEPT !.path = p] \in Local
    BY DEF Local
  <2>2. \A r \in Local, s \in Stamps : [r EXCEPT !.stamp = s] \in Local
    BY DEF Local
  <2> QED
    BY <2>1, <2>2, Zenon
<1>5. \A r \in Local : \A id \in Ids, s \in Stamps :
        [[r EXCEPT !.id = id] EXCEPT !.stamp = s] \in Local
  BY DEF Local
<1> QED
  BY <1>1, <1>2, <1>3, <1>4, <1>5

\* Every step of a command keeps the types.
LEMMA TypeStep ==
  ASSUME TypeOK, PlacesSane, NEW c \in Cmds, Step(c) \/ Crash(c)
  PROVE  TypeOK'
<1> USE DEF TypeOK, PCs
<1>0. /\ pc[c] \in {"reading", "moving", "stamping", "copying", "removing", "marking",
                   "deleting", "found", "clear", "restoring", "cleaning",
                   "recording", "auditing"} => mine[c].stamp # 0
      /\ Path(c) \in Paths /\ Path(c) \in Places
      /\ Text(c) \in SUBSET Authors
      /\ mine[c].old \in File \cup {NoFile}
      /\ mine[c].id \in Ids
  BY Typed DEF PlacesSane
<1>a. pc[c] \in {"moving", "stamping", "copying", "clear", "cleaning"} =>
        Copy(c) \in Copies /\ Copy(c) \in Places
  BY <1>0, Typed
<1>b. /\ Plain(Text(c)) \in File /\ Stamped(Text(c)) \in File /\ Torn \in File
      /\ Plain({}) \in File
  BY <1>0, FileTypes DEF Torn
<1>c. c \in Authors
  BY Typed
<1>1. CASE StatTarget(c)
  <2>1. {c} \in SUBSET Authors /\ files[Path(c)] \in File \cup {NoFile}
    BY <1>0, <1>c
  <2>2. mine' = [mine EXCEPT ![c].text = {c}, ![c].before = files[Path(c)]]
    BY <1>1 DEF StatTarget
  <2>3. mine' \in [Cmds -> Local]
    BY <2>1, <2>2, TypedMine, Zenon
  <2> QED
    BY <1>1, <2>3, <1>0 DEF At, StatTarget, Enter, Running, Goto, Finish
<1>2. CASE CaptureOld(c)
  <2>1. mine' \in [Cmds -> Local]
    BY <1>2, <1>0, <1>b, <1>c, TypedMine DEF At, CaptureOld, Enter
  <2> QED
    BY <1>2, <2>1, <1>0 DEF At, CaptureOld, Enter, Running, Goto
<1>3. CASE ReadOld(c)
  <2> DEFINE t == {c} \cup (IF Kind(c) = "append" THEN files[Path(c)].text ELSE {})
  <2>1. CASE ~Parses(Path(c))
    BY <1>3, <2>1, <1>0 DEF At, ReadOld, Finish
  <2>2. CASE Parses(Path(c))
    <3>1. t \in SUBSET Authors
      BY <2>2, <1>0, <1>c, TypedText DEF Parses
    <3>2. mine' = [mine EXCEPT ![c].text = t]
      BY <1>3, <2>2 DEF ReadOld
    <3> HIDE DEF t
    <3>3. mine' \in [Cmds -> Local]
      BY <3>1, <3>2, TypedMine, Zenon
    <3> QED
      BY <1>3, <3>3, <1>0, <2>2 DEF At, ReadOld, Goto
  <2> QED
    BY <2>1, <2>2
<1>4. CASE WriteTarget(c)
  BY <1>0, <1>b, <1>c, <1>4 DEF At, WriteTarget, Put, Goto
<1>5. CASE WriteTargetFails(c)
  BY <1>0, <1>b, <1>c, <1>5 DEF At, WriteTargetFails, PutFails, Put, Finish
<1>6. CASE InsertDecision(c)
  BY <1>0, <1>b, <1>c, <1>6 DEF At, InsertDecision, ReadyToInsert, Enter, Running,
    AddRow, ActionOf, Row, Finish
<1>7. CASE InsertDecisionFails(c)
  BY <1>0, <1>b, <1>c, <1>7 DEF At, InsertDecisionFails, ReadyToInsert, Enter, Running, Goto, Finish
<1>8. CASE Undo(c)
  BY <1>0, <1>b, <1>c, <1>8 DEF At, Undo, Put, Finish
<1>9. CASE UndoFails(c)
  BY <1>0, <1>b, <1>c, <1>9 DEF At, UndoFails, Put, Finish
<1>10. CASE LoadDecision(c)
  <2>1. CASE mine' = mine
    BY <1>10, <2>1, <1>0 DEF At, LoadDecision, Enter, Running, Goto, Finish
  <2>2. CASE mine' # mine
    <3>1. rows[mine[c].id].path \in Paths /\ second \in Stamps
      BY <1>10, <2>2, <1>0 DEF LoadDecision, Pending, Row
    <3>2. mine' = [mine EXCEPT ![c].path = rows[mine[c].id].path, ![c].stamp = second]
      BY <1>10, <2>2 DEF LoadDecision
    <3>3. mine' \in [Cmds -> Local]
      BY <3>1, <3>2, TypedMine, Zenon
    <3> QED
      BY <1>10, <3>3, <1>0 DEF At, LoadDecision, Enter, Running, Goto, Finish
  <2> QED
    BY <2>1, <2>2
<1>11. CASE InsertPending(c)
  <2>1. PICK id \in Ids : /\ AddRow(id, "pending-approval", Path(c))
                          /\ mine' = [mine EXCEPT ![c].id = id, ![c].stamp = second]
    BY <1>11 DEF InsertPending
  <2>2. mine' \in [Cmds -> Local]
    BY <2>1, TypedMine, Zenon
  <2>3. rows' \in [Ids -> Row \cup {NoRow}]
    BY <2>1, <1>0 DEF AddRow, Row
  <2> QED
    BY <1>11, <2>2, <2>3 DEF At, InsertPending, Enter, Running, Goto
<1>12. CASE ReadSource(c)
  <2>1. CASE mine' = mine
    BY <1>12, <2>1, <1>0 DEF At, ReadSource, MoveErrs, Goto, Finish
  <2>2. CASE mine' # mine
    <3>1. files[Path(c)].text \in SUBSET Authors
      BY <1>12, <2>2, <1>0, TypedText DEF ReadSource
    <3>2. mine' = [mine EXCEPT ![c].text = files[Path(c)].text]
      BY <1>12, <2>2 DEF ReadSource
    <3>3. mine' \in [Cmds -> Local]
      BY <3>1, <3>2, TypedMine, Zenon
    <3> QED
      BY <1>12, <3>3, <1>0 DEF At, ReadSource, MoveErrs, Goto, Finish
  <2> QED
    BY <2>1, <2>2
<1>13. CASE RenameSource(c)
  BY <1>0, <1>b, <1>c, <1>13, <1>a DEF At, RenameSource, Rename, Goto
<1>14. CASE RenameFails(c)
  BY <1>0, <1>b, <1>c, <1>14 DEF At, RenameFails, Goto
<1>15. CASE StampHeader(c)
  BY <1>0, <1>b, <1>c, <1>15, <1>a DEF At, StampHeader, Put, Goto
<1>16. CASE StampHeaderFails(c)
  BY <1>0, <1>b, <1>c, <1>16, <1>a DEF At, StampHeaderFails, PutFails, Put, MoveErrs, Goto, Finish
<1>17. CASE CopySource(c)
  BY <1>0, <1>b, <1>c, <1>17, <1>a DEF At, CopySource, Put, Goto
<1>18. CASE CopySourceFails(c)
  BY <1>0, <1>b, <1>c, <1>18, <1>a DEF At, CopySourceFails, PutFails, Put, MoveErrs, Goto, Finish
<1>19. CASE RemoveSource(c)
  BY <1>0, <1>b, <1>c, <1>19 DEF At, RemoveSource, Remove, Put, Goto
<1>20. CASE RemoveSourceFails(c)
  BY <1>0, <1>b, <1>c, <1>20 DEF At, RemoveSourceFails, MoveErrs, Goto, Finish
<1>21. CASE MarkApplied(c)
  BY <1>0, <1>b, <1>c, <1>21 DEF At, MarkApplied, Row, Goto
<1>22. CASE DropPending(c)
  BY <1>0, <1>b, <1>c, <1>22 DEF At, DropPending, Finish
<1>23. CASE FindMove(c)
  <2>1. CASE mine' = mine
    BY <1>23, <2>1, <1>0 DEF At, FindMove, Enter, Running, Goto, Finish
  <2>2. CASE mine' # mine
    <3>1. PICK i \in DOMAIN audit :
            mine' = [mine EXCEPT ![c].path = audit[i].path, ![c].stamp = audit[i].stamp]
      BY <1>23, <2>2 DEF FindMove
    <3>2. audit[i].path \in Paths /\ audit[i].stamp \in Stamps
      BY TypedEntry
    <3>3. mine' \in [Cmds -> Local]
      BY <3>1, <3>2, TypedMine, Zenon
    <3> QED
      BY <1>23, <3>3, <1>0 DEF At, FindMove, Enter, Running, Goto, Finish
  <2> QED
    BY <2>1, <2>2
<1>24. CASE CheckPlaces(c)
  BY <1>0, <1>b, <1>c, <1>24 DEF At, CheckPlaces, Goto, Finish
<1>25. CASE ReadCopy(c)
  <2>1. CASE mine' = mine
    BY <1>25, <2>1, <1>0 DEF At, ReadCopy, Goto, Finish
  <2>2. CASE mine' # mine
    <3>1. files[Copy(c)].text \in SUBSET Authors
      BY <1>25, <2>2, <1>a, TypedText DEF ReadCopy, At
    <3>2. mine' = [mine EXCEPT ![c].text = files[Copy(c)].text]
      BY <1>25, <2>2 DEF ReadCopy
    <3>3. mine' \in [Cmds -> Local]
      BY <3>1, <3>2, TypedMine, Zenon
    <3> QED
      BY <1>25, <3>3, <1>0 DEF At, ReadCopy, Goto, Finish
  <2> QED
    BY <2>1, <2>2
<1>26. CASE WriteBack(c)
  BY <1>0, <1>b, <1>c, <1>26 DEF At, WriteBack, Put, Goto
<1>27. CASE WriteBackFails(c)
  BY <1>0, <1>b, <1>c, <1>27 DEF At, WriteBackFails, PutFails, Put, Finish
<1>28. CASE RemoveCopy(c)
  BY <1>0, <1>b, <1>c, <1>28, <1>a DEF At, RemoveCopy, Remove, Put, Goto
<1>29. CASE RemoveCopyFails(c)
  BY <1>0, <1>b, <1>c, <1>29 DEF At, RemoveCopyFails, Finish
<1>30. CASE InsertRolledBack(c)
  BY <1>0, <1>b, <1>c, <1>30 DEF At, InsertRolledBack, AddRow, Row, Goto
<1>31. CASE AppendAudit(c)
  <2>1. mine[c].stamp \in Stamps
    BY <1>0, <1>31 DEF At, AppendAudit, Local
  <2>2. audit' \in Seq(AuditEntry)
    BY <2>1, <1>0, <1>31 DEF At, AppendAudit, AuditEntry
  <2> QED
    BY <1>31, <2>2, <1>0 DEF At, AppendAudit, Finish
<1>32. CASE AppendAuditFails(c)
  BY <1>0, <1>b, <1>c, <1>32 DEF At, AppendAuditFails, Finish
<1>33. CASE StatementFails(c)
  BY <1>0, <1>b, <1>c, <1>33 DEF At, StatementFails, Enter, Running, Finish
<1>34. CASE ReadFails(c)
  BY <1>0, <1>b, <1>c, <1>34 DEF At, ReadFails, Enter, Running, MoveErrs, Goto, Finish
<1>35. CASE Crash(c)
  BY <1>0, <1>b, <1>c, <1>35, <1>a DEF At, Crash, Running, Target, Put, Goto
<1> QED
  BY <1>1, <1>2, <1>3, <1>4, <1>5, <1>6, <1>7, <1>8, <1>9, <1>10, <1>11,
    <1>12, <1>13, <1>14, <1>15, <1>16, <1>17, <1>18, <1>19, <1>20, <1>21,
    <1>22, <1>23, <1>24, <1>25, <1>26, <1>27, <1>28, <1>29, <1>30, <1>31,
    <1>32, <1>33, <1>34, <1>35
  DEF Step, RecordDecision, Deprecate, Rollback

-----------------------------------------------------------------------------
(***************************************************************************)
(* What one step of a command can do                                       *)
(***************************************************************************)
\* It moves no other command, and none that has ended.
LEMMA StepsAlone ==
  ASSUME TypeOK, NEW c \in Cmds, Step(c) \/ Crash(c)
  PROVE  /\ call' = call
         /\ pc[c] \notin {"done", "dead"}
         /\ \A d \in Cmds : d # c => pc'[d] = pc[d] /\ mine'[d] = mine[d]
<1> USE DEF TypeOK
<1>1. CASE RecordDecision(c)
  BY <1>1 
  DEF At, Goto, Finish, Enter, MoveErrs,
      RecordDecision, StatTarget, CaptureOld, ReadOld, WriteTarget, WriteTargetFails,
      InsertDecision, InsertDecisionFails, Undo, UndoFails, ReadyToInsert
<1>2. CASE Deprecate(c)
  BY <1>2 
  DEF At, Goto, Finish, Enter, MoveErrs,
      Deprecate, LoadDecision, InsertPending, ReadSource, RenameSource, RenameFails,
      StampHeader, StampHeaderFails, CopySource, CopySourceFails, RemoveSource,
      RemoveSourceFails, MarkApplied, DropPending
<1>3. CASE Rollback(c)
  BY <1>3 
  DEF At, Goto, Finish, Enter, MoveErrs,
      Rollback, FindMove, CheckPlaces, ReadCopy, WriteBack, WriteBackFails,
      RemoveCopy, RemoveCopyFails, InsertRolledBack
<1>4. CASE AppendAudit(c) \/ AppendAuditFails(c) \/ StatementFails(c) \/ ReadFails(c)
          \/ Crash(c)
  BY <1>4 
  DEF At, Goto, Finish, Enter, MoveErrs,
      AppendAudit, AppendAuditFails, StatementFails, ReadFails, Crash, Running
<1> QED
  BY <1>1, <1>2, <1>3, <1>4 DEF Step

\* Once begun, a command keeps its decision and its copy, and changes its text
\* only when it reads a file.
LEMMA KeepsAim ==
  ASSUME TypeOK, NEW c \in Cmds, Step(c) \/ Crash(c), pc[c] # "begun"
  PROVE  /\ mine'[c].path = mine[c].path
         /\ mine'[c].stamp = mine[c].stamp
         /\ mine'[c].id = mine[c].id
         /\ pc[c] \notin {"captured", "reading", "clear"} => mine' = mine
<1> USE DEF TypeOK, Local
<1>1. CASE RecordDecision(c)
  BY <1>1 
  DEF At, Goto, Finish, Enter, MoveErrs,
      RecordDecision, StatTarget, CaptureOld, ReadOld, WriteTarget, WriteTargetFails,
      InsertDecision, InsertDecisionFails, Undo, UndoFails, ReadyToInsert
<1>2. CASE Deprecate(c)
  BY <1>2 
  DEF At, Goto, Finish, Enter, MoveErrs,
      Deprecate, LoadDecision, InsertPending, ReadSource, RenameSource, RenameFails,
      StampHeader, StampHeaderFails, CopySource, CopySourceFails, RemoveSource,
      RemoveSourceFails, MarkApplied, DropPending
<1>3. CASE Rollback(c)
  BY <1>3 
  DEF At, Goto, Finish, Enter, MoveErrs,
      Rollback, FindMove, CheckPlaces, ReadCopy, WriteBack, WriteBackFails,
      RemoveCopy, RemoveCopyFails, InsertRolledBack
<1>4. CASE AppendAudit(c) \/ AppendAuditFails(c) \/ StatementFails(c) \/ ReadFails(c)
          \/ Crash(c)
  BY <1>4 
  DEF At, Goto, Finish, Enter, MoveErrs,
      AppendAudit, AppendAuditFails, StatementFails, ReadFails, Crash, Running
<1> QED
  BY <1>1, <1>2, <1>3, <1>4 DEF Step

\* Where a command can come from.
LEMMA Arrives ==
  ASSUME TypeOK, NEW c \in Cmds, Step(c) \/ Crash(c)
  PROVE  /\ pc'[c] = "removing" => CopySource(c)
         /\ pc'[c] = "marking" => StampHeader(c) \/ RemoveSource(c)
         /\ pc'[c] = "auditing" => MarkApplied(c) \/ InsertRolledBack(c)
         /\ pc'[c] = "found" => FindMove(c)
         /\ pc'[c] = "clear" => CheckPlaces(c)
         /\ pc'[c] = "restoring" => ReadCopy(c)
         /\ pc'[c] = "cleaning" => WriteBack(c)
         /\ pc'[c] = "recording" => RemoveCopy(c)
<1> USE DEF TypeOK
<1>1. CASE RecordDecision(c)
  BY <1>1 
  DEF At, Goto, Finish, Enter, MoveErrs,
      RecordDecision, StatTarget, CaptureOld, ReadOld, WriteTarget, WriteTargetFails,
      InsertDecision, InsertDecisionFails, Undo, UndoFails, ReadyToInsert
<1>2. CASE Deprecate(c)
  BY <1>2 
  DEF At, Goto, Finish, Enter, MoveErrs,
      Deprecate, LoadDecision, InsertPending, ReadSource, RenameSource, RenameFails,
      StampHeader, StampHeaderFails, CopySource, CopySourceFails, RemoveSource,
      RemoveSourceFails, MarkApplied, DropPending
<1>3. CASE Rollback(c)
  BY <1>3 
  DEF At, Goto, Finish, Enter, MoveErrs,
      Rollback, FindMove, CheckPlaces, ReadCopy, WriteBack, WriteBackFails,
      RemoveCopy, RemoveCopyFails, InsertRolledBack
<1>4. CASE AppendAudit(c) \/ AppendAuditFails(c) \/ StatementFails(c) \/ ReadFails(c)
          \/ Crash(c)
  BY <1>4 
  DEF At, Goto, Finish, Enter, MoveErrs,
      AppendAudit, AppendAuditFails, StatementFails, ReadFails, Crash, Running
<1> QED
  BY <1>1, <1>2, <1>3, <1>4 DEF Step

\* The log grows by one line of the command's own, or not at all.
Line(c) ==
  [action |-> IF Kind(c) = "rollback" THEN "rolled-back" ELSE "applied",
   id |-> mine[c].id, path |-> Path(c), stamp |-> mine[c].stamp, text |-> Text(c)]

LEMMA LogGrows ==
  ASSUME TypeOK, NEW c \in Cmds, Step(c) \/ Crash(c)
  PROVE  \/ audit' = audit
         \/ /\ pc[c] = "auditing" /\ pc'[c] = "done"
            /\ UNCHANGED <<files, mine>>
            /\ audit' = Append(audit, Line(c))
<1> USE DEF TypeOK, Line
<1>1. CASE RecordDecision(c)
  BY <1>1 
  DEF At, Goto, Finish, Enter, MoveErrs,
      RecordDecision, StatTarget, CaptureOld, ReadOld, WriteTarget, WriteTargetFails,
      InsertDecision, InsertDecisionFails, Undo, UndoFails, ReadyToInsert
<1>2. CASE Deprecate(c)
  BY <1>2 
  DEF At, Goto, Finish, Enter, MoveErrs,
      Deprecate, LoadDecision, InsertPending, ReadSource, RenameSource, RenameFails,
      StampHeader, StampHeaderFails, CopySource, CopySourceFails, RemoveSource,
      RemoveSourceFails, MarkApplied, DropPending
<1>3. CASE Rollback(c)
  BY <1>3 
  DEF At, Goto, Finish, Enter, MoveErrs,
      Rollback, FindMove, CheckPlaces, ReadCopy, WriteBack, WriteBackFails,
      RemoveCopy, RemoveCopyFails, InsertRolledBack
<1>4. CASE AppendAudit(c) \/ AppendAuditFails(c) \/ StatementFails(c) \/ ReadFails(c)
          \/ Crash(c)
  BY <1>4 
  DEF At, Goto, Finish, Enter, MoveErrs,
      AppendAudit, AppendAuditFails, StatementFails, ReadFails, Crash, Running
<1> QED
  BY <1>1, <1>2, <1>3, <1>4 DEF Step

\* A copy changes only under its mover, or goes with its rollback.
LEMMA CopiesChange ==
  ASSUME TypeOK, PlacesSane, NEW c \in Cmds, Step(c) \/ Crash(c), NEW x \in Copies
  PROVE  \/ files'[x] = files[x]
         \/ /\ x = Copy(c)
            /\ \/ pc[c] \in {"moving", "stamping", "copying"}
               \/ pc[c] = "cleaning" /\ files'[x] = NoFile
<1> USE DEF TypeOK
<1>0. Path(c) \in Paths /\ x \notin Paths /\ x # Path(c) /\ x \in Places
  BY Typed, FilesAssumption DEF Places
<1>1. CASE RecordDecision(c)
  BY <1>1, <1>0 
  DEF At, Goto, Finish, Enter, MoveErrs, Put, PutFails, Rename, Remove, Target,
      RecordDecision, StatTarget, CaptureOld, ReadOld, WriteTarget, WriteTargetFails,
      InsertDecision, InsertDecisionFails, Undo, UndoFails, ReadyToInsert
<1>2. CASE Deprecate(c)
  BY <1>2, <1>0 
  DEF At, Goto, Finish, Enter, MoveErrs, Put, PutFails, Rename, Remove, Target,
      Deprecate, LoadDecision, InsertPending, ReadSource, RenameSource, RenameFails,
      StampHeader, StampHeaderFails, CopySource, CopySourceFails, RemoveSource,
      RemoveSourceFails, MarkApplied, DropPending
<1>3. CASE Rollback(c)
  BY <1>3, <1>0 
  DEF At, Goto, Finish, Enter, MoveErrs, Put, PutFails, Rename, Remove, Target,
      Rollback, FindMove, CheckPlaces, ReadCopy, WriteBack, WriteBackFails,
      RemoveCopy, RemoveCopyFails, InsertRolledBack
<1>4. CASE AppendAudit(c) \/ AppendAuditFails(c) \/ StatementFails(c) \/ ReadFails(c)
          \/ Crash(c)
  BY <1>4, <1>0 
  DEF At, Goto, Finish, Enter, MoveErrs, Put, PutFails, Rename, Remove, Target,
      AppendAudit, AppendAuditFails, StatementFails, ReadFails, Crash, Running
<1> QED
  BY <1>1, <1>2, <1>3, <1>4 DEF Step

\* What the first step of a command leads to.
LEMMA Begins ==
  ASSUME TypeOK, NEW c \in Cmds, Step(c) \/ Crash(c), pc[c] = "begun"
  PROVE  \/ LoadDecision(c) \/ InsertPending(c) \/ FindMove(c)
         \/ pc'[c] \in {"captured", "writing", "inserting", "undoing", "done"}
<1> USE DEF TypeOK
<1>1. CASE RecordDecision(c)
  BY <1>1 
  DEF At, Goto, Finish, Enter, MoveErrs,
      RecordDecision, StatTarget, CaptureOld, ReadOld, WriteTarget, WriteTargetFails,
      InsertDecision, InsertDecisionFails, Undo, UndoFails, ReadyToInsert
<1>2. CASE Deprecate(c)
  BY <1>2 
  DEF At, Goto, Finish, Enter, MoveErrs,
      Deprecate, LoadDecision, InsertPending, ReadSource, RenameSource, RenameFails,
      StampHeader, StampHeaderFails, CopySource, CopySourceFails, RemoveSource,
      RemoveSourceFails, MarkApplied, DropPending
<1>3. CASE Rollback(c)
  BY <1>3 
  DEF At, Goto, Finish, Enter, MoveErrs,
      Rollback, FindMove, CheckPlaces, ReadCopy, WriteBack, WriteBackFails,
      RemoveCopy, RemoveCopyFails, InsertRolledBack
<1>4. CASE AppendAudit(c) \/ AppendAuditFails(c) \/ StatementFails(c) \/ ReadFails(c)
          \/ Crash(c)
  BY <1>4 
  DEF At, Goto, Finish, Enter, MoveErrs,
      AppendAudit, AppendAuditFails, StatementFails, ReadFails, Crash, Running
<1> QED
  BY <1>1, <1>2, <1>3, <1>4 DEF Step

\* Every step keeps the places sane.
LEMMA PlacesStep ==
  ASSUME TypeOK, PlacesSane, NEW c \in Cmds, Step(c) \/ Crash(c)
  PROVE  PlacesSane'
<1>1. ASSUME NEW d \in Cmds, d # c
      PROVE  pc'[d] = pc[d] /\ mine'[d] = mine[d] /\ Kind(d)' = Kind(d)
  BY <1>1, StepsAlone DEF Kind
<1>2. Kind(c)' = Kind(c)
  BY StepsAlone DEF Kind
<1>3. pc'[c] # "begun"
  <2> USE DEF TypeOK
<2>1. CASE RecordDecision(c)
    BY <2>1 
    DEF At, Goto, Finish, Enter, MoveErrs,
        RecordDecision, StatTarget, CaptureOld, ReadOld, WriteTarget, WriteTargetFails,
        InsertDecision, InsertDecisionFails, Undo, UndoFails, ReadyToInsert
  <2>2. CASE Deprecate(c)
    BY <2>2 
    DEF At, Goto, Finish, Enter, MoveErrs,
        Deprecate, LoadDecision, InsertPending, ReadSource, RenameSource, RenameFails,
        StampHeader, StampHeaderFails, CopySource, CopySourceFails, RemoveSource,
        RemoveSourceFails, MarkApplied, DropPending
  <2>3. CASE Rollback(c)
    BY <2>3 
    DEF At, Goto, Finish, Enter, MoveErrs,
        Rollback, FindMove, CheckPlaces, ReadCopy, WriteBack, WriteBackFails,
        RemoveCopy, RemoveCopyFails, InsertRolledBack
  <2>4. CASE AppendAudit(c) \/ AppendAuditFails(c) \/ StatementFails(c) \/ ReadFails(c)
            \/ Crash(c)
    BY <2>4 
    DEF At, Goto, Finish, Enter, MoveErrs,
        AppendAudit, AppendAuditFails, StatementFails, ReadFails, Crash, Running
  <2> QED
    BY <2>1, <2>2, <2>3, <2>4 DEF Step
<1>4. pc'[c] \in {"captured", "writing", "inserting", "undoing"} => Kind(c) \in Recorders
  <2> USE DEF TypeOK, PlacesSane, Recorders
<2>1. CASE RecordDecision(c)
    BY <2>1 
    DEF At, Goto, Finish, Enter, MoveErrs,
        RecordDecision, StatTarget, CaptureOld, ReadOld, WriteTarget, WriteTargetFails,
        InsertDecision, InsertDecisionFails, Undo, UndoFails, ReadyToInsert
  <2>2. CASE Deprecate(c)
    BY <2>2 
    DEF At, Goto, Finish, Enter, MoveErrs,
        Deprecate, LoadDecision, InsertPending, ReadSource, RenameSource, RenameFails,
        StampHeader, StampHeaderFails, CopySource, CopySourceFails, RemoveSource,
        RemoveSourceFails, MarkApplied, DropPending
  <2>3. CASE Rollback(c)
    BY <2>3 
    DEF At, Goto, Finish, Enter, MoveErrs,
        Rollback, FindMove, CheckPlaces, ReadCopy, WriteBack, WriteBackFails,
        RemoveCopy, RemoveCopyFails, InsertRolledBack
  <2>4. CASE AppendAudit(c) \/ AppendAuditFails(c) \/ StatementFails(c) \/ ReadFails(c)
            \/ Crash(c)
    BY <2>4 
    DEF At, Goto, Finish, Enter, MoveErrs,
        AppendAudit, AppendAuditFails, StatementFails, ReadFails, Crash, Running
  <2> QED
    BY <2>1, <2>2, <2>3, <2>4 DEF Step
<1>5. /\ pc'[c] \in {"reading", "moving", "stamping", "copying", "removing",
                   "marking", "deleting"} => Kind(c) \in Movers
      /\ pc'[c] \in {"found", "clear", "restoring", "cleaning", "recording"} =>
           Kind(c) = "rollback"
      /\ pc'[c] = "auditing" => Kind(c) \in Movers \cup {"rollback"}
  <2> USE DEF TypeOK, PlacesSane, Movers
<2>1. CASE RecordDecision(c)
    BY <2>1 
    DEF At, Goto, Finish, Enter, MoveErrs,
        RecordDecision, StatTarget, CaptureOld, ReadOld, WriteTarget, WriteTargetFails,
        InsertDecision, InsertDecisionFails, Undo, UndoFails, ReadyToInsert
  <2>2. CASE Deprecate(c)
    BY <2>2 
    DEF At, Goto, Finish, Enter, MoveErrs,
        Deprecate, LoadDecision, InsertPending, ReadSource, RenameSource, RenameFails,
        StampHeader, StampHeaderFails, CopySource, CopySourceFails, RemoveSource,
        RemoveSourceFails, MarkApplied, DropPending
  <2>3. CASE Rollback(c)
    BY <2>3 
    DEF At, Goto, Finish, Enter, MoveErrs,
        Rollback, FindMove, CheckPlaces, ReadCopy, WriteBack, WriteBackFails,
        RemoveCopy, RemoveCopyFails, InsertRolledBack
  <2>4. CASE AppendAudit(c) \/ AppendAuditFails(c) \/ StatementFails(c) \/ ReadFails(c)
            \/ Crash(c)
    BY <2>4 
    DEF At, Goto, Finish, Enter, MoveErrs,
        AppendAudit, AppendAuditFails, StatementFails, ReadFails, Crash, Running
  <2> QED
    BY <2>1, <2>2, <2>3, <2>4 DEF Step
<1>6. pc'[c] \in {"reading", "moving", "stamping", "copying", "removing", "marking",
                 "deleting", "found", "clear", "restoring", "cleaning", "recording",
                 "auditing"} => mine'[c].stamp # 0
  <2>1. CASE pc[c] # "begun"
    <3>0. mine'[c].stamp = mine[c].stamp
      BY <2>1, KeepsAim
    <3> USE <2>1 DEF TypeOK, PlacesSane
<3>1. CASE RecordDecision(c)
      BY <3>1, <3>0 
      DEF At, Goto, Finish, Enter, MoveErrs,
          RecordDecision, StatTarget, CaptureOld, ReadOld, WriteTarget, WriteTargetFails,
          InsertDecision, InsertDecisionFails, Undo, UndoFails, ReadyToInsert
    <3>2. CASE Deprecate(c)
      BY <3>2, <3>0 
      DEF At, Goto, Finish, Enter, MoveErrs,
          Deprecate, LoadDecision, InsertPending, ReadSource, RenameSource, RenameFails,
          StampHeader, StampHeaderFails, CopySource, CopySourceFails, RemoveSource,
          RemoveSourceFails, MarkApplied, DropPending
    <3>3. CASE Rollback(c)
      BY <3>3, <3>0 
      DEF At, Goto, Finish, Enter, MoveErrs,
          Rollback, FindMove, CheckPlaces, ReadCopy, WriteBack, WriteBackFails,
          RemoveCopy, RemoveCopyFails, InsertRolledBack
    <3>4. CASE AppendAudit(c) \/ AppendAuditFails(c) \/ StatementFails(c) \/ ReadFails(c)
              \/ Crash(c)
      BY <3>4, <3>0 
      DEF At, Goto, Finish, Enter, MoveErrs,
          AppendAudit, AppendAuditFails, StatementFails, ReadFails, Crash, Running
    <3> QED
      BY <3>1, <3>2, <3>3, <3>4 DEF Step
  <2>2. CASE pc[c] = "begun"
    <3>1. \A i \in DOMAIN audit : audit[i].stamp # 0
      BY TypedEntry
    <3>2. second # 0
      BY FilesAssumption DEF TypeOK, Stamps
    <3>3. CASE LoadDecision(c)
      BY <2>2, <3>2, <3>3 DEF LoadDecision, Finish, TypeOK, Local
    <3>4. CASE InsertPending(c)
      <4>1. PICK id \in Ids : mine' = [mine EXCEPT ![c].id = id, ![c].stamp = second]
        BY <3>4 DEF InsertPending
      <4> QED
        BY <4>1, <3>2 DEF TypeOK, Local
    <3>5. CASE FindMove(c)
      BY <2>2, <3>1, <3>5 DEF FindMove, Finish, TypeOK, Local
    <3>6. CASE ~(LoadDecision(c) \/ InsertPending(c) \/ FindMove(c))
      BY <2>2, <3>6, Begins
    <3> QED
      BY <3>3, <3>4, <3>5, <3>6
  <2> QED
    BY <2>1, <2>2
<1> QED
  BY <1>1, <1>2, <1>3, <1>4, <1>5, <1>6 DEF PlacesSane

-----------------------------------------------------------------------------
(***************************************************************************)
(* The invariant, part by part                                             *)
(***************************************************************************)
\* A command keeps aiming at its copy.
LEMMA AimsStay ==
  ASSUME TypeOK, PlacesSane, NEW c \in Cmds, Step(c) \/ Crash(c)
  PROVE  /\ \A d \in Cmds : Kind(d)' = Kind(d)
         /\ \A d \in Cmds : \A x : AimsAt(d, x) => AimsAt(d, x)'
         /\ \A x : Collided(x) => Collided(x)'
         /\ \A d \in Cmds : pc[d] # "begun" =>
              Copy(d)' = Copy(d) /\ (Collided(Copy(d)) => Collided(Copy(d))')
<1>1. \A d \in Cmds : Kind(d)' = Kind(d)
  BY StepsAlone DEF Kind
<1>2. \A d \in Cmds : d # c => mine'[d] = mine[d]
  BY StepsAlone
<1>3. pc[c] # "begun" => mine'[c].path = mine[c].path /\ mine'[c].stamp = mine[c].stamp
  BY KeepsAim
<1>4. \A d \in Cmds : pc[d] # "begun" => Copy(d)' = Copy(d)
  BY <1>2, <1>3 DEF Copy
<1>5. \A d \in Cmds : \A x : AimsAt(d, x) => AimsAt(d, x)'
  BY <1>1, <1>2, <1>3, <1>4 DEF AimsAt, PlacesSane, Copy
<1>6. ASSUME NEW d \in Cmds, pc[d] # "begun", Collided(Copy(d))
      PROVE  Collided(Copy(d))'
  <2>1. PICK e, f \in Cmds : e # f /\ AimsAt(e, Copy(d)) /\ AimsAt(f, Copy(d))
    BY <1>6 DEF Collided
  <2>2. AimsAt(e, Copy(d))' /\ AimsAt(f, Copy(d))'
    BY <1>4, <1>5, <1>6, <2>1 DEF AimsAt
  <2> QED
    BY <2>1, <2>2 DEF Collided
<1> QED
  BY <1>1, <1>4, <1>5, <1>6 DEF Collided

\* The line a command appends.
LEMMA NewLine ==
  ASSUME TypeOK, PlacesSane, NEW c \in Cmds, Step(c) \/ Crash(c), audit' # audit
  PROVE  /\ pc[c] = "auditing" /\ pc'[c] = "done"
         /\ UNCHANGED <<files, mine>>
         /\ Len(audit') = Len(audit) + 1
         /\ DOMAIN audit' = DOMAIN audit \cup {Len(audit) + 1}
         /\ \A i \in DOMAIN audit : audit'[i] = audit[i] /\ i < Len(audit) + 1
         /\ audit'[Len(audit) + 1] = Line(c)
         /\ CopyOf(Line(c)) = Copy(c)
         /\ Kind(c) = "rollback" => Line(c).action = "rolled-back"
         /\ Kind(c) # "rollback" => Line(c).action = "applied" /\ AimsAt(c, Copy(c))
<1>1. /\ pc[c] = "auditing" /\ pc'[c] = "done"
      /\ UNCHANGED <<files, mine>>
      /\ audit' = Append(audit, Line(c))
  BY LogGrows
<1>2. audit \in Seq(AuditEntry) /\ audit' = Append(audit, Line(c))
  BY <1>1 DEF TypeOK
<1>3. CopyOf(Line(c)) = Copy(c)
  BY DEF CopyOf, Line, Copy, Path
<1>4. Kind(c) # "rollback" => AimsAt(c, Copy(c))
  BY <1>1 DEF PlacesSane, AimsAt
<1>5. /\ Len(audit') = Len(audit) + 1
      /\ DOMAIN audit' = DOMAIN audit \cup {Len(audit) + 1}
      /\ \A i \in DOMAIN audit : audit'[i] = audit[i] /\ i < Len(audit) + 1
      /\ audit'[Len(audit) + 1] = Line(c)
  BY <1>2
<1> QED
  BY <1>1, <1>3, <1>4, <1>5 DEF Line

\* The copy of a logged move is never written again, but by a mover that collides.
LEMMA LoggedCopiesStay ==
  ASSUME TypeOK, PlacesSane, MoverOver, NEW c \in Cmds, Step(c) \/ Crash(c),
         NEW i \in DOMAIN audit, Applied(i), ~Collided(CopyOf(audit[i]))
  PROVE  files'[CopyOf(audit[i])] \in {files[CopyOf(audit[i])], NoFile}
<1> DEFINE x == CopyOf(audit[i])
<1>1. x \in Copies
  BY TypedEntry
<1>2. PICK d \in Cmds : AimsAt(d, x) /\ pc[d] = "done"
  BY DEF MoverOver
<1>3. ~(x = Copy(c) /\ pc[c] \in {"moving", "stamping", "copying"})
  <2> SUFFICES ASSUME x = Copy(c), pc[c] \in {"moving", "stamping", "copying"} PROVE FALSE
    OBVIOUS
  <2>1. AimsAt(c, x)
    BY DEF AimsAt, PlacesSane
  <2> QED
    BY <1>2, <2>1 DEF Collided
<1> HIDE DEF x
<1>4. files'[x] \in {files[x], NoFile}
  BY <1>1, <1>3, CopiesChange
<1> QED
  BY <1>4 DEF x

LEMMA MoverOverStep ==
  ASSUME TypeOK, PlacesSane, MoverOver, NEW c \in Cmds, Step(c) \/ Crash(c)
  PROVE  MoverOver'
<1> SUFFICES ASSUME NEW i \in DOMAIN audit', Applied(i)'
             PROVE  \E d \in Cmds : AimsAt(d, CopyOf(audit[i]))' /\ pc'[d] = "done"
  BY DEF MoverOver
<1>1. CASE i \in DOMAIN audit /\ audit'[i] = audit[i]
  <2>1. PICK d \in Cmds : AimsAt(d, CopyOf(audit[i])) /\ pc[d] = "done"
    BY <1>1 DEF MoverOver, Applied
  <2>2. pc'[d] = "done"
    BY <2>1, StepsAlone
  <2>3. AimsAt(d, CopyOf(audit[i]))'
    BY <1>1, <2>1, AimsStay DEF CopyOf
  <2> QED
    BY <2>2, <2>3
<1>2. CASE ~(i \in DOMAIN audit /\ audit'[i] = audit[i])
  <2>1. audit' # audit
    BY <1>2
  <2>2. audit'[i] = Line(c) /\ pc'[c] = "done"
    BY <1>2, <2>1, NewLine
  <2>3. Kind(c) # "rollback"
    BY <2>1, <2>2, NewLine DEF Applied
  <2>4. AimsAt(c, Copy(c)) /\ CopyOf(Line(c)) = Copy(c)
    BY <2>1, <2>3, NewLine
  <2>5. CopyOf(audit[i])' = CopyOf(Line(c))
    BY <2>2 DEF CopyOf
  <2> QED
    BY <2>2, <2>4, <2>5, AimsStay
<1> QED
  BY <1>1, <1>2

LEMMA CopySoundStep ==
  ASSUME TypeOK, PlacesSane, MoverOver, CopySound, MoverSound,
         NEW c \in Cmds, Step(c) \/ Crash(c)
  PROVE  CopySound'
<1> SUFFICES ASSUME NEW i \in DOMAIN audit', Applied(i)', ~Collided(CopyOf(audit[i]))',
                    Exists(CopyOf(audit[i]))'
             PROVE  files'[CopyOf(audit'[i])].text = audit'[i].text
  BY DEF CopySound, CopyOf
<1>1. CASE i \in DOMAIN audit /\ audit'[i] = audit[i]
  <2> DEFINE x == CopyOf(audit[i])
  <2>1. CopyOf(audit'[i]) = x /\ CopyOf(audit[i])' = x /\ Applied(i)
    BY <1>1 DEF CopyOf, Applied
  <2> HIDE DEF x
  <2>2. ~Collided(x) /\ files'[x] # NoFile
    BY <2>1, AimsStay DEF Exists
  <2>3. files'[x] = files[x]
    BY <1>1, <2>1, <2>2, LoggedCopiesStay DEF x
  <2>4. files[x].text = audit[i].text
    BY <1>1, <2>1, <2>2, <2>3 DEF CopySound, Exists, x
  <2> QED
    BY <1>1, <2>1, <2>3, <2>4
<1>2. CASE ~(i \in DOMAIN audit /\ audit'[i] = audit[i])
  <2>1. audit' # audit
    BY <1>2
  <2>2. audit'[i] = Line(c) /\ pc[c] = "auditing" /\ files' = files
    BY <1>2, <2>1, NewLine
  <2>3. Kind(c) # "rollback" /\ CopyOf(Line(c)) = Copy(c)
    BY <2>1, <2>2, NewLine DEF Applied
  <2>4. Kind(c) \in Movers
    BY <2>2, <2>3 DEF PlacesSane
  <2>5. CopyOf(audit'[i]) = Copy(c) /\ CopyOf(audit[i])' = Copy(c)
    BY <2>2, <2>3 DEF CopyOf
  <2>6. ~Collided(Copy(c)) /\ Exists(Copy(c))
    BY <2>2, <2>5, AimsStay DEF Exists
  <2>7. files[Copy(c)].text = Text(c)
    BY <2>2, <2>4, <2>6 DEF MoverSound
  <2> QED
    BY <2>2, <2>5, <2>7 DEF Line
<1> QED
  BY <1>1, <1>2

LEMMA MoverSoundStep ==
  ASSUME TypeOK, PlacesSane, MoverSound, NEW c \in Cmds, Step(c) \/ Crash(c)
  PROVE  MoverSound'
<1> SUFFICES ASSUME NEW d \in Cmds, Kind(d)' \in Movers,
                    pc'[d] \in {"removing", "marking", "auditing"},
                    ~Collided(Copy(d))', Exists(Copy(d))'
             PROVE  files'[Copy(d)'].text = Text(d)'
  BY DEF MoverSound
<1>1. Kind(d) \in Movers /\ ~Collided(Copy(d)')
  BY AimsStay DEF Collided, AimsAt, Copy
<1>2. CASE d # c
  <2>1. pc'[d] = pc[d] /\ mine'[d] = mine[d] /\ Copy(d)' = Copy(d) /\ Text(d)' = Text(d)
    BY <1>2, StepsAlone DEF Copy, Text
  <2>2. mine[d].stamp # 0 /\ Copy(d) \in Copies /\ AimsAt(d, Copy(d))
    BY <1>1, <2>1, Typed DEF PlacesSane, AimsAt
  <2>3. ~(Copy(d) = Copy(c) /\ pc[c] \in {"moving", "stamping", "copying"})
    <3> SUFFICES ASSUME Copy(d) = Copy(c), pc[c] \in {"moving", "stamping", "copying"}
                 PROVE  FALSE
      OBVIOUS
    <3>1. AimsAt(c, Copy(d))
      BY DEF AimsAt, PlacesSane
    <3> QED
      BY <1>1, <1>2, <2>1, <2>2, <3>1 DEF Collided
  <2>4. files'[Copy(d)] = files[Copy(d)] /\ files[Copy(d)] # NoFile
    BY <2>1, <2>2, <2>3, CopiesChange DEF Exists
  <2> QED
    BY <1>1, <2>1, <2>4 DEF MoverSound, Exists
<1>3. CASE d = c
  <2>1. \/ CopySource(c) \/ StampHeader(c) \/ RemoveSource(c) \/ MarkApplied(c)
        \/ InsertRolledBack(c)
    BY <1>3, Arrives
  <2>2. ~InsertRolledBack(c)
    BY <1>1, <1>3 DEF InsertRolledBack, At, PlacesSane, Movers
  <2>3. pc[c] \in {"copying", "stamping", "removing", "marking"} /\ mine' = mine
    BY <2>1, <2>2 DEF CopySource, StampHeader, RemoveSource, MarkApplied, At
  <2>4. Copy(c) \in Places /\ Copy(c) # Path(c) /\ Text(c)' = Text(c) /\ Copy(c)' = Copy(c)
    BY <2>3, Typed, FilesAssumption DEF PlacesSane, Text, Copy
  <2>5. CASE CopySource(c) \/ StampHeader(c)
    BY <1>3, <2>4, <2>5 DEF CopySource, StampHeader, Put, Stamped, TypeOK
  <2>6. CASE RemoveSource(c) \/ MarkApplied(c)
    <3>1. files'[Copy(c)] = files[Copy(c)] /\ pc[c] \in {"removing", "marking"}
      BY <2>4, <2>6 DEF RemoveSource, MarkApplied, Remove, Put, At, TypeOK
    <3> QED
      BY <1>1, <1>3, <2>4, <3>1 DEF MoverSound, Exists
  <2> QED
    BY <2>1, <2>2, <2>5, <2>6
<1> QED
  BY <1>2, <1>3

LEMMA RollbackSoundStep ==
  ASSUME TypeOK, PlacesSane, CopySound, RollbackSound, NEW c \in Cmds, Step(c) \/ Crash(c)
  PROVE  RollbackSound'
<1> SUFFICES ASSUME NEW d \in Cmds, Kind(d)' = "rollback",
                    pc'[d] \in {"found", "clear"} \/ HasRead(d)'
             PROVE  \E i \in DOMAIN audit' : WorksFrom(d, i)'
  BY DEF RollbackSound
<1>0. /\ Kind(d) = "rollback"
      /\ \A i \in DOMAIN audit : i \in DOMAIN audit' /\ audit'[i] = audit[i]
  BY AimsStay, NewLine
\* The entry it has worked from so far, the text being the one it had.
<1>1. ASSUME pc[d] \in {"found", "clear"} \/ HasRead(d), mine'[d].id = mine[d].id,
             HasRead(d)' => HasRead(d) /\ Text(d)' = Text(d)
      PROVE  \E i \in DOMAIN audit' : WorksFrom(d, i)'
  <2>1. PICK i \in DOMAIN audit : WorksFrom(d, i)
    BY <1>0, <1>1 DEF RollbackSound
  <2>2. Copy(d)' = Copy(d)
    BY <1>1, AimsStay DEF HasRead
  <2>3. Collided(Copy(d)) => Collided(Copy(d))'
    BY <1>1, AimsStay DEF HasRead
  <2>4. WorksFrom(d, i)'
    BY <1>0, <1>1, <2>1, <2>2, <2>3 DEF WorksFrom, Applied, CopyOf
  <2> QED
    BY <1>0, <2>4
<1>2. CASE d # c
  <2>1. pc'[d] = pc[d] /\ mine'[d] = mine[d] /\ (HasRead(d)' <=> HasRead(d))
    BY <1>2, StepsAlone DEF HasRead
  <2> QED
    BY <1>1, <2>1 DEF Text
<1>3. CASE d = c
  <2>1. \/ FindMove(c) \/ CheckPlaces(c) \/ ReadCopy(c) \/ WriteBack(c) \/ RemoveCopy(c)
        \/ InsertRolledBack(c) \/ MarkApplied(c)
    BY <1>3, Arrives DEF HasRead
  <2>2. CASE FindMove(c)
    <3>1. pc[c] = "begun" /\ audit' = audit
      BY <2>2 DEF FindMove, Enter, At
    <3>2. pc'[c] = "found"
      BY <1>3, <2>2 DEF FindMove, Goto, Finish, HasRead, TypeOK
    <3>3. PICK i \in DOMAIN audit :
            /\ LatestMove(mine[c].id, i)
            /\ mine' = [mine EXCEPT ![c].path = audit[i].path, ![c].stamp = audit[i].stamp]
      BY <2>2, <3>2 DEF FindMove, Finish, TypeOK
    <3>4. /\ mine'[c].id = mine[c].id
          /\ mine'[c].path = audit[i].path /\ mine'[c].stamp = audit[i].stamp
      BY <3>3 DEF TypeOK, Local
    <3>5. WorksFrom(c, i)'
      BY <3>1, <3>2, <3>3, <3>4
      DEF WorksFrom, Applied, CopyOf, Copy, HasRead, LatestMove, Latest
    <3> QED
      BY <1>3, <3>1, <3>5
  <2>3. CASE CheckPlaces(c)
    <3>1. pc[c] = "found" /\ pc'[c] # "begun" /\ mine' = mine /\ ~HasRead(c)'
      BY <2>3 DEF CheckPlaces, At, Goto, Finish, HasRead, TypeOK
    <3> QED
      BY <1>1, <1>3, <3>1
  <2>4. CASE ReadCopy(c)
    <3>1. pc[c] = "clear" /\ audit' = audit
      BY <2>4 DEF ReadCopy, At
    <3>2. Exists(Copy(c)) /\ mine' = [mine EXCEPT ![c].text = files[Copy(c)].text]
      BY <1>3, <2>4 DEF ReadCopy, Finish, HasRead, TypeOK
    <3>3. PICK i \in DOMAIN audit : WorksFrom(c, i)
      BY <1>0, <1>3, <3>1 DEF RollbackSound
    <3>4. /\ mine'[c].id = mine[c].id /\ Text(c)' = files[Copy(c)].text
          /\ Copy(c)' = Copy(c)
      BY <3>2 DEF TypeOK, Local, Text, Copy
    <3>5. Collided(Copy(c)) => Collided(Copy(c))'
      BY <3>1, AimsStay
    <3>6. Collided(Copy(c)) \/ files[Copy(c)].text = audit[i].text
      BY <3>2, <3>3 DEF CopySound, WorksFrom
    <3>7. WorksFrom(c, i)'
      BY <3>1, <3>3, <3>4, <3>5, <3>6 DEF WorksFrom, Applied, CopyOf
    <3> QED
      BY <1>3, <3>1, <3>7
  <2>5. CASE WriteBack(c) \/ RemoveCopy(c) \/ InsertRolledBack(c)
    <3>1. HasRead(c) /\ mine' = mine
      BY <2>5 DEF WriteBack, RemoveCopy, InsertRolledBack, At, HasRead
    <3> QED
      BY <1>1, <1>3, <3>1 DEF Text
  <2>6. CASE MarkApplied(c)
    BY <1>0, <1>3, <2>6 DEF MarkApplied, At, PlacesSane, Movers
  <2> QED
    BY <2>1, <2>2, <2>3, <2>4, <2>5, <2>6
<1> QED
  BY <1>2, <1>3

LEMMA GoneSoundStep ==
  ASSUME TypeOK, PlacesSane, MoverOver, RollbackSound, GoneSound, RollbackRestores,
         NEW c \in Cmds, Step(c) \/ Crash(c)
  PROVE  GoneSound'
<1>0. \A i \in DOMAIN audit : i \in DOMAIN audit' /\ audit'[i] = audit[i]
  BY NewLine
\* Either d had removed its copy before, or this step is its removal.
<1>1. ASSUME NEW d \in Cmds, HasRemoved(d)'
      PROVE  /\ Kind(d) = "rollback" /\ pc[d] # "begun" /\ Copy(d)' = Copy(d)
             /\ HasRemoved(d) \/ (d = c /\ RemoveCopy(c))
  <2>1. Kind(d) = "rollback" /\ pc'[d] \in {"recording", "auditing"}
    BY <1>1, AimsStay DEF HasRemoved
  <2>2. CASE d # c
    <3>1. pc[d] = pc'[d] /\ mine'[d] = mine[d]
      BY <2>2, StepsAlone
    <3> QED
      BY <2>1, <3>1 DEF HasRemoved, Copy
  <2>3. CASE d = c
    <3>1. RemoveCopy(c) \/ MarkApplied(c) \/ InsertRolledBack(c)
      BY <2>1, <2>3, Arrives
    <3>2. ~MarkApplied(c)
      BY <2>1, <2>3 DEF MarkApplied, At, PlacesSane, Movers
    <3>3. pc[c] \in {"cleaning", "recording"} /\ (InsertRolledBack(c) => pc[c] = "recording")
      BY <3>1, <3>2 DEF RemoveCopy, InsertRolledBack, At
    <3>4. Copy(c)' = Copy(c)
      BY <3>3, AimsStay
    <3> QED
      BY <2>1, <2>3, <3>1, <3>2, <3>3, <3>4 DEF HasRemoved
  <2> QED
    BY <2>2, <2>3
<1>2. ASSUME NEW d \in Cmds, HasRemoved(d)', ~Collided(Copy(d))'
      PROVE  ~Collided(Copy(d))
  BY <1>1, <1>2, AimsStay
<1>3. RemoveCopy(c) => /\ Exists(Copy(c)) /\ ~Exists(Copy(c))' /\ audit' = audit
                       /\ Copy(c)' = Copy(c)
  <2> SUFFICES ASSUME RemoveCopy(c)
               PROVE  /\ Exists(Copy(c)) /\ ~Exists(Copy(c))' /\ audit' = audit
                      /\ Copy(c)' = Copy(c)
    OBVIOUS
  <2>1. Copy(c) \in Places
    BY Typed DEF RemoveCopy, At, PlacesSane
  <2> QED
    BY <2>1 DEF RemoveCopy, Remove, Put, Exists, Copy, TypeOK
\* The copy of whoever has removed it is away.
<1>4. ASSUME NEW d \in Cmds, HasRemoved(d)', ~Collided(Copy(d))'
      PROVE  ~Exists(Copy(d))'
  <2>1. CASE HasRemoved(d)
    <3>1. PICK i \in DOMAIN audit : WorksFrom(d, i)
      BY <2>1 DEF RollbackSound, HasRemoved, HasRead
    <3>2. ~Collided(Copy(d)) /\ ~Exists(Copy(d)) /\ Copy(d)' = Copy(d)
      BY <1>1, <1>2, <1>4, <2>1 DEF GoneSound
    <3>3. ~Exists(CopyOf(audit[i]))'
      BY <1>0, <3>1, <3>2, LoggedCopiesStay DEF WorksFrom, Exists, CopyOf
    <3> QED
      BY <1>0, <3>1, <3>2, <3>3 DEF WorksFrom, Exists, CopyOf
  <2>2. CASE d = c /\ RemoveCopy(c)
    BY <1>3, <2>2
  <2> QED
    BY <1>1, <1>4, <2>1, <2>2
<1>5. ASSUME NEW d \in Cmds, HasRemoved(d)', ~Collided(Copy(d))',
             NEW e \in Cmds, HasRemoved(e)', Copy(e)' = Copy(d)'
      PROVE  e = d
  <2>1. Copy(e) = Copy(d) /\ ~Collided(Copy(d))
    BY <1>1, <1>2, <1>5
  <2>2. CASE HasRemoved(d) /\ HasRemoved(e)
    BY <2>1, <2>2 DEF GoneSound
  <2>3. CASE HasRemoved(d) /\ e = c /\ RemoveCopy(c)
    BY <1>3, <2>1, <2>3 DEF GoneSound
  <2>4. CASE HasRemoved(e) /\ d = c /\ RemoveCopy(c)
    BY <1>3, <2>1, <2>4 DEF GoneSound
  <2> QED
    BY <1>1, <1>5, <2>2, <2>3, <2>4
<1>6. ASSUME NEW d \in Cmds, HasRemoved(d)', ~Collided(Copy(d))',
             NEW j \in DOMAIN audit', RolledBack(j)'
      PROVE  CopyOf(audit'[j]) # Copy(d)'
  <2>1. Copy(d)' = Copy(d) /\ ~Collided(Copy(d))
    BY <1>1, <1>2, <1>6
  <2>2. CASE j \in DOMAIN audit /\ audit'[j] = audit[j]
    <3>1. RolledBack(j)
      BY <1>6, <2>2 DEF RolledBack
    <3>2. CASE HasRemoved(d)
      BY <2>1, <2>2, <3>1, <3>2 DEF GoneSound
    <3>3. CASE d = c /\ RemoveCopy(c)
      BY <1>3, <2>1, <2>2, <3>1, <3>3 DEF GoneSound
    <3> QED
      BY <1>1, <1>6, <3>2, <3>3
  <2>3. CASE ~(j \in DOMAIN audit /\ audit'[j] = audit[j])
    <3>1. audit' # audit
      BY <2>3
    <3>2. /\ audit'[j] = Line(c) /\ CopyOf(Line(c)) = Copy(c)
          /\ pc[c] = "auditing" /\ pc'[c] = "done"
      BY <2>3, <3>1, NewLine
    <3>3. Kind(c) = "rollback"
      BY <1>6, <3>1, <3>2, NewLine DEF RolledBack
    <3>4. HasRemoved(c) /\ d # c
      BY <1>6, <3>2, <3>3 DEF HasRemoved
    <3>5. HasRemoved(d)
      BY <1>1, <1>6, <3>4
    <3> QED
      BY <2>1, <3>2, <3>4, <3>5 DEF GoneSound
  <2> QED
    BY <2>2, <2>3
<1>7. ASSUME NEW j \in DOMAIN audit', RolledBack(j)', ~Collided(CopyOf(audit[j]))'
      PROVE  ~Exists(CopyOf(audit[j]))'
  <2>2. CASE j \in DOMAIN audit /\ audit'[j] = audit[j]
    <3> DEFINE x == CopyOf(audit[j])
    <3>1. RolledBack(j) /\ CopyOf(audit[j])' = x
      BY <1>7, <2>2 DEF RolledBack, CopyOf
    <3>2. PICK i \in DOMAIN audit : Applied(i) /\ CopyOf(audit[i]) = x
      <4>1. PICK i \in 1..(j - 1) : Reverses(j, i)
        BY <2>2, <3>1 DEF RollbackRestores, RolledBack
      <4>2. i \in DOMAIN audit
        BY <2>2, <4>1 DEF TypeOK
      <4> QED
        BY <4>1, <4>2 DEF Reverses, Applied
    <3> HIDE DEF x
    <3>3. ~Collided(x)
      BY <1>7, <3>1, AimsStay DEF Collided, AimsAt
    <3>4. ~Exists(x)
      BY <2>2, <3>1, <3>3 DEF GoneSound, x
    <3>5. files'[x] \in {files[x], NoFile}
      BY <3>2, <3>3, LoggedCopiesStay
    <3> QED
      BY <3>1, <3>4, <3>5 DEF Exists
  <2>3. CASE ~(j \in DOMAIN audit /\ audit'[j] = audit[j])
    <3>1. audit' # audit
      BY <2>3
    <3>2. /\ audit'[j] = Line(c) /\ CopyOf(Line(c)) = Copy(c)
          /\ pc[c] = "auditing" /\ files' = files /\ mine' = mine
      BY <2>3, <3>1, NewLine
    <3>3. Kind(c) = "rollback"
      BY <1>7, <3>1, <3>2, NewLine DEF RolledBack
    <3>4. HasRemoved(c) /\ CopyOf(audit[j])' = Copy(c)
      BY <3>2, <3>3 DEF HasRemoved, CopyOf
    <3>5. ~Collided(Copy(c))
      BY <1>7, <3>2, <3>4, AimsStay DEF Collided, AimsAt
    <3> QED
      BY <3>2, <3>4, <3>5 DEF GoneSound, Exists
  <2> QED
    BY <2>2, <2>3
<1> QED
  BY <1>4, <1>5, <1>6, <1>7 DEF GoneSound

LEMMA RollbackRestoresStep ==
  ASSUME TypeOK, PlacesSane, RollbackSound, RollbackRestores, NEW c \in Cmds,
         Step(c) \/ Crash(c)
  PROVE  RollbackRestores'
<1> SUFFICES ASSUME NEW j \in DOMAIN audit', RolledBack(j)'
             PROVE  \E i \in 1..(j - 1) : Reverses(j, i)'
  BY DEF RollbackRestores, RolledBack
<1>0. /\ \A i \in DOMAIN audit : i \in DOMAIN audit' /\ audit'[i] = audit[i]
      /\ DOMAIN audit = 1..Len(audit) /\ Len(audit) \in Nat
  BY NewLine DEF TypeOK
<1>1. CASE j \in DOMAIN audit /\ audit'[j] = audit[j]
  <2>1. PICK i \in 1..(j - 1) : Reverses(j, i)
    BY <1>1 DEF RollbackRestores, RolledBack
  <2>2. i \in DOMAIN audit
    BY <1>0, <1>1, <2>1
  <2>3. Collided(CopyOf(audit[j])) => Collided(CopyOf(audit[j]))'
    BY <1>1, AimsStay DEF Collided, AimsAt, CopyOf
  <2>4. Reverses(j, i)'
    BY <1>0, <1>1, <2>1, <2>2, <2>3 DEF Reverses, CopyOf
  <2> QED
    BY <2>1, <2>4
<1>2. CASE ~(j \in DOMAIN audit /\ audit'[j] = audit[j])
  <2>1. audit' # audit
    BY <1>2
  <2>2. /\ audit'[j] = Line(c) /\ CopyOf(Line(c)) = Copy(c) /\ j = Len(audit) + 1
        /\ pc[c] = "auditing"
    BY <1>2, <2>1, NewLine
  <2>3. Kind(c) = "rollback"
    BY <2>1, <2>2, NewLine DEF RolledBack
  <2>4. PICK i \in DOMAIN audit : WorksFrom(c, i)
    BY <2>2, <2>3 DEF RollbackSound, HasRead
  <2>5. i \in 1..(j - 1)
    BY <1>0, <2>2
  <2>6. Collided(Copy(c)) => Collided(CopyOf(audit[j]))'
    <3>1. CopyOf(audit[j])' = Copy(c)
      BY <2>2 DEF CopyOf
    <3> QED
      BY <3>1, AimsStay DEF Collided, AimsAt
  <2>7. Reverses(j, i)'
    BY <1>0, <2>2, <2>4, <2>6 DEF Reverses, WorksFrom, HasRead, Applied, CopyOf, Line
  <2> QED
    BY <2>5, <2>7
<1> QED
  BY <1>1, <1>2

LEMMA RestoredOnceStep ==
  ASSUME TypeOK, PlacesSane, GoneSound, RestoredOnce, NEW c \in Cmds, Step(c) \/ Crash(c)
  PROVE  RestoredOnce'
<1> SUFFICES ASSUME NEW i \in DOMAIN audit', NEW j \in DOMAIN audit',
                    RolledBack(i)', RolledBack(j)',
                    CopyOf(audit[i])' = CopyOf(audit[j])', ~Collided(CopyOf(audit[i]))'
             PROVE  i = j
  BY DEF RestoredOnce, RolledBack
<1> DEFINE Old(k) == k \in DOMAIN audit /\ audit'[k] = audit[k]
<1>1. ~Collided(CopyOf(audit[i])') /\ CopyOf(audit'[i]) = CopyOf(audit'[j])
  BY AimsStay DEF Collided, AimsAt, CopyOf
\* The line this step writes is of a command that has removed its copy.
<1>2. ASSUME NEW k \in DOMAIN audit', RolledBack(k)', ~Old(k)
      PROVE  /\ k = Len(audit) + 1 /\ HasRemoved(c) /\ CopyOf(audit'[k]) = Copy(c)
  <2>1. audit' # audit
    BY <1>2
  <2>2. /\ audit'[k] = Line(c) /\ CopyOf(Line(c)) = Copy(c) /\ k = Len(audit) + 1
        /\ pc[c] = "auditing"
    BY <1>2, <2>1, NewLine
  <2> QED
    BY <1>2, <2>1, <2>2, NewLine DEF RolledBack, HasRemoved
<1>3. CASE Old(i) /\ Old(j)
  BY <1>1, <1>3 DEF RestoredOnce, RolledBack
<1>4. CASE Old(i) /\ ~Old(j)
  BY <1>1, <1>2, <1>4 DEF GoneSound, RolledBack
<1>5. CASE ~Old(i) /\ Old(j)
  BY <1>1, <1>2, <1>5 DEF GoneSound, RolledBack
<1>6. CASE ~Old(i) /\ ~Old(j)
  BY <1>2, <1>6
<1> QED
  BY <1>3, <1>4, <1>5, <1>6

-----------------------------------------------------------------------------
LEMMA InitIInv == Init => IInv
<1> SUFFICES ASSUME Init PROVE IInv
  OBVIOUS
<1>1. TypeOK
  <2>1. files \in [Places -> File \cup {NoFile}]
    BY DecisionsAssumption DEF Init, Plain, File
  <2>2. second \in Stamps
    BY FilesAssumption DEF Init, Stamps
  <2>3. call \in [Cmds -> Calls] /\ \A c \in Cmds : call[c].id \in Ids /\ call[c].path \in Paths
    BY DecisionsAssumption DEF Init, Call
  <2>4. mine \in [Cmds -> Local]
    BY <2>3 DEF Init, Local
  <2>5. audit \in Seq(AuditEntry)
    BY DEF Init
  <2>6. /\ rows \in [Ids -> Row \cup {NoRow}] /\ pc \in [Cmds -> PCs]
        /\ reply \in [Cmds -> {"none", "ok", "error", "torn", "stuck"}] /\ disturbed \subseteq Cmds
    BY DEF Init, PCs
  <2> QED
    BY <2>1, <2>2, <2>3, <2>4, <2>5, <2>6 DEF TypeOK
<1>2. /\ \A c \in Cmds : pc[c] = "begun" /\ mine[c].stamp = 0
      /\ DOMAIN audit = {}
  BY DEF Init
<1> QED
  BY <1>1, <1>2 DEF IInv, PlacesSane, MoverOver, CopySound, MoverSound, RollbackSound,
    GoneSound, RollbackRestores, RestoredOnce, HasRead, HasRemoved

\* The clock, and nothing.
LEMMA TickIInv == IInv /\ (Tick \/ UNCHANGED vars) => IInv'
<1> SUFFICES ASSUME IInv, Tick \/ UNCHANGED vars PROVE IInv'
  OBVIOUS
<1>1. UNCHANGED <<files, rows, audit, pc, call, mine, reply, disturbed>>
  BY DEF Tick, vars
<1>2. TypeOK'
  BY <1>1, FilesAssumption DEF IInv, TypeOK, Tick, vars, Stamps
<1>3. PlacesSane'
  BY <1>1 DEF IInv, PlacesSane, Kind
<1>4. MoverOver'
  BY <1>1 DEF IInv, MoverOver, Applied, AimsAt, Kind, Copy, CopyOf
<1>5. CopySound' /\ MoverSound'
  BY <1>1 DEF IInv, CopySound, MoverSound, Applied, Collided, AimsAt, Kind, Copy, Text,
    CopyOf, Exists
<1>6. RollbackSound'
  BY <1>1 DEF IInv, RollbackSound, WorksFrom, HasRead, Applied, Collided, AimsAt, Kind,
    Copy, Text, CopyOf
<1>7. GoneSound'
  BY <1>1 DEF IInv, GoneSound, HasRemoved, RolledBack, Collided, AimsAt, Kind, Copy,
    CopyOf, Exists
<1>8. RollbackRestores' /\ RestoredOnce'
  BY <1>1 DEF IInv, RollbackRestores, RestoredOnce, Reverses, Collided, AimsAt, Kind,
    Copy, CopyOf
<1> QED
  BY <1>2, <1>3, <1>4, <1>5, <1>6, <1>7, <1>8 DEF IInv

LEMMA StepIInv == IInv /\ [Next]_vars => IInv'
<1>1. ASSUME IInv, NEW c \in Cmds, Step(c) \/ Crash(c) PROVE IInv'
  <2> USE DEF IInv
  <2>1. TypeOK' /\ PlacesSane'
    BY <1>1, TypeStep, PlacesStep
  <2>2. MoverOver' /\ CopySound' /\ MoverSound'
    BY <1>1, MoverOverStep, CopySoundStep, MoverSoundStep
  <2>3. RollbackSound' /\ GoneSound'
    BY <1>1, RollbackSoundStep, GoneSoundStep
  <2>4. RollbackRestores' /\ RestoredOnce'
    BY <1>1, RollbackRestoresStep, RestoredOnceStep
  <2> QED
    BY <2>1, <2>2, <2>3, <2>4
<1> QED
  BY <1>1, TickIInv DEF Next

-----------------------------------------------------------------------------
(***************************************************************************)
(* Commands that ran alone                                                 *)
(***************************************************************************)
\* Commands that overlap are marked, both of them.
OverlapsMarked == \A c, d \in Running : c # d => c \in disturbed

\* What the undo puts back is the file the command found.
UndoSound == \A c \in Cmds :
  /\ At(c, "begun") => mine[c].old = NoFile
  /\ At(c, "captured") => Kind(c) # "new"
  /\ pc[c] \in {"captured", "writing", "inserting", "undoing"} =>
       mine[c].old = mine[c].before

\* The text at a place, and the text the undo puts back.
TextIn(file) == IF file = NoFile THEN {} ELSE file.text
Held(x) == TextIn(files[x])

\* What a command knows of its file and its copy is true while it runs alone:
\* what it is about to write or to remove is kept in what it holds.
RecorderSound(c) ==
  /\ pc[c] \in {"captured", "writing"} => files[Path(c)] = mine[c].before
  /\ pc[c] \in {"inserting", "undoing"} => files[Path(c)] = Plain(Text(c))
  /\ pc[c] \in {"writing", "inserting", "undoing"} /\ Kind(c) # "replace" =>
       /\ Held(Path(c)) \subseteq Text(c)
       /\ Text(c) \subseteq {c} \cup TextIn(mine[c].old)

MoverKnows(c) ==
  /\ pc[c] \in {"moving", "copying"} => Held(Path(c)) \subseteq Text(c)
  /\ At(c, "stamping") => Held(Copy(c)) \subseteq Text(c)
  /\ At(c, "removing") => Held(Path(c)) \subseteq Held(Copy(c))

RollbackKnows(c) ==
  /\ pc[c] \in {"clear", "restoring"} => ~Exists(Path(c))
  /\ pc[c] \in {"restoring", "cleaning"} => Held(Copy(c)) \subseteq Text(c)
  /\ At(c, "cleaning") => Text(c) \subseteq Held(Path(c))

AloneSound == \A c \in Cmds \ disturbed :
  RecorderSound(c) /\ MoverKnows(c) /\ RollbackKnows(c)

AInv == OverlapsMarked /\ UndoSound /\ AloneSound

\* The first step of a command marks it and the others, and no other step marks.
LEMMA Marks ==
  ASSUME TypeOK, NEW c \in Cmds, Step(c) \/ Crash(c)
  PROVE  /\ pc'[c] # pc[c] /\ pc'[c] # "begun"
         /\ pc[c] = "begun" =>
              disturbed' = disturbed \cup (IF Running = {} THEN {} ELSE Running \cup {c})
         /\ pc[c] # "begun" => disturbed' = disturbed
<1> USE DEF TypeOK
<1>1. CASE RecordDecision(c)
  BY <1>1
  DEF At, Goto, Finish, Enter, MoveErrs,
      RecordDecision, StatTarget, CaptureOld, ReadOld, WriteTarget, WriteTargetFails,
      InsertDecision, InsertDecisionFails, Undo, UndoFails, ReadyToInsert
<1>2. CASE Deprecate(c)
  BY <1>2
  DEF At, Goto, Finish, Enter, MoveErrs,
      Deprecate, LoadDecision, InsertPending, ReadSource, RenameSource, RenameFails,
      StampHeader, StampHeaderFails, CopySource, CopySourceFails, RemoveSource,
      RemoveSourceFails, MarkApplied, DropPending
<1>3. CASE Rollback(c)
  BY <1>3
  DEF At, Goto, Finish, Enter, MoveErrs,
      Rollback, FindMove, CheckPlaces, ReadCopy, WriteBack, WriteBackFails,
      RemoveCopy, RemoveCopyFails, InsertRolledBack
<1>4. CASE AppendAudit(c) \/ AppendAuditFails(c) \/ StatementFails(c) \/ ReadFails(c)
          \/ Crash(c)
  BY <1>4
  DEF At, Goto, Finish, Enter, MoveErrs,
      AppendAudit, AppendAuditFails, StatementFails, ReadFails, Crash, Running
<1> QED
  BY <1>1, <1>2, <1>3, <1>4 DEF Step

\* While a command runs unmarked, no other takes a step.
LEMMA OnlyItself ==
  ASSUME TypeOK, OverlapsMarked, NEW c \in Cmds, Step(c) \/ Crash(c),
         NEW d \in Running, d \notin disturbed'
  PROVE  d = c
<1>1. CASE pc[c] = "begun"
  BY <1>1, Marks
<1>2. CASE pc[c] # "begun"
  <2>1. c \in Running /\ disturbed' = disturbed
    BY <1>2, Marks, StepsAlone DEF Running
  <2> QED
    BY <2>1 DEF OverlapsMarked
<1> QED
  BY <1>1, <1>2

LEMMA OverlapsStep ==
  ASSUME TypeOK, OverlapsMarked, NEW c \in Cmds, Step(c) \/ Crash(c)
  PROVE  OverlapsMarked'
<1> SUFFICES ASSUME NEW d \in Running', NEW e \in Running', d # e
             PROVE  d \in disturbed'
  BY DEF OverlapsMarked
<1>1. d \in Cmds /\ e \in Cmds /\ disturbed \subseteq disturbed'
  BY Marks DEF Running
<1>2. \A b \in Running' : b \in Running \/ (b = c /\ pc[c] = "begun")
  BY StepsAlone DEF Running
<1>3. CASE d \in Running /\ e \in Running
  BY <1>1, <1>3 DEF OverlapsMarked
<1>4. CASE ~(d \in Running /\ e \in Running)
  <2>1. pc[c] = "begun" /\ {d, e} \subseteq Running \cup {c} /\ Running # {}
    BY <1>2, <1>4
  <2> QED
    BY <2>1, Marks
<1> QED
  BY <1>3, <1>4

\* Where a command can come from, up to the move of a file.
LEMMA ComesFrom ==
  ASSUME TypeOK, NEW c \in Cmds, Step(c) \/ Crash(c)
  PROVE  /\ pc'[c] = "captured" => CaptureOld(c)
         /\ pc'[c] = "writing" => StatTarget(c) \/ ReadOld(c)
         /\ pc'[c] = "inserting" => WriteTarget(c)
         /\ pc'[c] = "undoing" => InsertDecisionFails(c)
         /\ pc'[c] = "moving" => ReadSource(c)
         /\ pc'[c] = "stamping" => RenameSource(c)
         /\ pc'[c] = "copying" => RenameFails(c)
<1> USE DEF TypeOK
<1>1. CASE RecordDecision(c)
  BY <1>1
  DEF At, Goto, Finish, Enter, MoveErrs,
      RecordDecision, StatTarget, CaptureOld, ReadOld, WriteTarget, WriteTargetFails,
      InsertDecision, InsertDecisionFails, Undo, UndoFails, ReadyToInsert
<1>2. CASE Deprecate(c)
  BY <1>2
  DEF At, Goto, Finish, Enter, MoveErrs,
      Deprecate, LoadDecision, InsertPending, ReadSource, RenameSource, RenameFails,
      StampHeader, StampHeaderFails, CopySource, CopySourceFails, RemoveSource,
      RemoveSourceFails, MarkApplied, DropPending
<1>3. CASE Rollback(c)
  BY <1>3
  DEF At, Goto, Finish, Enter, MoveErrs,
      Rollback, FindMove, CheckPlaces, ReadCopy, WriteBack, WriteBackFails,
      RemoveCopy, RemoveCopyFails, InsertRolledBack
<1>4. CASE AppendAudit(c) \/ AppendAuditFails(c) \/ StatementFails(c) \/ ReadFails(c)
          \/ Crash(c)
  BY <1>4
  DEF At, Goto, Finish, Enter, MoveErrs,
      AppendAudit, AppendAuditFails, StatementFails, ReadFails, Crash, Running
<1> QED
  BY <1>1, <1>2, <1>3, <1>4 DEF Step

\* What the steps of record-decision do to the command's own variables.
LEMMA RecorderSteps ==
  ASSUME TypeOK, PlacesSane, NEW c \in Cmds
  PROVE  /\ StatTarget(c) /\ pc'[c] = "writing" =>
              /\ files' = files /\ ~Exists(Path(c))
              /\ mine'[c] = [mine[c] EXCEPT !.text = {c}, !.before = files[Path(c)]]
         /\ CaptureOld(c) =>
              /\ files' = files
              /\ mine'[c] = [mine[c] EXCEPT !.old = files[Path(c)],
                                            !.before = files[Path(c)]]
         /\ ReadOld(c) /\ pc'[c] = "writing" =>
              /\ files' = files /\ Exists(Path(c)) /\ pc[c] = "captured"
              /\ mine'[c] = [mine[c] EXCEPT !.text = {c} \cup
                   (IF Kind(c) = "append" THEN files[Path(c)].text ELSE {})]
         /\ WriteTarget(c) => /\ files' = [files EXCEPT ![Path(c)] = Plain(Text(c))]
                              /\ mine' = mine /\ pc[c] = "writing"
         /\ InsertDecisionFails(c) /\ pc'[c] = "undoing" =>
              files' = files /\ mine' = mine /\ pc[c] = "inserting"
<1> USE DEF TypeOK, At, Enter, Goto, Finish
<1>1. StatTarget(c) /\ pc'[c] = "writing" =>
        /\ files' = files /\ ~Exists(Path(c))
        /\ mine'[c] = [mine[c] EXCEPT !.text = {c}, !.before = files[Path(c)]]
  BY DEF StatTarget
<1>2. CaptureOld(c) =>
        /\ files' = files
        /\ mine'[c] = [mine[c] EXCEPT !.old = files[Path(c)], !.before = files[Path(c)]]
  BY DEF CaptureOld
<1>3. ReadOld(c) /\ pc'[c] = "writing" =>
        /\ files' = files /\ Exists(Path(c)) /\ pc[c] = "captured"
        /\ mine'[c] = [mine[c] EXCEPT !.text = {c} \cup
             (IF Kind(c) = "append" THEN files[Path(c)].text ELSE {})]
  BY DEF ReadOld, Parses
<1>4. WriteTarget(c) => /\ files' = [files EXCEPT ![Path(c)] = Plain(Text(c))]
                        /\ mine' = mine /\ pc[c] = "writing"
  BY DEF WriteTarget, Put
<1>5. InsertDecisionFails(c) /\ pc'[c] = "undoing" =>
        files' = files /\ mine' = mine /\ pc[c] = "inserting"
  BY DEF InsertDecisionFails, ReadyToInsert, Recorders
<1> QED
  BY <1>1, <1>2, <1>3, <1>4, <1>5

LEMMA UndoSoundStep ==
  ASSUME TypeOK, PlacesSane, UndoSound, NEW c \in Cmds, Step(c) \/ Crash(c)
  PROVE  UndoSound'
<1> SUFFICES ASSUME NEW d \in Cmds
             PROVE  /\ pc'[d] = "begun" => mine'[d].old = NoFile
                    /\ pc'[d] = "captured" => Kind(d)' # "new"
                    /\ pc'[d] \in {"captured", "writing", "inserting", "undoing"} =>
                         mine'[d].old = mine'[d].before
  BY DEF UndoSound, At
<1>0. Kind(d)' = Kind(d)
  BY AimsStay
<1>1. CASE d # c
  BY <1>0, <1>1, StepsAlone DEF UndoSound, At
<1>2. CASE d = c
  <2>1. pc'[c] # "begun"
    BY Marks
  <2>2. mine[c] \in Local
    BY DEF TypeOK
  <2>3. CASE CaptureOld(c)
    <3>1. Kind(c) # "new"
      BY <2>3 DEF CaptureOld
    <3> QED
      BY <1>0, <1>2, <2>1, <2>2, <2>3, <3>1, RecorderSteps DEF Local
  <2>4. CASE StatTarget(c) /\ pc'[c] = "writing"
    <3>1. pc[c] = "begun" /\ mine[c].old = NoFile
      BY <2>4 DEF StatTarget, Enter, At, UndoSound
    <3>2. mine'[c].old = mine[c].old /\ mine'[c].before = files[Path(c)]
      BY <2>2, <2>4, RecorderSteps DEF Local
    <3>3. files[Path(c)] = NoFile
      BY <2>4, RecorderSteps DEF Exists
    <3> QED
      BY <1>2, <2>1, <2>4, <3>1, <3>2, <3>3
  <2>5. CASE ReadOld(c) /\ pc'[c] = "writing"
    <3>1. pc[c] = "captured"
      BY <2>5, RecorderSteps
    <3>2. mine'[c].old = mine[c].old /\ mine'[c].before = mine[c].before
      BY <2>2, <2>5, RecorderSteps DEF Local
    <3> QED
      BY <1>2, <2>1, <2>5, <3>1, <3>2 DEF UndoSound
  <2>6. CASE WriteTarget(c) \/ (InsertDecisionFails(c) /\ pc'[c] = "undoing")
    <3>1. pc[c] \in {"writing", "inserting"} /\ mine' = mine
      BY <2>6, RecorderSteps
    <3>2. pc'[c] # "captured"
      BY <3>1, ComesFrom DEF CaptureOld, Enter, At
    <3> QED
      BY <1>2, <2>1, <3>1, <3>2 DEF UndoSound
  <2>7. CASE pc'[c] \notin {"captured", "writing", "inserting", "undoing"}
    BY <1>2, <2>1, <2>7
  <2> QED
    BY <2>3, <2>4, <2>5, <2>6, <2>7, ComesFrom
<1> QED
  BY <1>1, <1>2

\* A command that runs alone still knows where it stands after its own step.
LEMMA RecorderStep ==
  ASSUME TypeOK, PlacesSane, UndoSound, NEW c \in Cmds, RecorderSound(c),
         Step(c) \/ Crash(c)
  PROVE  RecorderSound(c)'
<1> USE DEF At
<1>0. /\ mine[c] \in Local /\ Kind(c)' = Kind(c) /\ Path(c) \in Places
      /\ files \in [Places -> File \cup {NoFile}]
  BY AimsStay, Typed DEF TypeOK
<1>1. CASE pc'[c] = "captured"
  <2>1. CaptureOld(c) /\ files' = files
    BY <1>1, ComesFrom, RecorderSteps
  <2>2. Path(c)' = Path(c) /\ mine'[c].before = files[Path(c)]
    BY <1>0, <2>1, RecorderSteps DEF Path, Local
  <2> QED
    BY <1>1, <2>1, <2>2 DEF RecorderSound
<1>2. CASE pc'[c] = "writing" /\ StatTarget(c)
  <2>1. files' = files /\ files[Path(c)] = NoFile
    BY <1>2, RecorderSteps DEF Exists
  <2>2. mine'[c] = [mine[c] EXCEPT !.text = {c}, !.before = files[Path(c)]]
    BY <1>2, RecorderSteps
  <2>3. mine'[c].path = mine[c].path /\ mine'[c].text = {c}
    BY <1>0, <2>2 DEF Local
  <2>4. mine'[c].before = files[Path(c)]
    BY <1>0, <2>2 DEF Local
  <2>5. Path(c)' = Path(c) /\ Text(c)' = {c}
    BY <2>3 DEF Path, Text
  <2>6. Held(Path(c))' = {}
    BY <2>1, <2>5 DEF Held, TextIn
  <2> QED
    BY <1>2, <2>1, <2>4, <2>5, <2>6 DEF RecorderSound
<1>3. CASE pc'[c] = "writing" /\ ReadOld(c)
  <2>1. files' = files /\ files[Path(c)] # NoFile /\ pc[c] = "captured"
    BY <1>3, RecorderSteps DEF Exists
  <2>2. /\ Path(c)' = Path(c) /\ mine'[c].old = mine[c].old
        /\ mine'[c].before = mine[c].before
        /\ Text(c)' = {c} \cup (IF Kind(c) = "append" THEN files[Path(c)].text ELSE {})
    BY <1>0, <1>3, RecorderSteps DEF Path, Text, Local
  <2>3. /\ mine[c].old = files[Path(c)] /\ mine[c].before = files[Path(c)]
        /\ Kind(c) # "replace" => Kind(c) = "append"
    BY <2>1 DEF RecorderSound, UndoSound, PlacesSane, Recorders
  <2> QED
    BY <1>0, <1>3, <2>1, <2>2, <2>3 DEF RecorderSound, Held, TextIn
<1>4. CASE pc'[c] = "inserting"
  <2>1. /\ files' = [files EXCEPT ![Path(c)] = Plain(Text(c))]
        /\ mine' = mine /\ pc[c] = "writing"
    BY <1>4, ComesFrom, RecorderSteps
  <2>2. files'[Path(c)] = Plain(Text(c)) /\ Plain(Text(c)) # NoFile
    BY <1>0, <2>1, Typed, FileTypes, FilesAssumption
  <2> QED
    BY <1>0, <1>4, <2>1, <2>2 DEF RecorderSound, Held, TextIn, Plain, Path, Text
<1>5. CASE pc'[c] = "undoing"
  <2>1. files' = files /\ mine' = mine /\ pc[c] = "inserting"
    BY <1>5, ComesFrom, RecorderSteps
  <2> QED
    BY <1>0, <1>5, <2>1 DEF RecorderSound, Held, TextIn, Path, Text
<1>6. CASE pc'[c] \notin {"captured", "writing", "inserting", "undoing"}
  BY <1>6 DEF RecorderSound
<1> QED
  BY <1>1, <1>2, <1>3, <1>4, <1>5, <1>6, ComesFrom

LEMMA MoverStep ==
  ASSUME TypeOK, PlacesSane, NEW c \in Cmds, MoverKnows(c), Step(c) \/ Crash(c)
  PROVE  MoverKnows(c)'
<1> USE DEF At
<1>0. /\ mine[c] \in Local /\ Path(c) \in Places /\ Path(c) \in Paths
      /\ files \in [Places -> File \cup {NoFile}]
  BY Typed DEF TypeOK
<1>1. CASE pc'[c] = "moving"
  <2>1. pc[c] = "reading" /\ files' = files /\ Exists(Path(c))
        /\ mine' = [mine EXCEPT ![c].text = files[Path(c)].text]
    BY <1>1, ComesFrom DEF ReadSource, MoveErrs, Goto, Finish, TypeOK
  <2>2. Path(c)' = Path(c) /\ Text(c)' = files[Path(c)].text
    BY <1>0, <2>1 DEF TypeOK, Path, Text, Local
  <2> QED
    BY <1>1, <2>1, <2>2 DEF MoverKnows, Held, TextIn
<1>2. CASE pc'[c] = "copying"
  <2>1. pc[c] = "moving" /\ files' = files /\ mine' = mine
    BY <1>2, ComesFrom DEF RenameFails
  <2> QED
    BY <1>2, <2>1 DEF MoverKnows, Held, TextIn, Path, Text
<1>3. CASE pc'[c] = "stamping"
  <2>1. /\ pc[c] = "moving" /\ mine' = mine
        /\ files' = [files EXCEPT ![Copy(c)] = files[Path(c)], ![Path(c)] = NoFile]
    BY <1>3, ComesFrom DEF RenameSource, Rename
  <2>2. Copy(c) \in Places /\ Copy(c) # Path(c)
    BY <1>0, <2>1, Typed, FilesAssumption DEF PlacesSane
  <2>3. files'[Copy(c)] = files[Path(c)]
    BY <1>0, <2>1, <2>2
  <2> QED
    BY <1>3, <2>1, <2>3 DEF MoverKnows, Held, TextIn, Path, Text, Copy
<1>4. CASE pc'[c] = "removing"
  <2>1. /\ pc[c] = "copying" /\ mine' = mine
        /\ files' = [files EXCEPT ![Copy(c)] = Stamped(Text(c))]
    BY <1>4, Arrives DEF CopySource, Put
  <2>2. Copy(c) \in Places /\ Copy(c) # Path(c)
    BY <1>0, <2>1, Typed, FilesAssumption DEF PlacesSane
  <2>3. files'[Copy(c)] = Stamped(Text(c)) /\ files'[Path(c)] = files[Path(c)]
        /\ Stamped(Text(c)) # NoFile
    BY <1>0, <2>1, <2>2, Typed, FileTypes, FilesAssumption
  <2>4. Held(Copy(c))' = Text(c) /\ Held(Path(c))' = Held(Path(c))
    BY <2>1, <2>3 DEF Held, TextIn, Stamped, Path, Copy
  <2> QED
    BY <1>4, <2>1, <2>4 DEF MoverKnows
<1>5. CASE pc'[c] \notin {"moving", "copying", "stamping", "removing"}
  BY <1>5 DEF MoverKnows
<1> QED
  BY <1>1, <1>2, <1>3, <1>4, <1>5

LEMMA RollbackStep ==
  ASSUME TypeOK, PlacesSane, NEW c \in Cmds, RollbackKnows(c), Step(c) \/ Crash(c)
  PROVE  RollbackKnows(c)'
<1> USE DEF At
<1>0. /\ mine[c] \in Local /\ Path(c) \in Places /\ Path(c) \in Paths
      /\ files \in [Places -> File \cup {NoFile}]
  BY Typed DEF TypeOK
<1>1. CASE pc'[c] = "clear"
  <2>1. files' = files /\ mine' = mine /\ ~Exists(Path(c))
    BY <1>1, Arrives DEF CheckPlaces, Goto, Finish, TypeOK
  <2> QED
    BY <1>1, <2>1 DEF RollbackKnows, Exists, Path
<1>2. CASE pc'[c] = "restoring"
  <2>1. pc[c] = "clear" /\ files' = files /\ Exists(Copy(c))
        /\ mine' = [mine EXCEPT ![c].text = files[Copy(c)].text]
    BY <1>2, Arrives DEF ReadCopy, Goto, Finish, TypeOK
  <2>2. Path(c)' = Path(c) /\ Copy(c)' = Copy(c) /\ Text(c)' = files[Copy(c)].text
    BY <1>0, <2>1 DEF TypeOK, Path, Copy, Text, Local
  <2> QED
    BY <1>2, <2>1, <2>2 DEF RollbackKnows, Exists, Held, TextIn
<1>3. CASE pc'[c] = "cleaning"
  <2>1. /\ pc[c] = "restoring" /\ mine' = mine
        /\ files' = [files EXCEPT ![Path(c)] = Plain(Text(c))]
    BY <1>3, Arrives DEF WriteBack, Put
  <2>2. Copy(c) \in Places /\ Copy(c) # Path(c)
    BY <1>0, <2>1, Typed, FilesAssumption DEF PlacesSane
  <2>3. files'[Path(c)] = Plain(Text(c)) /\ files'[Copy(c)] = files[Copy(c)]
        /\ Plain(Text(c)) # NoFile
    BY <1>0, <2>1, <2>2, Typed, FileTypes, FilesAssumption
  <2>4. Held(Path(c))' = Text(c) /\ Held(Copy(c))' = Held(Copy(c))
    BY <2>1, <2>3 DEF Held, TextIn, Plain, Path, Copy
  <2> QED
    BY <1>3, <2>1, <2>4 DEF RollbackKnows, Text
<1>4. CASE pc'[c] \notin {"clear", "restoring", "cleaning"}
  BY <1>4 DEF RollbackKnows
<1> QED
  BY <1>1, <1>2, <1>3, <1>4

LEMMA AloneSoundStep ==
  ASSUME TypeOK, PlacesSane, OverlapsMarked, UndoSound, AloneSound, NEW c \in Cmds,
         Step(c) \/ Crash(c)
  PROVE  AloneSound'
<1> SUFFICES ASSUME NEW d \in Cmds, d \notin disturbed'
             PROVE  RecorderSound(d)' /\ MoverKnows(d)' /\ RollbackKnows(d)'
  BY DEF AloneSound
<1>1. CASE d = c
  <2>1. d \notin disturbed
    BY Marks
  <2> QED
    BY <1>1, <2>1, RecorderStep, MoverStep, RollbackStep DEF AloneSound
<1>2. CASE d # c
  <2>1. d \notin Running
    BY <1>2, OnlyItself
  <2>2. pc'[d] \in {"begun", "done", "dead"}
    BY <1>2, <2>1, StepsAlone DEF Running
  <2> QED
    BY <2>2 DEF RecorderSound, MoverKnows, RollbackKnows, At
<1> QED
  BY <1>1, <1>2

LEMMA InitAInv == Init => AInv
<1> SUFFICES ASSUME Init PROVE AInv
  OBVIOUS
<1>1. \A c \in Cmds : pc[c] = "begun" /\ mine[c].old = NoFile
  BY DEF Init
<1>2. Running = {}
  BY <1>1 DEF Running
<1> QED
  BY <1>1, <1>2 DEF AInv, OverlapsMarked, UndoSound, AloneSound, RecorderSound,
    MoverKnows, RollbackKnows, At

LEMMA StepAInv == IInv /\ AInv /\ [Next]_vars => AInv'
<1>1. ASSUME IInv, AInv, NEW c \in Cmds, Step(c) \/ Crash(c) PROVE AInv'
  BY <1>1, OverlapsStep, UndoSoundStep, AloneSoundStep DEF IInv, AInv
<1>2. ASSUME AInv, UNCHANGED <<files, pc, call, mine, disturbed>> PROVE AInv'
  <2>1. OverlapsMarked' /\ UndoSound'
    BY <1>2 DEF AInv, OverlapsMarked, Running, UndoSound, At, Kind
  <2>2. AloneSound'
    BY <1>2 DEF AInv, AloneSound, RecorderSound, MoverKnows, RollbackKnows, At, Kind,
      Held, Exists, Path, Copy, Text
  <2> QED
    BY <2>1, <2>2 DEF AInv
<1> QED
  BY <1>1, <1>2 DEF Next, Tick, vars

-----------------------------------------------------------------------------
(***************************************************************************)
(* What a step may do to the files                                         *)
(***************************************************************************)
LEMMA AtomicStep ==
  ASSUME IInv, AInv, NEW c \in Cmds, Step(c) \/ Crash(c),
         NEW d \in Cmds, d \notin disturbed', Kind(d) \in Recorders,
         reply[d] = "none", reply'[d] \notin {"none", "ok"}
  PROVE  At(d, "begun") \/ files'[Path(d)] \in Leaves(d, reply'[d])
<1> USE DEF At
<1>1. TypeOK /\ PlacesSane /\ Path(d) \in Places /\ Path(d) \notin Copies
  BY Typed, FilesAssumption DEF IInv
<1>2. d \notin disturbed
  BY <1>1, Marks
<1>3. d = c /\ reply' # reply
  <2> USE DEF TypeOK
  <2>1. CASE RecordDecision(c)
    BY <1>1, <2>1
    DEF Goto, Finish, RecordDecision, StatTarget, CaptureOld, ReadOld, WriteTarget,
        WriteTargetFails, InsertDecision, InsertDecisionFails, Undo, UndoFails
  <2>2. CASE Deprecate(c)
    BY <1>1, <2>2
    DEF Goto, Finish, MoveErrs,
        Deprecate, LoadDecision, InsertPending, ReadSource, RenameSource, RenameFails,
        StampHeader, StampHeaderFails, CopySource, CopySourceFails, RemoveSource,
        RemoveSourceFails, MarkApplied, DropPending
  <2>3. CASE Rollback(c)
    BY <1>1, <2>3
    DEF Goto, Finish, Rollback, FindMove, CheckPlaces, ReadCopy, WriteBack,
        WriteBackFails, RemoveCopy, RemoveCopyFails, InsertRolledBack
  <2>4. CASE AppendAudit(c) \/ AppendAuditFails(c) \/ StatementFails(c) \/ ReadFails(c)
            \/ Crash(c)
    BY <1>1, <2>4
    DEF Goto, Finish, MoveErrs, AppendAudit, AppendAuditFails, StatementFails,
        ReadFails, Crash
  <2> QED
    BY <2>1, <2>2, <2>3, <2>4 DEF Step
\* An error of its own: the old text is refused, or put back, or a write fails.
<1>4. \/ pc[c] = "begun"
      \/ pc[c] = "captured" /\ files' = files /\ reply'[c] = "error"
      \/ Undo(c) \/ WriteTargetFails(c) \/ UndoFails(c)
  <2> USE DEF TypeOK, PlacesSane, Recorders, Movers
  <2>1. CASE RecordDecision(c)
    BY <1>1, <1>3, <2>1
    DEF Goto, Finish, RecordDecision, StatTarget, CaptureOld, ReadOld, WriteTarget,
        InsertDecision, InsertDecisionFails, ReadyToInsert, Enter
  <2>2. CASE Deprecate(c)
    BY <1>1, <1>3, <2>2
    DEF Deprecate, LoadDecision, InsertPending, ReadSource, RenameSource, RenameFails,
        StampHeader, StampHeaderFails, CopySource, CopySourceFails, RemoveSource,
        RemoveSourceFails, MarkApplied, DropPending
  <2>3. CASE Rollback(c)
    BY <1>1, <1>3, <2>3
    DEF Rollback, FindMove, CheckPlaces, ReadCopy, WriteBack,
        WriteBackFails, RemoveCopy, RemoveCopyFails, InsertRolledBack
  <2>4. CASE AppendAudit(c) \/ AppendAuditFails(c) \/ StatementFails(c) \/ ReadFails(c)
            \/ Crash(c)
    BY <1>1, <1>3, <2>4
    DEF Goto, Finish, AppendAudit, AppendAuditFails, StatementFails, ReadFails, Crash, Enter
  <2> QED
    BY <2>1, <2>2, <2>3, <2>4 DEF Step
<1>5. /\ pc[c] \in {"captured", "writing"} => files[Path(c)] = mine[c].before
      /\ pc[c] = "undoing" => files[Path(c)] = Plain(Text(c))
  BY <1>2, <1>3 DEF AInv, AloneSound, RecorderSound
<1>6. Undo(c) => files'[Path(c)] = mine[c].before /\ reply'[c] = "error"
  BY <1>1, <1>3 DEF Undo, Finish, Put, AInv, UndoSound, TypeOK
<1>7. WriteTargetFails(c) =>
        files'[Path(c)] \in {mine[c].before, Torn} /\ reply'[c] = "torn"
  BY <1>1, <1>5 DEF WriteTargetFails, Finish, PutFails, Put, TypeOK
<1>8. UndoFails(c) => files'[Path(c)] \in {Plain(Text(c)), Torn} /\ reply'[c] = "stuck"
  BY <1>1, <1>5 DEF UndoFails, Finish, Put, TypeOK
<1> QED
  BY <1>3, <1>4, <1>5, <1>6, <1>7, <1>8 DEF Leaves

\* Every way a step changes the disk, but for what it tears.
LEMMA FilesChange ==
  ASSUME TypeOK, NEW c \in Cmds, Step(c) \/ Crash(c),
         ~\E x \in Places : files'[x] = Torn /\ files[x] # Torn
  PROVE  \/ files' = files
         \/ WriteTarget(c) \/ Undo(c) \/ RenameSource(c) \/ CopySource(c)
         \/ pc[c] = "stamping" /\ \E file \in {Plain(Text(c)), Stamped(Text(c))} :
                                    Put(Copy(c), file)
         \/ RemoveSource(c) \/ WriteBack(c) \/ RemoveCopy(c)
<1>1. ASSUME NEW x, Put(x, Torn) PROVE files' = files
  <2>1. CASE x \in Places
    BY <1>1, <2>1 DEF Put, TypeOK
  <2>2. CASE x \notin Places
    BY <1>1, <2>2 DEF Put, TypeOK
  <2> QED
    BY <2>1, <2>2
<1>2. CASE RecordDecision(c)
  BY <1>1, <1>2
  DEF RecordDecision, StatTarget, CaptureOld, ReadOld, WriteTargetFails, PutFails,
      InsertDecision, InsertDecisionFails, UndoFails
<1>3. CASE Deprecate(c)
  BY <1>1, <1>3
  DEF Deprecate, LoadDecision, InsertPending, ReadSource, RenameFails, At, PutFails,
      StampHeader, StampHeaderFails, CopySourceFails, RemoveSourceFails, MarkApplied,
      DropPending
<1>4. CASE Rollback(c)
  BY <1>1, <1>4
  DEF Rollback, FindMove, CheckPlaces, ReadCopy, WriteBackFails, PutFails,
      RemoveCopyFails, InsertRolledBack
<1>5. CASE AppendAudit(c) \/ AppendAuditFails(c) \/ StatementFails(c) \/ ReadFails(c)
          \/ Crash(c)
  BY <1>1, <1>5 DEF AppendAudit, AppendAuditFails, StatementFails, ReadFails, Crash
<1> QED
  BY <1>2, <1>3, <1>4, <1>5 DEF Step

LEMMA SurvivesStep ==
  ASSUME IInv, AInv, NEW c \in Cmds, Step(c) \/ Crash(c),
         NEW a \in Authors, OnDisk(a), ~MayDiscard(c, a)
  PROVE  OnDisk(a)'
<1> USE DEF At
<1> DEFINE Keeps(x) == x \in Places /\ a \in TextIn(files'[x])
<1>1. /\ TypeOK /\ PlacesSane /\ Path(c) \in Places /\ Path(c) \notin Copies
      /\ files \in [Places -> File \cup {NoFile}] /\ Text(c) \in SUBSET Authors
  BY Typed, FilesAssumption DEF IInv, TypeOK
<1>2. PICK x \in Places : a \in Held(x)
  BY DEF OnDisk, Held, TextIn, Exists
<1>3. SUFFICES \E y : Keeps(y)
  BY DEF OnDisk, Held, TextIn, Exists
<1>4. files'[x] = files[x] => Keeps(x)
  BY <1>2 DEF Held
<1>5. RecorderSound(c) /\ MoverKnows(c) /\ RollbackKnows(c)
  BY DEF AInv, AloneSound, MayDiscard
<1>6. pc[c] \in {"moving", "stamping", "copying", "removing", "cleaning"} =>
        Copy(c) \in Places /\ Copy(c) # Path(c)
  BY <1>1, Typed DEF PlacesSane
<1>7. \A t \in SUBSET Authors : TextIn(Plain(t)) = t /\ TextIn(Stamped(t)) = t
  BY FileTypes, FilesAssumption DEF TextIn, Plain, Stamped
<1>8. CASE files' = files
  BY <1>4, <1>8
<1>9. CASE WriteTarget(c)
  <2>1. files' = [files EXCEPT ![Path(c)] = Plain(Text(c))] /\ pc[c] = "writing"
    BY <1>9 DEF WriteTarget, Put
  <2>2. Kind(c) # "replace"
    BY DEF MayDiscard
  <2>3. a \in Held(Path(c)) => Keeps(Path(c))
    BY <1>1, <1>5, <1>7, <2>1, <2>2 DEF RecorderSound, Held
  <2> QED
    BY <1>1, <1>2, <1>4, <2>1, <2>3
<1>10. CASE Undo(c)
  <2>1. files' = [files EXCEPT ![Path(c)] = mine[c].old] /\ pc[c] = "undoing"
    BY <1>10 DEF Undo, Put
  <2>2. Kind(c) # "replace" /\ a # c
    BY <1>1, <2>1 DEF MayDiscard, PlacesSane
  <2>3. a \in Held(Path(c)) => Keeps(Path(c))
    BY <1>1, <1>5, <2>1, <2>2 DEF RecorderSound, Held
  <2> QED
    BY <1>1, <1>2, <1>4, <2>1, <2>3
<1>11. CASE RenameSource(c)
  <2>1. /\ files' = [files EXCEPT ![Copy(c)] = files[Path(c)], ![Path(c)] = NoFile]
        /\ pc[c] = "moving"
    BY <1>11 DEF RenameSource, Rename
  <2>2. x # Copy(c)
    BY <1>2, <2>1 DEF MayDiscard, Held, TextIn, Exists
  <2>3. files'[Copy(c)] = files[Path(c)]
    BY <1>1, <1>6, <2>1
  <2> QED
    BY <1>1, <1>2, <1>4, <1>6, <2>1, <2>2, <2>3 DEF Held
<1>12. CASE CopySource(c)
  <2>1. files' = [files EXCEPT ![Copy(c)] = Stamped(Text(c))] /\ pc[c] = "copying"
    BY <1>12 DEF CopySource, Put
  <2>2. x # Copy(c)
    BY <1>2, <2>1 DEF MayDiscard, Held, TextIn, Exists
  <2> QED
    BY <1>1, <1>2, <1>4, <2>1, <2>2
<1>13. CASE pc[c] = "stamping" /\ \E file \in {Plain(Text(c)), Stamped(Text(c))} :
                                    Put(Copy(c), file)
  <2>1. PICK file \in {Plain(Text(c)), Stamped(Text(c))} :
          files' = [files EXCEPT ![Copy(c)] = file]
    BY <1>13 DEF Put
  <2>2. TextIn(file) = Text(c)
    BY <1>1, <1>7, <2>1
  <2>3. a \in Held(Copy(c)) => Keeps(Copy(c))
    BY <1>1, <1>5, <1>6, <1>13, <2>1, <2>2 DEF MoverKnows, Held
  <2> QED
    BY <1>1, <1>2, <1>4, <2>1, <2>3
<1>14. CASE RemoveSource(c)
  <2>1. files' = [files EXCEPT ![Path(c)] = NoFile] /\ pc[c] = "removing"
    BY <1>14 DEF RemoveSource, Remove, Put
  <2>2. files'[Copy(c)] = files[Copy(c)]
    BY <1>1, <1>6, <2>1
  <2>3. a \in Held(Path(c)) => Keeps(Copy(c))
    BY <1>5, <1>6, <2>1, <2>2 DEF MoverKnows, Held
  <2> QED
    BY <1>1, <1>2, <1>4, <2>1, <2>3
<1>15. CASE WriteBack(c)
  <2>1. files' = [files EXCEPT ![Path(c)] = Plain(Text(c))] /\ pc[c] = "restoring"
    BY <1>15 DEF WriteBack, Put
  <2>2. x # Path(c)
    BY <1>2, <1>5, <2>1 DEF RollbackKnows, Held, TextIn, Exists
  <2> QED
    BY <1>1, <1>2, <1>4, <2>1, <2>2
<1>16. CASE RemoveCopy(c)
  <2>1. files' = [files EXCEPT ![Copy(c)] = NoFile] /\ pc[c] = "cleaning"
    BY <1>16 DEF RemoveCopy, Remove, Put
  <2>2. files'[Path(c)] = files[Path(c)]
    BY <1>1, <1>6, <2>1
  <2>3. a \in Held(Copy(c)) => Keeps(Path(c))
    BY <1>1, <1>5, <2>1, <2>2 DEF RollbackKnows, Held
  <2> QED
    BY <1>1, <1>2, <1>4, <2>1, <2>3
<1>17. ~\E y \in Places : files'[y] = Torn /\ files[y] # Torn
  BY DEF MayDiscard
<1> QED
  BY <1>1, <1>8, <1>9, <1>10, <1>11, <1>12, <1>13, <1>14, <1>15, <1>16, <1>17, FilesChange

-----------------------------------------------------------------------------
(***************************************************************************)
(* The theorems                                                            *)
(***************************************************************************)
\* The state always has its type (TypeOK), and the invariant is inductive.
THEOREM Inductive == Spec => []IInv
  BY InitIInv, StepIInv, PTL DEF Spec

THEOREM TypeCorrect == Spec => []TypeOK
<1>1. IInv => TypeOK
  BY DEF IInv
<1> QED
  BY <1>1, Inductive, PTL

\* Whatever ran, failed or died, a logged rollback put back the text that the
\* move it reverses took away, but for two moves aimed at one copy
\* (cmd_rollback.go:90-140).
THEOREM RollbacksRestore == Spec => []RollbackRestores
<1>1. IInv => RollbackRestores
  BY DEF IInv
<1> QED
  BY <1>1, Inductive, PTL

\* However many rollbacks race, one of them gets into the log
\* (cmd_rollback.go:106-142).
THEOREM CopiesRestoredOnce == Spec => []RestoredOnce
<1>1. IInv => RestoredOnce
  BY DEF IInv
<1> QED
  BY <1>1, Inductive, PTL

LEMMA AloneInductive == Spec => []AInv
  BY Inductive, InitAInv, StepAInv, PTL DEF Spec

\* What a record-decision that ran alone and failed leaves of its file: what it
\* found when its own calls on the file went well; that or a torn file, never the
\* new text, when its write failed (cmd_record_decision.go:131-139).
THEOREM RecordsAreAtomic == Spec => RecordIsAtomic
<1> DEFINE Atomic ==
      \A c \in Cmds \ disturbed' :
        /\ Kind(c) \in Recorders
        /\ reply[c] = "none" /\ reply'[c] \notin {"none", "ok"}
        => At(c, "begun") \/ files'[Path(c)] \in Leaves(c, reply'[c])
<1>1. IInv /\ AInv /\ [Next]_vars => [Atomic]_reply
  <2> SUFFICES ASSUME IInv, AInv, Next, reply' # reply PROVE Atomic
    BY DEF vars
  <2>1. PICK c \in Cmds : Step(c) \/ Crash(c)
    BY DEF Next, Tick
  <2> QED
    BY <2>1, AtomicStep
<1>2. Spec => [][Atomic]_reply
  BY <1>1, Inductive, AloneInductive, PTL DEF Spec
<1> QED
  BY <1>2 DEF RecordIsAtomic

\* No body vanishes from the disk unless a replacement or an undo discards it, a
\* write is torn, a copy's name is used twice, or commands overlap
\* (cmd_apply_decision.go:212-217, cmd_rollback.go:137-142).
THEOREM TextsSurvive == Spec => TextSurvives
<1> DEFINE Survives ==
      \A a \in Authors : OnDisk(a) /\ ~OnDisk(a)' =>
        \E c \in Cmds : pc'[c] # pc[c] /\ MayDiscard(c, a)
<1>1. IInv /\ AInv /\ [Next]_vars => [Survives]_files
  <2> SUFFICES ASSUME IInv, AInv, Next, files' # files PROVE Survives
    BY DEF vars
  <2>1. PICK c \in Cmds : Step(c) \/ Crash(c)
    BY DEF Next, Tick
  <2>2. pc'[c] # pc[c]
    BY <2>1, Marks DEF IInv
  <2> QED
    BY <2>1, <2>2, SurvivesStep
<1>2. Spec => [][Survives]_files
  BY <1>1, Inductive, AloneInductive, PTL DEF Spec
<1> QED
  BY <1>2 DEF TextSurvives
=============================================================================
