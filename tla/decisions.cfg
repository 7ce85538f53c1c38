\* Three commands at once, every failure and crashes.
CONSTANTS
  c1 = c1  c2 = c2  c3 = c3  f1 = f1
  Cmds = {c1, c2, c3}
  Original = Original
  Authors <- MCAuthors
  Paths = {f1}
  MaxSecond = 2
  MaxId = 3
  NoFile = NoFile  NoRow = NoRow
  Calls <- MCCalls
  Faults = {"db", "fs", "audit", "crash"}
SYMMETRY Perms
VIEW LiveState
SPECIFICATION Spec
INVARIANTS RollbackRestores RestoredOnce
PROPERTIES RecordIsAtomic TextSurvives
\* Commands are finite: the model stops when all have ended.
CHECK_DEADLOCK FALSE
