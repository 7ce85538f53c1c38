SPECIFICATION Spec
CONSTANTS
  s1 = s1
  m1 = m1
  Skills <- MCSkills
  Memories <- MCMemories
  Bodies = {b1, b2}
  Procs = {p1, p2}
  Plans <- MCPlans
  TTLDays = 2
  NudgeThreshold = 2
  MaxRun = 1
  Nothing = Nothing
SYMMETRY Symmetry
INVARIANTS
  IndexMirrorsDisk
  NudgesCountLoops
PROPERTIES
  ProposedIsUnused
CHECK_DEADLOCK FALSE
