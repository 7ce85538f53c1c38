SPECIFICATION Spec
CONSTANTS
  Dirs <- MCDirs
  maxGitDirsPerCommit = 2
  maxInsertion = 5
  MinPatternFreq = 2
  Histories <- MCHistories
  Windows = {0, 2}
  RecallQueries <- MCRecallQueries
  SimilarQueries <- MCSimilarQueries
  NoFile = NoFile
INVARIANTS
  CandidatesCountWindows
  TablesFollowTheFile
  RecallReturnsTheBest
  SimilarIsExact
CHECK_DEADLOCK FALSE
