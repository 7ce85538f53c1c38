\* Every document of the three forms of MCSpecLint.
SPECIFICATION LintSpec
CONSTANTS
  Forms <- MCForms
  Slug = "ROLE"
INVARIANTS
  CleanSpecRunsInBatches
  DagCheckIsExact
  CleanSpecTracesRequirements
  LearnedTasksAreDeclared
\* Reading ends with the file.
CHECK_DEADLOCK FALSE
