SPECIFICATION Spec
CONSTANTS
  CRUD = {"create", "get"}
  RoleCRUD = {"create"}
  NewDomains = {"order", "error"}
  Choices <- MCChoices
  MaxCommands = 3
  MaxInterrupts = 1
INVARIANTS
  NewBuildsWithExamples
  WiringMends
PROPERTIES
  CommandsKeepBuilding
CHECK_DEADLOCK FALSE
