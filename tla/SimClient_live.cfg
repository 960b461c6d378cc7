SPECIFICATION FairSpec
CONSTANTS
  CmdIds = {"c1", "c2", "c3", "c4"}
  Hashes = {"h1", "h2"}
  Commands <- MCCommands
  Scenarios <- LiveScenarios
  Tasks = {t1, t2}
  NoCmd = NoCmd
  MaxProcessed = 2
  BuildConcurrency = 1
  MaxSeen = 3
PROPERTIES
    ExecutionIsRecorded
    ServeReturnsEventually
CHECK_DEADLOCK FALSE
