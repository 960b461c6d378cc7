SPECIFICATION Spec
CONSTANTS
  CmdIds = {"c1", "c2", "c3", "c4"}
  Hashes = {"h1", "h2"}
  Commands <- MCCommands
  Scenarios <- SafetyScenarios
  Tasks = {t1, t2}
  NoCmd = NoCmd
  MaxProcessed = 2
  BuildConcurrency = 2
  MaxSeen = 3
SYMMETRY TaskSymmetry
INVARIANTS
    TypeOK
    AtMostOneJob
    OneExecution
    WatchersControlled
PROPERTIES
    ImplementsLedger
CHECK_DEADLOCK FALSE
