SPECIFICATION Spec
CONSTANTS
  Runs = {"r1", "r2", "r3"}
  NoRun = NoRun
  Sims = {"s1", "s2"}
  SimIdOf <- MCSims
  EventLogMax = 1
  Limits <- SafetyLimits
INVARIANTS
    RegistryConsistent
    FailuresAreReal
    LossesAreHonest
PROPERTIES
    TerminalStays
CHECK_DEADLOCK FALSE
