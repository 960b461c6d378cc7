SPECIFICATION FairSpec
CONSTANTS
  Runs = {"r1", "r2", "r3"}
  NoRun = "NoRun"
  Sims = {"s1", "s2"}
  SimIdOf <- MCSims
  Callers = {"c1", "c2"}
  Timeouts = {0, 2, 3, 9}
  MinTimeout = 1
  MaxTimeout = 5
  Poll = 1
  Skew = 2
  Lag = 1
  ClientTimer = 4
  StallAfter = 1
  MaxEventPage = 3
  Limits <- MCLimits
INVARIANTS
    WakeupsConsistent
    ServerAnswersFirst
    ViewsAreTrue
PROPERTIES
    WaitEnds
CHECK_DEADLOCK FALSE
