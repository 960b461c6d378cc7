SPECIFICATION FairSpec
CONSTANTS
  Runs = {1, 2}
  Threads = {t1, t2}
  None = None
  Plans <- MCPlans
  PipeSize = 4
  TailLines = 2
  TailBytes = 3
  Detail = 2
INVARIANTS
    CaptureIsExact
    ClassifiedRight
    TailIsLive
PROPERTIES
    WorkflowReturns
CHECK_DEADLOCK FALSE
