SPECIFICATION FairSpec
CONSTANTS
  Percents <- ThreePercents
  StepPercent = 25
  Reasons = {Priority}
  NoReason = NoReason
  Ends <- SlurmEnds
  Purges = TRUE
  MaxDisturbances = 2
INVARIANTS
    PostsAreTrue
PROPERTIES
    EndReported
CHECK_DEADLOCK FALSE
