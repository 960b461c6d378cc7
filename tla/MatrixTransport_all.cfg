SPECIFICATION FairSpec
CONSTANTS
  Kinds = {"rcp", "other"}
  Roles = {"server", "human", "client"}
  SyncLimit = 2
  PageLimit = 2
  Cap = 4
  MaxEvents = 7
  MaxFaults = 2
  MaxRestarts = 1
INVARIANTS
    ReplayIsFaithful
PROPERTIES
    NewestArrives
CHECK_DEADLOCK FALSE
