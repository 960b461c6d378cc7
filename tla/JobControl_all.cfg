SPECIFICATION FairSpec
CONSTANTS
    Runs <- MCRuns
    SimOf <- MCSimOf
    Features <- MCFeatures
    Limits <- MCLimits
INVARIANTS
    ControlIsExact
    StatusNotStale
PROPERTIES
    ServerGoesOn
CHECK_DEADLOCK FALSE
