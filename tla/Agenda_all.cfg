SPECIFICATION Spec
CONSTANTS
    Paths <- MCPaths
    SpecAt <- MCSpecAt
    NoSim = ""
    NoRun = NoRun
    Direct <- MCDirect
    DirectSim <- MCDirectSim
    Actual <- MCActual
    EmptyRuns <- MCEmpty
    Window = 1
    Limits <- MCLimits
INVARIANTS
    BudgetKept
    DecisionNotLost
    UpdatesSurvive
    ClaimsAreReal
PROPERTIES
    SubmitsOnlyReady
    StopReachesEveryJob
    ReportMatchesFile
CHECK_DEADLOCK FALSE
