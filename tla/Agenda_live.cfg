SPECIFICATION FairSpec
CONSTANTS
    Paths <- MCPaths
    SpecAt <- MCSpecAt
    NoSim = ""
    NoRun = NoRun
    Direct <- MCDirect
    DirectSim <- MCDirectSim
    Actual <- MCActual
    EmptyRuns <- MCEmpty
    Window = 1
    Limits <- LiveLimits
PROPERTIES
    AgendaGoesOn
CHECK_DEADLOCK FALSE
