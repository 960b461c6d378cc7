SPECIFICATION Spec
CONSTANTS
    Index <- MCIndex
    BaseSpec <- MCBaseSpec
    Setups <- MCSetups
    Sweeps <- MCSweeps
    Spellings <- MCSpellings
    Broken <- MCBroken
    Measure <- MCMeasure
    Extra <- MCExtra
    Objectives = {"slow", "falling", "peak", "flat"}
    Names = {"leaf1", "finer", "wider"}
    Rounds = 2
    MaxLeaves = 4
INVARIANTS
    CampaignsAreSound
    RisingSweepStaysOpen
    SuggestionsAreNew
CHECK_DEADLOCK FALSE
