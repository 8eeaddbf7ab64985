SPECIFICATION FairSpec
CONSTANTS
    Null = Null  ta = ta
    Topics = {ta}
    Kinds <- MCKinds
    Gateway = FALSE
    MaxRuns = 2
    MayEnd <- MCMayEnd
    MaxWire = 1
    MaxAnswers = 2
    MaxFaults = 0
CHECK_DEADLOCK FALSE
PROPERTY EndIsShown
