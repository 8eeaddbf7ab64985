SPECIFICATION FairSpec
CONSTANTS
    Null = Null  ta = ta
    Topics = {ta}
    Kinds <- MCKinds
    Gateway = TRUE
    MaxRuns = 2
    MayEnd <- MCMayEnd
    MaxWire = 1
    MaxAnswers = 2
    MaxFaults = 1
CHECK_DEADLOCK FALSE
 
PROPERTY PollingSuffices
