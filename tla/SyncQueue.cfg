SPECIFICATION FairSpec
CONSTANTS
    w1 = w1  w2 = w2  c1 = c1  c2 = c2  r1 = r1  r2 = r2
    Null = Null
    Workers = {w1, w2}
    Callers = {c1, c2}
    Rows = {r1}
    Attempts = 2
    MaxStalls = 1
    PauseAfter = 2
    Recipients = 2
    MaxTroubles = 1
CHECK_DEADLOCK FALSE
INVARIANTS TypeOK OneWriter PauseIsEarned OneMailPerIncident
PROPERTIES EveryRequestServed EveryRunCloses AlarmEnds
