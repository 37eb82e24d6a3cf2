CONSTANTS
    Workers = {w1, w2}
    RunIds = {r1, r2}
    Pids = {p1, p2}
    NoPid = NoPid
    NoRun = NoRun
    Grace = 0
    StaleAfter = 0
    MaxTime = 2
SPECIFICATION FairSpec
PROPERTIES EveryBlockEnds
