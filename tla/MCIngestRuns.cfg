CONSTANTS
    Workers = {w1, w2}
    RunIds = {r1, r2}
    Pids = {p1, p2, p3}
    NoPid = NoPid
    NoRun = NoRun
    Grace = 0
    StaleAfter = 1
    MaxTime = 3
SPECIFICATION Spec
SYMMETRY Symmetry
INVARIANTS TypeOK RowsCoherent PublishedRunsSucceeded ConnectedRunsAreNotReaped
PROPERTIES VerdictsAreFinal LogSpec
