CONSTANTS
    Pollers = {p1, p2}
    PollIds <- FewIds
    Cost = 2
    Allowance = 5
    MaxPeriods = 2
    MaxAhead = 1
    Floors <- Mixed
    NoFloor = NoFloor
    NoRun = NoRun
    Unset = Unset
    Null = Null
    Faults <- AllFaults
SPECIFICATION Spec
INVARIANTS TypeOK NeverUnderestimates HistoryAccounts
PROPERTIES ReserveKept
