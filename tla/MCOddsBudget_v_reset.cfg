CONSTANTS
    Pollers = {p1}
    PollIds <- FewIds
    Cost = 2
    Allowance = 4
    MaxPeriods = 2
    MaxAhead = 2
    Floors <- Derived
    NoFloor = NoFloor
    NoRun = NoRun
    Unset = Unset
    Null = Null
    Faults <- NoFaults
SPECIFICATION FairSpec
PROPERTIES SpendsAgainAfterReset
