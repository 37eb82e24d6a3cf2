CONSTANTS
    Clerks = {c1, c2}
    BetIds = {b1, b2}
    Tickets <- SmallTickets
    Digits = 6
    Overrides <- Promotion
    Computed = Computed
    Nothing = Nothing
    Faults <- AllFaults
SPECIFICATION Spec
SYMMETRY Symmetry
INVARIANTS TypeOK SettlementCoherent PayoutIsExact
PROPERTIES SettledOnce
CHECK_DEADLOCK FALSE
