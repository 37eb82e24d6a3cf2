CONSTANTS
    MaxTime = 3
    MaxRows = 3
    FirstStart = 2
    Moves <- Later
    SidesQuoted <- AnySides
    HandEntry = TRUE
    NoRow = NoRow
    NoBet = NoBet
SPECIFICATION Spec
CHECK_DEADLOCK FALSE
INVARIANTS TypeOK NoLivePriceIsAClose OpposingAtSameInstant
PROPERTIES CloseOnlyAdvances
