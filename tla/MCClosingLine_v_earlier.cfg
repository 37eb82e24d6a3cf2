CONSTANTS
    MaxTime = 4
    MaxRows = 3
    FirstStart = 3
    Moves <- Earlier
    SidesQuoted <- BothSides
    HandEntry = FALSE
    NoRow = NoRow
    NoBet = NoBet
SPECIFICATION Spec
CHECK_DEADLOCK FALSE
INVARIANTS NoLivePriceIsAClose
