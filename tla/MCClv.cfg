CONSTANTS
    Markets <- SomeMarkets
    Excess <- MarketExcess
    Prices <- SomePrices
    UnitBits = 9
    Unit = 512
    Bits = 14
    KMin = 51
    KMax = 6144
    Tol = 4
    Limits = {8, 30}
    Enough = 30
SPECIFICATION Spec
CHECK_DEADLOCK FALSE
INVARIANTS TypeOK Bracketed RaisesOnlyBeyondBounds MetricsAgreeOneWay LongshotPaysMore
