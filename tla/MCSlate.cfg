CONSTANTS
    Pks <- ThreeGames
    MaxTime = 9
    Tolerance = 2
    Gap = 1
    Horizon = 6
    Nobody = Nobody
    Ambiguous = Ambiguous
SPECIFICATION SlateSpec
INVARIANTS ClustersAreChains NeverTheOtherGame
