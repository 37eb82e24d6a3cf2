CONSTANTS
    Migrators = {m1, m2}
    Writers = {w1, w2}
    Pks = {g1, g2}
    MaxRows = 2
    Nothing = Nothing
    Faults <- ProbeFails
SPECIFICATION Spec
SYMMETRY Symmetry
INVARIANTS TypeOK RowsHaveGames
PROPERTIES KnownPricesSurvive
