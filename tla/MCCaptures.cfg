CONSTANTS
    Pollers = {w1, w2}
    Replayers = {w3}
    Games <- Doubleheader
    FirstStarts <- Starts
    Delays <- Rain
    MaxStart = 8
    MaxResponses = 2
    MaxSecond = 2
    NoFile = NoFile
    Torn = Torn
    Unlisted = Unlisted
    Nothing = Nothing
    Faults <- AllFaults
    Tolerance = 3
    Gap = 1
    Horizon = 48
    Nobody = Nobody
    Ambiguous = Ambiguous
SPECIFICATION Spec
INVARIANTS TypeOK HonestTimestamps SuccessHasItsRows OncePerObservation
PROPERTIES TableSpec
