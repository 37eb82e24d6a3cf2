CONSTANTS
    Games = {1, 2}
    Crons = {cron}
    Backfills = {backfill}
    FirstStart <- TwoGames
    LastDay = 2
    MonthStarts <- ShortMonths
    Span = 2
    MaxChanges = 1
    None = None
SPECIFICATION FairSpec
INVARIANTS TypeOK DatesAgree StartsStayCurrent
PROPERTIES ReplayedRowWins RangesTile EveryIngestEnds
