CONSTANTS
    Tables <- SomeTables
    Splits = 3
    MaxForeign = 1
SPECIFICATION FairSpec
INVARIANTS TypeOK OriginalRoute
PROPERTIES DumpEnds
