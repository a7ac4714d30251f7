SPECIFICATION LiveSpec
CONSTANTS
  Table <- XVidC_VideoTimingModes
  ProgStart <- First
  CustomTables <- SomeTables
  Queries <- AllQueries
INVARIANTS TypeOK FirstMatch BehindTableOnlyForWidest CrashOnlyAfterLast ReducedBlankingFound
           StreamConsistent
PROPERTY SearchEnds
CHECK_DEADLOCK FALSE
