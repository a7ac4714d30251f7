SPECIFICATION Spec
CONSTANTS
  Table <- XVidC_VideoTimingModes
  ProgStart <- First
  CustomTables <- SomeTables
  Queries <- FewQueries
INVARIANT IdNamesItsRow
CHECK_DEADLOCK FALSE
