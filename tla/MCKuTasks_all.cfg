SPECIFICATION LiveSpec
CONSTANTS
  Tasks = {t1, t2}
  Count = 2
  Failures = TRUE
  MaxCons = {1}
  MaxCommands = 5
INVARIANTS TypeOK TopRowsRun RowTells VerdictTrue
PROPERTIES HeldByUser WorksOff
CHECK_DEADLOCK FALSE
