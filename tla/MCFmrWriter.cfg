SPECIFICATION WriterSpec
CONSTANTS
  Records <- MCRecords
  Ends <- MCEnds
  Failures = TRUE
INVARIANTS
  CursorIsTrue
  OnlyFedsAreCut
CHECK_DEADLOCK FALSE
