SPECIFICATION Spec
CONSTANTS
  Formats <- MCFormats
  BlockLengths <- MCBlockLengths
  FedLengths <- MCFedLengths
  Counts <- MCCounts
  Ends <- MCEnds
  Failures = TRUE
INVARIANTS
  FreeableAfterError
CHECK_DEADLOCK FALSE
