SPECIFICATION Spec
CONSTANTS
  Formats <- MCFormats
  BlockLengths <- MCBlockLengths
  FedLengths <- MCFedLengths
  Counts <- MCCounts
  Ends <- MCEnds
  Failures = TRUE
INVARIANTS
  TypeOK
  OwnedOnce
  NoDataLostAtEof
  BlockAccounted
  RidgeBlockFilled
  PartialExact
PROPERTY ListedFedsFrozen
CHECK_DEADLOCK FALSE
