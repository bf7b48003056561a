SPECIFICATION FairSpec
CONSTANTS
  ImageFormats <- AllImageFormats
  PartCounts <- MCPartCounts
  SubCounts <- MCSubCounts
  Lengths <- MCLengths
  CodeLengths <- MCCodeLengths
  RecordLengths <- MCRecordLengths
  Ends <- MCEnds
  Failures = TRUE
  UintModulus = 1000
INVARIANTS
  OnlyPartInHandIsLost
  ReadPromise
  MemoryIsFreedOnce
  SuccessIsComplete
PROPERTIES
  ReadsRecords
  Terminates
CHECK_DEADLOCK FALSE
