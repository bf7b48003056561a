SPECIFICATION Spec
CONSTANTS
  ImageFormats <- AllImageFormats
  PartCounts <- MCPartCounts
  SubCounts <- MCSubCounts
  Lengths <- MCLengths
  CodeLengths <- MCCodeLengths
  RecordLengths <- MCRecordLengths
  Ends <- MCEnds
  Failures = TRUE
  UintModulus = 1000
  Spaces <- MCSpaces
  ImageSizes <- MCImageSizes
  MaxMade = 2
INVARIANTS
  CopyIsTrue
  OnlyPartialCrashes
  BufferIsEnough
  MadeLengthIsTrue
CHECK_DEADLOCK FALSE
