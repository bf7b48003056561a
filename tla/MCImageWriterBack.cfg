SPECIFICATION Spec
CONSTANTS
  ImageFormats <- MCReadBackFormats
  PartCounts <- MCPartCounts
  SubCounts <- MCSubCounts
  Lengths <- MCLengths
  CodeLengths <- MCCodeLengths
  RecordLengths <- MCRecordLengths
  Ends <- MCEnds
  Failures = FALSE
  UintModulus = 1000
  Spaces <- MCSpaces
  ImageSizes <- MCImageSizes
  MaxMade = 2
INVARIANTS
  PushedReadsBack
CHECK_DEADLOCK FALSE
