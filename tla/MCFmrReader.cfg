SPECIFICATION FairSpec
CONSTANTS
  RecordFormats <- AllFormats
  ViewCounts <- MCViewCounts
  MinutiaCounts <- MCMinutiaCounts
  BlockLengths <- MCBlockLengths
  FedLengths <- MCFedLengths
  Counts <- MCCounts
  Ends <- MCEnds
  CardEnds <- MCCardEnds
  Failures = TRUE
INVARIANTS
  TypeOK
  ListedViewsHaveTheirMinutiae
  RecordAccounted
  Promise
PROPERTIES
  ReadsARecord
  Terminates
CHECK_DEADLOCK FALSE
