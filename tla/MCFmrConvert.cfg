CONSTANTS
  Files <- MCFiles
  Resolutions <- MCResolutions
  MaxRuns = 4
  Failures = {2}
SPECIFICATION Spec
INVARIANTS
  MinutiaeKept
  LengthIsTrue
  Settles
CHECK_DEADLOCK FALSE
