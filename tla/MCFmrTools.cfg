SPECIFICATION Spec
CONSTANTS
  UintModulus = 70001
  Sessions <- MCSessions
  Faults = {"memory", "disk"}
INVARIANTS
  LengthIsTrue
  ConformanceIsKept
  MinutiaeAreKept
  AcceptedIsWhole
  An2kRoundTrip
  MadeAsTold
  PairedOnce
  PairsAreComplete
