SPECIFICATION Spec
CONSTANTS
  Headers <- MCHeaders
  Views <- MCViews
  MaxViews = 3
  MaxCalls = 3
INVARIANTS
  MemoryIsOfTheViews
PROPERTIES
  FirstVerdictIsExact
CHECK_DEADLOCK FALSE
