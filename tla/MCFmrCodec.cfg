SPECIFICATION Spec
CONSTANTS
  Objects <- MCObjects
  Wires <- MCWires
INVARIANTS
  ReadersStayInWidth
  RoundTrip
CHECK_DEADLOCK FALSE
