SPECIFICATION Spec
CONSTANTS
  Objects <- NoObjects
  Wires <- MCWires
INVARIANTS
  AnglesSurvive
CHECK_DEADLOCK FALSE
