SPECIFICATION ReporterSpec
CONSTANTS
  Branches = {b1, b2, b3}
INVARIANTS  NeverAhead
CHECK_DEADLOCK FALSE
