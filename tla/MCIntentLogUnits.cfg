SPECIFICATION Spec
CONSTANTS
  c1 = c1
  c2 = c2
  Clients = {c1, c2}
  MaxEdits = 3
  Interval = 2
  Outcomes = {"applied", "noop", "voided", "escalated"}
  Filtered = {}
  MaxRowFailures = 0
  UnitSizes = {1, 2}
  MaxLag = 0
  Splits = FALSE
  MaxFailures = 1
  MaxDeaths = 0
  MaxOverlaps = 0
  MaxCancels = 1
  MaxResolutions = 0
SYMMETRY MCSymmetry
CHECK_DEADLOCK FALSE
INVARIANTS
  LoggedOnce
  AckIsBacked
  UnitsSettleTogether
PROPERTIES
  CanceledStaysOut
