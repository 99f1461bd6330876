SPECIFICATION Spec
CONSTANTS
  c1 = c1
  c2 = c2
  Clients = {c1, c2}
  MaxEdits = 3
  Interval = 1
  Outcomes = {"applied", "approval"}
  Filtered = {c1}
  MaxRowFailures = 0
  UnitSizes = {1}
  MaxLag = 1
  Splits = FALSE
  MaxFailures = 0
  MaxDeaths = 1
  MaxOverlaps = 1
  MaxCancels = 0
  MaxResolutions = 1
CONSTRAINT MCOneFault
CHECK_DEADLOCK FALSE
INVARIANTS
  TypeOK
  ReplicaIsAPrefix
  LoadIsReplay
  ProposalsSurvive
