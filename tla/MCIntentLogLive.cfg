SPECIFICATION FairSpec
CONSTANTS
  c1 = c1
  c2 = c2
  Clients = {c1, c2}
  MaxEdits = 2
  Interval = 1
  Outcomes = {"applied", "approval"}
  Filtered = {c1}
  MaxRowFailures = 1
  UnitSizes = {1}
  MaxLag = 0
  Splits = FALSE
  MaxFailures = 1
  MaxDeaths = 1
  MaxOverlaps = 0
  MaxCancels = 0
  MaxResolutions = 0
CHECK_DEADLOCK FALSE
PROPERTIES
  EveryIntentSettles
  TabsConverge
