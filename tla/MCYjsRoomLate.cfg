SPECIFICATION Spec
CONSTANTS
  t1 = t1
  t2 = t2
  w1 = w1
  w2 = w2
  Server = Server
  Tabs = {t1, t2}
  Workers = {w1, w2}
  MaxEdits = 2
  Interval = 3
  MaxFaults = 0
  LateRows = TRUE
  Fresh = TRUE
INVARIANTS
  RepairFromLog
SYMMETRY Symmetry
