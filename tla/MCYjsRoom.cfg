SPECIFICATION LiveSpec
CONSTANTS
  t1 = t1
  t2 = t2
  w1 = w1
  w2 = w2
  Server = Server
  Tabs = {t1, t2}
  Workers = {w1, w2}
  MaxEdits = 1
  Interval = 1
  MaxFaults = 1
  LateRows = FALSE
  Fresh = FALSE
INVARIANTS
  TypeOK
  AckedIsLoaded
  AckedIsReplayed
  CursorIsHonest
PROPERTIES
  TabsConverge
