SPECIFICATION Spec
CONSTANTS
  t1 = t1
  t2 = t2
  b1 = b1
  b2 = b2
  Tabs = {t1, t2}
  Blocks = {b1, b2}
  Scenes <- MCRollback
PROPERTY AcceptedWorkStays
CHECK_DEADLOCK FALSE
