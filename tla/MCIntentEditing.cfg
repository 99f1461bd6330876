SPECIFICATION Spec
CONSTANTS
  t1 = t1
  t2 = t2
  None = None
  Tabs = {t1, t2}
  Fields = {"content", "caption"}
  Scenes <- MCScenes
  Pipelined = FALSE
INVARIANTS
  TypeOK
  ScreenIsReplan
PROPERTIES
  AppliedAsMeant
  SetAsideStays
  DisjointWorkApplies
CHECK_DEADLOCK FALSE
