SPECIFICATION LiveSpec
CONSTANTS
  t1 = t1
  t2 = t2
  Tabs = {t1, t2}
  Writers = {t1}
  Streaming = {t1}
  MaxEdits = 1
  MaxOpens = 2
  MaxTroubles = 1
  MaxRequests = 2
  Raced = FALSE
INVARIANTS
  TypeOK
  LaterRequestsNeverReset
PROPERTIES
  RowsBeforeVerdicts
  ParticipantKeepsRoom
  TabsConverge
CHECK_DEADLOCK FALSE
