SPECIFICATION FairSpec
CONSTANTS
  RoomExists = TRUE
  Tabs = {a, b}
  Reqs = {r1, r2}
  MaxDeaths = 1
  MaxTimeouts = 1
  MaxLostRows = 0
  MaxResets = 0
  MaxFaults = 1
  MaxAttempts = 2
  MaxSpins = 1
  MaxStamp = 4
  None = None
INVARIANT AppliedSurvives
PROPERTIES
  ChainExtendsByOne
  LedgerSpec
  EveryProposalSettles
CHECK_DEADLOCK FALSE
