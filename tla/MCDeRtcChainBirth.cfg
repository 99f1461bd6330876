SPECIFICATION FairSpec
CONSTANTS
  RoomExists = FALSE
  Tabs = {a, b}
  Reqs = {r1}
  MaxDeaths = 1
  MaxTimeouts = 1
  MaxLostRows = 1
  MaxResets = 1
  MaxFaults = 1
  MaxAttempts = 2
  MaxSpins = 1
  MaxStamp = 4
  None = None
PROPERTY EveryProposalSettles
CHECK_DEADLOCK FALSE
