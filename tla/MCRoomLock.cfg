SPECIFICATION FairSpec
CONSTANTS
  p1 = p1
  p2 = p2
  Procs = {p1, p2}
  TTL = 1
  Waits <- MCWaits
  MaxClock = 4
  MaxCalls = 2
  NoToken = NoToken
CHECK_DEADLOCK FALSE
INVARIANTS
  LeaseExclusion
  BusyIsHonest
PROPERTIES
  NoTheft
  EveryCallIsAnswered
