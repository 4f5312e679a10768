SPECIFICATION FairSpec
CONSTANTS
  Runs = {r1}
  Procs = {p1, p2}
  Calls = {c1}
  MaxFence = 2
  None = None
CHECK_DEADLOCK FALSE
PROPERTY ClaimedRunEnds
