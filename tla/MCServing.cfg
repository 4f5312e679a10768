SPECIFICATION Spec
CONSTANTS
  Segs = {s1}
  Versions = {1}
  Base = "a"
  Targets = {"b"}
  Workers = {w1}
  PageSize = 1
  MaxRev = 0
  MaxStarts = 2
  MaxJobs = 6
  MaxFaults = 0
INVARIANT ServingCollectionExists
CHECK_DEADLOCK FALSE
