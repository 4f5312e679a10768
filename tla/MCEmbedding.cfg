SPECIFICATION Spec
SYMMETRY Symmetry
CONSTANTS
  Segs = {s1}
  Versions = {1, 2}
  Base = "a"
  Targets = {"b"}
  Workers = {w1, w2}
  PageSize = 1
  MaxRev = 1
  MaxStarts = 2
  MaxJobs = 3
  MaxFaults = 1
INVARIANTS
  TypeOK
  PointerIsServing
  ServedMatchesCorpus
  ReceiptsHavePoints
PROPERTIES
  CutoverServesCorpus
  SettledJobsStay
CHECK_DEADLOCK FALSE
