SPECIFICATION Spec
CONSTANTS
  Runs = {r1}
  Procs = {p1, p2}
  Calls = {c1, c2}
  MaxFence = 2
  None = None
SYMMETRY Symmetry
CHECK_DEADLOCK FALSE
INVARIANTS
  TypeOK
  HistoryFollowsFences
  OneOutputPerCall
  SuccessIsRecorded
PROPERTIES
  DoneCallIsNotDispatched
  RunStatusIsFinal
