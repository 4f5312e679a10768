SPECIFICATION Spec
CONSTANTS
  Runs = {r1, r2}
  Procs = {p1, p2}
  Calls = {}
  MaxFence = 1
  None = None
SYMMETRY Symmetry
CHECK_DEADLOCK FALSE
INVARIANT OneOwnedRun
