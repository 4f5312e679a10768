SPECIFICATION Spec
CONSTANTS
  Reads = {r1}
  PlainWrites = {}
  QuizWrites = {x1}
  Workers = {w1, w2}
  Tasks = {t1, t2}
  Reqs = {q1}
  MaxCrashes = 0
  None = None
CHECK_DEADLOCK FALSE
INVARIANTS
  SucceededWriteHappened
  LogFollowsLifecycle
PROPERTY TerminalIsFinal
SYMMETRY Symmetry
