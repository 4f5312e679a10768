SPECIFICATION Spec
CONSTANTS
  Reads = {}
  PlainWrites = {x1}
  QuizWrites = {}
  Workers = {w1, w2}
  Tasks = {t1, t2}
  Reqs = {q1}
  MaxCrashes = 1
  None = None
INVARIANTS
  TypeOK
  WriteAtMostOnce
  EffectNeedsApproval
  CancelledWriteHasNoEffect
  SucceededWriteHappened
  OneTerminalEvent
  WriteRunsUnderOneTask
PROPERTY TerminalIsFinal
SYMMETRY Symmetry
CHECK_DEADLOCK FALSE
