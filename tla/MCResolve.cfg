SPECIFICATION FairSpec
CONSTANTS
  Reads = {r1}
  PlainWrites = {x1}
  QuizWrites = {}
  Workers = {w1}
  Tasks = {t1, t2}
  Reqs = {q1}
  MaxCrashes = 1
  None = None
CHECK_DEADLOCK FALSE
PROPERTIES AuthorisedReadIsResolved AnnouncedWriteIsResolved
