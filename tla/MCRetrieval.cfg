SPECIFICATION RSpec
CONSTANTS
  Requests = {r1, r2}
  Points = {p1, p2}
  Rows = {q1, q2}
  MaxRevision = 2
SYMMETRY Symmetry
INVARIANTS
  RTypeOK
  AnswersAreWhole
  CacheIsCurrent
