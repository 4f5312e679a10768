SPECIFICATION Spec
CONSTANTS
  TextDocs = {"t"}
  SpecialDocs = {"s", "u"}
  LossyDocs = {}
  MaxAsks = 3
  MaxRevision = 1
  MaxCrashes = 2
  MaxFaults = 0
PROPERTIES
  FenceReopens
CHECK_DEADLOCK FALSE
