SPECIFICATION Spec
CONSTANTS
  TextDocs = {"t"}
  SpecialDocs = {"s", "u"}
  LossyDocs = {"s"}
  MaxAsks = 2
  MaxRevision = 2
  MaxCrashes = 1
  MaxFaults = 2
INVARIANTS
  TypeOK
  OpenFenceServesOneGeneration
  ServedGenerationIsKept
  ExecutionsTellTheTruth
PROPERTIES
  ImplementsFence
CHECK_DEADLOCK FALSE
