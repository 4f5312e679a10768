SPECIFICATION Spec
CONSTANTS
  Gateways = {"g"}
  Runs = {"a", "b"}
  Tenants = {"t"}
  Home <- MCHome
  Tenant <- MCTenant
  Limit = 1
  TenantLimit = 1
  QueueMax = 1
  MaxFaults = 3
INVARIANTS TypeOK SlotsAreExact WorkIsCovered
PROPERTIES SlotsComeBack
CHECK_DEADLOCK FALSE
