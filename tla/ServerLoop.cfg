\* Two deliveries, two permits, two connections and one failure of the database.
SPECIFICATION Spec
CONSTANTS
  Delivery = {d1, d2}
  Concurrency = 2
  BatchSize = 1
  Connections = 2
  MaxAttempts = 2
  MaxFaults = 1
INVARIANTS PermitFindsConnection ClaimHasRoom LeasesAreCarried
PROPERTIES DueIsSettled StopsWhenAsked
CHECK_DEADLOCK FALSE
