\* A delivery cancelled and replayed while its request is open.
SPECIFICATION Spec
CONSTANTS
  Message = {m1}
  Endpoint = {1}
  Proc = {p1}
  Slot = {s1, s2}
  BatchSize = 2
  Lease = 2
  Timeout = 1
  StartDelay = 0
  ClockLag = 1
  RatePeriod = 2
  RateLimit <- NoLimits
  Ops = {"post", "cancel", "replay"}
  MaxTime = 3
  BaseDelay = 1
  Factor = 2
  MaxDelay = 1
  MaxAttempts = 2
  JitterPercent = 0
  FailuresToOpen = 2
  Cooldown = 1
  MaxCooldown = 2
  FailuresToDisable = 3
INVARIANTS OneInFlight
CHECK_DEADLOCK FALSE
