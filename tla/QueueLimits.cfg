\* Two messages fanned out to two endpoints, the first with a rate limit of one in two units.
SPECIFICATION Spec
CONSTANTS
  Message = {m1, m2}
  Endpoint = {1, 2}
  Proc = {p1}
  Slot = {s1, s2}
  BatchSize = 2
  Lease = 2
  Timeout = 1
  StartDelay = 0
  ClockLag = 0
  RatePeriod = 2
  RateLimit <- OneLimited
  Ops = {"post", "disable"}
  MaxTime = 2
  BaseDelay = 1
  Factor = 2
  MaxDelay = 1
  MaxAttempts = 2
  JitterPercent = 0
  FailuresToOpen = 2
  Cooldown = 1
  MaxCooldown = 2
  FailuresToDisable = 2
INVARIANTS RateSpacing OffMeansDrained
SYMMETRY Symmetry
CHECK_DEADLOCK FALSE
