\* One delivery: every operation but cancel, delete and bulk replay; crashes and failed writes.
SPECIFICATION Spec
CONSTANTS
  Message = {m1}
  Endpoint = {1}
  Proc = {p1}
  Slot = {s1, s2}
  BatchSize = 2
  Lease = 3
  Timeout = 1
  StartDelay = 1
  ClockLag = 1
  RatePeriod = 2
  RateLimit <- NoLimits
  Ops = {"post", "replay", "resume", "disable", "enable", "crash", "dbfail"}
  MaxTime = 6
  BaseDelay = 1
  Factor = 2
  MaxDelay = 1
  MaxAttempts = 2
  JitterPercent = 100
  FailuresToOpen = 1
  Cooldown = 2
  MaxCooldown = 3
  FailuresToDisable = 3
INVARIANTS TypeOK OneInFlight WaitIsBounded CircuitHasCause
PROPERTIES CountedOnce FollowsLifecycle
SYMMETRY SlotSymmetry
CHECK_DEADLOCK FALSE
