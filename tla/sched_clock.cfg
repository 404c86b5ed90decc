SPECIFICATION Spec
CONSTANTS
  w1 = w1
  w2 = w2
  r1 = r1
  r2 = r2
  k1 = k1
  k2 = k2
  f1 = f1
  f2 = f2
  Watches = {w1}
  Runners = {r1}
  Policies <- ContinuousOnly
  Completions <- PassFailError
  Checks = {k1}
  Fingerprints = {f1}
  NoFingerprint = NoFingerprint
  NoCompletion = NoCompletion
  NoRunner = NoRunner
  Capabilities <- NoGrants
  LeaseDuration = 1
  ExecutionTimeout = 1
  RunnerTTL = 1
  RunnerRetention = 2
  MaxAttempts = 2
  HistoryLimit = 1
  Backoff <- Doubling
  MaxTime = 3
  MaxVersion = 1
  ClockStepsBack = TRUE
CHECK_DEADLOCK FALSE
INVARIANTS
  RunIdsNeverReused
  CooldownSpacing
