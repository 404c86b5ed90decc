SPECIFICATION Spec
CONSTANTS
  w1 = w1
  w2 = w2
  r1 = r1
  r2 = r2
  k1 = k1
  k2 = k2
  f1 = f1
  f2 = f2
  Watches = {w1, w2}
  Runners = {r1}
  Policies <- AnyPolicy
  Completions <- AnyResult
  Checks = {k1, k2}
  Fingerprints = {f1, f2}
  NoFingerprint = NoFingerprint
  NoCompletion = NoCompletion
  NoRunner = NoRunner
  Capabilities <- OneGrant
  LeaseDuration = 1
  ExecutionTimeout = 2
  RunnerTTL = 1
  RunnerRetention = 2
  MaxAttempts = 1
  HistoryLimit = 1
  Backoff <- Doubling
  MaxTime = 3
  MaxVersion = 2
  ClockStepsBack = FALSE
CONSTRAINT EvidenceOrFleet
CHECK_DEADLOCK FALSE
INVARIANTS
  TypeOK
  EventsHaveOneRun
  ArmedOneShotHasNotFired
  GrantsMeetRequirements
PROPERTIES
  ImplementsEvidence
