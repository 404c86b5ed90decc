SPECIFICATION FairSpec
CONSTANTS
  r1 = r1
  r2 = r2
  Runners = {r1, r2}
  NoRunner = NoRunner
  CallTimeout = 1
  RenewInterval = 1
  PollInterval = 1
  RegistrationInterval = 2
  JobTimeout = 3
  RunnerTTL = 4
  MaxAttempts = 2
  RetryDelay = 1
  SubmitAttempts = 2
  Sites <- AllSites
INVARIANTS
  StopsWhenCutOff
  OneExecutor
  AcknowledgedIsRecorded
  NeverSentAway
PROPERTIES
  RunSettles
