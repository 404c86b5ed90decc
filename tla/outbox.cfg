SPECIFICATION FairSpec
CONSTANTS
  u1 = u1
  e1 = e1
  e2 = e2
  e3 = e3
  a1 = a1
  a2 = a2
  s1 = s1
  s2 = s2
  Backoff <- Doubling
  Users = {u1}
  Events = {e1, e2, e3}
  Addresses = {a1, a2}
  Senders = {s1, s2}
  Sites <- AllSites
  LeaseDuration = 1
  MaxAttempts = 2
  HistoryLimit = 1
  Capacity = 5
  MinuteLimit = 1
  MinuteLength = 1
  DayLength = 3
  QuotaRetention = 6
  Horizon = 7
CHECK_DEADLOCK FALSE
INVARIANTS
  DeliveredWasAccepted
  SendBudget
  QuotaKept
  KnownAcceptanceIsFinal
PROPERTIES
  SettledForGood
  HandedOutWithConsent
  EventuallySettled
  BacklogDrains
