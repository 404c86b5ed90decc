SPECIFICATION Spec
CONSTANTS
    u1 = u1 u2 = u2 c1 = c1 c2 = c2 e1 = e1 e2 = e2 w1 = w1 w2 = w2
    r1 = r1 r2 = r2 b1 = b1 b2 = b2
    NoBot = NoBot NoLink = NoLink NoChat = NoChat NoRunner = NoRunner
    Users = {u1, u2}
    Chats = {c1}
    Events = {e1}
    Workers = {w1, w2}
    Sites <- AllSites
    LeaseDuration = 1 RunnerTTL = 1 MaxAttempts = 1 RequestLife = 1
    Backoff <- OneAttempt
    FloodWaits = {1}
    IdleReset = 1
    MaxFence = 2 MaxNonce = 2 DrainLimit = 1
CHECK_DEADLOCK FALSE
INVARIANTS
    ChatHasOneUser
PROPERTIES
    FloodWaitKept
    RowsKeepToTheirLink
    DisconnectIsFinal
