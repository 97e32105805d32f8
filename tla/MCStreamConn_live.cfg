SPECIFICATION FairSpec
CONSTANTS
    Callers = {1, 2}
    Scripts <- RecoveryScripts
    Timers = {1}
    MaxConns = 2
    MaxAttempts = 2
    AttemptCap = 4
    MaxPings = 1
    PromptTimer = FALSE
PROPERTIES LossIsResolved CloseReturnsUnlessBlocked
\* the client stops for good after Close, after giving up, or in a deadlock
CHECK_DEADLOCK FALSE
