SPECIFICATION FairSpec
CONSTANTS
    Callers = {1, 2}
    Scripts <- SubscribeScripts
    Timers = {1}
    MaxConns = 2
    MaxAttempts = 1
    AttemptCap = 3
    MaxPings = 1
    PromptTimer = TRUE
PROPERTY ReconnectResubscribes
\* the client stops for good after Close, after giving up, or in a deadlock
CHECK_DEADLOCK FALSE
