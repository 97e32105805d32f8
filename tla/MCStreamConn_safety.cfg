SPECIFICATION Spec
CONSTANTS
    Callers = {1, 2}
    Scripts <- MixedScripts
    Timers = {1, 2}
    MaxConns = 2
    MaxAttempts = 1
    AttemptCap = 3
    MaxPings = 1
    PromptTimer = FALSE
INVARIANTS
    TypeOK OnePumpGeneration NoSocketLeak OneWriter ConnectedIsWatched
    ReconnectNotLost
\* the client stops for good after Close, after giving up, or in a deadlock
CHECK_DEADLOCK FALSE
