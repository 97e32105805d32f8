SPECIFICATION Spec
CONSTANTS
    Width = 16
    ReconnectWait = 10
    MaxWait = 600
    MinWait = 10
    MaxAttempts = 18
    AttemptCap = 20
INVARIANTS TypeOK DelayInRange DelayMatchesIdeal RetriesAreCapped
