SPECIFICATION DispatchSpec
CONSTANTS
    Users = {u1, pump}
    Pump = pump
    Keys <- TradesKeys
    MaxSubs = 1
    MaxWire = 1
    None = None
INVARIANT ListenersAreServed
\* the bound on Subscribe calls ends a behaviour
CHECK_DEADLOCK FALSE
