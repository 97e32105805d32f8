SPECIFICATION DispatchSpec
CONSTANTS
    Users = {u1, pump}
    Pump = pump
    Keys <- MCKeys
    MaxSubs = 2
    MaxWire = 1
    None = None
INVARIANTS
    TypeOK RegistryIsExact CloseIsIdempotent NoOrphanedStream
    DispatchTypeOK LegibleFeedsAreServed CrosstalkIsKnown RemovedHearsNothing
\* the bound on Subscribe calls ends a behaviour
CHECK_DEADLOCK FALSE
PROPERTY DispatchEnds
CONSTRAINT FirstKeysFirst
