SPECIFICATION Spec
CONSTANTS
    Users = {u1, u2}
    Keys = {k1}
    MaxSubs = 2
    None = None
INVARIANT NoDeafListener
\* the bound on Subscribe calls ends a behaviour
CHECK_DEADLOCK FALSE
