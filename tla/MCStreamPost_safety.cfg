SPECIFICATION FairSpec
CONSTANTS
    Posters = {p1, p2}
    First = p1
    MaxPosts = 2
    MaxDials = 1
    MaxConns = 2
    None = None
CONSTRAINTS FirstPostsFirst NotCrashed
INVARIANTS
    TypeOK TableIsExact OwnAnswer NoWaiterAfterDrain
PROPERTIES ImplementsRequestReply PostReturns
\* the program may crash, and it stops after Close
CHECK_DEADLOCK FALSE
