SPECIFICATION Spec
CONSTANTS
    Posters = {p1}
    MaxDials = 1
    First = p1
    MaxPosts = 1
    MaxConns = 1
    None = None
INVARIANT NoSendOnClosed
CHECK_DEADLOCK FALSE
