SPECIFICATION Spec
CONSTANTS
    NoUser = NoUser
    User = {u1, u2}
    Proc = {p1, p2}
    Second = 1
    Minute = 2
    MinuteLimit = 2
    RunLimit = 2
    PageSize = 1
    MaxTime = 3
    MaxMessages = 4
SYMMETRY Symmetry
INVARIANTS TypeOK OncePerSecond MinuteHoldsFew NoLongRun PagingIsComplete
