SPECIFICATION Spec
CONSTANTS
    NoUser = NoUser
    NoClient = NoClient
    User = {u1, u2}
    Client = {a}
    Handler = {h1, h2}
    SendCap = 1
    QueueCap = 1
    MaxOps = 4
SYMMETRY Symmetry
CHECK_DEADLOCK FALSE
INVARIANTS TypeOK UpToDate
