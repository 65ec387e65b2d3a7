SPECIFICATION Spec
CONSTANTS
    NoUser = NoUser
    User = {u1, u2}
    Proc = {p1, p2}
    Kinds <- MoneyKinds
    Amounts <- Signed
    MinScore <- Low
    MaxScore <- High
    MaxTransfers = 2
    MaxChats = 0
SYMMETRY Symmetry
INVARIANTS TypeOK ScoreIsLedger
PROPERTIES UndoneOnce RoomSpec
