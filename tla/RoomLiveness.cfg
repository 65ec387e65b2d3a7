SPECIFICATION LiveSpec
CONSTANTS
    NoUser = NoUser
    User = {u1, u2}
    Proc = {p1, p2}
    Kinds <- LiveKinds
    Amounts <- One
    MinScore <- Low
    MaxScore <- High
    MaxTransfers = 1
    MaxChats = 1
PROPERTIES ChatFromMember RequestAnswered
