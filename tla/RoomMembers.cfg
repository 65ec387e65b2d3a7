SPECIFICATION Spec
CONSTANTS
    NoUser = NoUser
    User = {u1, u2, u3}
    Proc = {p1, p2}
    Kinds <- MemberKinds
    Amounts <- Signed
    MinScore <- Low
    MaxScore <- High
    MaxTransfers = 1
    MaxChats = 0
SYMMETRY Symmetry
INVARIANTS OwnerIsPresent
PROPERTIES RecordIsSnapshot RoomSpec
