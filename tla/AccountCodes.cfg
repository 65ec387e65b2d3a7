SPECIFICATION Spec
CONSTANTS
    Admin = Admin
    NoIdentity = NoIdentity
    NoCode = NoCode
    c1 = c1
    c2 = c2
    Identity = {Admin, u1}
    Code = {c1, c2}
    TargetRole <- Roles
    MaxUses <- Uses
    Proc = {p1, p2, p3}
    Kinds <- CodeKinds
SYMMETRY Symmetry
INVARIANTS TypeOK CodeAccounting RoleIsEarned
PROPERTIES EditIsKept CreatedOnce
