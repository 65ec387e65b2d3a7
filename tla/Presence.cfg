SPECIFICATION FairSpec
CONSTANTS
    Room = {r1, r2}
    User = {u1, u2}
    Window = 1
INVARIANTS TypeOK OnlineIffPresent ActiveIffInhabited NobodyIsOverlooked
PROPERTIES SilentMemberLeaves
