SPECIFICATION FairSpec
CONSTANTS
    handler = handler
    cleaner = cleaner
    NoClient = NoClient
    Client = {a, b}
    Caster = {handler}
    Unrecovered = {}
    SendCap = 1
    QueueCap = 1
CHECK_DEADLOCK FALSE
INVARIANTS TypeOK MembersAreOpen
PROPERTIES NobodyIsStuck LeaverIsRemoved SlowIsRemoved
