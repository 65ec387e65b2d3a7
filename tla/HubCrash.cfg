SPECIFICATION Spec
CONSTANTS
    handler = handler
    cleaner = cleaner
    NoClient = NoClient
    Client = {a, b}
    Caster = {handler, cleaner}
    Unrecovered = {cleaner}
    SendCap = 1
    QueueCap = 1
SYMMETRY Symmetry
CHECK_DEADLOCK FALSE
INVARIANTS ProcessSurvives
