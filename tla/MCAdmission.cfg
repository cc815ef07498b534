SPECIFICATION MCSpec
CONSTANTS
    None = None
    SameName = {}
    Overlap = {}
    Hooks = {h1}
    MaxNodes = 2
    CallOf <- MCCallOf
    Def <- MCDef
    Vectors <- MCVectors
    QueueCapacity = 1
    MaxIterations = 1
    MaxMoves = 1
    Concurrent = {"write", "ls"}
    MaxRequests = 2
INVARIANTS
    NoUngrantedEffect
    ParkedAdapterDenies
    ReceiptIsOwn
PROPERTY RequestsAnswered
CHECK_DEADLOCK FALSE
