CONSTANTS
    NoOne = NoOne
    Callers = {"c1", "c2"}
    Accounts = {"o1", "o2"}
    Conversing = {"o1"}
    OwnerCapacity = 1
    TotalCapacity = 1
    MaxSessions = 2
    MaxDecisions = 2
    NoServer = NoServer
    Listed <- MCListed
    ToolNames = {"a", "b", "c", "d"}
    MaxCalls = 2
    Parts = {"handles", "conversations", "servers"}
SPECIFICATION RemoteSpec
INVARIANTS
    NeverDetached
    ConsentNotRestored
    AnswerIsOwn
PROPERTY RunsStayPinned
CHECK_DEADLOCK FALSE
