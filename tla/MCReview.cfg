CONSTANTS
    None = None
    SameName <- MCSameName
    Overlap <- MCOverlap
    Machine <- MCMachine
    Facts = {}
    Keys <- MCKeys
    Transports <- MCKeys
    Runs = {1}
    Approvals = {1, 2}
    Events <- MCEvents
    Tools = {"test"}
    Default = "ship"
    MaxFaults = 2
    MaxWrites = 2
SPECIFICATION Spec
INVARIANTS
    TypeOK
    GateHonoured
    ApprovalAuditedOnce
    AuditImpliesApproved
    ParkIsDurable
