CONSTANTS
    None = None
    SameName <- MCSameName
    Overlap <- MCOverlap
    Machine <- MCGateMachine
    Facts = {}
    Keys <- MCKeys
    Transports <- MCKeys
    Runs = {1}
    Approvals = {1, 2}
    Events <- MCEvents
    Tools = {"test", "release"}
    Default = "ship"
    MaxFaults = 0
    MaxWrites = 2
SPECIFICATION Spec
INVARIANT
    ReviewNeverSkipped
