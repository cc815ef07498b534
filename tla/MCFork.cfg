CONSTANTS
    None = None
    SameName = {}
    Overlap = {}
    Machine <- MCMachine
    Facts = {}
    Keys <- MCKeys
    Transports <- MCPanes
    Runs = {1}
    Approvals = {}
    Events = {"SPLIT", "DONE", "PASS"}
    Tools = {}
    Default = "fan"
    MaxFaults = 1
    MaxWrites = 1
SPECIFICATION Spec
PROPERTIES
    JoinWaitsForAll
