CONSTANTS
    None = None
    SameName = {}
    Overlap = {}
    Machine <- MCMachine
    Facts = {"clean"}
    Keys <- MCKeys
    Transports <- MCKeys
    Runs = {1, 2}
    Approvals = {1}
    Events = {"SUBMIT", "GIVE_UP", "SCAN", "BACK"}
    Tools = {}
    Default = "release"
    MaxFaults = 1
    MaxWrites = 1
SPECIFICATION Spec
CONSTRAINT OneWorkflow
INVARIANTS
    AuditInOwnRun
    PausedIsResumable
    StateDefined
    ReturnIsLocal
    SubflowReturns
    RunKeepsWorkflow
