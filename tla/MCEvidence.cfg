CONSTANTS
    NoState = NoState
    Files = {"f", "g"}
    Edits = {"p", "b"}
    FileOf <- MCFileOf
    KindOf <- MCKindOf
    Wordy = {"b"}
    BankSize = 2
    EarlyStopScore = 100
    OversizeLines = 20
    SafetyBudget = 2
    ReproducerBlocks = 1
    GeneratedMachine <- MCGenerated
    Modes <- MCModes
    Grace = 1
    Limit <- MCLimit
    CallsPerTurn = 2
    MaxReads = 2
    Signatures = {"s"}
    Signals = {"regression_failure"}
    Deltas = {"unchanged"}
    Starts = {"patient"}
SPECIFICATION MCSpec
INVARIANT
    EvidenceIsOwn
CHECK_DEADLOCK FALSE
