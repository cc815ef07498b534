CONSTANTS
    NoState = NoState
    Files = {"f", "g"}
    Edits = {"p", "x", "b"}
    FileOf <- MCFileOf
    KindOf <- MCKindOf
    Wordy = {"b"}
    BankSize = 2
    EarlyStopScore = 100
    OversizeLines = 20
    SafetyBudget = 2
    ReproducerBlocks = 1
    GeneratedMachine <- MCGenerated
    Modes <- MCModes
    Grace = 1
    Limit <- MCLimit
    CallsPerTurn = 1
    MaxReads = 1
    Signatures = {"s"}
    Signals = {"regression_pass", "task_improved", "regression_failure", "unavailable"}
    Deltas = {"fixed", "changed", "unchanged", "unavailable"}
    Starts = {"tournament", "raw", "generated", "unscoped", "control", "aborted", "causal", "rawCausal"}
SPECIFICATION MCSpec
INVARIANTS
    CompletedIsClean
    BestTreeHandedOver
PROPERTIES
    GivenUpStaysGivenUp
    HarnessEnds
CHECK_DEADLOCK FALSE
