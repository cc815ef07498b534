CONSTANTS
    Null = Null
    sa = sa
    sb = sb
    Subscribers = {sa, sb}
    RunOf <- MCRunOf
    CallbackOf <- MCCallbackOf
    EventRuns = {"r1"}
    Observations <- MCObservations
    Grants = {"g"}
    Secrets = {"k", "l"}
    Workers = {"w1", "w2"}
    SubscriptionLimit = 1
    MaxAttempts = 2
    MaxEvents = 2
    MaxFaults = 1
    NoSheet = NoSheet
    NoRun = NoRun
    LedgerRuns = {"run"}
    LedgerStates = {"A"}
    Ranks = {1, 3}
    Invocations = {1}
    MaxTokens = 1
    MaxEpoch = 2
    MaxSittings = 2
    MaxReports = 2
    MaxTools = 1
    NoPrompt = NoPrompt
    t1 = t1
    t2 = t2
    Transports = {t1, t2}
    FormCapable = {t1}
    Requests = {"q"}
    TransportLimit = 2
    MaxPrompts = 2
    MaxApprovals = 2
    MaxRevisions = 4
    MaxOutages = 1
    Services = {"delivery", "rotation", "batch", "usage", "native"}
SPECIFICATION ServicesSpec
INVARIANTS
    SendIsAuthorized
    DuplicateNeedsFault
    AppliedIsApproved
PROPERTIES
    DeliveriesSettle
    TotalsOnlyImprove
    PromptsEnd
CHECK_DEADLOCK FALSE
