CONSTANTS
    None = None
    Unlimited = Unlimited
    o1 = o1
    o2 = o2
    o3 = o3
    r1 = r1
    r2 = r2
    Operations = {o1, o2, o3}
    Runs = {r1, r2}
    Values <- MCValues
    Events = {"GO", "FINISH"}
    Step <- MCStep
    First = "ready"
    Finals = {"done"}
    Limits = {0, 1, Unlimited}
    Subscriptions <- MCSubscriptions
    MonthLength = 2
    Created = 0
    Activated = 1
    MaxTime = 2
    MaxTransitions = 2
    MaxCounter = 2
SYMMETRY MCSymmetry
SPECIFICATION Spec
INVARIANTS
    CounterMatchesReceipts
    EachTransitionPaid
PROPERTIES
    AllowanceHonoured
    HoldIsExclusive
    StoppedIsNeverCharged
    ImplementsLedger
