CONSTANTS
    NoScope = NoScope
    Sources = {"f", "g", "h"}
    PathOrder <- MCPathOrder
    TopLimit = 3
    Scout <- MCScout
    TestFiles = {"t", "u"}
    Labels = {"l", "m"}
    FileOfLabel <- MCFileOfLabel
    Cases <- MCCases
    MaxTries = 4
    TryTime = 2
    LaneTime = 2
    NoBaseline = NoBaseline
    NoPatch = NoPatch
    Candidates <- MCCandidates
    HypothesisScore <- MCHypothesisScore
    Patches = {"good", "wide", "tests", "stub"}
    PatchInfo <- MCPatchInfo
    Leavings <- MCLeavings
    TestOutputs <- MCTestOutputs
    Promoted <- MCPromoted
    Tests <- MCTests
    Label = {}
    Setups <- MCSetups
SPECIFICATION MCSpec
INVARIANT
    FailureIsHeard
CHECK_DEADLOCK FALSE
