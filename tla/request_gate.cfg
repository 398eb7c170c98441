SPECIFICATION Spec
CONSTANTS
    w1 = w1  w2 = w2  p1 = p1  p2 = p2  k1 = k1  d1 = d1  d2 = d2  NONE = NONE
    Workers <- TwoWorkers
    Processes <- TwoProcesses
    Keys <- OneKey
    Payloads <- TwoPayloads
    Limit = 1
    MaxHits = 2
    Calls = {"fault", "crash"}
SYMMETRY Symmetry
INVARIANTS ReplayIsOwnAnswer AnsweredNotRepeated StuckByFaultOnly
PROPERTY RefusedHasExpiry
