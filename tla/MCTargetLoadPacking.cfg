SPECIFICATION TLPSpec
CONSTANTS
    p1 = p1  p2 = p2  p3 = p3  n1 = n1  n2 = n2
    NoNode = NoNode
    None = None
    Pods = {p1, p2, p3}
    Nodes = {n1}
    Second = 2
    Interval = 2
    CleanupEvery = 3
    MaxTime = 7
    PodSpec <- MCPodSpec
    Multiplier <- OneAndAHalf
    DefaultRequests = 1
    Target = 40
    Capacity <- Ten
    Utils = {0, 35, 60, 100}
INVARIANTS TLPTypeOK OldestFirst CachedOnce RecentPredicted ScoreInRange PackedToTarget
CHECK_DEADLOCK FALSE
