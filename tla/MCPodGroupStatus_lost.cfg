SPECIFICATION FairSpec
CONSTANTS
    p1 = p1  p2 = p2  p3 = p3  f1 = f1  NoPod = NoPod
    Pods = {p1, p2, p3}
    Foreign = {}
    MinMember = 3
    LateStart = FALSE
    Prompt = TRUE
    MaxLag = 1
    Faults = {}
PROPERTIES RunningSettles
CHECK_DEADLOCK FALSE
