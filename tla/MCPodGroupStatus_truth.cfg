SPECIFICATION FairSpec
CONSTANTS
    p1 = p1  p2 = p2  p3 = p3  f1 = f1  NoPod = NoPod
    Pods = {p1, p2}
    Foreign = {}
    MinMember = 1
    LateStart = FALSE
    Prompt = FALSE
    MaxLag = 1
    Faults = {"patchfail", "restart"}
INVARIANTS TypeOK NoOverclaim
PROPERTIES FinishedSettles
CHECK_DEADLOCK FALSE
