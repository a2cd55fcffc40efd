SPECIFICATION FairSpec
CONSTANTS
    a1 = a1  a2 = a2  a3 = a3  b1 = b1  b2 = b2  s = s  A = A  B = B
    NoGroup = NoGroup  NoPod = NoPod
    Label <- MCLabel
    Pods = {a1, a2, a3, b1, b2}
    Groups = {A, B}
    MinMember <- Two
    MinResources <- Two
    Capacity = 5
    GapDivisor = 10
    Faults = {}
PROPERTIES GangsBound AdmitsWholeGangs
CHECK_DEADLOCK FALSE
