SPECIFICATION Spec
CONSTANTS
    a1 = a1  a2 = a2  a3 = a3  b1 = b1  b2 = b2  s = s  A = A  B = B
    NoGroup = NoGroup  NoPod = NoPod
    Label <- MCLabel
    Pods = {a1, a2, a3, s}
    Groups = {A}
    MinMember <- Three
    MinResources <- Two
    Capacity = 3
    GapDivisor = 2
    Faults = {"timeout", "bindfail", "nofit", "delete", "pgdelete", "restart", "earlyexpiry"}
SYMMETRY Symmetry
INVARIANTS TypeOK RoomForGang
