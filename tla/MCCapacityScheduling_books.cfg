SPECIFICATION Spec
CONSTANTS
    a1 = a1  a2 = a2  b1 = b1  b2 = b2  A = A  B = B
    NoQuota = NoQuota
    Pods = {a1, a2}
    Namespaces = {A}
    Ns <- MCNs
    Req <- MCReq
    Total <- MCTotal
    Specs <- MCSpecs
    InitSpec <- MCInit
    MaxEvents = 2
    Faults = {"spec", "quota", "lostbind", "restart"}
INVARIANTS TypeOK UsedMatchesPods
