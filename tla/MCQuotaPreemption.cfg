SPECIFICATION QFairSpec
CONSTANTS
    a1 = a1  a2 = a2  b1 = b1  b2 = b2  A = A  B = B  n1 = n1  n2 = n2
    NoQuota = NoQuota  NoNode = NoNode  NoCycle = NoCycle
    Growing = {A}
    MaxCordoned = 1
    Pods = {a1, a2, b1}
    Namespaces = {A, B}
    Ns <- MCNs
    Req <- MCReq
    Total <- MCTotal
    Specs <- MCSpecs
    InitSpec <- MCInit
    MaxEvents = 1
    Faults = {"raise"}
    Nodes = {n1, n2}
    Room <- MCRoom
    Priority <- MCPriority
    Importance <- MCImportance
INVARIANTS QuotaRespected Accounted EndedNotCounted EvictionSuffices
PROPERTIES Reclaims
CHECK_DEADLOCK FALSE
