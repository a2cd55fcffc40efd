SPECIFICATION Spec
CONSTANTS
    a1 = a1  a2 = a2  b1 = b1  b2 = b2  b3 = b3  A = A  B = B  pdb = pdb
    NoQuota = NoQuota
    Room = 4
    Pods = {a1, a2, b1, b2, b3}
    Namespaces = {A, B}
    Ns <- MCNs
    Priority <- MCPriority
    Importance <- MCImportance
    Total <- MCTotal
    Fits <- MCFits
    Budgets = {pdb}
    Guarded <- MCGuarded
    Allowed <- MCAllowed
    Preemptor <- MCPreemptor
    Specs <- MCSpecs
    SumMin <- MCSumMin
INVARIANTS TypeOK CandidateExecutable RemovedOnce NoNeedlessVictim BorrowersOnly
CHECK_DEADLOCK FALSE
