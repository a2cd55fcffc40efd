SPECIFICATION Spec
CONSTANTS
    NumPods = 5
    NumNodes = 2
    MaxShort = 2
INVARIANTS CandidatesExecutable
CHECK_DEADLOCK FALSE
