SPECIFICATION Spec
CONSTANTS
    NumPods = 4
    NumNodes = 2
    MaxShort = 2
INVARIANTS AllCombinationsTried
CHECK_DEADLOCK FALSE
