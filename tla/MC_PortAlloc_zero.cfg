CONSTANTS
    LOW = 1
    HIGH = 4
    Width = 3
    TTL = 3
    Sizes <- MCSizesWithZero
    MaxTime = 2
    MaxBindFails = 0
SPECIFICATION Spec
INVARIANT NoDoubleAllocation
