CONSTANTS
    LOW = 1
    HIGH = 4
    Width = 3
    TTL = 3
    Sizes <- MCSizes
    MaxTime = 4
    MaxBindFails = 1
SPECIFICATION Spec
INVARIANT TypeOK
INVARIANT NoDoubleAllocation
INVARIANT ContainsAgreesWithOverlap
