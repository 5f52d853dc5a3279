SPECIFICATION Spec
CONSTANTS
    CommandLines <- MCAllLines
INVARIANTS
    TypeOK
    AcceptedMountIsWellFormed
    PrefixCheckDecidesContainment
    FuseArgvWithinCapacity
    ForegroundIsPassedOn
