SPECIFICATION Spec
CONSTANTS
    CommandLines <- MCLongLines
INVARIANTS
    FuseArgvEndsInNull
