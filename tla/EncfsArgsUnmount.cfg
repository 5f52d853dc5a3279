SPECIFICATION Spec
CONSTANTS
    CommandLines <- MCUnmountLines
INVARIANTS
    UnmountTakesItsMountPoint
