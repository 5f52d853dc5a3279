SPECIFICATION Spec
CONSTANTS
    CommandLines <- MCPathLines
INVARIANTS
    RawDirNeverUnderMountPoint
