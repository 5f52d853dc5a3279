CONSTANTS
    IdleTimeouts <- MCIdleTimeouts
    MaxOpenFiles <- MCMaxOpenFiles
SPECIFICATION Spec
INVARIANTS
    JoinOnlyCreatedThread
