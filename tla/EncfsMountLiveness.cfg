CONSTANTS
    IdleTimeouts <- MCIdleTimeouts
    MaxOpenFiles <- MCMaxOpenFiles
SPECIFICATION FairSpec
PROPERTIES
    ShutdownTerminates
    IdleEventuallyUnmounts
