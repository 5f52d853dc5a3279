CONSTANTS
    IdleTimeouts <- MCIdleTimeouts
    MaxOpenFiles <- MCMaxOpenFiles
SPECIFICATION Spec
INVARIANTS
    TypeOK
    RootOutlivesMonitor
    NoLostWakeup
    NoPollOnceSignalled
    MonitorExitsOnlyWhenStopped
PROPERTIES
    FailureReportReachesOpenStderr
    ImplementsLifecycle
