SPECIFICATION Spec
CONSTANTS
    CommandLines <- MCCommandLines
    MaxOpenFiles <- MCMaxOpenFiles
INVARIANTS
    FailureOfProcessArgsShowsUsage
