SPECIFICATION FairSpec
CONSTANTS
    CommandLines <- MCCommandLines
    MaxOpenFiles <- MCMaxOpenFiles
INVARIANTS
    ExitStatusTellsOutcome
PROPERTIES
    EveryRunServesOrEnds
