\* Every sketch with every library it is built for, with calls that fail
\* for reasons of their own and without.
CONSTANTS
    DataWord = 4
    Second = 3
    Word = 8
    MaxTime = 20
SPECIFICATION FairSpec
INVARIANTS
    RunningIsComplete
    PrintedWithinASecond
PROPERTIES
    GapsAreLosses
    ReachesLoop
    HeardAgain
    ErrorLoopIsShown
