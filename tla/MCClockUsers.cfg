\* A register of 8 values that wraps 6 times, a second of 6 microseconds and 3
\* milliseconds: the period is no multiple of the second, as 2^32 is no
\* multiple of 1000000.
CONSTANTS
    Word = 8
    SecUs = 6
    MaxLaps = 6
    MsUs = 2
    MS = 2
    Timeouts = {0, 1, 3}
    Pass = 3
SPECIFICATION UsersSpec
INVARIANTS
    TypeOK
    ClockNeverAhead
    ClockLagWhilePolled
PROPERTIES
    ClockNeverGoesBack
    ReadKeepsTrueTime
    PeriodKept
