\* Two datagrams in a library that holds two, delays that may be late.
CONSTANTS
    Datagrams = {d1, d2}
    Nothing = Nothing
    MaxInbox = 2
    MaxDelay = 2
    Timeouts <- ReadTimeouts
SPECIFICATION Spec
INVARIANTS
    ReadKeepsTime
    PendingIsRead
    OpenedIsBound
PROPERTY ReadsImplementQueue
