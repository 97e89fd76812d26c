\* A millis() of 7 values: every read below starts at every distance from the
\* wrap.  Two datagrams in a library that holds two, delays that may be late.
CONSTANTS
    Datagrams = {d1, d2}
    Nothing = Nothing
    MaxInbox = 2
    MaxDelay = 2
    Word = 7
    Timeouts = {0, 1, 3, 5}
SPECIFICATION Spec
INVARIANT OpenedIsBound
