\* Reads of up to four bytes through a buffer of three, which overflows.
CONSTANTS
    ReadTimeouts <- SomeTimeouts
    Lengths <- SomeLengths
    Default = 5
    BufferSize = 3
SPECIFICATION SerialSpec
INVARIANTS
    SerialTypeOK
    WaitsForSilence
