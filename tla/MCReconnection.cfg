CONSTANTS
    WaitPeriod = 3
    ConnPeriod = 2
    PingTime = 1
    SpinTime = 1
    CallTime = 3
    TimerPeriod = 2
    DataWord = 2
    Faults = TRUE
    Cap = 17
SPECIFICATION Spec
INVARIANTS
    TypeOK
    OutageDetected
    StaleOnlyAfterShortOutage
    ConnectedIsComplete
PROPERTY ImplementsLifecycle
