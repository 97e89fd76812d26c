CONSTANTS
    Requests <- SomeRequests
    Packages = {std_msgs, rcl}
    MaxRuns = 1
SPECIFICATION Spec
INVARIANT LibraryAsDocumented
CHECK_DEADLOCK FALSE
