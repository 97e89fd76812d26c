\* Two runs over the checkout, each with any of its steps but removals failing
\* and killed anywhere.
CONSTANTS
    Requests <- SomeRequests
    Packages = {std_msgs, rcl}
    MaxRuns = 2
SPECIFICATION Spec
INVARIANTS
    LibraryIsGenuine
    AskedIsBuilt
CHECK_DEADLOCK FALSE
