\* A code with a case of its own, which others follow, and one that has none.
CONSTANTS
    Codes = {1, 3}
    MaxSteps = 2
SPECIFICATION ActivitySpec
INVARIANTS
    TypeOK
    EdgeIsServed
    LatestActivityShown
    SensorIsSet
PROPERTY NotDeaf
