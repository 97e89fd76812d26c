\* Interrupts of one, two or three samples, seven in all: several between any
\* two accesses of several passes.
CONSTANTS
    BlockSizes = {1, 2, 3}
    MaxSamples = 7
SPECIFICATION Spec
INVARIANTS
    TypeOK
    LevelNotOverstated
    SampleUsedOnce
