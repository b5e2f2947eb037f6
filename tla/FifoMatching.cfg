CONSTANTS
    MaxAmount = 5
    MaxResting = 4
    Profiles <- SomeProfiles
SPECIFICATION Spec
INVARIANTS
    LoopIsFifo
    NeverRefused
    ReturnsThePromise
CHECK_DEADLOCK FALSE
