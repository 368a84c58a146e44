CONSTANTS
    NUM_NV_COUNTERS = 2
    MaxValue = 3
    ErasedWord = 0
    FaultModes <- CrashOrFail
SPECIFICATION Spec
INVARIANT AckedDurable
