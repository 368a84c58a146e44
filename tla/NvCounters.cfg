CONSTANTS
    NUM_NV_COUNTERS = 2
    MaxValue = 3
    ErasedWord = 0
    FaultModes <- CrashOnly
SPECIFICATION Spec
INVARIANT TypeOK
INVARIANT AckedDurable
INVARIANT MainValidWhileUp
PROPERTY AbstractSpec
