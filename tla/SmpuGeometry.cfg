\* calc_smpu_params against the reference, on ranges below the top of memory
CONSTANTS
    AddrBits = 8
    MIN_REGIONSIZE = 8
    MAX_REGIONSIZE = 64
    InputOk <- LowInput
SPECIFICATION Spec
CHECK_DEADLOCK FALSE
INVARIANT TypeOK
INVARIANT SolverSound
INVARIANT SolverComplete
INVARIANT SolverMinimal
