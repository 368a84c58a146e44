\* calc_smpu_params on every range, including those that end at the top of memory
CONSTANTS
    AddrBits = 8
    MIN_REGIONSIZE = 8
    MAX_REGIONSIZE = 64
    InputOk <- AnyInput
SPECIFICATION Spec
CHECK_DEADLOCK FALSE
INVARIANT SolverSound
