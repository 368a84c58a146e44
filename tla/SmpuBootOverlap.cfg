CONSTANTS
    AddrBits = 8
    MIN_REGIONSIZE = 8
    NumSmpus = 8
    FLASH_BASE_ADDRESS = 128
    SMPU_DYNAMIC <- MCDynamic
    SmpuTable <- MCSmpuTable
    AreaOf <- MCAreaOf
    Policies <- MCPolicies
    RomState <- MCRomState
    CY_PROT_SPM_DEFAULT <- SPM
    CY_PROT_HOST_DEFAULT <- HOST
    SYS_RAM_START = 224
    SYS_RAM_LIMIT = 255
    CoreAttrs <- MCPermissiveCore
    QueryBases <- MCStraddlingBases
    QuerySizes <- MCQuerySizes
    Fallible = TRUE
SPECIFICATION Spec
CHECK_DEADLOCK FALSE
INVARIANT HostDeniedOverlappingAreas
