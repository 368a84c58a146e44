CONSTANTS
    AddrBits = 8
    MIN_REGIONSIZE = 8
    NumSmpus = 8
    FLASH_BASE_ADDRESS = 128
    SMPU_DYNAMIC <- MCDynamic
    SmpuTable <- MCSmpuTable
    AreaOf <- MCAreaOf
    Policies <- MCPolicies
    RomState <- MCRomState
    CY_PROT_SPM_DEFAULT <- SPM
    CY_PROT_HOST_DEFAULT <- HOST
    SYS_RAM_START = 224
    SYS_RAM_LIMIT = 255
    CoreAttrs <- MCCoreAttrs
    QueryBases <- MCQueryBases
    QuerySizes <- MCQuerySizes
    Fallible = TRUE
    WordBits = 2
    IPC_SYNC_MAGIC = 1
    WdtBuilds = {TRUE, FALSE}
    ExtClkBuilds = {TRUE, FALSE}
    DefaultTimeout = 2
    WdgMaxTimeout = 3
    BootConfigs <- MCBootConfigs
    ExtClkBlocks <- MCExtClkBlocks
    ProvisioningResults = {TRUE, FALSE}
    MaxNsMsgs = 1
    TestModes = {FALSE, TRUE}
    CY_P64_CM4_ROM_LOOP_ADDR = romLoop
    NS_VTOR = nsVtor
    VTOR_AT_START = vtorAtStart
    Cm4StartModes = {"DISABLED", "RESET", "ENABLED"}
SPECIFICATION PlatformSpec
CHECK_DEADLOCK FALSE
INVARIANT PlatformTypeOK
INVARIANT BootLocksEveryUnit
INVARIANT AreasExactlyProtected
INVARIANT HostDeniedInAreas
INVARIANT SpmAccessInAreas
INVARIANT SyncOnlyOnReply
INVARIANT NsBootsFromItsVectorTable
INVARIANT WdtArmedPerPolicy
PROPERTY RomUnitsUntouched
PROPERTY HungImageReset
PROPERTY NsSyncHeard
