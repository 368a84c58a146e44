CONSTANTS
    AddrBits = 8
    MIN_REGIONSIZE = 8
    NumSmpus = 3
    Pcs = {1, 2}
    UnitConfigs <- MCUnitConfigs
    QueryBases <- MCQueryBases
    QuerySizes <- MCQuerySizes
    UDIV0_TRAPS = FALSE
SPECIFICATION Spec
CHECK_DEADLOCK FALSE
INVARIANT TypeOK
INVARIANT PartialScanSound
INVARIANT TopFullCoverDecides
INVARIANT WrappingQueryDenied
