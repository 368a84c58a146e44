CONSTANTS
    PSA_KEY_ID_VENDOR_MIN = 3
    CY_P64_KEY_SLOT_STATIC_MAX = 3
    CY_P64_KEY_SLOT_DEVICE_ECDSA = 1
    Owners = {attest, p1}
    ATTEST = attest
    RequestIds <- MCRequestIds
    VolatileIds <- MCVolatileIds
    KeyStorageSize = 2
    SlotStatus <- MCSlotStatus
    BOOT_SEED_SIZE = 2
    RandomOk = {TRUE, FALSE}
    MaxGens = 2
SPECIFICATION Spec
INVARIANT TypeOK
INVARIANT VendorKeysRecognised
INVARIANT SeedFullyRandom
