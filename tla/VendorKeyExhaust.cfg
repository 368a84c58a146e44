CONSTANTS
    PSA_KEY_ID_VENDOR_MIN = 3
    CY_P64_KEY_SLOT_STATIC_MAX = 3
    CY_P64_KEY_SLOT_DEVICE_ECDSA = 1
    Owners = {p1, p2}
    RequestIds <- MCRequestIds
    VolatileIds <- MCVolatileIds
    KeyStorageSize = 2
    SlotStatus <- MCSlotStatus
SPECIFICATION Spec
INVARIANT NoOrphanKeys
