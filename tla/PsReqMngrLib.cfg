CONSTANTS
    InitResults <- MCInitResults
    StorageResults <- MCStorageResults
    Uids <- MCUids
    Offsets = {0, 1}
    Sizes = {1, 3}
    WordBits = 4
    UidBits = 5
    TFM_PS_OEM_UID_MIN = 4
    TFM_PS_OEM_UID_NUM = 4
    CY_FB_CERTIFICATE_POLICY_ID_MIN = 8
    CY_FB_CERTIFICATE_POLICY_ID_MAX = 11
    Provisioned <- MCProvisioned
SPECIFICATION Spec
INVARIANT TypeOK
INVARIANT StorageOnlyAfterInit
INVARIANT CertReadExact
