--------------------------- MODULE MCPsReqMngrLib ---------------------------
EXTENDS PsReqMngrLib, TLC

\* PSA_SUCCESS, PSA_ERROR_DOES_NOT_EXIST
MCStorageResults == {0, -140}

\* PSA_SUCCESS, PSA_ERROR_GENERIC_ERROR
MCInitResults == {0, -132}

\* With the OEM UIDs 4..7 and certificate ids 8..11 (0x100..0x1FF and
\* 0x200..0x2FF scaled): ids 8 and 11 are provisioned, 9 is not.  The UIDs
\* are a file-system one, the OEM range's ends, an unprovisioned one, one
\* past the range, and 20, which truncates to the OEM uid 4 in 4 bits.
MCProvisioned == 8 :> 2 @@ 11 :> 3
MCUids == {1, 4, 5, 7, 8, 20}
=============================================================================
