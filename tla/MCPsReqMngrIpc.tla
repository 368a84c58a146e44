--------------------------- MODULE MCPsReqMngrIpc ---------------------------
EXTENDS PsReqMngrIpc

\* PSA_SUCCESS, PSA_ERROR_DOES_NOT_EXIST
MCStorageResults == {0, -140}

\* PSA_SUCCESS, PSA_ERROR_GENERIC_ERROR
MCInitResults == {0, -132}
====
