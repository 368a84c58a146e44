---------------------------- MODULE PsReqMngrLib ----------------------------
(***************************************************************************)
(* The Protected Storage request manager in library mode (tfm_ps_req_mngr.c *)
(* without TFM_PSA_API).  tfm_ps_req_mngr_init does nothing; each secure   *)
(* function first calls ps_check_init, which runs tfm_ps_init once it has  *)
(* succeeded and never again.  Then the handler checks the number and      *)
(* sizes of its vectors, asks the core for the caller's client id, and     *)
(* calls the storage back end (tfm_protected_storage.c, not in this        *)
(* repository).  The back end hands the OEM UIDs (is_tfm_ps_oem_uid) to   *)
(* the platform's certificate store (PlatformPs) and the others to the PS *)
(* file system, whose status is a choice among StorageResults.  Secure     *)
(* functions run one at a time.                                            *)
(***************************************************************************)
EXTENDS Integers

CONSTANTS
    InitResults,     \* what tfm_ps_init can return (psa_status_t)
    StorageResults,  \* what tfm_ps_set/get/get_info/remove can return
    Uids, Offsets, Sizes,  \* uid, data_offset and out_vec[0].len of requests
    WordBits, UidBits, TFM_PS_OEM_UID_MIN, TFM_PS_OEM_UID_NUM,
    CY_FB_CERTIFICATE_POLICY_ID_MIN, CY_FB_CERTIFICATE_POLICY_ID_MAX, Provisioned

P == INSTANCE PlatformPs

PSA_SUCCESS == 0
PSA_ERROR_PROGRAMMER_ERROR == -129
PSA_ERROR_GENERIC_ERROR == -132
NoStatus == -1   \* not a psa_status_t: no request returned yet

Handlers == {"set", "get", "get_info", "remove", "get_support"}

VARIABLES
    ps_is_init,   \* the static flag of ps_check_init
    initOk,       \* history: a tfm_ps_init call has succeeded
    earlyOp,      \* history: a storage function ran before tfm_ps_init succeeded
    returned,     \* returned[h]: what the last call of handler h returned
    read          \* history: the last certificate a get copied to its client

vars == <<ps_is_init, initOk, earlyOp, returned, read>>

NoRead == [uid |-> 0, size |-> 0, cert |-> P!NoCert, len |-> 0]

\* A plausible slip: tfm_ps_init's result is ignored.
PsCheckInitIgnoresResult(isInit, r) == [ok |-> TRUE, isInit |-> TRUE]

\* ps_check_init, with r the result tfm_ps_init would return: whether PS
\* is initialised afterwards and the new flag.
PsCheckInit(isInit, r) ==
    IF isInit THEN [ok |-> TRUE, isInit |-> TRUE]
    ELSE [ok |-> r = PSA_SUCCESS, isInit |-> r = PSA_SUCCESS]

\* What tfm_platform_ps_{set,get,get_info,remove} return for handler h.
OemStatus(h, uid, offset, size, sysOk) ==
    CASE h = "set" -> P!TfmPlatformPsSet
      [] h = "remove" -> P!TfmPlatformPsRemove
      [] h = "get" -> P!TfmPlatformPsGet(uid, offset, size, sysOk).st
      [] h = "get_info" -> P!TfmPlatformPsGetInfo(uid, sysOk).st

\* A plausible slip: tfm_ps_get_support_req returns the flags it wrote
\* (PSA_STORAGE_SUPPORT_SET_EXTENDED = 1).
OpStatusSupportFlags(h, uid, offset, size, sysOk) ==
    IF h = "get_support" THEN {1}
    ELSE IF P!IsTfmPsOemUid(uid) THEN {OemStatus(h, uid, offset, size, sysOk)}
    ELSE StorageResults

\* What the final call returns: tfm_ps_get_support_req returns PSA_SUCCESS;
\* the others return the storage function's status, the platform's for an
\* OEM uid.
OpStatus(h, uid, offset, size, sysOk) ==
    IF h = "get_support" THEN {PSA_SUCCESS}
    ELSE IF P!IsTfmPsOemUid(uid) THEN {OemStatus(h, uid, offset, size, sysOk)}
    ELSE StorageResults

\* The arguments that reach the back end and change what it does: the
\* offset and buffer size of a get, and whether the provisioning syscall
\* succeeds, matter only for OEM UIDs.
ArgsOf(h, uid) ==
    IF P!IsTfmPsOemUid(uid) /\ h = "get"
    THEN [offset: Offsets, size: Sizes, sysOk: BOOLEAN]
    ELSE IF P!IsTfmPsOemUid(uid) /\ h = "get_info"
    THEN [offset: {0}, size: {0}, sysOk: BOOLEAN]
    ELSE {[offset |-> 0, size |-> 0, sysOk |-> TRUE]}

\* tfm_ps_{set,get,get_info,remove,get_support}_req(h): argsOk abstracts
\* the in_len/out_len/size checks, idOk tfm_core_get_caller_client_id
\* (get_support asks for no client id).  A request that passes them calls
\* the back end with the uid and arguments it read from its vectors.
Request(h) ==
    \E r \in InitResults, argsOk \in BOOLEAN, idOk \in BOOLEAN :
        LET ci == PsCheckInit(ps_is_init, r)
            ran == ~ps_is_init          \* tfm_ps_init was called
            reachesOp == ci.ok /\ argsOk /\ (idOk \/ h = "get_support")
        IN
        /\ ps_is_init' = ci.isInit
        /\ initOk' = (initOk \/ (ran /\ r = PSA_SUCCESS))
        /\ earlyOp' = (earlyOp \/ (reachesOp /\ ~initOk'))
        /\ \/ /\ ~reachesOp
              /\ returned' = [returned EXCEPT ![h] = IF ~ci.ok THEN PSA_ERROR_GENERIC_ERROR
                                                    ELSE PSA_ERROR_PROGRAMMER_ERROR]
              /\ UNCHANGED read
           \/ /\ reachesOp
              /\ \E uid \in Uids : \E a \in ArgsOf(h, uid) :
                    LET g == P!TfmPlatformPsGet(uid, a.offset, a.size, a.sysOk) IN
                    /\ \E st \in OpStatus(h, uid, a.offset, a.size, a.sysOk) :
                          returned' = [returned EXCEPT ![h] = st]
                    /\ read' = IF h = "get" /\ P!IsTfmPsOemUid(uid) /\ g.st = PSA_SUCCESS
                               THEN [uid |-> uid, size |-> a.size, cert |-> g.cert, len |-> g.len]
                               ELSE read

Init ==
    /\ ps_is_init = FALSE
    /\ initOk = FALSE
    /\ earlyOp = FALSE
    /\ returned = [h \in Handlers |-> NoStatus]
    /\ read = NoRead

TfmPsSetReq        == Request("set")
TfmPsGetReq        == Request("get")
TfmPsGetInfoReq    == Request("get_info")
TfmPsRemoveReq     == Request("remove")
TfmPsGetSupportReq == Request("get_support")

Next ==
    \/ TfmPsSetReq
    \/ TfmPsGetReq
    \/ TfmPsGetInfoReq
    \/ TfmPsRemoveReq
    \/ TfmPsGetSupportReq

Spec == Init /\ [][Next]_vars

-----------------------------------------------------------------------------
TypeOK ==
    /\ ps_is_init \in BOOLEAN
    /\ initOk \in BOOLEAN
    /\ earlyOp \in BOOLEAN
    /\ returned \in [Handlers -> {NoStatus, PSA_SUCCESS, PSA_ERROR_PROGRAMMER_ERROR,
                                  PSA_ERROR_GENERIC_ERROR, P!PSA_ERROR_NOT_PERMITTED,
                                  P!PSA_ERROR_INVALID_ARGUMENT, P!PSA_ERROR_BUFFER_TOO_SMALL,
                                  P!PSA_ERROR_STORAGE_FAILURE} \cup StorageResults]
    /\ read \in [uid: Uids \cup {0}, size: Sizes \cup {0},
                 cert: DOMAIN Provisioned \cup {P!NoCert}, len: Nat]

\* No request reaches the storage back end before tfm_ps_init succeeded,
\* through any sequence of failing initialisations and bad arguments.
StorageOnlyAfterInit == ~earlyOp

\* A certificate a get hands to its client is the one the policy holds for
\* that OEM uid (policy id CY_FB_CERTIFICATE_POLICY_ID_MIN + uid -
\* TFM_PS_OEM_UID_MIN, in plain integers), whole, and no longer than the
\* client's out_vec: ps_req_mngr_write_asset_data copies cert_length bytes
\* into it.
CertReadExact ==
    read # NoRead =>
        /\ read.cert = CY_FB_CERTIFICATE_POLICY_ID_MIN + read.uid - TFM_PS_OEM_UID_MIN
        /\ read.cert \in DOMAIN Provisioned
        /\ read.len = Provisioned[read.cert]
        /\ read.len <= read.size

====
