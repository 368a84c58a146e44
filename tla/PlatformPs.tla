----------------------------- MODULE PlatformPs -----------------------------
(***************************************************************************)
(* The certificate store of the PSoC64 port (tfm_platform_ps.c): the OEM   *)
(* UIDs of Protected Storage name the certificates provisioned in the     *)
(* policy, read through the cy_p64_get_provisioning_details syscall.  The *)
(* functions keep no state; each is an operator giving what it returns.   *)
(*                                                                         *)
(* uint32_t is WordBits wide and psa_storage_uid_t (uint64_t) UidBits      *)
(* wide; the constants keep the ratios of the C ones (an OEM range of as  *)
(* many UIDs as there are certificate ids).                                *)
(***************************************************************************)
EXTENDS Integers

CONSTANTS
    WordBits, UidBits,
    TFM_PS_OEM_UID_MIN, TFM_PS_OEM_UID_NUM,
    CY_FB_CERTIFICATE_POLICY_ID_MIN, CY_FB_CERTIFICATE_POLICY_ID_MAX,
    Provisioned   \* certificate policy id -> length, for the ids in the policy

ASSUME /\ DOMAIN Provisioned \subseteq
              CY_FB_CERTIFICATE_POLICY_ID_MIN..CY_FB_CERTIFICATE_POLICY_ID_MAX
       /\ UidBits >= WordBits

PSA_SUCCESS == 0
PSA_ERROR_NOT_PERMITTED == -133
PSA_ERROR_INVALID_ARGUMENT == -135
PSA_ERROR_BUFFER_TOO_SMALL == -138
PSA_ERROR_STORAGE_FAILURE == -146
PSA_STORAGE_FLAG_WRITE_ONCE == 1

NoCert == 0   \* not a certificate policy id

TFM_PS_OEM_UID_MAX == TFM_PS_OEM_UID_MIN + TFM_PS_OEM_UID_NUM - 1

\* is_tfm_ps_oem_uid (tfm_ps_defs.h), on the 64-bit uid.
IsTfmPsOemUid(uid) == uid >= TFM_PS_OEM_UID_MIN /\ uid <= TFM_PS_OEM_UID_MAX

\* The uid parameter of platform_get_certificate is a uint32_t: the 64-bit
\* uid is truncated when it is passed.
ToUint32(uid) == uid % 2^WordBits

\* uid_to_cert_id, in uint32_t arithmetic.
UidToCertId(uid) ==
    (CY_FB_CERTIFICATE_POLICY_ID_MIN + (uid - TFM_PS_OEM_UID_MIN)) % 2^WordBits

IsCyFbCertificateId(x) ==
    x >= CY_FB_CERTIFICATE_POLICY_ID_MIN /\ x <= CY_FB_CERTIFICATE_POLICY_ID_MAX

\* platform_get_certificate(uid): the certificate's id and length, or an
\* error; sysOk is whether the syscall itself succeeds.
PlatformGetCertificate(uid, sysOk) ==
    LET id == UidToCertId(ToUint32(uid)) IN
    IF ~IsCyFbCertificateId(id)
    THEN [st |-> PSA_ERROR_INVALID_ARGUMENT, cert |-> NoCert, len |-> 0]
    ELSE IF ~sysOk \/ id \notin DOMAIN Provisioned
    THEN [st |-> PSA_ERROR_STORAGE_FAILURE, cert |-> NoCert, len |-> 0]
    ELSE [st |-> PSA_SUCCESS, cert |-> id, len |-> Provisioned[id]]

\* tfm_platform_ps_set and tfm_platform_ps_remove: certificates are never
\* written or removed through PS.
TfmPlatformPsSet == PSA_ERROR_NOT_PERMITTED
TfmPlatformPsRemove == PSA_ERROR_NOT_PERMITTED

\* A plausible slip: the buffer is not checked against the certificate.
TfmPlatformPsGetNoSizeCheck(uid, offset, size, sysOk) ==
    LET c == PlatformGetCertificate(uid, sysOk) IN
    IF offset # 0 THEN [c EXCEPT !.st = PSA_ERROR_INVALID_ARGUMENT, !.cert = NoCert]
    ELSE c

\* tfm_platform_ps_get(client_id, uid, data_offset, data_size, ...): st is
\* the status; on success cert and len are what ps_req_mngr_write_asset_data
\* copies to the client and what *p_data_length is set to.
TfmPlatformPsGet(uid, offset, size, sysOk) ==
    LET c == PlatformGetCertificate(uid, sysOk) IN
    IF offset # 0 THEN [c EXCEPT !.st = PSA_ERROR_INVALID_ARGUMENT, !.cert = NoCert]
    ELSE IF c.st # PSA_SUCCESS THEN c
    ELSE IF size < c.len THEN [c EXCEPT !.st = PSA_ERROR_BUFFER_TOO_SMALL, !.cert = NoCert]
    ELSE c

\* tfm_platform_ps_get_info: the status, and on success p_info's size and
\* flags.
TfmPlatformPsGetInfo(uid, sysOk) ==
    LET c == PlatformGetCertificate(uid, sysOk) IN
    [st |-> c.st, size |-> c.len,
     flags |-> IF c.st = PSA_SUCCESS THEN PSA_STORAGE_FLAG_WRITE_ONCE ELSE 0]

=============================================================================
