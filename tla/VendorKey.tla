----------------------------- MODULE VendorKey -----------------------------
(***************************************************************************)
(* Vendor (Flash Boot provisioned) keys in the crypto partition:           *)
(* crypto_vendor_key.c over the PSoC64 HAL tfm_crypto_vendor_key_hal.c.    *)
(*                                                                         *)
(* psa_open_key of a vendor key id runs tfm_crypto_vendor_key_open_key: it *)
(* imports the slot's public key into mbedcrypto as a volatile key and     *)
(* records the pair (volatile id, vendor id) in key_id_mapping_table.      *)
(* Later operations on the volatile id are routed back to the vendor slot  *)
(* through that table.  The HAL has no operation that removes an entry.    *)
(*                                                                         *)
(* The mbedcrypto key store, the TF-M key-storage table                    *)
(* (tfm_crypto_check_key_storage / set_key_storage: KeyStorageSize keys   *)
(* per owning partition) and psa_destroy_key are outside this repository:  *)
(* a key store of VolatileIds, each key with its owner, and DestroyKey     *)
(* freeing it.                                                             *)
(***************************************************************************)
EXTENDS Integers, FiniteSets

CONSTANTS
    PSA_KEY_ID_VENDOR_MIN,
    CY_P64_KEY_SLOT_STATIC_MAX,   \* size of key_id_mapping_table
    CY_P64_KEY_SLOT_DEVICE_ECDSA,
    Owners,          \* partitions calling the crypto service
    RequestIds,      \* key ids a caller can pass to psa_open_key
    VolatileIds,     \* the volatile key ids mbedcrypto can hand out
    KeyStorageSize,  \* key-storage entries of one owner
    SlotStatus       \* cy_p64_keys_load_key_handle's status per FB slot

PSA_SUCCESS == 0
PSA_ERROR_GENERIC_ERROR == -132
PSA_ERROR_DOES_NOT_EXIST == -140
PSA_ERROR_INSUFFICIENT_MEMORY == -141
PSA_ERROR_HARDWARE_FAILURE == -147
NULL == 0

\* keys[k] for a volatile id k: FREE, USER (imported by a client), or the
\* vendor key id it was opened from.
FREE == -2
USER == -1

TableIdx == 0..(CY_P64_KEY_SLOT_STATIC_MAX - 1)
Entry == [mbedcrypto_key_id: VolatileIds \cup {NULL}, fb_key_id: Int, in_use: BOOLEAN]

\* remap_to_psa_error_code, on the codes the slots can return.
RemapToPsaErrorCode(code) ==
    CASE code = "CY_P64_PSA_SUCCESS"                -> PSA_SUCCESS
      [] code = "CY_P64_PSA_ERROR_DOES_NOT_EXIST"   -> PSA_ERROR_DOES_NOT_EXIST
      [] code = "CY_P64_PSA_ERROR_HARDWARE_FAILURE" -> PSA_ERROR_HARDWARE_FAILURE
      [] OTHER                                      -> PSA_ERROR_GENERIC_ERROR

\* tfm_crypto_vendor_key_hal_is_valid_key_id
IsValidKeyId(id) ==
    id >= PSA_KEY_ID_VENDOR_MIN /\ id < PSA_KEY_ID_VENDOR_MIN + CY_P64_KEY_SLOT_STATIC_MAX

\* FB_PSOC64_KEY_ID_2_SLOT and FB_PSOC64_KEY_SLOT_2_ID
IdToSlot(id) == id - PSA_KEY_ID_VENDOR_MIN + 1
SlotToId(slot) == PSA_KEY_ID_VENDOR_MIN + slot - 1

\* tfm_crypto_vendor_key_hal_is_device_key_id
IsDeviceKeyId(id) == id = SlotToId(CY_P64_KEY_SLOT_DEVICE_ECDSA)

\* cy_p64_keys_load_key_handle on a slot: a slot nobody provisioned does
\* not exist.
LoadKeyHandle(slot) ==
    IF slot \in DOMAIN SlotStatus THEN SlotStatus[slot]
    ELSE "CY_P64_PSA_ERROR_DOES_NOT_EXIST"

\* The status of a HAL call on vendor id id (get_key_metadata,
\* get_key_data, sign_hash, verify_hash, export_public_key): get_fb_key_slot,
\* then load the handle; the operation on a loaded handle succeeds.
HalStatus(id) ==
    IF ~IsValidKeyId(id) THEN PSA_ERROR_DOES_NOT_EXIST
    ELSE RemapToPsaErrorCode(LoadKeyHandle(IdToSlot(id)))

\* The lowest index of a set of table indices.
First(S) == CHOOSE i \in S : \A j \in S : i <= j

\* A plausible slip: the caller passes the two ids in the wrong order.
AddKeyIdMappingSwapped(tbl, mbed, fb) ==
    LET free == {i \in TableIdx : ~tbl[i].in_use} IN
    IF free = {} THEN [tbl |-> tbl, status |-> PSA_ERROR_INSUFFICIENT_MEMORY]
    ELSE [tbl |-> [tbl EXCEPT ![First(free)] =
                     [mbedcrypto_key_id |-> fb, fb_key_id |-> mbed, in_use |-> TRUE]],
          status |-> PSA_SUCCESS]

\* tfm_crypto_vendor_key_hal_add_key_id_mapping: the first unused entry.
AddKeyIdMapping(tbl, mbed, fb) ==
    LET free == {i \in TableIdx : ~tbl[i].in_use} IN
    IF free = {} THEN [tbl |-> tbl, status |-> PSA_ERROR_INSUFFICIENT_MEMORY]
    ELSE [tbl |-> [tbl EXCEPT ![First(free)] =
                     [mbedcrypto_key_id |-> mbed, fb_key_id |-> fb, in_use |-> TRUE]],
          status |-> PSA_SUCCESS]

\* tfm_crypto_vendor_key_hal_key_id_mapping_mbedcrypto_2_fb: the first
\* entry in use for the id, else NULL.
KeyIdMappingMbedcrypto2Fb(tbl, mbed) ==
    LET hits == {i \in TableIdx : tbl[i].in_use /\ tbl[i].mbedcrypto_key_id = mbed} IN
    IF hits = {} THEN NULL ELSE tbl[First(hits)].fb_key_id

-----------------------------------------------------------------------------
VARIABLES
    keys,     \* keys[k]: FREE, USER or the vendor id volatile key k holds
    owner,    \* owner[k]: the partition whose key-storage entry k takes
    held,     \* volatile keys their owner was handed and may use or close
    table,    \* key_id_mapping_table
    last      \* the last vendor-key operation: its key, origin, slot, status

vars == <<keys, owner, held, table, last>>

\* A plausible slip: the two branches on is_device_key are swapped.
IsValidSwapped(k, isDevice) ==
    LET fb == KeyIdMappingMbedcrypto2Fb(table, k) IN
    IF isDevice THEN IsValidKeyId(fb) ELSE IsDeviceKeyId(fb)

\* tfm_crypto_vendor_key_is_valid: tfm_crypto_encode_id_and_owner, then
\* psa_get_key_attributes, whose status is ignored, then the table lookup.
\* The encoding (outside this repository) is taken to succeed: its false
\* return at line 49 is for a caller whose client id cannot be read.
IsValid(k, isDevice) ==
    LET fb == KeyIdMappingMbedcrypto2Fb(table, k) IN
    IF isDevice THEN IsDeviceKeyId(fb) ELSE IsValidKeyId(fb)

FreeVolatile == {k \in VolatileIds : keys[k] = FREE}

\* The keys in the key-storage entries of partition o.
Storage(o) == {k \in VolatileIds : keys[k] # FREE /\ owner[k] = o}

Init ==
    /\ keys = [k \in VolatileIds |-> FREE]
    /\ owner = [k \in VolatileIds |-> CHOOSE o \in Owners : TRUE]
    /\ held = {}
    /\ table = [i \in TableIdx |-> [mbedcrypto_key_id |-> NULL, fb_key_id |-> NULL,
                                    in_use |-> FALSE]]
    /\ last = [op |-> "none", key |-> NULL, origin |-> FREE, fb |-> NULL,
               status |-> PSA_SUCCESS]

Result(op, k, origin, fb, st) ==
    last' = [op |-> op, key |-> k, origin |-> origin, fb |-> fb, status |-> st]

\* tfm_crypto_vendor_key_open_key(id) called for partition o: the
\* validity check, a free key-storage index, the slot's metadata and key
\* data, psa_import_key into a free volatile id, tfm_crypto_set_key_storage,
\* and the mapping.  An error after the import leaves the imported key
\* where it is.
TfmCryptoVendorKeyOpenKey(o, id) ==
    LET Fail(st) == Result("open", NULL, id, id, st) /\ UNCHANGED <<keys, owner, held, table>>
    IN
    IF ~IsValidKeyId(id) THEN Fail(PSA_ERROR_DOES_NOT_EXIST)
    ELSE IF Cardinality(Storage(o)) >= KeyStorageSize THEN Fail(PSA_ERROR_INSUFFICIENT_MEMORY)
    ELSE IF HalStatus(id) # PSA_SUCCESS THEN Fail(HalStatus(id))
    ELSE IF FreeVolatile = {} THEN Fail(PSA_ERROR_INSUFFICIENT_MEMORY)
    ELSE \E k \in FreeVolatile :
            LET r == AddKeyIdMapping(table, k, id) IN
            /\ keys' = [keys EXCEPT ![k] = id]
            /\ owner' = [owner EXCEPT ![k] = o]
            /\ table' = r.tbl
            /\ held' = IF r.status = PSA_SUCCESS THEN held \cup {k} ELSE held
            /\ Result("open", k, id, id, r.status)

OpenKey(o) == \E id \in RequestIds : TfmCryptoVendorKeyOpenKey(o, id)

\* Partition o's psa_import_key of its own key into a volatile id.
ImportKey(o) ==
    \E k \in FreeVolatile :
        /\ Cardinality(Storage(o)) < KeyStorageSize
        /\ keys' = [keys EXCEPT ![k] = USER]
        /\ owner' = [owner EXCEPT ![k] = o]
        /\ held' = held \cup {k}
        /\ UNCHANGED <<table, last>>

\* psa_close_key / psa_destroy_key of volatile key k: the key store and
\* the key-storage entry let the id go; nothing calls into the mapping
\* table.
Destroy(k) ==
    /\ keys' = [keys EXCEPT ![k] = FREE]
    /\ held' = held \ {k}
    /\ UNCHANGED <<owner, table, last>>

DestroyKey(o) == \E k \in held : owner[k] = o /\ Destroy(k)

\* tfm_crypto_vendor_key_{sign_hash,verify_hash,export_public_key}(k) on
\* a key the crypto service has found tfm_crypto_vendor_key_is_valid_key:
\* look up the vendor id, then the HAL call on it.
CallVendorKeyOp(k, op) ==
    /\ IsValid(k, FALSE)
    /\ LET fb == KeyIdMappingMbedcrypto2Fb(table, k) IN
       Result(op, k, keys[k], fb, HalStatus(fb))
    /\ UNCHANGED <<keys, owner, held, table>>

VendorKeyOp(o) ==
    \E k \in held, op \in {"sign", "verify", "export"} :
        owner[k] = o /\ CallVendorKeyOp(k, op)

Next ==
    \E o \in Owners : OpenKey(o) \/ ImportKey(o) \/ DestroyKey(o) \/ VendorKeyOp(o)

Spec == Init /\ [][Next]_vars

-----------------------------------------------------------------------------
TypeOK ==
    /\ keys \in [VolatileIds -> {FREE, USER} \cup RequestIds]
    /\ owner \in [VolatileIds -> Owners]
    /\ held \subseteq {k \in VolatileIds : keys[k] # FREE}
    /\ table \in [TableIdx -> Entry]
    /\ last.status \in {PSA_SUCCESS, PSA_ERROR_GENERIC_ERROR, PSA_ERROR_DOES_NOT_EXIST,
                        PSA_ERROR_INSUFFICIENT_MEMORY, PSA_ERROR_HARDWARE_FAILURE}

\* A key a partition opened from a vendor slot and still holds is always
\* recognised as a vendor key by tfm_crypto_vendor_key_is_valid_key, so the
\* crypto service routes its operations to the HAL: through any order of
\* opens, imports and destroys by several partitions, and with the mapping
\* table full.
VendorKeysRecognised ==
    \A k \in held : keys[k] # USER => IsValid(k, FALSE)

\* A sign, verify or export on a volatile key reaches the slot that key
\* was opened from (and never a slot for a client's own key): the table
\* lookup by volatile id picks the right entry.
VendorOpUsesOwnSlot ==
    last.op \in {"sign", "verify", "export"} => last.fb = last.origin

\* Every key in the key store belongs to a partition that holds it and
\* can destroy it: open_key leaves nothing behind when it fails.
NoOrphanKeys ==
    \A k \in VolatileIds : keys[k] # FREE => k \in held

====
