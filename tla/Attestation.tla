---------------------------- MODULE Attestation ----------------------------
(***************************************************************************)
(* The attestation platform hooks of the PSoC64 port, on top of the vendor *)
(* keys: tfm_plat_get_boot_seed (attest_hal.c) and                         *)
(* tfm_plat_open_initial_attest_key / tfm_plat_close_initial_attest_key    *)
(* (crypto_keys.c), which open the device key through                      *)
(* tfm_crypto_vendor_key_open_key and close it again.                      *)
(*                                                                         *)
(* The attestation service that drives them is not in this repository.    *)
(* One token is: get the boot seed, open the initial attestation key, sign *)
(* with it, close it; each step is a call of its own, and other partitions *)
(* use the crypto service in between (VendorKey's actions for them).       *)
(***************************************************************************)
EXTENDS Integers, FiniteSets

CONSTANTS
    PSA_KEY_ID_VENDOR_MIN, CY_P64_KEY_SLOT_STATIC_MAX, CY_P64_KEY_SLOT_DEVICE_ECDSA,
    Owners, RequestIds, VolatileIds, KeyStorageSize, SlotStatus,
    ATTEST,          \* the attestation partition, one of Owners
    BOOT_SEED_SIZE,  \* bytes of the boot seed
    RandomOk,        \* outcomes of cy_p64_psa_generate_random (BOOLEAN)
    MaxGens          \* bound on the generations of random bytes

ASSUME ATTEST \in Owners

VARIABLES
    keys, owner, held, table, last,   \* VendorKey's state
    boot_seed_generated_flag,
    boot_seed,   \* boot_seed[i]: 0, or the generation that wrote byte i
    gens,        \* successful cy_p64_psa_generate_random calls (history)
    phase,       \* where the attestation service is in its token
    tok          \* the token in progress: its seed, key and signing slot

V == INSTANCE VendorKey

vkVars == <<keys, owner, held, table, last>>
atVars == <<boot_seed_generated_flag, boot_seed, gens, phase, tok>>
vars == <<vkVars, atVars>>

Bytes == 0..(BOOT_SEED_SIZE - 1)
NoSeed == [i \in Bytes |-> 0]

\* tfm_crypto_vendor_key_hal_get_device_key_id
DeviceKeyId == V!SlotToId(CY_P64_KEY_SLOT_DEVICE_ECDSA)

\* cy_p64_psa_generate_random(boot_seed, size) that succeeds: the first
\* size bytes are new random bytes.
Generated(seed, size) ==
    [i \in Bytes |-> IF i < size THEN gens + 1 ELSE seed[i]]

\* A plausible slip: the flag is set whatever cy_p64_psa_generate_random
\* returned.
GetBootSeedLatchOnFailure(size, ok) ==
    IF boot_seed_generated_flag
    THEN [st |-> "SUCCESS", gen |-> FALSE, flag |-> TRUE, seed |-> boot_seed]
    ELSE IF ok THEN [st |-> "SUCCESS", gen |-> TRUE, flag |-> TRUE,
                     seed |-> Generated(boot_seed, size)]
    ELSE [st |-> "SYSTEM_ERR", gen |-> FALSE, flag |-> TRUE, seed |-> boot_seed]

\* tfm_plat_get_boot_seed(size, buf) with the random source answering ok:
\* generate once, on the first call that succeeds; a failed generation
\* leaves the flag clear for the next call.  (The size check passes: the
\* attestation service asks for BOOT_SEED_SIZE.)
TfmPlatGetBootSeed(size, ok) ==
    IF boot_seed_generated_flag
    THEN [st |-> "SUCCESS", gen |-> FALSE, flag |-> TRUE, seed |-> boot_seed]
    ELSE IF ok THEN [st |-> "SUCCESS", gen |-> TRUE, flag |-> TRUE,
                     seed |-> Generated(boot_seed, size)]
    ELSE [st |-> "SYSTEM_ERR", gen |-> FALSE, flag |-> FALSE, seed |-> boot_seed]

Init ==
    /\ V!Init
    /\ boot_seed_generated_flag = FALSE
    /\ boot_seed = NoSeed
    /\ gens = 0
    /\ phase = "idle"
    /\ tok = [seed |-> NoSeed, key |-> V!NULL, fb |-> V!NULL]

\* Start of a token: the boot seed claim.  The buffer gets the first
\* BOOT_SEED_SIZE bytes of boot_seed.
GetSeed ==
    /\ phase = "idle"
    /\ \E ok \in RandomOk :
          LET r == TfmPlatGetBootSeed(BOOT_SEED_SIZE, ok) IN
          /\ r.gen => gens < MaxGens
          /\ boot_seed_generated_flag' = r.flag
          /\ boot_seed' = r.seed
          /\ gens' = IF r.gen THEN gens + 1 ELSE gens
          /\ IF r.st = "SUCCESS"
             THEN /\ phase' = "seeded"
                  /\ tok' = [tok EXCEPT !.seed = r.seed]
             ELSE UNCHANGED <<phase, tok>>
    /\ UNCHANGED vkVars

\* tfm_plat_open_initial_attest_key: psa_open_key of the device key id;
\* any error is TFM_PLAT_ERR_SYSTEM_ERR and ends the token.
OpenInitialAttestKey ==
    /\ phase = "seeded"
    /\ V!TfmCryptoVendorKeyOpenKey(ATTEST, DeviceKeyId)
    /\ phase' = IF last'.status = V!PSA_SUCCESS THEN "opened" ELSE "idle"
    /\ tok' = [tok EXCEPT !.key = last'.key]
    /\ UNCHANGED <<boot_seed_generated_flag, boot_seed, gens>>

\* psa_sign_hash with the key: routed to the vendor HAL when the crypto
\* service recognises it as a vendor key; otherwise mbedcrypto signs with
\* the imported public key itself, which fails (the signing slot stays
\* NULL).  Either way the call returns and the token goes on to the close.
SignToken ==
    /\ phase = "opened"
    /\ IF V!IsValid(tok.key, FALSE)
       THEN /\ V!CallVendorKeyOp(tok.key, "sign")
            /\ tok' = [tok EXCEPT !.fb = last'.fb]
       ELSE UNCHANGED <<vkVars, tok>>
    /\ phase' = "signed"
    /\ UNCHANGED <<boot_seed_generated_flag, boot_seed, gens>>

\* tfm_plat_close_initial_attest_key: psa_close_key of the key.
CloseInitialAttestKey ==
    /\ phase = "signed"
    /\ V!Destroy(tok.key)
    /\ phase' = "idle"
    /\ UNCHANGED <<boot_seed_generated_flag, boot_seed, gens, tok>>

\* Another partition using the crypto service.
Others ==
    /\ \E o \in Owners \ {ATTEST} :
          V!OpenKey(o) \/ V!ImportKey(o) \/ V!DestroyKey(o) \/ V!VendorKeyOp(o)
    /\ UNCHANGED atVars

Next == GetSeed \/ OpenInitialAttestKey \/ SignToken \/ CloseInitialAttestKey \/ Others

Spec == Init /\ [][Next]_vars

-----------------------------------------------------------------------------
TypeOK ==
    /\ V!TypeOK
    /\ boot_seed_generated_flag \in BOOLEAN
    /\ boot_seed \in [Bytes -> 0..MaxGens]
    /\ gens \in 0..MaxGens
    /\ phase \in {"idle", "seeded", "opened", "signed"}

\* The seed a token carries is made of random bytes only: no token goes
\* out with the zero bytes boot_seed starts with, even after a failed
\* generation.
SeedFullyRandom ==
    phase # "idle" => \A i \in Bytes : tok.seed[i] # 0

\* The vendor-key properties, with the attestation partition as one of
\* the partitions.
VendorKeysRecognised == V!VendorKeysRecognised

====
