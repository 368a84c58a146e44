--------------------------- MODULE MCAttestation ---------------------------
EXTENDS Attestation, TLC

\* The slots of MCVendorKey: slot 1 the device key, slot 2 provisioned,
\* slot 3 empty, slot 4 (past the static range) the HUK derivation key.
MCSlotStatus ==
    (1 :> "CY_P64_PSA_SUCCESS") @@ (2 :> "CY_P64_PSA_SUCCESS") @@
    (4 :> "CY_P64_PSA_SUCCESS")

MCRequestIds == {2, 3, 4, 5, 6}
MCVolatileIds == {10, 11}
====
