---------------------------- MODULE MCVendorKey ----------------------------
EXTENDS VendorKey, TLC

\* Static slots 1..3 (vendor ids 3..5): slot 1 the device key, slot 2 a
\* provisioned key, slot 3 never provisioned.  Slot 4, past the static
\* range, holds a key (the HUK derivation slot).
MCSlotStatus ==
    (1 :> "CY_P64_PSA_SUCCESS") @@ (2 :> "CY_P64_PSA_SUCCESS") @@
    (4 :> "CY_P64_PSA_SUCCESS")

\* Ids below, inside and just past the vendor range.
MCRequestIds == {2, 3, 4, 5, 6}

MCVolatileIds == {10, 11}
====
