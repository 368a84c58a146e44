----------------------------- MODULE MCSmpuBoot -----------------------------
(***************************************************************************)
(* A PSoC64-like SMPU set-up scaled to an 8-bit address space: flash at    *)
(* 128, eight SMPUs.  SMPU 0 is a static region over all of flash open to  *)
(* both PCs (the non-secure image's flash); SMPUs 2, 3, 4 are dynamic and  *)
(* take the ITS, NV-counter and PS areas from the policy, SPM-only.        *)
(* SMPUs 1 and 5 are left to the sweep.  Romboot configured the two top    *)
(* SMPUs: 7 fully, 6 with only its master half locked.                     *)
(***************************************************************************)
EXTENDS SmpuBoot, TLC

SPM == 1
HOST == 2

Slave(addr, code, mask, pcs, rw) ==
    [addr |-> addr, regionSize |-> code, subregions |-> mask, pcMask |-> pcs,
     pcMatch |-> FALSE, px |-> FALSE, pr |-> TRUE, pw |-> rw, ur |-> TRUE, uw |-> rw]

MCDynamic == [addr |-> 0, regionSize |-> 0, subregions |-> {}]

DynamicSlave == [Slave(0, 0, {}, {SPM}, TRUE) EXCEPT !.ur = FALSE, !.uw = FALSE]

MCSmpuTable ==
    << [smpu |-> 0, slave |-> Slave(128, 6, {}, {SPM, HOST}, TRUE), master |-> "table"],
       [smpu |-> 2, slave |-> DynamicSlave, master |-> "table"],
       [smpu |-> 3, slave |-> DynamicSlave, master |-> "table"],
       [smpu |-> 4, slave |-> DynamicSlave, master |-> "table"] >>

MCAreaOf == [i \in 0..7 |-> CASE i = 2 -> "ITS" [] i = 3 -> "NVC" [] i = 4 -> "PS"
                                 [] OTHER -> "none"]

Area(b, s) == [base |-> b, size |-> s]

\* Offsets into flash: a layout solved by subregions, one the solver must
\* refuse (PS of 40 bytes at 160), and one of whole aligned regions.
MCPolicies ==
    { [ITS |-> Area(0, 24), NVC |-> Area(24, 8), PS |-> Area(32, 32)],
      [ITS |-> Area(0, 24), NVC |-> Area(24, 8), PS |-> Area(32, 40)],
      [ITS |-> Area(0, 64), NVC |-> Area(64, 16), PS |-> Area(80, 16)] }

MCRomState ==
    6 :> [ResetSmpu EXCEPT !.master = "rom", !.masterEn = TRUE] @@
    7 :> [slave |-> [Slave(0, 4, {}, {SPM}, FALSE) EXCEPT !.ur = FALSE],
          slaveEn |-> TRUE, master |-> "rom", masterEn |-> TRUE]

Permissive == [mpu |-> FALSE, valid |-> TRUE, xn |-> FALSE, privRd |-> TRUE,
               privWr |-> TRUE, unprivRd |-> TRUE, unprivWr |-> TRUE]

MCCoreAttrs == {Permissive, [Permissive EXCEPT !.valid = FALSE]}

MCQueryBases == {128, 136, 152, 160, 176, 200, 240}
MCQuerySizes == {8, 16}

\* A range across the ITS / NV-counter boundary of the first layout, with
\* a core that allows it: the SMPUs alone decide.
MCStraddlingBases == {144}
MCPermissiveCore == {Permissive}
====
