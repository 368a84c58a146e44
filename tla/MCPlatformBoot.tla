--------------------------- MODULE MCPlatformBoot ---------------------------
(* PlatformBoot with the values of MCSmpuBoot and MCNsBoot, written out    *)
(* here so that the composition depends on PlatformBoot alone.             *)
EXTENDS PlatformBoot, TLC

SPM == 1
HOST == 2

Slave(addr, code, mask, pcs, rw) ==
    [addr |-> addr, regionSize |-> code, subregions |-> mask, pcMask |-> pcs,
     pcMatch |-> FALSE, px |-> FALSE, pr |-> TRUE, pw |-> rw, ur |-> TRUE, uw |-> rw]

MCDynamic == [addr |-> 0, regionSize |-> 0, subregions |-> {}]

DynamicSlave == [Slave(0, 0, {}, {SPM}, TRUE) EXCEPT !.ur = FALSE, !.uw = FALSE]

\* The SMPU table and romboot state of MCSmpuBoot.
MCSmpuTable ==
    << [smpu |-> 0, slave |-> Slave(128, 6, {}, {SPM, HOST}, TRUE), master |-> "table"],
       [smpu |-> 2, slave |-> DynamicSlave, master |-> "table"],
       [smpu |-> 3, slave |-> DynamicSlave, master |-> "table"],
       [smpu |-> 4, slave |-> DynamicSlave, master |-> "table"] >>

MCAreaOf == [i \in 0..7 |-> CASE i = 2 -> "ITS" [] i = 3 -> "NVC" [] i = 4 -> "PS"
                                 [] OTHER -> "none"]

Area(b, s) == [base |-> b, size |-> s]

MCPolicies ==
    { [ITS |-> Area(0, 24), NVC |-> Area(24, 8), PS |-> Area(32, 32)],
      [ITS |-> Area(0, 24), NVC |-> Area(24, 8), PS |-> Area(32, 40)],
      [ITS |-> Area(0, 64), NVC |-> Area(64, 16), PS |-> Area(80, 16)] }

MCRomState ==
    6 :> [ResetSmpu EXCEPT !.master = "rom", !.masterEn = TRUE] @@
    7 :> [slave |-> [Slave(0, 4, {}, {SPM}, FALSE) EXCEPT !.ur = FALSE],
          slaveEn |-> TRUE, master |-> "rom", masterEn |-> TRUE]

Permissive == [mpu |-> FALSE, valid |-> TRUE, xn |-> FALSE, privRd |-> TRUE,
               privWr |-> TRUE, unprivRd |-> TRUE, unprivWr |-> TRUE]

MCCoreAttrs == {Permissive, [Permissive EXCEPT !.valid = FALSE]}

MCQueryBases == {128, 136, 152, 160, 176, 200, 240}
MCQuerySizes == {8, 16}

\* The boot configs and extclk blocks of MCNsBoot.
MCBootConfigs ==
    {[ok |-> FALSE, enable |-> TRUE, timeout |-> 0]}
    \cup [ok: {TRUE}, enable: BOOLEAN, timeout: {2, 4}]
MCExtClkBlocks ==
    {[present |-> FALSE, bool |-> "absent", uint32 |-> "absent"]}
    \cup [present: {TRUE}, bool: {"absent", "int01", "intOther"}, uint32: {"int01", "string"}]
=============================================================================
