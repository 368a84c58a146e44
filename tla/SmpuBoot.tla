------------------------------ MODULE SmpuBoot ------------------------------
(***************************************************************************)
(* Boot-time configuration of the PSoC64 SMPUs and the access checks that  *)
(* read them afterwards (driver_smpu.c, spm_hal.c, tfm_hal_isolation.c).   *)
(*                                                                         *)
(* tfm_hal_set_up_static_boundaries -> smpu_init_cfg runs SMPU_Configure   *)
(* for each entry of the build-time SMPU table in order, then the sweep    *)
(* protect_unconfigured_smpus; any failure is returned and stops the boot. *)
(* A dynamic entry takes its flash area from the provisioning policy       *)
(* (get_region) and its geometry from calc_smpu_params (SmpuGeometry).     *)
(* After the boot, tfm_spm_hal_get_{ns,secure}_access_attr ask            *)
(* SMPU_Get_Access_Rules (SmpuAccess) about the registers the boot wrote.  *)
(*                                                                         *)
(* Every Cy_Prot_* driver call may fail (Fallible); a failed call leaves   *)
(* its register as it was.                                                 *)
(***************************************************************************)
EXTENDS Integers, Sequences, FiniteSets

CONSTANTS
    AddrBits, MIN_REGIONSIZE,
    NumSmpus,             \* CPUSS_PROT_SMPU_STRUCT_NR
    FLASH_BASE_ADDRESS,
    SMPU_DYNAMIC,         \* the sentinel address/regionSize/subregions of is_runtime
    SmpuTable,            \* the SMPU##N##_Resources smpu_init_cfg configures, in order
    AreaOf,               \* AreaOf[i]: "ITS", "NVC", "PS" or "none" (get_region's test)
    Policies,             \* flash layouts the provisioning policy can give
    RomState,             \* RomState[i]: registers of the SMPUs romboot configured
    CY_PROT_SPM_DEFAULT, CY_PROT_HOST_DEFAULT,
    SYS_RAM_START, SYS_RAM_LIMIT,
    CoreAttrs,            \* what the TF-M core's region lookups can answer
    QueryBases, QuerySizes,
    Fallible              \* whether Cy_Prot_* calls can return an error

Word == 2^AddrBits
U(x) == x % Word
Units == 0..(NumSmpus - 1)
Areas == {"ITS", "NVC", "PS"}

G == INSTANCE SmpuGeometry WITH MAX_REGIONSIZE <- Word \div 4,
                                base <- 0, size <- 0, result <- 0,
                                InputOk <- LAMBDA b, s : TRUE

\* The register record SmpuAccess reads, without ATT0.ENABLED.
SlaveCfg == [addr: 0..(Word - 1), regionSize: 0..(AddrBits - 1),
             subregions: SUBSET (0..7), pcMask: SUBSET (1..15),
             pcMatch: BOOLEAN, px: BOOLEAN, pr: BOOLEAN, pw: BOOLEAN,
             ur: BOOLEAN, uw: BOOLEAN]

\* Power-on state of an SMPU: all fields zero, nothing enabled.
ResetSmpu == [slave |-> [addr |-> 0, regionSize |-> 0, subregions |-> {},
                         pcMask |-> {}, pcMatch |-> FALSE, px |-> FALSE,
                         pr |-> FALSE, pw |-> FALSE, ur |-> FALSE, uw |-> FALSE],
              slaveEn |-> FALSE, master |-> "reset", masterEn |-> FALSE]

\* is_runtime
IsRuntime(e) ==
    /\ e.slave.addr = SMPU_DYNAMIC.addr
    /\ e.slave.regionSize = SMPU_DYNAMIC.regionSize
    /\ e.slave.subregions = SMPU_DYNAMIC.subregions

\* tfm_hal_its_fs_info, nvc_flash_block, tfm_hal_ps_fs_info: the flash
\* offset and size of area a, read from the policy.
FsInfo(policy, a) == [base |-> policy[a].base, size |-> policy[a].size]

\* A plausible slip: the flash driver's offset is used as an address.
GetRegionNoFlashBase(i, policy) ==
    IF AreaOf[i] \in Areas
    THEN [ok |-> TRUE, base |-> policy[AreaOf[i]].base,
          size |-> policy[AreaOf[i]].size]
    ELSE [ok |-> FALSE, base |-> 0, size |-> 0]

\* get_region: the policy's ITS, NVC or PS area (tfm_hal_its_fs_info,
\* nvc_flash_block, tfm_hal_ps_fs_info) plus FLASH_BASE_ADDRESS; failure
\* for any other SMPU.
GetRegion(i, policy) ==
    IF AreaOf[i] \in Areas
    THEN [ok |-> TRUE, base |-> U(FsInfo(policy, AreaOf[i]).base + FLASH_BASE_ADDRESS),
          size |-> FsInfo(policy, AreaOf[i]).size]
    ELSE [ok |-> FALSE, base |-> 0, size |-> 0]

\* populate_region: get_region, then calc_smpu_params.
PopulateRegion(i, policy, divByZero) ==
    LET r == GetRegion(i, policy) IN
    IF r.ok THEN G!CalcSmpuParams(r.base, r.size, divByZero) ELSE G!Failure

\* The four Cy_Prot_* calls of SMPU_Configure and the two of the sweep.
ConfigSlave(i, cfg) == [op |-> "slave", at |-> i, cfg |-> cfg]
ConfigMaster(i, m)  == [op |-> "master", at |-> i, cfg |-> m]
EnableSlave(i)      == [op |-> "enSlave", at |-> i, cfg |-> "none"]
EnableMaster(i)     == [op |-> "enMaster", at |-> i, cfg |-> "none"]

Apply(hw, c) ==
    CASE c.op = "slave"    -> [hw EXCEPT ![c.at].slave = c.cfg]
      [] c.op = "master"   -> [hw EXCEPT ![c.at].master = c.cfg]
      [] c.op = "enSlave"  -> [hw EXCEPT ![c.at].slaveEn = TRUE]
      [] c.op = "enMaster" -> [hw EXCEPT ![c.at].masterEn = TRUE]

\* Every way a sequence of calls, each followed by "if (ret !=
\* CY_PROT_SUCCESS) return ret", can end.
RECURSIVE Outcomes(_, _)
Outcomes(hw, calls) ==
    IF calls = <<>> THEN {[hw |-> hw, ok |-> TRUE]}
    ELSE (IF Fallible THEN {[hw |-> hw, ok |-> FALSE]} ELSE {})
         \cup Outcomes(Apply(hw, Head(calls)), Tail(calls))

\* A plausible slip: the region's byte size is stored where the
\* CY_PROT_SIZE_* code belongs.
SmpuConfigureSizeInBytes(hw, e, policy, divByZero) ==
    LET sol == PopulateRegion(e.smpu, policy, divByZero)
        cfg == IF IsRuntime(e)
               THEN [e.slave EXCEPT !.addr = sol.address,
                                    !.regionSize = G!RegionsizeToBytes(sol.regionSize),
                                    !.subregions = sol.subregions]
               ELSE e.slave
    IN
    IF IsRuntime(e) /\ sol.status # "SUCCESS" THEN {[hw |-> hw, ok |-> FALSE]}
    ELSE Outcomes(hw, <<ConfigSlave(e.smpu, cfg), ConfigMaster(e.smpu, e.master),
                        EnableSlave(e.smpu), EnableMaster(e.smpu)>>)

\* SMPU_Configure(e): a dynamic entry copies its slave config and replaces
\* the geometry with populate_region's (returning on failure); then slave,
\* master, enable slave, enable master.
SmpuConfigure(hw, e, policy, divByZero) ==
    LET sol == PopulateRegion(e.smpu, policy, divByZero)
        cfg == IF IsRuntime(e)
               THEN [e.slave EXCEPT !.addr = sol.address,
                                    !.regionSize = sol.regionSize,
                                    !.subregions = sol.subregions]
               ELSE e.slave
    IN
    IF IsRuntime(e) /\ sol.status # "SUCCESS" THEN {[hw |-> hw, ok |-> FALSE]}
    ELSE Outcomes(hw, <<ConfigSlave(e.smpu, cfg), ConfigMaster(e.smpu, e.master),
                        EnableSlave(e.smpu), EnableMaster(e.smpu)>>)

\* A plausible slip: && for ||, so an SMPU with either half enabled is
\* taken over.
UnconfiguredEither(s) == ~s.slaveEn \/ ~s.masterEn

\* Both ATT0.ENABLED and ATT1.ENABLED are clear.
Unconfigured(s) == ~s.slaveEn /\ ~s.masterEn

\* A plausible slip: the breaks are missing, so the loop goes on after a
\* failure and returns the status of the last SMPU it configured.
RECURSIVE SweepNoBreak(_, _, _)
SweepNoBreak(hw, i, ok) ==
    IF i = NumSmpus THEN {[hw |-> hw, ok |-> ok]}
    ELSE IF Unconfigured(hw[i])
    THEN UNION {SweepNoBreak(o.hw, i + 1, o.ok) :
                    o \in Outcomes(hw, <<ConfigMaster(i, "common"), EnableMaster(i)>>)}
    ELSE SweepNoBreak(hw, i + 1, ok)

\* protect_unconfigured_smpus from SMPU i up: COMMON_SMPU_MASTER_CONFIG
\* and enable for every SMPU with neither half enabled; break on failure.
RECURSIVE Sweep(_, _, _)
Sweep(hw, i, ok) ==
    IF i = NumSmpus THEN {[hw |-> hw, ok |-> ok]}
    ELSE IF Unconfigured(hw[i])
    THEN UNION {IF o.ok THEN Sweep(o.hw, i + 1, TRUE) ELSE {o} :
                    o \in Outcomes(hw, <<ConfigMaster(i, "common"), EnableMaster(i)>>)}
    ELSE Sweep(hw, i + 1, ok)

\* The registers as SMPU_Get_Access_Rules reads them.
Regs(hw) == [i \in Units |->
                [enabled |-> hw[i].slaveEn, addr |-> hw[i].slave.addr,
                 regionSize |-> hw[i].slave.regionSize,
                 subregions |-> hw[i].slave.subregions,
                 pcMask |-> hw[i].slave.pcMask, pcMatch |-> hw[i].slave.pcMatch,
                 px |-> hw[i].slave.px, pr |-> hw[i].slave.pr, pw |-> hw[i].slave.pw,
                 ur |-> hw[i].slave.ur, uw |-> hw[i].slave.uw]]

-----------------------------------------------------------------------------
VARIABLES
    hw,      \* hw[i]: slave (ATT0/ADDR0), master (ATT1), their ENABLED bits
    policy,  \* the flash layout of the provisioning policy
    boot,    \* "cfg" while smpu_init_cfg runs, then "done" or "halted"
    k,       \* the SmpuTable entry smpu_init_cfg configures next
    query,   \* the access check asked after the boot
    answer   \* what it returned

vars == <<hw, policy, boot, k, query, answer>>

\* No unit here has the 4 GB REGION_SIZE code: the solver stops at
\* MAX_REGIONSIZE and the romboot units of the models are smaller, so the
\* build's division by zero never happens.
A == INSTANCE SmpuAccess WITH Pcs <- {CY_PROT_SPM_DEFAULT, CY_PROT_HOST_DEFAULT},
                              UnitConfigs <- {}, smpu <- Regs(hw),
                              UDIV0_TRAPS <- FALSE,
                              query <- query, answer <- answer

\* A plausible slip: the NS check asks about the SPM's protection context.
NsSmpuPcSpm == CY_PROT_SPM_DEFAULT

\* The PC tfm_spm_hal_get_ns_access_attr passes to SMPU_Get_Access_Rules.
NsSmpuPc == CY_PROT_HOST_DEFAULT

\* A plausible slip: the secure check asks about the host's context.
SecureSmpuPcHost == CY_PROT_HOST_DEFAULT

\* The PC tfm_spm_hal_get_secure_access_attr passes to SMPU_Get_Access_Rules.
SecureSmpuPc == CY_PROT_SPM_DEFAULT

\* What a tfm_spm_hal_get_*_access_attr call returns: a panic of
\* SMPU_Get_Access_Rules, or the core's attributes combined with the SMPU's.
Combined(core, rules) ==
    IF rules.panic THEN rules ELSE A!Answer(A!CombineMemAttr(core, rules.attr))

\* The SYS_RAM override of tfm_spm_hal_get_secure_access_attr.
SysRamAttr(a) == [a EXCEPT !.valid = TRUE, !.privRd = TRUE, !.privWr = FALSE,
                           !.unprivRd = FALSE, !.unprivWr = FALSE, !.xn = TRUE]
NoQuery == [p |-> 0, s |-> 0, pc |-> 0, path |-> "none"]

Init ==
    /\ hw = [i \in Units |-> IF i \in DOMAIN RomState THEN RomState[i] ELSE ResetSmpu]
    /\ policy \in Policies
    /\ boot = "cfg"
    /\ k = 1
    /\ query = NoQuery
    /\ answer = A!Answer(A!NoSmpuAttr)

\* SMPU_Configure on the next table entry; an error stops the boot
\* (smpu_init_cfg and tfm_hal_set_up_static_boundaries return it).
SMPU_Configure ==
    /\ boot = "cfg"
    /\ k <= Len(SmpuTable)
    /\ \E divByZero \in BOOLEAN :
       \E o \in SmpuConfigure(hw, SmpuTable[k], policy, divByZero) :
          /\ hw' = o.hw
          /\ k' = k + 1
          /\ boot' = IF o.ok THEN "cfg" ELSE "halted"
    /\ UNCHANGED <<policy, query, answer>>

\* protect_unconfigured_smpus, after the table; its result ends the boot.
ProtectUnconfiguredSmpus ==
    /\ boot = "cfg"
    /\ k = Len(SmpuTable) + 1
    /\ \E o \in Sweep(hw, 0, TRUE) :
          /\ hw' = o.hw
          /\ boot' = IF o.ok THEN "done" ELSE "halted"
    /\ UNCHANGED <<policy, k, query, answer>>

\* tfm_spm_hal_get_ns_access_attr(p, s): the SMPU rules for the host PC,
\* combined into the core's answer for the non-secure range.  The registers
\* never change after the boot and the call keeps no state, so one call per
\* behaviour reaches every answer there is.
GetNsAccessAttr ==
    /\ boot = "done"
    /\ query = NoQuery
    /\ \E p \in QueryBases, s \in QuerySizes, core \in CoreAttrs :
          /\ query' = [p |-> p, s |-> s, pc |-> NsSmpuPc, path |-> "ns"]
          /\ answer' = Combined(core, A!SmpuGetAccessRules(Regs(hw), p, s, NsSmpuPc))
    /\ UNCHANGED <<hw, policy, boot, k>>

\* tfm_spm_hal_get_secure_access_attr(p, s): the SMPU rules for the SPM's
\* PC; is_mpu_enabled from the active PC of CM0+; the SYS_RAM override;
\* then combine_mem_attr.
GetSecureAccessAttr ==
    /\ boot = "done"
    /\ query = NoQuery
    /\ \E p \in QueryBases, s \in QuerySizes, core \in CoreAttrs,
          activePc \in {CY_PROT_SPM_DEFAULT, CY_PROT_HOST_DEFAULT} :
          LET rules == A!SmpuGetAccessRules(Regs(hw), p, s, SecureSmpuPc)
              mine  == [core EXCEPT !.mpu = (activePc = CY_PROT_SPM_DEFAULT)]
              attr  == IF A!CheckAddressRange(p, s, SYS_RAM_START, SYS_RAM_LIMIT)
                       THEN SysRamAttr(mine) ELSE mine
          IN /\ query' = [p |-> p, s |-> s, pc |-> CY_PROT_SPM_DEFAULT, path |-> "secure"]
             /\ answer' = Combined(attr, rules)
    /\ UNCHANGED <<hw, policy, boot, k>>

Next ==
    \/ SMPU_Configure
    \/ ProtectUnconfiguredSmpus
    \/ GetNsAccessAttr
    \/ GetSecureAccessAttr

Spec == Init /\ [][Next]_vars
-----------------------------------------------------------------------------
TypeOK ==
    /\ hw \in [Units -> [slave: SlaveCfg, slaveEn: BOOLEAN,
                         master: {"reset", "common", "rom", "table"},
                         masterEn: BOOLEAN]]
    /\ policy \in Policies
    /\ boot \in {"cfg", "done", "halted"}
    /\ k \in 1..(Len(SmpuTable) + 1)
    /\ answer \in [panic: BOOLEAN, attr: A!Attr]

\* The bytes of the policy's flash area of each dynamic SMPU.
AreaBytes(a) == LET b == policy[a].base + FLASH_BASE_ADDRESS
                IN b..(b + policy[a].size - 1)

DynamicEntries == {SmpuTable[j] : j \in {j \in 1..Len(SmpuTable) : IsRuntime(SmpuTable[j])}}

\* Spec 4.2: a boot that completes leaves no SMPU that an untrusted master
\* could claim: every SMPU's master half is enabled, whether the table
\* configured it, romboot did, or the sweep locked it down.
BootLocksEveryUnit ==
    boot = "done" => \A i \in Units : hw[i].masterEn

\* A boot that completes protects exactly each dynamic SMPU's policy area:
\* get_region, calc_smpu_params and the four programming steps together
\* leave an enabled slave region whose enabled subregions are that area.
AreasExactlyProtected ==
    boot = "done" =>
        \A e \in DynamicEntries :
            /\ hw[e.smpu].slaveEn
            /\ A!EnabledBytesOf(Regs(hw)[e.smpu]) = AreaBytes(AreaOf[e.smpu])

\* Whatever the TF-M core answers, an NS access check of a range inside a
\* protected flash area grants the host nothing.
HostDeniedInAreas ==
    (/\ query.path = "ns"
     /\ ~answer.panic
     /\ \E a \in {AreaOf[e.smpu] : e \in DynamicEntries} :
            query.p..(query.p + query.s - 1) \subseteq AreaBytes(a))
    => \/ ~answer.attr.valid
       \/ ~(answer.attr.privRd \/ answer.attr.privWr
            \/ answer.attr.unprivRd \/ answer.attr.unprivWr)

\* The SPM keeps the access its services need: a secure check of a range
\* inside a protected area, outside SYS_RAM, that the core allows, is
\* granted privileged read and write by the boot's SMPU configuration
\* (an invalid answer is the core's refusal).
SpmAccessInAreas ==
    (/\ query.path = "secure"
     /\ ~answer.panic
     /\ \E a \in {AreaOf[e.smpu] : e \in DynamicEntries} :
            query.p..(query.p + query.s - 1) \subseteq AreaBytes(a))
    => (answer.attr.valid => answer.attr.privRd /\ answer.attr.privWr)

\* Spec 4.3 and the comment at driver_smpu.c:577 ("always take the more
\* restrictive attributes"): an NS check of a range that touches a
\* protected area grants the host nothing from the SMPUs.
HostDeniedOverlappingAreas ==
    (/\ query.path = "ns"
     /\ ~answer.panic
     /\ \E a \in {AreaOf[e.smpu] : e \in DynamicEntries} :
            query.p..(query.p + query.s - 1) \cap AreaBytes(a) # {})
    => \/ ~answer.attr.valid
       \/ ~(answer.attr.privRd \/ answer.attr.privWr
            \/ answer.attr.unprivRd \/ answer.attr.unprivWr)

\* Spec 2: the SMPUs configured by romboot are never written by this boot,
\* neither by the table nor by the sweep.
RomUnitsUntouched ==
    [][\A i \in DOMAIN RomState : hw'[i] = hw[i]]_vars

====
