---------------------------- MODULE PlatformBoot ----------------------------
(***************************************************************************)
(* The secure boot of the PSoC64 port end to end: boot_tasks_handler and  *)
(* the SMPU configuration of tfm_hal_set_up_static_boundaries (NsBoot's    *)
(* BootTasks, then SmpuBoot) and, once it has                              *)
(* succeeded, tfm_spm_hal_boot_ns_cpu and the handshake with the NS image  *)
(* (NsBoot).  The TF-M core, which is not in this repository, calls them   *)
(* in this order and does not start the NS image after a failed SMPU       *)
(* configuration.  The access checks of SmpuBoot go on while the NS image  *)
(* runs.                                                                   *)
(***************************************************************************)
(* SmpuBoot is extended, so its definitions and properties are this        *)
(* module's; the names of this module's own specification are prefixed.    *)
EXTENDS SmpuBoot

CONSTANTS
    WordBits, IPC_SYNC_MAGIC, WdtBuilds, ExtClkBuilds, DefaultTimeout,
    WdgMaxTimeout, BootConfigs, ExtClkBlocks, ProvisioningResults, MaxNsMsgs,
    TestModes, CY_P64_CM4_ROM_LOOP_ADDR, NS_VTOR, VTOR_AT_START, Cm4StartModes

VARIABLES json, wdg, cm0, tx, rx, ns, nsSent, board, wdtReq,      \* NsBoot
          pwrMode, cm4, pwrDone, vtor, cm4Vec, cm4Call, cm4Arg      \* SysCm4

N == INSTANCE NsBoot

smpuVars == vars
nsVars == <<json, wdg, cm0, tx, rx, ns, nsSent, board, wdtReq,
          pwrMode, cm4, pwrDone, vtor, cm4Vec, cm4Call, cm4Arg>>
platformVars == <<smpuVars, nsVars>>

\* The SMPU table's dynamic entries read their flash areas through
\* tfm_hal_{its,ps}_fs_info -> cy_policy_get_uint32, which panics unless
\* get_decoded_policy_jwt_packet has decoded and cached the packet; the
\* NS boot, which comes after a successful SMPU boot, finds it cached.
PlatformInit == Init /\ N!Init /\ json = "cached"

\* tfm_spm_hal_boot_ns_cpu, called only after the static boundaries are up.
BootNsCpu == boot = "done" /\ N!BootNsCpu /\ UNCHANGED smpuVars

\* The rest of the NS boot: CM0+'s handshake, the NS image, the watchdog.
NsStep ==
    /\ \/ N!BootTasks \/ N!Cm4Calls \/ N!Cm4PowerStep
       \/ N!SendSyncMagic \/ N!PollNsReady \/ N!NsReadMagic
       \/ \E w \in N!Words : N!NsSendWord(w)
       \/ N!NsNotifyOnly \/ N!NsMarkStarted \/ N!WdgExpire
    /\ UNCHANGED smpuVars

\* A step of the SMPU boot, which starts when boot_tasks_handler has
\* returned, or an access check after it.  The watchdog may
\* reset the board in the middle of them; the SMPU registers keep their
\* values until then and the model stops at a reset.
SmpuStep == board = "run" /\ N!BootTasksDone /\ Next /\ UNCHANGED nsVars

PlatformNext == SmpuStep \/ BootNsCpu \/ NsStep

PlatformSpec ==
    /\ PlatformInit /\ [][PlatformNext]_platformVars
    /\ WF_platformVars(N!BootTasks /\ UNCHANGED smpuVars)
    /\ WF_platformVars(N!Cm4Calls /\ UNCHANGED smpuVars)
    /\ WF_platformVars(N!Cm4PowerStep /\ UNCHANGED smpuVars)
    /\ WF_platformVars(BootNsCpu)
    /\ WF_platformVars(N!SendSyncMagic /\ UNCHANGED smpuVars)
    /\ WF_platformVars(N!PollNsReady /\ UNCHANGED smpuVars)
    /\ WF_platformVars(N!WdgExpire /\ UNCHANGED smpuVars)
-----------------------------------------------------------------------------
PlatformTypeOK == TypeOK /\ N!TypeOK

\* The SMPU properties of SmpuBoot (BootLocksEveryUnit, AreasExactlyProtected,
\* HostDeniedInAreas, SpmAccessInAreas, RomUnitsUntouched) are checked as
\* they are, with the NS image running.

\* The NS boot properties (see NsBoot).
SyncOnlyOnReply == N!SyncOnlyOnReply
NsBootsFromItsVectorTable == N!NsBootsFromItsVectorTable
WdtArmedPerPolicy == N!WdtArmedPerPolicy
HungImageReset == N!HungImageReset
NsSyncHeard ==
    SF_platformVars(N!NsReplySync /\ UNCHANGED smpuVars)
        => (cm0 = "wait" ~> (cm0 = "synced" \/ board = "reset"))

=============================================================================
