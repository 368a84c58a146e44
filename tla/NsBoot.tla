------------------------------- MODULE NsBoot -------------------------------
(***************************************************************************)
(* The end of the CM0+ boot on PSoC64 (spm_hal.c): tfm_spm_hal_boot_ns_cpu *)
(* (handle_boot_wdt, configure_pra_extclk, Cy_SysEnableCM4), then          *)
(* tfm_spm_hal_wait_for_ns_cpu_ready, the handshake with the non-secure    *)
(* image on the CM4 over two IPC channels: CM0+ sends IPC_SYNC_MAGIC on    *)
(* IPC_TX_CHAN and polls IPC_RX_CHAN until it reads ~IPC_SYNC_MAGIC.       *)
(*                                                                         *)
(* Before the SMPU boot, boot_tasks_handler (tfm_hal_isolation.c) runs    *)
(* the CM4 on a ROM loop in test mode and disables it again.  The CM4's    *)
(* power control is SysCm4's, extended here.                            *)
(*                                                                         *)
(* The policy reads go through get_decoded_policy_jwt_packet (cy_policy.c),*)
(* which decodes the provisioning packet once and caches it.               *)
(*                                                                         *)
(* Environment, not in this repository: the NS image (it may write any     *)
(* word, notify without the lock, mark its start-up, or hang), the IPC     *)
(* driver's lock/notify semantics, and the boot watchdog, which resets the *)
(* board some time after it was started unless it is stopped.             *)
(***************************************************************************)
EXTENDS Integers, FiniteSets, SysCm4

CONSTANTS
    WordBits,          \* width of an IPC data word (uint32_t scaled down)
    IPC_SYNC_MAGIC,
    WdtBuilds,         \* values of CY_WDT_CONFIG_FROM_POLICY the builds use
    ExtClkBuilds,      \* values of CY_EXTCLK_CONFIG_FROM_POLICY
    DefaultTimeout,    \* wdt_timeout's initial value (5000 ms, scaled)
    WdgMaxTimeout,     \* cy_p64_wdg_max_timeout_ms()
    BootConfigs,       \* cy_p64_policy_get_image_boot_config outcomes
    ExtClkBlocks,      \* what the policy's "extclk" block can hold
    ProvisioningResults, \* whether the provisioning syscall and decode succeed
    MaxNsMsgs,         \* bound on the NS image's writes to IPC_RX_CHAN
    TestModes,         \* values of CY_P64_IS_TEST_MODE_SET
    CY_P64_CM4_ROM_LOOP_ADDR,
    NS_VTOR,           \* tfm_spm_hal_get_ns_VTOR(), the core's start_addr
    VTOR_AT_START,     \* CM4_VECTOR_TABLE_BASE when CM0+ starts
    Cm4StartModes      \* the CM4 power modes CM0+ may find at its start

Words == 0..(2^WordBits - 1)

\* ~w on a WordBits-wide unsigned word.
NotWord(w) == (2^WordBits - 1) - w

Timeouts == {DefaultTimeout, WdgMaxTimeout} \cup {c.timeout : c \in BootConfigs}

\* A plausible slip: the timeout is not clamped.
ClampTimeoutNone(t) == t

\* The clamp of handle_boot_wdt: a timeout above the timer's maximum is cut
\* to the maximum.
ClampTimeout(t) == IF t > WdgMaxTimeout THEN WdgMaxTimeout ELSE t

\* The top of handle_boot_wdt: stop the boot watchdog if it runs.
StopBootWdt(wdg) == [wdg EXCEPT !.on = FALSE]

\* get_decoded_policy_jwt_packet: the cached packet, or the provisioning
\* syscall and decode (answering prov), whose failure is tfm_core_panic.
GetDecodedPolicyJwtPacket(json, prov) ==
    [panic |-> json = "none" /\ ~prov,
     json  |-> IF json = "none" /\ ~prov THEN json ELSE "cached"]

\* The rest of handle_boot_wdt, from the watchdog wdg: with the policy
\* build, the packet and image 1's boot config, bailing out with wdg as it
\* is if the config cannot be read ("just ignore and bail out"); then
\* re-arm the watchdog with the clamped timeout unless it is disabled.
RearmBootWdt(wdg, json, prov, fromPolicy, cfg) ==
    LET p  == GetDecodedPolicyJwtPacket(json, prov)
        en == IF fromPolicy THEN cfg.enable ELSE TRUE
        t  == IF fromPolicy THEN cfg.timeout ELSE DefaultTimeout
    IN IF fromPolicy /\ p.panic
       THEN [panic |-> TRUE, json |-> json, wdg |-> wdg]
       ELSE IF fromPolicy /\ ~cfg.ok
       THEN [panic |-> FALSE, json |-> p.json, wdg |-> wdg]
       ELSE [panic |-> FALSE,
             json |-> IF fromPolicy THEN p.json ELSE json,
             wdg |-> IF en THEN [on |-> TRUE, timeout |-> ClampTimeout(t)] ELSE wdg]

\* A plausible slip: the watchdog is re-armed first and the running one
\* (the same timer) stopped after.
HandleBootWdtSwapped(wdg, json, prov, fromPolicy, cfg) ==
    LET r == RearmBootWdt(wdg, json, prov, fromPolicy, cfg)
    IN [r EXCEPT !.wdg = StopBootWdt(r.wdg)]

\* handle_boot_wdt; its status is ignored by tfm_spm_hal_boot_ns_cpu.
HandleBootWdt(wdg, json, prov, fromPolicy, cfg) ==
    RearmBootWdt(StopBootWdt(wdg), json, prov, fromPolicy, cfg)

\* A JSON item of the policy, as the getters tell them apart.
JsonValues == {"absent", "bool", "int01", "intOther", "string"}

\* cy_policy_get_optional_bool: absent leaves the default; a boolean, or
\* an integer 0 or 1, is taken; any other item is tfm_core_panic.
OptionalBoolPanics(v) == v \in {"intOther", "string"}

\* cy_policy_get_optional_uint32: absent leaves the default (and returns
\* false); an integer is taken; any other item is tfm_core_panic.
OptionalUint32Panics(v) == v \in {"bool", "string"}

\* configure_pra_extclk: with the policy build, the packet (a failure
\* panics), then, if there is an "extclk" block, its boolean entries
\* through cy_policy_get_optional_bool and its integer and port entries
\* through cy_policy_get_optional_uint32.  block says whether there is
\* a block and gives the item of each kind of entry; the values go to the PRA driver and only
\* whether the function panics is kept.
ConfigurePraExtclk(json, prov, fromPolicy, block) ==
    LET p == GetDecodedPolicyJwtPacket(json, prov) IN
    IF ~fromPolicy THEN [panic |-> FALSE, json |-> json]
    ELSE IF p.panic \/ ~block.present THEN p
    ELSE [panic |-> OptionalBoolPanics(block.bool) \/ OptionalUint32Panics(block.uint32),
          json |-> p.json]

-----------------------------------------------------------------------------
VARIABLES
    json,     \* get_decoded_policy_jwt_packet's static cache: "none" or "cached"
    wdg,      \* the boot watchdog: running, and its timeout
    cm0,      \* where CM0+ is: "boot", "send", "wait", "synced", "panicked"
    tx,       \* IPC_TX_CHAN (CM0+ to CM4): lock, data word, notify pending
    rx,       \* IPC_RX_CHAN (CM4 to CM0+): lock, data word, notify pending
    ns,       \* the NS image: "running" or "marked" (it marked its start-up)
    nsSent,   \* the words the NS image wrote into IPC_RX_CHAN (history)
    board,    \* "run", or "reset" by the boot watchdog
    wdtReq    \* whether the build or the policy's boot config, read
              \* successfully, asks for the boot watchdog (history)

vars == <<json, wdg, cm0, cm4Vars, tx, rx, ns, nsSent, board, wdtReq>>

Vectors == {CY_P64_CM4_ROM_LOOP_ADDR, NS_VTOR, VTOR_AT_START}

Channel == [locked: BOOLEAN, data: Words, notify: BOOLEAN]

Init ==
    /\ json \in {"none", "cached"}    \* the SMPU boot may have read the policy
    /\ wdg \in [on: BOOLEAN, timeout: {DefaultTimeout}]   \* as CYBL left it
    /\ cm0 = "tasks"
    /\ pwrMode \in Cm4StartModes /\ cm4 = pwrMode /\ pwrDone = TRUE
    /\ vtor = VTOR_AT_START /\ cm4Vec = VTOR_AT_START
    /\ cm4Call = "idle" /\ cm4Arg = VTOR_AT_START
    /\ tx = [locked |-> FALSE, data |-> 0, notify |-> FALSE]   \* its data is never read
    /\ rx \in {[locked |-> FALSE, data |-> w, notify |-> FALSE] : w \in Words}  \* left over
    /\ ns = "running"
    /\ nsSent = {}
    /\ board = "run"
    /\ wdtReq = FALSE

notCm0 == <<json, wdg, tx, rx, ns, nsSent, board, wdtReq>>

\* boot_tasks_handler, up to the image-OK flag: the CM4 access port and
\* the debug window change nothing modelled; in test mode,
\* Cy_SysEnableCM4(CY_P64_CM4_ROM_LOOP_ADDR).
BootTasks ==
    /\ board = "run" /\ cm0 = "tasks"
    /\ \E testMode \in TestModes :
          IF testMode
          THEN cm0' = "testRom" /\ EnableCall(CY_P64_CM4_ROM_LOOP_ADDR)
          ELSE cm0' = "boot" /\ UNCHANGED cm4Vars
    /\ UNCHANGED notCm0

\* Cy_SysEnableCM4(CY_P64_CM4_ROM_LOOP_ADDR) returns.
TestRomEnabled ==
    /\ board = "run" /\ cm0 = "testRom"
    /\ EnableReturns
    /\ cm0' = "testVtor"
    /\ UNCHANGED notCm0

\* Test mode, after Cy_SysLib_Delay(1): CM4_VECTOR_TABLE_BASE is set to
\* tfm_spm_hal_get_ns_VTOR() while the CM4 runs the ROM loop; the
\* acquire response and the test-bit loop are the debugger's.
TestSetNsVtor ==
    /\ board = "run" /\ cm0 = "testVtor"
    /\ vtor' = NS_VTOR
    /\ cm0' = "testDisable"
    /\ UNCHANGED <<pwrMode, cm4, pwrDone, cm4Vec, cm4Call, cm4Arg>>
    /\ UNCHANGED notCm0

\* Test mode: Cy_SysDisableCM4, up to its wait.
TestDisableCm4 ==
    /\ board = "run" /\ cm0 = "testDisable" /\ cm4Call = "idle"
    /\ DisableCall
    /\ UNCHANGED <<cm0, notCm0>>

\* Cy_SysDisableCM4 returns; tfm_hal_set_up_static_boundaries goes on
\* with the SMPU boot.
TestCm4Disabled ==
    /\ board = "run" /\ cm0 = "testDisable"
    /\ DisableReturns
    /\ cm0' = "boot"
    /\ UNCHANGED notCm0

\* tfm_spm_hal_boot_ns_cpu(start_addr): smpu_print_config (log only),
\* handle_boot_wdt, configure_pra_extclk, the wait for the UART, then
\* Cy_SysEnableCM4 (which resets the CM4 first if it is enabled).
BootNsCpu ==
    /\ board = "run" /\ cm0 = "boot"
    /\ \E prov \in ProvisioningResults, wFromPolicy \in WdtBuilds,
          cFromPolicy \in ExtClkBuilds, cfg \in BootConfigs, block \in ExtClkBlocks :
          LET w == HandleBootWdt(wdg, json, prov, wFromPolicy, cfg)
              c == ConfigurePraExtclk(w.json, prov, cFromPolicy, block)
          IN /\ wdg' = w.wdg
             /\ wdtReq' = IF wFromPolicy THEN cfg.ok /\ cfg.enable ELSE TRUE
             /\ json' = c.json
             /\ IF w.panic \/ c.panic
                THEN cm0' = "panicked" /\ UNCHANGED cm4Vars
                ELSE cm0' = "enable" /\ EnableCall(NS_VTOR)
    /\ UNCHANGED <<tx, rx, ns, nsSent, board>>

\* Cy_SysEnableCM4(start_addr) returns, and so does tfm_spm_hal_boot_ns_cpu.
NsCm4Enabled ==
    /\ board = "run" /\ cm0 = "enable"
    /\ EnableReturns
    /\ cm0' = "send"
    /\ UNCHANGED notCm0

\* Inside Cy_SysEnableCM4, the wait of Cy_SysResetCM4 ends.
Cm4ResetDone ==
    /\ board = "run"
    /\ ResetReturns
    /\ UNCHANGED <<cm0, notCm0>>

\* The hardware carries out the last power-mode request.
Cm4PowerStep ==
    /\ board = "run"
    /\ PowerModeTakesEffect
    /\ UNCHANGED <<cm0, notCm0>>

\* tfm_spm_hal_wait_for_ns_cpu_ready, up to the loop: unmask the RX notify
\* interrupt, then Cy_IPC_Drv_SendMsgWord(IPC_TX_CHAN, IPC_SYNC_MAGIC),
\* which fails if the channel's lock is taken; failure panics.
SendSyncMagic ==
    /\ board = "run" /\ cm0 = "send"
    /\ IF tx.locked
       THEN cm0' = "panicked" /\ UNCHANGED tx
       ELSE cm0' = "wait" /\ tx' = [locked |-> TRUE, data |-> IPC_SYNC_MAGIC, notify |-> TRUE]
    /\ UNCHANGED <<json, wdg, cm4Vars, rx, ns, nsSent, board, wdtReq>>

\* A plausible slip: the word is read whatever Cy_IPC_Drv_ReadMsgWord
\* returns, i.e. without the channel's lock being held by the sender.
ReadMsgWordIgnoreLock(ch) == [ok |-> TRUE, data |-> ch.data]

\* Cy_IPC_Drv_ReadMsgWord: the data word, if the sender holds the lock.
ReadMsgWord(ch) == [ok |-> ch.locked, data |-> ch.data]

\* A plausible slip: the channel is released only for the sync word.
PollReleaseOnlySync(r) == r.ok /\ r.data = NotWord(IPC_SYNC_MAGIC)

\* Whether the poll loop calls Cy_IPC_Drv_ReleaseNotify after a read.
PollRelease(r) == r.ok

\* One iteration of the while (1) loop that finds the RX notify interrupt
\* set: clear it, read the word, release the channel if the read
\* succeeded, and leave the loop if the word is ~IPC_SYNC_MAGIC.  (An
\* iteration that finds no interrupt changes nothing.)
PollNsReady ==
    /\ board = "run" /\ cm0 = "wait"
    /\ rx.notify
    /\ LET r == ReadMsgWord(rx) IN
       /\ rx' = [rx EXCEPT !.notify = FALSE, !.locked = IF PollRelease(r) THEN FALSE ELSE @]
       /\ cm0' = IF r.ok /\ r.data = NotWord(IPC_SYNC_MAGIC) THEN "synced" ELSE "wait"
    /\ UNCHANGED <<json, wdg, cm4Vars, tx, ns, nsSent, board, wdtReq>>

-----------------------------------------------------------------------------
(* The NS image on the CM4 (not in this repository) and the watchdog.      *)

\* The NS image runs when the CM4 is enabled and booted from its vector
\* table (not from the ROM loop, nor from what it ran at CM0+'s start).
NsImageStarted == cm4 = CY_SYS_CM4_STATUS_ENABLED /\ cm4Vec = NS_VTOR

NsRunning == board = "run" /\ NsImageStarted

\* The NS image takes the sync word from IPC_TX_CHAN and releases it.
NsReadMagic ==
    /\ NsRunning /\ tx.notify
    /\ tx' = [tx EXCEPT !.notify = FALSE, !.locked = FALSE]
    /\ UNCHANGED <<json, wdg, cm0, cm4Vars, rx, ns, nsSent, board, wdtReq>>

\* Cy_IPC_Drv_SendMsgWord(IPC_RX_CHAN, w) by the NS image: it succeeds
\* only when the lock is free.
NsSendWord(w) ==
    /\ NsRunning /\ ~rx.locked
    /\ w = NotWord(IPC_SYNC_MAGIC) \/ w \in nsSent \/ Cardinality(nsSent) < MaxNsMsgs
    /\ rx' = [locked |-> TRUE, data |-> w, notify |-> TRUE]
    /\ nsSent' = nsSent \cup {w}
    /\ UNCHANGED <<json, wdg, cm0, cm4Vars, tx, ns, board, wdtReq>>

\* The NS reply the handshake waits for.
NsReplySync == NsSendWord(NotWord(IPC_SYNC_MAGIC))

\* A notify without the lock (an NS image that skips the acquire).
NsNotifyOnly ==
    /\ NsRunning /\ ~rx.notify
    /\ rx' = [rx EXCEPT !.notify = TRUE]
    /\ UNCHANGED <<json, wdg, cm0, cm4Vars, tx, ns, nsSent, board, wdtReq>>

\* The NS application marks its start-up by stopping the boot watchdog.
NsMarkStarted ==
    /\ NsRunning /\ ns = "running"
    /\ ns' = "marked"
    /\ wdg' = [wdg EXCEPT !.on = FALSE]
    /\ UNCHANGED <<json, cm0, cm4Vars, tx, rx, nsSent, board, wdtReq>>

\* The boot watchdog expires: the board resets and the boot loader rolls
\* back to the previous image.
WdgExpire ==
    /\ board = "run" /\ wdg.on
    /\ board' = "reset"
    /\ UNCHANGED <<json, wdg, cm0, cm4Vars, tx, rx, ns, nsSent, wdtReq>>

\* The steps of CM0+ inside the Cy_Sys*CM4 calls and between them.
Cm4Calls ==
    \/ TestRomEnabled \/ TestSetNsVtor \/ TestDisableCm4 \/ TestCm4Disabled
    \/ NsCm4Enabled \/ Cm4ResetDone

\* boot_tasks_handler has returned (the SMPU boot may start).
BootTasksDone == cm0 \notin {"tasks", "testRom", "testVtor", "testDisable"}

Next ==
    \/ BootTasks \/ Cm4Calls \/ Cm4PowerStep
    \/ BootNsCpu \/ SendSyncMagic \/ PollNsReady
    \/ NsReadMagic \/ \E w \in Words : NsSendWord(w)
    \/ NsNotifyOnly \/ NsMarkStarted \/ WdgExpire

\* CM0+ runs its boot code to its end (it is the only thread then); the
\* watchdog's timer runs out unless stopped, and the hardware carries out
\* a power-mode request.  The NS image gets no fairness.
Spec == Init /\ [][Next]_vars
        /\ WF_vars(BootTasks) /\ WF_vars(Cm4Calls) /\ WF_vars(Cm4PowerStep)
        /\ WF_vars(BootNsCpu) /\ WF_vars(SendSyncMagic) /\ WF_vars(PollNsReady)
        /\ WF_vars(WdgExpire)

-----------------------------------------------------------------------------
TypeOK ==
    /\ json \in {"none", "cached"}
    /\ wdg \in [on: BOOLEAN, timeout: Timeouts]
    /\ cm0 \in {"tasks", "testRom", "testVtor", "testDisable", "boot", "enable",
               "send", "wait", "synced", "panicked"}
    /\ Cm4TypeOK(Vectors)
    /\ tx \in Channel /\ rx \in Channel
    /\ ns \in {"running", "marked"}
    /\ nsSent \subseteq Words
    /\ board \in {"run", "reset"}
    /\ wdtReq \in BOOLEAN

\* CM0+ leaves the handshake loop only on a ~IPC_SYNC_MAGIC the NS image
\* really wrote: never on the word IPC_RX_CHAN held before the CM4 ran,
\* whatever order the NS image notifies, locks and writes in.
SyncOnlyOnReply ==
    cm0 = "synced" => NotWord(IPC_SYNC_MAGIC) \in nsSent

\* Once tfm_spm_hal_boot_ns_cpu has returned, the CM4 runs the NS image,
\* booted afresh from its vector table: not the ROM loop that test mode
\* ran, nor whatever the CM4 ran when CM0+ started, however late the
\* hardware carries out each power-mode change.  This rests on the waits
\* for PWR_DONE in Cy_SysDisableCM4 and Cy_SysEnableCM4 and on the reset
\* of an enabled CM4.
NsBootsFromItsVectorTable ==
    cm0 \in {"send", "wait", "synced"} => NsImageStarted

\* While the NS image has not marked its start-up, the boot watchdog runs
\* exactly when the build or the boot config read from the policy asks
\* for it, and with a timeout the timer can hold: handle_boot_wdt stops
\* the watchdog CYBL started, then re-arms it clamped.
WdtArmedPerPolicy ==
    (NsImageStarted /\ ns = "running")
        => /\ wdg.on = wdtReq
           /\ wdg.on => wdg.timeout <= WdgMaxTimeout

\* The purpose of the re-armed watchdog (handle_boot_wdt's comment): an
\* NS image that the boot asked to guard and that never marks its start-up
\* gets the board reset, so that CYBL rolls it back.
HungImageReset ==
    (wdtReq /\ NsImageStarted /\ ns = "running")
        ~> (ns = "marked" \/ board = "reset")

\* An NS image that keeps trying to reply ~IPC_SYNC_MAGIC is heard: the
\* loop releases IPC_RX_CHAN after every read, so no earlier word, bare
\* notify or lost interrupt keeps the reply out, and CM0+ gets past
\* tfm_spm_hal_wait_for_ns_cpu_ready (or the watchdog resets the board).
NsSyncHeard ==
    SF_vars(NsReplySync) => (cm0 = "wait" ~> (cm0 = "synced" \/ board = "reset"))
=============================================================================
