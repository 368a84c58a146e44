# TLA+ models of the PSoC64 TF-M platform port

This directory holds TLA+ models of the stateful parts of the Cypress PSoC64
platform port of Trusted Firmware-M that is under `src/`. It also holds the
TLC configurations that check them. `PROJECT.json` lists the components, runs,
mutants, findings and hazards. It also gives the source-line map of every
definition that models code.

## The system

The security boundary of the port is the **SMPU isolation engine** in
`src/platform/ext/target/cypress/psoc64/driver_smpu.c`. The other components
in `src/` either request protected regions from it or are glue.

| Part | Source | What it does |
|---|---|---|
| Geometry solver | `calc_smpu_params` and the rounding helpers (driver_smpu.c 94-248) | maps a byte range `[base, base+size)` onto one SMPU region: power-of-two size, size-aligned, 8 subregions, some disabled |
| Configurator | `SMPU_Configure`, `populate_region`, `get_region` (250-305, 626-665) | at boot, solves the geometry of the ITS, PS and NV-counter areas and programs slave, master, slave-enable and master-enable |
| Boot sweep | `protect_unconfigured_smpus` (668-695) | gives every SMPU left disabled a restrictive master policy |
| Access evaluator | `SMPU_Get_Access_Rules`, `SMPU_Region_Coverage`, `combine_mem_attr` (326-613) | answers which access a protection context (PC) has to `[p, p+s)`, by scanning the live registers from the highest SMPU (highest priority) down |
| Diagnostics | `print_smpu_config`, `dump_smpu` | log text only |
| NV counters | `nv_counters.c` | anti-rollback counters in a main and a backup flash sector |
| PS request manager | `tfm_ps_req_mngr.c` | request handlers and the IPC dispatch loop of Protected Storage |
| Certificate store | `services/src/tfm_platform_ps.c` (psoc64) | serves the provisioned certificates as read-only PS assets under the OEM UIDs; set and remove are refused |
| Vendor keys | `crypto_vendor_key.c`, `tfm_crypto_vendor_key_hal.c` | open provisioned keys and keep a table mapping mbedcrypto key ids to vendor key ids |
| Attestation HAL | `attest_hal.c` | boot seed (generated once), ids and claims from the policy |
| NS boot | `tfm_spm_hal_boot_ns_cpu`, `handle_boot_wdt`, `configure_pra_extclk`, `tfm_spm_hal_wait_for_ns_cpu_ready` (spm_hal.c 123-259, 532-582) | re-arms the boot watchdog from the policy, starts the CM4, and waits on an IPC handshake with the NS image |
| CM4 power control | `Cy_SysGetCM4Status`, `Cy_SysEnableCM4`, `Cy_SysResetCM4`, `Cy_SysDisableCM4` (system_psoc6_cm0plus.c 314-472); `boot_tasks_handler` (tfm_hal_isolation.c 26-89) | request a CM4 power mode and spin until the hardware reports it done; in test mode the boot first runs the CM4 on a ROM loop and disables it |
| Policy lookups | `cy_policy.c` | decode the provisioning packet once and cache it; typed getters that panic on a bad item |
| Glue | `spm_hal.c` (the rest), `tfm_hal_isolation.c`, PSA stubs, clocks, startup | register writes and argument forwarding |

How the parts interact:
- At boot, `tfm_hal_set_up_static_boundaries` runs the configurator for each SMPU of the static table, then the boot sweep.
- `get_region` asks the ITS, PS and NV-counter code (`nvc_flash_block`, `tfm_hal_its_fs_info`) where their flash areas lie.
- Later, every memory-access check of the SPM goes through `tfm_spm_hal_get_{secure,ns}_access_attr`. These call the evaluator on the registers the configurator wrote.
- `tfm_hal_set_up_static_boundaries` first runs `boot_tasks_handler`, which in test mode starts the CM4 on a ROM loop, points its vector table at the NS image, and disables it again; then the SMPU configuration.
- After a successful SMPU boot, the TF-M core calls `tfm_spm_hal_boot_ns_cpu`, then `tfm_spm_hal_wait_for_ns_cpu_ready`. The NS image on the CM4 answers the handshake and is expected to mark its start-up, or the boot watchdog resets the board and the boot loader rolls the image back.

## Modules

| Module | Models | State | Actions |
|---|---|---|---|
| `SmpuGeometry` | `calc_smpu_params` and helpers | `base`, `size`, `result` | `Solve`: one call on an input the caller can pass |
| `MCSmpuGeometry` | input restrictions for TLC | | |
| `SmpuAccess` | `SMPU_Get_Access_Rules` and everything it calls | `smpu` (ATT0/ADDR0 fields of each SMPU), `query`, `answer` | `GetAccessRules`: one call |
| `MCSmpuAccess` | register configurations and queries for TLC | | |
| `SmpuBoot` | `get_region`, `populate_region`, `SMPU_Configure`, `protect_unconfigured_smpus`, `tfm_hal_set_up_static_boundaries`, `tfm_spm_hal_get_{ns,secure}_access_attr` | `hw` (slave, master and their ENABLED bits per SMPU), `policy`, `boot`, `k`, `query`, `answer` | `SMPU_Configure`, `ProtectUnconfiguredSmpus`, `GetNsAccessAttr`, `GetSecureAccessAttr` |
| `MCSmpuBoot` | SMPU table, romboot state and policy layouts for TLC | | |
| `NvCounterSpec` | the promise of `tfm_plat_nv_counters.h`: monotone counters | `value` | `Advance(id, v)` |
| `NvCounters` | `nv_counters.c` | `flash` (main and backup sector), `up`, `acked` (history) | `TfmPlatInitNvCounter`, `TfmPlatSetNvCounter`, `TfmPlatIncrementNvCounter`, `Reset` |
| `MCNvCounters` | fault sets for TLC | | |
| `PsReqMngrIpc` | `tfm_ps_req_mngr.c` in IPC mode: `tfm_ps_req_mngr_init`'s wait loop, `ps_signal_handle`, the `*_ipc` handlers; the client veneers `psa_connect`, `psa_call`, `psa_close`, and `psa_notify` by another partition | `part`, `queue` (SPM FIFO per service), `cl` (client state), `reply`, `doorbell` | `PsInit`, `PsSignalHandle`, `Connect(c)`, `Call(c)`, `Close(c)`, `Notify` |
| `MCPsReqMngrIpc` | init and storage statuses for TLC | | |
| `PsReqMngrLib` | `tfm_ps_req_mngr.c` in library mode: `ps_check_init` and the five `*_req` handlers | `ps_is_init`, `initOk` (history), `earlyOp` (history), `returned` | `TfmPsSetReq`, `TfmPsGetReq`, `TfmPsGetInfoReq`, `TfmPsRemoveReq`, `TfmPsGetSupportReq` |
| `MCPsReqMngrLib` | init and storage statuses, UIDs and the provisioned certificates for TLC | | |
| `PlatformPs` | `tfm_platform_ps.c` and `is_tfm_ps_oem_uid` | none (the functions keep no state) | operators `TfmPlatformPsGet`, `TfmPlatformPsGetInfo`, `TfmPlatformPsSet`, `TfmPlatformPsRemove`, with `PlatformGetCertificate`, `UidToCertId` and the `uint32_t` truncation `ToUint32` |
| `VendorKey` | `crypto_vendor_key.c` over the PSoC64 `tfm_crypto_vendor_key_hal.c` | `keys` (the mbedcrypto volatile key store), `owner`, `held`, `table` (`key_id_mapping_table`), `last` (the last operation's key, origin, slot, status) | `OpenKey`, `ImportKey`, `DestroyKey`, `VendorKeyOp` |
| `MCVendorKey` | FB slot contents and id sets for TLC | | |
| `Attestation` | `tfm_plat_get_boot_seed` (`attest_hal.c`), `tfm_plat_open_initial_attest_key` and `tfm_plat_close_initial_attest_key` (`crypto_keys.c`), composed with `VendorKey` through `INSTANCE` | `VendorKey`'s variables, `boot_seed_generated_flag`, `boot_seed`, `gens` (history), `phase`, `tok` | `GetSeed`, `OpenInitialAttestKey`, `SignToken`, `CloseInitialAttestKey`, `Others` |
| `MCAttestation` | the `MCVendorKey` values for the composed model | | |
| `NsBoot` | `handle_boot_wdt`, `configure_pra_extclk`, `tfm_spm_hal_boot_ns_cpu`, `tfm_spm_hal_wait_for_ns_cpu_ready` (spm_hal.c), `get_decoded_policy_jwt_packet` and the optional getters (cy_policy.c) | `json` (the packet cache), `wdg`, `cm0`, SysCm4's variables, `tx`/`rx` (IPC_TX_CHAN and IPC_RX_CHAN: lock, data, notify), `ns`, `nsSent` (history), `board`, `wdtReq` (history) | `BootTasks`, `TestRomEnabled`, `TestSetNsVtor`, `TestDisableCm4`, `TestCm4Disabled`, `BootNsCpu`, `NsCm4Enabled`, `Cm4ResetDone`, `SendSyncMagic`, `PollNsReady`; environment: `Cm4PowerStep`, `NsReadMagic`, `NsSendWord(w)`, `NsNotifyOnly`, `NsMarkStarted`, `WdgExpire` |
| `MCNsBoot` | boot configs and extclk blocks for TLC | | |
| `SysCm4` | the CM4 power functions of system_psoc6_cm0plus.c; extended by `NsBoot` | `pwrMode` (CM4_PWR_CTL.PWR_MODE), `cm4` (the mode in effect), `pwrDone` (CM4_STATUS.PWR_DONE), `vtor` (CM4_VECTOR_TABLE_BASE), `cm4Vec` (the table the CM4 last booted from, history), `cm4Call`/`cm4Arg` (where CM0+ is inside a call) | `EnableCall(v)`, `ResetReturns`, `EnableReturns`, `DisableCall`, `DisableReturns`; hardware: `PowerModeTakesEffect` |
| `PlatformBoot` | `SmpuBoot` then `NsBoot`: it EXTENDS `SmpuBoot` and instantiates `NsBoot` as `N` | both modules' variables | `SmpuStep`, `BootNsCpu` (after `boot = "done"`), `NsStep`; `PlatformInit`, `PlatformNext`, `PlatformSpec`, `PlatformTypeOK` |
| `MCPlatformBoot` | the `MCSmpuBoot` and `MCNsBoot` values, written out | | |

**SmpuGeometry.**
- Modelled as a pure function: each C helper is an operator of the same name.
  - The loop over candidate region sizes is the RECURSIVE `TryRegionSize`, with the C code's early return and `continue`s in the same order.
  - Arithmetic wraps at `Word = 2^AddrBits` (`U`), as `uint32_t` and `size_t` do.
  - `MAX_REGIONSIZE` is scaled to `Word/4`, as 2^30 is to 2^32. `MIN_REGIONSIZE` is 8 in place of 256.
  - A subregion mask is the set of disabled subregion indices.
  - `is_aligned(base, 0)` divides by zero. The result of that undefined behaviour is the nondeterministic `divByZero`.
- The reference `Representable(base, size)` states what one region can cover: a contiguous run of subregions of an aligned region inside the address space. It is written in plain integers, with no wrapping.

**SmpuAccess.**
- Each SMPU is a record of the register fields the driver reads:
  - `enabled` and `regionSize` (ATT0.ENABLED and REGION_SIZE);
  - `addr` and `subregions` (ADDR0);
  - `pcMask` and `pcMatch`;
  - PX, PR, PW, UR and UW.
- `SmpuRegionCoverage` follows `SMPU_Region_Coverage` branch by branch:
  - disabled unit;
  - PC_MATCH skip;
  - all subregions disabled;
  - discontiguous-mask panic (`Panic`);
  - full cover via `check_address_range`;
  - the deny-all for zero-size or overflowing queries;
  - partial cover.
- After the subregion trimming, `if (!size) return NOT_COVERED;` (line 466) is translated as written: a unit whose trimmed size is 0 is skipped as if it were disabled. That is also what happens to a unit with the top code and a disabled subregion (finding 9).
- `SMPU_Read_Region` computes `address -= address % size` with `size = REGIONSIZE_TO_BYTES(code)` in a `uint32_t`. The top code (31, 4 GB) makes `size` 0, and the remainder is undefined. `UDivRem` takes the outcome of the Cortex-M0+ build: libgcc's `__aeabi_uidivmod` returns the dividend, so `address` becomes 0. The constant `UDIV0_TRAPS` stands for a build whose division by zero faults. The run uses the libgcc outcome; a fault would be a panic, where every property is vacuous. The hardware side (`EnabledBytesOf`) uses the true region size, capped at the address space (`HwRegionBytes`).
- `ScanSmpus` is the for-loop of `SMPU_Get_Access_Rules`, with `attr2` and `partly_covered` as parameters.
- `check_address_range` belongs to the TF-M core, which is not in this repository. Its semantics are: it fails if `p > UINTPTR_MAX - s`, and otherwise succeeds iff `start <= p` and `p+s-1 <= limit`.
- `HwDecision` is the hardware reference. For each byte, the highest-numbered enabled SMPU whose enabled subregions hold the byte decides, among the SMPUs that match the PC (with PC_MATCH set, only when the PC is in PC_MASK). A mismatching PC is denied. A byte no SMPU matches is unrestricted.

**SmpuBoot** composes the other two SMPU modules.
- It instantiates `SmpuGeometry` for `calc_smpu_params`, and `SmpuAccess` with `smpu <- Regs(hw)`. The evaluator reads exactly the registers the boot wrote.
- `SMPU_Configure` runs for the next table entry. A dynamic entry (`IsRuntime`: the sentinel geometry) gets its area from `GetRegion`, which is the policy offset plus `FLASH_BASE_ADDRESS` (wrapping), and its geometry from the solver.
- The four driver calls come next. `Outcomes` enumerates a failure at each one. A failed call leaves its register unchanged, and the error halts the boot (`tfm_hal_set_up_static_boundaries` returns it).
- `smpu_init_cfg` is not in the repository. Its loop over the table is modelled from the spec.
- `ProtectUnconfiguredSmpus` is the sweep: the recursive `Sweep`, with the break on failure.
- After a completed boot, `GetNsAccessAttr` and `GetSecureAccessAttr` are one access check each. The core's answer comes from `CoreAttrs`, and the secure check also applies the SYS_RAM override.
- The configuration of `MCSmpuBoot`:
  - SMPU 0 is a static region over all of flash, open to both PCs;
  - SMPUs 2, 3 and 4 are SPM-only dynamic SMPUs for ITS, NV counters and PS;
  - SMPUs 1 and 5 are left to the sweep;
  - romboot configured SMPU 7 fully, and SMPU 6 with only its master half.
- Three policy layouts: one solved with subregions, one the solver must refuse (the boot halts), and one of whole regions.

**NvCounters.**
- A sector is `[wm, sumOk, ctr]`: whether `init_value` is the watermark, whether the XOR checksum matches, and the counters.
- Each API function is one action. `InitOps` and `SetSteps` give the sequence of flash-driver calls the function makes on the current flash. `Outcomes` enumerates every way that sequence can end: all calls succeed; or one call is cut short, either by a reset (`"crash"`: an erase may or may not have happened, and a program leaves a `Torn` row) or by an error return (`"fail"`: the function returns at once, and nothing is undone).
- `tfm_plat_read_nv_counter` changes nothing. What it returns is `Presented`: main's counters while the firmware runs, and after a reset what the next init recovers (`Recovered`).
- `acked` is a history variable: the highest value each counter was acknowledged at.
- `Reset` is a reset between two calls. A failing init also stops the boot.
- The refinement: `Abstract == INSTANCE NvCounterSpec WITH value <- Presented`. `AbstractSpec` is checked as a PROPERTY.

**PsReqMngrIpc.**
- `PsInit` is `tfm_ps_init` at the top of the partition's entry point; a failure is `psa_panic`.
- `PsSignalHandle` is one iteration of the loop. `psa_wait` returns the asserted signals (`Asserted`: the services whose SPM FIFO is not empty, and `PSA_DOORBELL` once `doorbell` is set). The if-chain (`ChosenSignal`) picks the first service signal in the source's order, or panics. `ps_signal_handle` does `psa_get` on that service's oldest message and switches on `msg.type`. CONNECT, CALL and DISCONNECT (`SwitchCases`) are replied (`ReplyStatus`, unblocking the client through `AfterReply`); any other type takes the `default:` `psa_panic()`.
- `Notify` is another partition's `psa_notify` of this one. The partition never calls `psa_clear`, so the doorbell stays asserted, and once the service FIFOs are empty the chain falls through to `psa_panic()`.
- A handler's outcome (`IpcStatus`) is `PSA_ERROR_PROGRAMMER_ERROR` when the sizes are wrong, else the storage result. The storage back end is not in this repository, so its result is a choice among `StorageResults`.
- Clients connect to one service, call it up to `MaxCalls` times per connection with well- or ill-formed sizes, close, and may connect again, for ever. Each call blocks. `psa_call` passes its `type` argument through (`psa_client.c`), and FF-M lets a client use any type from `PSA_IPC_CALL` up, so a call is of type `PSA_IPC_CALL` or one above it (`CallTypes`). The SPM's checks on the type are not in this repository; the model assumes the FF-M rule.
- Fairness: weak fairness of `PsInit` and `PsSignalHandle`. The SPM schedules the partition thread whenever one of its signals is asserted, and nothing else blocks it. Clients get no fairness: a client may stop, or send again as soon as it is replied.

**PsReqMngrLib.**
- `Request(h)` is a whole `tfm_ps_*_req` handler in the source's order: `ps_check_init` (which calls `tfm_ps_init` only while `ps_is_init` is false and sets it only on success), then the argument checks, then `tfm_nspm_get_current_client_id` (except `get_support`), then the storage call. `returned[h]` is its status.
- For an OEM uid the storage call is the platform's certificate store (`OemStatus`, from `PlatformPs`); get takes its offset, buffer size and the syscall's outcome from small sets (`ArgsOf`). `read` records the certificate and length a successful OEM get delivers.
- `initOk` records that some `tfm_ps_init` call has succeeded, and `earlyOp` records a storage call made while uninitialised. Both are history variables.

**VendorKey.**
- `TfmCryptoVendorKeyOpenKey(o, id)` is `tfm_crypto_vendor_key_open_key` called for partition `o`, with its checks in order:
  - the id range (`IsValidKeyId`);
  - a free key-storage entry of `o`;
  - the slot's metadata and key data (`HalStatus`: `get_fb_key_slot`, then the slot's load status through `remap_to_psa_error_code`);
  - `psa_import_key` into a free volatile id;
  - `tfm_crypto_set_key_storage`;
  - `AddKeyIdMapping`, the first unused table entry.
  An error after the import returns with the key still imported, as the code does.
- `VendorKeyOp(o)` is sign, verify or export (`CallVendorKeyOp`) on a held key that `tfm_crypto_vendor_key_is_valid_key` accepts (`IsValid`). It looks up the table (`KeyIdMappingMbedcrypto2Fb`, first entry in use) and calls the HAL on that slot. `last` records the key's origin and the slot reached. `IsValid` takes `tfm_crypto_encode_id_and_owner` (not in this repository) to succeed; it fails only for a caller whose client id cannot be read.
- The environment, from the crypto core (not in this repository):
  - `ImportKey`: a partition's own `psa_import_key`;
  - `DestroyKey`: `psa_close_key` or `psa_destroy_key`, which frees the volatile id and its storage entry and never touches the mapping table, since the HAL has no function that would.
  mbedcrypto's volatile ids are reused after a destroy; the model lets an open or import pick any free id.

**Attestation.**
- One token of the attestation service (not in this repository) is four calls: the boot seed claim (`GetSeed`), `tfm_plat_open_initial_attest_key`, `psa_sign_hash` with the key, `tfm_plat_close_initial_attest_key`. `Others` lets the other partition use the crypto service between any two of them.
- `TfmPlatGetBootSeed` is the whole function: generate into `boot_seed` only while the flag is clear, set the flag only after `cy_p64_psa_generate_random` succeeded, then copy. A random byte is abstracted to the number of the generation that wrote it; 0 is the zero-initialised array.
- The open goes through `VendorKey`'s `TfmCryptoVendorKeyOpenKey` for the attestation partition; the close through `psa_close_key` (`Destroy`), which frees the key and leaves the mapping table alone.
- `SignToken` is `psa_sign_hash`. The crypto service's dispatch (not in this repository) routes it to the vendor HAL when `tfm_crypto_vendor_key_is_valid_key` accepts the key. Otherwise mbedcrypto signs with the imported public key itself, which returns an error. Either way the call returns.
- No fairness: the run checks invariants only.

**NsBoot and PlatformBoot.**
- `BootNsCpu` is all of `tfm_spm_hal_boot_ns_cpu`. `smpu_print_config` and the UART wait are log-only. `HandleBootWdt` stops the running watchdog (`StopBootWdt`), then `RearmBootWdt`: read the packet, read image 1's boot config and bail out if that fails, and re-arm with `ClampTimeout` unless disabled. `ConfigurePraExtclk` keeps only whether a getter panics. The values go to the PRA driver, which is not in this repository. `Cy_SysEnableCM4(NS_VTOR)` ends it (the core passes `tfm_spm_hal_get_ns_VTOR()` as `start_addr`; the core is not in this repository). Both build flags (`CY_WDT_CONFIG_FROM_POLICY`, `CY_EXTCLK_CONFIG_FROM_POLICY`) are choices.
- `SysCm4` splits each `Cy_Sys*CM4` call at its `while` on PWR_DONE: the call up to the write of CM4_PWR_CTL (`EnableCall`, `DisableCall`), then the end of the wait (`ResetReturns`, `EnableReturns`, `DisableReturns`). `Cy_SysGetCM4Status` reads the requested mode, as the C code reads CM4_PWR_CTL. The hardware (`PowerModeTakesEffect`) is the environment: a request takes effect some time after the write; PWR_DONE reads 0 from a write that changes the mode until it has; a CM4 going from DISABLED or RESET to ENABLED boots from CM4_VECTOR_TABLE_BASE. That is the PSoC 6 hardware's documented behaviour, not code of this repository.
- `BootTasks` is `boot_tasks_handler` up to the image-OK flag. The access-port enable and the debug-window delay change nothing modelled. `CY_P64_IS_TEST_MODE_SET` is a choice. In test mode the CM4 is enabled on `CY_P64_CM4_ROM_LOOP_ADDR`, its vector table base is set to the NS VTOR while it runs (`TestSetNsVtor`; the acquire and the test-bit loop belong to the debugger), and it is disabled. The image-OK part (`cy_p64_confirm_image`) writes a flag through a vendor call and is not modelled.
- The CM4 may be DISABLED, in RESET or ENABLED (running code from `VTOR_AT_START`) when CM0+ starts: CYBL, which hands over, is not in this repository, and `Cy_SysEnableCM4` itself handles an enabled CM4.
- `SendSyncMagic` and `PollNsReady` are the two parts of `tfm_spm_hal_wait_for_ns_cpu_ready`. A loop iteration that finds no interrupt changes nothing and is a stutter. `ReadMsgWord` succeeds only while the sender holds the channel's lock, as `Cy_IPC_Drv_ReadMsgWord` does.
- An IPC word is `WordBits` wide. `NotWord` is `~` on that width. `IPC_RX_CHAN` starts with any word left in it.
- The NS image is not in this repository. It may take the magic, write any word with the lock (`NsSendWord`), notify without the lock (`NsNotifyOnly`), mark its start-up by stopping the watchdog, or do nothing. The watchdog expiry (`WdgExpire`) resets the board, and the model stops there.
- In `PlatformBoot` the SMPU boot starts only after `boot_tasks_handler` has returned (`BootTasksDone`), and the NS boot only after `boot = "done"`: the TF-M core does not start the NS image after a failed `tfm_hal_set_up_static_boundaries`. The packet is already cached (`PlatformInit`), because the dynamic SMPUs read their areas through `cy_policy_get_uint32`, which panics otherwise.
- Fairness: weak fairness on CM0+'s steps (it is the only thread at that point and runs the code to its end), on `Cm4PowerStep` (the hardware carries out a power-mode request) and on `WdgExpire` (a hardware timer). The NS image gets none. `NsSyncHeard` states as its hypothesis that the NS image keeps trying to reply (strong fairness on `NsReplySync`).
- Noted while modelling (no run): if the boot config cannot be read, `handle_boot_wdt` returns with CYBL's watchdog already stopped. The NS image then runs unguarded, although `wdt_enable` defaults to true. The comment at spm_hal.c:560 says this is deliberate. `HungImageReset` is stated for boots whose build or boot config asks for the watchdog (`wdtReq`).

The SMPU modules make one call per behaviour (`CHECK_DEADLOCK FALSE`):
- `calc_smpu_params` runs once per dynamic SMPU at boot.
- The evaluator keeps no state between calls, and the registers do not change after boot. So the pairs of registers and query reachable by one call are all there are.

## Runs

| Run | Expect | What it shows |
|---|---|---|
| `smpu_geometry` (`SmpuGeometry.cfg`) | pass | For every `(base, size)` of an 8-bit address space whose end lies at or below `Word - MAX_REGIONSIZE` (where the flash areas lie): a success covers exactly the range with a legal region (`SolverSound`); a failure means no region size can represent it (`SolverComplete`); and the region chosen is the smallest (`SolverMinimal`). 18,722 states. |
| `smpu_geometry_top` (`SmpuGeometryTop.cfg`) | violation of `SolverSound` | With inputs reaching the top of memory, `base + size` wraps to 0. The solver then returns a region with all subregions disabled. |
| `smpu_access` (`SmpuAccess.cfg`) | pass | Checks three properties over all 20^3 register states of three SMPUs and 56 queries for two PCs (see the list below). The register states include a unit spanning the whole address space. 456,000 states, about 80 s. |
| `platform_boot` (`PlatformBoot.cfg`, module `MCPlatformBoot`) | pass | The SMPU boot: a completed boot locks every SMPU (`BootLocksEveryUnit`) and protects exactly each policy area (`AreasExactlyProtected`). Both are `SmpuBoot`'s own definitions, which `PlatformBoot` extends. Host checks inside an area get nothing (`HostDeniedInAreas`), while SPM checks get read and write (`SpmAccessInAreas`). The romboot SMPUs are never written (`RomUnitsUntouched`, an action property). Then the NS boot: when `tfm_spm_hal_boot_ns_cpu` returns, the CM4 runs the NS image booted from its own vector table, not test mode's ROM loop nor what it ran when CM0+ started (`NsBootsFromItsVectorTable`). CM0+ leaves the handshake only on a reply the NS image wrote (`SyncOnlyOnReply`) and always hears an NS image that keeps replying (`NsSyncHeard`). The watchdog runs exactly as the build or policy asks, with a timeout the timer can hold (`WdtArmedPerPolicy`), and an image that never marks its start-up is reset (`HungImageReset`). 141,096 states, about 2.5 min. `CHECK_DEADLOCK FALSE`: the boot stops at a halted SMPU boot, a panic, a reset, or a finished handshake. |
| `smpu_boot_overlap` (`SmpuBootOverlap.cfg`) | violation of `HostDeniedOverlappingAreas` | Finding 2 reached through the boot's own registers: a host range across the ITS/NV-counter boundary gets read-write. |
| `nv_counters` (`NvCounters.cfg`) | pass | With resets at every point inside every call: `AckedDurable` (no acknowledged value is lost), `MainValidWhileUp`, and the refinement of `NvCounterSpec`. 1,104 states. |
| `nv_counters_fail` (`NvCountersFail.cfg`) | violation of `AckedDurable` | Flash calls that also return errors: a failing program of main leaves main erased while the firmware runs. |
| `ps_ipc` (`PsReqMngrIpc.cfg`) | pass | Two clients connect, call and close for ever, with other call types and a doorbell from another partition. A client blocked in a connect, call or close can stay blocked only while the partition panicked or its service keeps being outranked by a signal the chain tests first (`OnlyPriorityStarves`, liveness). The panics themselves are reachable: the run fires both the chain's and the switch's `psa_panic()`. 21,869 states. |
| `attestation` (`Attestation.cfg`, module `MCAttestation`) | pass | With the attestation partition making tokens and another partition using vendor and client keys in between: every held vendor key is recognised (`VendorKeysRecognised`), and every token carries a boot seed made only of random bytes, even after a failed generation (`SeedFullyRandom`). 198,260 states. |
| `vendor_key_stale` (`VendorKeyStale.cfg`) | violation of `VendorOpUsesOwnSlot` | A volatile id reused after a destroy is routed to the slot of the key it held before. |
| `vendor_key_exhaust` (`VendorKeyExhaust.cfg`) | violation of `NoOrphanKeys` | Once the mapping table is full, open fails after the import and leaves the key with no holder. |
| `ps_lib` (`PsReqMngrLib.cfg`) | pass | Whatever the order of requests and failing inits, no request reaches storage before `tfm_ps_init` has succeeded (`StorageOnlyAfterInit`). A get of an OEM uid that succeeds hands the client exactly the certificate provisioned for that uid, and never more bytes than its buffer (`CertReadExact`). 17,280 states, about 30 s. |

The three properties of `smpu_access`:
- `PartialScanSound`: the answer never grants more than the hardware when no SMPU covers the whole query.
- `TopFullCoverDecides`: the highest overlapping SMPU decides when it covers the whole query. The highest overlapping SMPU is taken as the hardware does, skipping units whose PC_MATCH is set for a foreign PC, so this property also checks the driver's PC_MATCH skip.
- `WrappingQueryDenied`: a query with `p + s` past the top of memory is refused (deny-all, or a panic) whenever some SMPU applies to it. It depends on `check_address_range` rejecting the wrap before comparing with `limit`.

Every property of a passing run has a mutant in `PROJECT.json`. A mutant is an operator defined beside the definition it replaces, and it models a plausible slip in that C code: a dropped test, `<=` for `<`, a loop bound one too far, OR for AND. TLC finds the property violated with the mutant in place.

### Bounds

**Geometry.**
- `AddrBits = 8`, `MIN_REGIONSIZE = 8`, `MAX_REGIONSIZE = 64`, so the solver tries region sizes 8, 16, 32 and 64. That gives both the fast path and several loop iterations, each with 1 to 8 enabled subregions.
- The search goes past `MAX_REGIONSIZE` only through the fast path, which is exercised by sizes 128 and 256 aligned at 0.
- Every base and size of the word is enumerated (about 2^16 inputs). The solver's only cross-iteration state is the doubling region size.

**Access.**
- Three SMPUs are enough to put one SMPU above and one below a partial cover, which is what the priority bug needs.
- The geometries are one straddling region `[64,96)`, one enclosing region `[48,128)` and one discontiguous mask.
- `FullSpace` is a unit with the top REGION_SIZE code (7 on 8 bits, as 31 is on 32 bits) and address bits set that the driver must ignore. Its size reads as 0 (see `UDivRem`).
- The PC settings are: every PC; PC 1 with deny; PC 1 with skip.
- There are two permission sets.
- The query bases include ones whose ranges end exactly at a region's last byte (88+8, 104+24, 120+8), and a base near the top of memory (250) to exercise the overflow branch.

**NV counters.**
- Two counters and `MaxValue = 3` let a set (1 or 2 steps up), a refused lower set, and the refusing increment at the maximum all happen.
- `ErasedWord = 0`: PSoC6 flash rows erase to 0. With 0, an erased main reads as counters of value 0.
- Deadlock is checked: `Reset` or init is always enabled.

**Protected storage.**
- IPC: two clients and `MaxCalls = 1`. Two clients are enough for one to wait behind the other on the same service, or behind a stream of messages the other keeps sending to a higher-priority service. Clients reconnect without end, so behaviours are infinite and starvation is possible within the bounds. Each client has at most one message queued, so the FIFOs stay bounded without a cap. Init may fail (`-132`), and storage may succeed or return `-140`. Deadlock is not checked: a panicked partition rightly stops everything.
- Certificates: `uint32_t` is 4 bits and the uid 5, OEM UIDs 4..7 map to certificate ids 8..11; 8 and 11 are provisioned (lengths 2 and 3), 9 and 10 are not. The UIDs are 1 (ordinary), 4, 5, 7 (OEM), 8 (ordinary, the first certificate id itself) and 20, whose low 4 bits are 4: an alias of an OEM uid that the truncation would turn into a certificate read. Offsets 0 and 1 and buffer sizes 1 and 3 reach the offset error, the buffer-too-small error and success; the provisioning syscall may fail.
- Library: init may fail any number of times, and every request can retry it. Deadlock is checked.

**Vendor keys.**
- Two partitions, each with two key-storage entries, and two volatile ids, so that the storage-full and key-store-full branches of open are both reached.
- A three-entry table (`CY_P64_KEY_SLOT_STATIC_MAX = 3`, vendor ids 3 to 5). Slot 1 is the device key, slot 2 is provisioned, and slot 3 is empty. Slot 4, just past the static range, holds a key. The table fills within three opens.
- Requested ids 2 to 6 cover below, inside, and one past the range.
- Deadlock is checked. An open always returns.

**Attestation.**
- The two partitions are `attest` and `p1`, with the vendor-key bounds above. `BOOT_SEED_SIZE = 2`, so a seed has more than one byte.
- The random source may fail or succeed on every call, and `MaxGens = 2` allows a second generation, which is what a missing latch would produce.
- Three opens fill the table, so the bounds reach tokens that fail at the open (finding 8) as well as ones that complete.

**NS boot.**
- `WordBits = 2`, `IPC_SYNC_MAGIC = 1`, so the reply `~1` is 2. Any of the four words can be left in `IPC_RX_CHAN`, including the reply itself.
- `MaxNsMsgs = 1`: the NS image can send one word other than the reply, as often as it likes. That is enough for a stray word to hold the channel ahead of the reply.
- The timer's maximum is 3 and the default timeout 2. The policy asks for 2 or 4, enabled or not, or its boot config cannot be read. So the clamp, the disabled watchdog and the bail-out all happen.
- The extclk block is absent, or its entries are well typed, a boolean that is neither 0 nor 1, or a string where a number belongs.
- Test mode on or off, and the CM4 found DISABLED, in RESET or ENABLED: each branch of `Cy_SysEnableCM4` and the ROM-loop sequence happen, with the hardware's power-mode changes interleaved at every point of CM0+'s calls.
- The SMPU bounds are those of `MCSmpuBoot`.

## Findings

1. **Wrap at the top of memory** (`driver_smpu.c:221`, code bug). A range ending at 2^32 makes `base + size` 0. The solver then returns success with all subregions disabled. This was confirmed by running the C loop with 32-bit types: base `0xFFFFFD00`, size `0x300` gives address `0xFFFFFC00`, region `0x400`, mask `0xFF`.
2. **Priority override** (`driver_smpu.c:589-591`, code bug, run `smpu_boot_overlap`, see 5). `SMPU_Get_Access_Rules` returns a lower-priority SMPU's full-cover attributes and discards the more restrictive attributes of the higher-priority SMPUs that partly cover the range. The comment at line 577 says the more restrictive attributes are always taken.
3. **PC_MATCH** (spec/code divergence, noted while modelling; no run). The spec reads "PC-match required" as deny-on-mismatch. The code, following the hardware, skips the SMPU.
4. **Degenerate queries** (spec/code divergence, noted while modelling; no run). A zero-size or wrapping query is denied only if an enabled SMPU that does not fully cover it is reached during the scan.

5. **Priority override through the boot configuration** (`driver_smpu.c:591`, code bug, run `smpu_boot_overlap`). This is finding 2 with the registers a successful boot writes, not arbitrary ones. The host range `[144,160)` spans the ITS area and the NV-counter area. The evaluator meets two partial covers, then the static flash SMPU 0's full cover, and answers read-write. This assumes the TF-M core's own lookup allows the range.
6. **NV-counter rollback after a failed program** (`nv_counters.c:249`, code bug). `tfm_plat_set_nv_counter` erases main, then programs it. If the program returns an error, the function returns `TFM_PLAT_ERR_SYSTEM_ERR` with main erased. The new image is only in the backup. `tfm_plat_read_nv_counter` (189) and the next set (209) use main's words without `is_valid`, so a counter acknowledged at 1 reads 0. TLC trace: init; `set(0,1)` succeeds; `set(1,1)` fails at the program of main; counter 0 now reads 0. Resets alone (`nv_counters`) never lose a value: init recovers from the backup.

7. **Stale key-id mapping** (`tfm_crypto_vendor_key_hal.c:157`, code bug, run `vendor_key_stale`). Table entries are never removed, and the lookup takes the first entry in use for an id. Trace:
   - partition p1 opens vendor id 3 into volatile key 10;
   - it destroys key 10;
   - it opens vendor id 4, and mbedcrypto reuses volatile id 10;
   - a sign on key 10 is routed to vendor id 3's slot.
   A client key that reuses the id is also routed to a vendor slot: `is_valid_key` ignores the `psa_get_key_attributes` status and trusts the table.
8. **Mapping table exhaustion** (`crypto_vendor_key.c:153`, code bug, run `vendor_key_exhaust`). After `CY_P64_KEY_SLOT_STATIC_MAX` successful opens, `add_key_id_mapping` fails, whatever was destroyed since. `open_key` then returns `PSA_ERROR_INSUFFICIENT_MEMORY` after the key was imported and stored. That key has no holder, and every later vendor-key open fails the same way; `tfm_plat_open_initial_attest_key` (`crypto_keys.c:90`) opens the device key this way.

9. **A 4 GB unit with a disabled subregion is skipped** (`driver_smpu.c:466`, code bug, checked by hand; no run). For the top REGION_SIZE code, `size` and so the subregion size read as 0. If any subregion is disabled, the leading-subregion loop leaves `size` at 0, and `if (!size) return NOT_COVERED;` treats the unit as if it were disabled. The hardware still enforces it on its enabled subregions. Adding the geometry `<<0, 7, {0, 1, 2, 3}>>` (a 4 GB unit with its lower half disabled) to `MCSmpuAccess` makes TLC report `TopFullCoverDecides` violated: a query at 250 lies in that unit's enabled half, but the driver answers with no SMPU's attributes (all access). The run cap leaves this as a hazard with a note rather than a violation run.
10. **A client's call type or a doorbell panics Protected Storage** (`tfm_ps_req_mngr.c:401-402` and `430`, observed in run `ps_ipc`; no property). `ps_signal_handle` panics on any `msg.type` other than CONNECT, CALL and DISCONNECT, so a `psa_call` with a type above `PSA_IPC_CALL` stops the partition. The loop never calls `psa_clear`, so one `psa_notify` of the partition makes its chain fall through to `psa_panic()` as soon as no service signal is asserted. The `ps_ipc` run fires both panic branches. Whether the SPM lets such a type through is decided by SPM code that is not in this repository; FF-M allows it.

## Not modelled yet, and the plan

The modules are planned in this order, most important first:
1. **SmpuBoot**: done (see above). `ppu_init_cfg` and `bus_masters_cfg`, called after it, are not in the repository.
2. **NvCounters**: done (see above). The XOR checksum's blind spot for word-granular tears is abstracted away: a row is programmed by one row operation.
3. **VendorKey**: done (see above).
4. **PsReqMngr**: done (see above). Starvation of a low-priority service is not ruled out by the code: `OnlyPriorityStarves` shows it is the only way to stay blocked. Whether it happens depends on the SPM's scheduler, which is not in this repository.
5. **Attestation boot seed and key**: done (see above). The claim getters (lifecycle, profile, implementation id, hw version, verification service) return constants or policy strings and keep no state.

6. **NS boot and handshake** (`NsBoot`, composed with `SmpuBoot` in `PlatformBoot`): done (see above).
7. **Certificate store** (`PlatformPs`, composed into `PsReqMngrLib`): done. `tfm_protected_storage.c`, which in TF-M hands OEM UIDs to `tfm_platform_ps_*`, is not in this repository; the routing by `is_tfm_ps_oem_uid` on the 64-bit uid is an assumption of the model (`OemStatus`). The common template `tfm_platform_ps.c` is not built for this platform.
8. **CM4 power control** (`SysCm4`, extended by `NsBoot`): done.

Not modelled, with the reasons:
- Diagnostics: log text only.
- The JSON decoder behind the policy lookups: a vendor library. Its callers' control flow is modelled in `NsBoot`.
- Crypto glue: a vendor library.
- PSA call gates: argument forwarding. Their SPM effect (queue, block until the reply) is in `PsReqMngrIpc`.
- Clock and startup code (`SystemInit`, `SystemCoreClockUpdate` in `system_psoc6_cm0plus.c`, `tfm_hal_platform_init`): register writes and frequency bookkeeping that no modelled code reads. `Cy_SysRetainCM4`: no caller in this repository. The CM4 power functions that are called are `SysCm4`.
- `cy_get_policy_hw_settings`: UART settings for logging.
