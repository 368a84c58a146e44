------------------------------- MODULE SysCm4 -------------------------------
(***************************************************************************)
(* The CM4 power control of the CM0+ start-up code                         *)
(* (Device/Source/system_psoc6_cm0plus.c): Cy_SysGetCM4Status,            *)
(* Cy_SysEnableCM4, Cy_SysResetCM4 and Cy_SysDisableCM4.  Each writes      *)
(* CPUSS->CM4_PWR_CTL (the key and a power mode) and then spins on         *)
(* CM4_STATUS.PWR_DONE; Cy_SysEnableCM4 resets an enabled CM4 first and    *)
(* sets CM4_VECTOR_TABLE_BASE before it enables it.  The critical section  *)
(* around each only keeps CM0+ interrupts out; the hardware runs on.       *)
(*                                                                         *)
(* The hardware is the environment: a mode change takes effect some time   *)
(* after the write (PowerModeTakesEffect); PWR_DONE reads 0 from a write   *)
(* that changes the mode until the change has taken effect; a CM4 that     *)
(* goes from DISABLED or RESET to ENABLED boots from the vector table at   *)
(* CM4_VECTOR_TABLE_BASE at that moment.                                   *)
(*                                                                         *)
(* Where CM0+ is inside a call is cm4Call: "idle" (in no call), "reset"    *)
(* (in the wait of the Cy_SysResetCM4 that Cy_SysEnableCM4 makes),         *)
(* "enable" and "disable" (in the wait of Cy_SysEnableCM4 and              *)
(* Cy_SysDisableCM4); cm4Arg is Cy_SysEnableCM4's vectorTableOffset.       *)
(* Cy_SysRetainCM4 has no caller in this repository and is left out.       *)
(***************************************************************************)

CY_SYS_CM4_STATUS_DISABLED == "DISABLED"
CY_SYS_CM4_STATUS_RESET == "RESET"
CY_SYS_CM4_STATUS_RETAINED == "RETAINED"
CY_SYS_CM4_STATUS_ENABLED == "ENABLED"

PwrModes == {CY_SYS_CM4_STATUS_DISABLED, CY_SYS_CM4_STATUS_RESET,
             CY_SYS_CM4_STATUS_RETAINED, CY_SYS_CM4_STATUS_ENABLED}

VARIABLES
    pwrMode,   \* CM4_PWR_CTL.PWR_MODE: the mode last written
    cm4,       \* the power mode in effect
    pwrDone,   \* CM4_STATUS.PWR_DONE
    vtor,      \* CM4_VECTOR_TABLE_BASE
    cm4Vec,    \* the vector table the CM4 last booted from (history)
    cm4Call,   \* where CM0+ is inside a Cy_Sys*CM4 call
    cm4Arg     \* the vectorTableOffset of the Cy_SysEnableCM4 in progress

cm4Vars == <<pwrMode, cm4, pwrDone, vtor, cm4Vec, cm4Call, cm4Arg>>

\* Cy_SysGetCM4Status: the PWR_MODE field of CM4_PWR_CTL, i.e. the mode
\* last requested, whether or not it has taken effect.
Cy_SysGetCM4Status == pwrMode

\* The read-modify-write of CM4_PWR_CTL that each call makes: the key
\* CY_SYS_CM4_PWR_CTL_KEY_OPEN and the power mode m.
WritePwrMode(m) ==
    /\ pwrMode' = m
    /\ pwrDone' = (m = cm4)

\* Cy_SysEnableCM4, lines 353-358: the vector table base, then the key
\* and CY_SYS_CM4_STATUS_ENABLED.
SetVectorAndEnable(v) ==
    /\ vtor' = v
    /\ WritePwrMode(CY_SYS_CM4_STATUS_ENABLED)

\* Cy_SysEnableCM4(v) up to its wait: if the CM4 is enabled, the write of
\* Cy_SysResetCM4 (whose wait comes next); otherwise the vector table and
\* the enable.
EnableCall(v) ==
    /\ cm4Call = "idle"
    /\ IF Cy_SysGetCM4Status = CY_SYS_CM4_STATUS_ENABLED
       THEN /\ WritePwrMode(CY_SYS_CM4_STATUS_RESET)
            /\ cm4Call' = "reset"
            /\ UNCHANGED vtor
       ELSE /\ SetVectorAndEnable(v)
            /\ cm4Call' = "enable"
    /\ cm4Arg' = v
    /\ UNCHANGED <<cm4, cm4Vec>>

\* The wait of Cy_SysResetCM4 ends; Cy_SysEnableCM4 goes on with the
\* vector table and the enable.
ResetReturns ==
    /\ cm4Call = "reset" /\ pwrDone
    /\ SetVectorAndEnable(cm4Arg)
    /\ cm4Call' = "enable"
    /\ UNCHANGED <<cm4, cm4Vec, cm4Arg>>

\* The wait of Cy_SysEnableCM4 ends, and the call returns.
EnableReturns ==
    /\ cm4Call = "enable" /\ pwrDone
    /\ cm4Call' = "idle"
    /\ UNCHANGED <<pwrMode, cm4, pwrDone, vtor, cm4Vec, cm4Arg>>

\* Cy_SysDisableCM4 up to its wait.
DisableCall ==
    /\ cm4Call = "idle"
    /\ WritePwrMode(CY_SYS_CM4_STATUS_DISABLED)
    /\ cm4Call' = "disable"
    /\ UNCHANGED <<cm4, vtor, cm4Vec, cm4Arg>>

\* A plausible slip: Cy_SysDisableCM4 returns without waiting for
\* PWR_DONE (as Cy_SysRetainCM4 does).
DisableReturnsNoWait ==
    /\ cm4Call = "disable"
    /\ cm4Call' = "idle"
    /\ UNCHANGED <<pwrMode, cm4, pwrDone, vtor, cm4Vec, cm4Arg>>

\* The wait of Cy_SysDisableCM4 ends, and the call returns.
DisableReturns ==
    /\ cm4Call = "disable" /\ pwrDone
    /\ cm4Call' = "idle"
    /\ UNCHANGED <<pwrMode, cm4, pwrDone, vtor, cm4Vec, cm4Arg>>

\* The hardware: the requested mode takes effect and PWR_DONE is set; a
\* CM4 released from DISABLED or RESET boots from CM4_VECTOR_TABLE_BASE.
PowerModeTakesEffect ==
    /\ cm4 # pwrMode
    /\ cm4' = pwrMode
    /\ pwrDone' = TRUE
    /\ cm4Vec' = IF pwrMode = CY_SYS_CM4_STATUS_ENABLED
                    /\ cm4 \in {CY_SYS_CM4_STATUS_DISABLED, CY_SYS_CM4_STATUS_RESET}
                 THEN vtor ELSE cm4Vec
    /\ UNCHANGED <<pwrMode, vtor, cm4Call, cm4Arg>>

Cm4TypeOK(Vectors) ==
    /\ pwrMode \in PwrModes /\ cm4 \in PwrModes
    /\ pwrDone \in BOOLEAN
    /\ vtor \in Vectors /\ cm4Vec \in Vectors /\ cm4Arg \in Vectors
    /\ cm4Call \in {"idle", "reset", "enable", "disable"}
=============================================================================
