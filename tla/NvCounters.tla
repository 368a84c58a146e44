---------------------------- MODULE NvCounters ----------------------------
(***************************************************************************)
(* The PSoC64 non-volatile counters (nv_counters.c).                       *)
(*                                                                         *)
(* All counters live in one struct nv_counters_t {checksum, init_value,    *)
(* counters[]} stored twice: in the main sector and, one sector above, in  *)
(* the backup.  A sector is abstracted to whether its init_value is the    *)
(* NV_COUNTERS_INITIALIZED watermark (wm), whether its XOR checksum        *)
(* matches its words (sumOk), and its counters.                            *)
(*                                                                         *)
(* Each API function is one action.  It runs a fixed sequence of flash     *)
(* driver calls; a call may be cut short by a reset (status "crash") or    *)
(* return an error (status "fail"), and the function then returns at once  *)
(* with nothing undone.  The action chooses among every such outcome.      *)
(* FaultModes says which of the two the environment can produce.           *)
(***************************************************************************)
EXTENDS Integers, Sequences

CONSTANTS
    NUM_NV_COUNTERS,  \* counters in one sector
    MaxValue,         \* UINT32_MAX
    ErasedWord,       \* what a word of an erased flash row reads as
    FaultModes        \* subset of {"crash", "fail"}

ASSUME /\ NUM_NV_COUNTERS \in Nat \ {0}
       /\ ErasedWord \in 0..MaxValue
       /\ FaultModes \subseteq {"crash", "fail"}

Ids == 0..(NUM_NV_COUNTERS - 1)
Values == 0..MaxValue
Sectors == {"main", "backup"}

Sector == [wm: BOOLEAN, sumOk: BOOLEAN, ctr: [Ids -> Values]]

\* An erased row: every word is ErasedWord, which is not the watermark.
Erased == [wm |-> FALSE, sumOk |-> TRUE, ctr |-> [i \in Ids |-> ErasedWord]]

\* A row whose programming was cut off: its cells are indeterminate and the
\* watermark-and-checksum test rejects it.
Torn == [wm |-> FALSE, sumOk |-> FALSE, ctr |-> [i \in Ids |-> ErasedWord]]

\* is_valid
IsValid(s) == s.wm /\ s.sumOk

\* A plausible slip: the loop runs to i <= NUM_NV_COUNTERS.
ZeroCountersPastEnd == [i \in 0..NUM_NV_COUNTERS |-> 0]

\* The loop setting every counter to 0.
ZeroCounters == [i \in Ids |-> 0]

\* The image init writes when neither sector is valid: watermark, zero
\* counters, set_checksum.
FreshImage == [wm |-> TRUE, sumOk |-> TRUE, ctr |-> ZeroCounters]

\* A plausible slip: set_checksum is not called, so the checksum no longer
\* matches the changed counter.
WithCounterNoChecksum(img, id, v) == [img EXCEPT !.ctr[id] = v, !.sumOk = FALSE]

\* counters[id] = value; set_checksum(): the watermark word is kept as read.
WithCounter(img, id, v) == [img EXCEPT !.ctr[id] = v, !.sumOk = TRUE]

\* Flash driver calls.  Initialize and ReadData change nothing.
ReadData == [op |-> "read", at |-> "main", img |-> Erased]
EraseSector(s) == [op |-> "erase", at |-> s, img |-> Erased]
ProgramData(s, img) == [op |-> "program", at |-> s, img |-> img]

\* The flash after call o completes.
Done(fl, o) == IF o.op = "read" THEN fl ELSE [fl EXCEPT ![o.at] = o.img]

\* The flash after call o is cut short by a reset or returns an error: an
\* erase may or may not have happened; a program cut by a reset leaves a
\* torn row, one that returns an error leaves the (erased) row as it was.
Cut(fl, o, mode) ==
    CASE o.op = "read"  -> {fl}
      [] o.op = "erase" -> {fl, [fl EXCEPT ![o.at] = Erased]}
      [] o.op = "program" /\ mode = "crash" -> {[fl EXCEPT ![o.at] = Torn]}
      [] o.op = "program" /\ mode = "fail"  -> {fl}

\* Every way a sequence of driver calls, each followed by
\* "if (err != ARM_DRIVER_OK) return ...", can end.
RECURSIVE Outcomes(_, _)
Outcomes(fl, ops) ==
    IF ops = <<>> THEN {[flash |-> fl, status |-> "ok"]}
    ELSE UNION {{[flash |-> g, status |-> m] : g \in Cut(fl, Head(ops), m)} :
                    m \in FaultModes}
         \cup Outcomes(Done(fl, Head(ops)), Tail(ops))

\* A plausible slip: init never looks at the backup.
InitOpsNoBackup(fl) ==
    IF IsValid(fl["main"]) THEN <<ReadData, ReadData>>
    ELSE <<ReadData, ReadData, ReadData, EraseSector("main"),
           ProgramData("main", FreshImage)>>

\* The driver calls of tfm_plat_init_nv_counter: Initialize, read main; if
\* main is not valid, read backup, erase main, and program main with the
\* backup if that is valid, else with a fresh image.  (The size check at
\* the top compares two build-time constants and passes.)
InitOps(fl) ==
    IF IsValid(fl["main"]) THEN <<ReadData, ReadData>>
    ELSE <<ReadData, ReadData, ReadData, EraseSector("main"),
           ProgramData("main", IF IsValid(fl["backup"]) THEN fl["backup"]
                                                     ELSE FreshImage)>>

\* A plausible slip: the test refusing a lower value is dropped.
RejectsNever(cur, v) == FALSE

\* value < nv_counters.counters[nv_counter_id]
Rejects(cur, v) == v < cur

\* The driver calls of tfm_plat_set_nv_counter(id, v) on the flash fl, and
\* whether it returns success when they all succeed: read main; equal value
\* is success, a lower one INVALID_INPUT; else erase and program backup,
\* then erase and program main, with the same image.
SetSteps(fl, id, v) ==
    LET cur == fl["main"].ctr[id]
        img == WithCounter(fl["main"], id, v)
    IN
    IF v = cur THEN [ops |-> <<ReadData>>, acks |-> TRUE]
    ELSE IF Rejects(cur, v) THEN [ops |-> <<ReadData>>, acks |-> FALSE]
    ELSE [ops |-> <<ReadData, EraseSector("backup"), ProgramData("backup", img),
                    EraseSector("main"), ProgramData("main", img)>>,
          acks |-> TRUE]

-----------------------------------------------------------------------------
VARIABLES
    flash,  \* flash[s]: the content of sector s
    up,     \* tfm_plat_init_nv_counter has succeeded since the last reset
    acked   \* acked[id]: the highest value a set of id has returned
            \* TFM_PLAT_ERR_SUCCESS for (history)

vars == <<flash, up, acked>>

\* A call whose driver calls are ops: it ends in one of their outcomes; a
\* reset ends the call and the firmware; success with acks records v.
Call(ops, id, v, acks) ==
    \E o \in Outcomes(flash, ops) :
        /\ flash' = o.flash
        /\ up' = (up /\ o.status # "crash")
        /\ acked' = IF o.status = "ok" /\ acks
                    THEN [acked EXCEPT ![id] = IF v > @ THEN v ELSE @]
                    ELSE acked

\* Factory state: both sectors erased, nothing initialised.
Init ==
    /\ flash = [s \in Sectors |-> Erased]
    /\ up = FALSE
    /\ acked = [id \in Ids |-> 0]

\* tfm_plat_init_nv_counter at boot.  Only success lets the firmware run;
\* a failure is fatal to the boot, like a reset.
TfmPlatInitNvCounter ==
    /\ ~up
    /\ \E o \in Outcomes(flash, InitOps(flash)) :
          /\ flash' = o.flash
          /\ up' = (o.status = "ok")
    /\ UNCHANGED acked

\* tfm_plat_set_nv_counter(id, v) for an id below NUM_NV_COUNTERS (larger
\* ids return INVALID_INPUT and change nothing).
TfmPlatSetNvCounter ==
    /\ up
    /\ \E id \in Ids, v \in Values :
          Call(SetSteps(flash, id, v).ops, id, v, SetSteps(flash, id, v).acks)

\* tfm_plat_increment_nv_counter(id): read the counter, refuse at
\* UINT32_MAX, else set it to one more.
TfmPlatIncrementNvCounter ==
    /\ up
    /\ \E id \in Ids :
          LET cnt == flash["main"].ctr[id] IN
          IF cnt = MaxValue
          THEN Call(<<ReadData>>, id, cnt, FALSE)
          ELSE Call(<<ReadData>> \o SetSteps(flash, id, cnt + 1).ops,
                    id, cnt + 1, SetSteps(flash, id, cnt + 1).acks)

\* A reset between two calls.
Reset ==
    /\ up
    /\ up' = FALSE
    /\ UNCHANGED <<flash, acked>>

Next ==
    \/ TfmPlatInitNvCounter
    \/ TfmPlatSetNvCounter
    \/ TfmPlatIncrementNvCounter
    \/ Reset

Spec == Init /\ [][Next]_vars

-----------------------------------------------------------------------------
\* The counters the next boot's init leaves in main.
Recovered(fl) ==
    IF IsValid(fl["main"]) THEN fl["main"].ctr
    ELSE IF IsValid(fl["backup"]) THEN fl["backup"].ctr
    ELSE ZeroCounters

\* What tfm_plat_read_nv_counter returns: the counter words of main while
\* the firmware runs; after a reset, what init will recover.
Presented == IF up THEN flash["main"].ctr ELSE Recovered(flash)

TypeOK ==
    /\ flash \in [Sectors -> Sector]
    /\ up \in BOOLEAN
    /\ acked \in [Ids -> Values]

\* No rollback: a value a set or increment reported stored is never lost,
\* through any sequence of later calls, failing driver calls and resets
\* (the backup-then-main update order and init's recovery).
AckedDurable == \A id \in Ids : acked[id] <= Presented[id]

\* While the firmware runs, main holds a valid image: the sector reads and
\* sets take their data from without checking it.
MainValidWhileUp == up => IsValid(flash["main"])

\* The counters as the firmware and every later boot see them implement
\* NvCounterSpec: they start at 0, and each step moves at most one counter,
\* and only up.
Abstract == INSTANCE NvCounterSpec WITH Ids <- Ids, MaxValue <- MaxValue,
                                        value <- Presented

AbstractSpec == Abstract!Spec

=============================================================================
