----------------------------- MODULE SmpuAccess -----------------------------
(***************************************************************************)
(* Access-rule evaluation of the PSoC64 SMPU driver (driver_smpu.c):       *)
(* SMPU_Get_Access_Rules() and what it calls.                              *)
(*                                                                         *)
(* smpu[i] is the live register state of SMPU i (ATT0 and ADDR0 fields).   *)
(* A query reads it and computes the mem_attr_info_t a bus master with     *)
(* protection context pc has on [p, p+s).  The evaluation is one           *)
(* synchronous function call and is one action.  The hardware itself is   *)
(* modelled beside it (HwDecision): per byte, the highest-numbered enabled *)
(* SMPU whose enabled subregions hold the byte and that matches the PC     *)
(* decides; a byte no SMPU matches is unrestricted.                        *)
(***************************************************************************)
EXTENDS Integers, FiniteSets

CONSTANTS
    AddrBits,         \* width of uintptr_t / uint32_t
    MIN_REGIONSIZE,   \* granularity of ADDR24 << 8
    NumSmpus,         \* CPUSS_PROT_SMPU_STRUCT_NR
    Pcs,              \* protection contexts a caller passes
    UnitConfigs,      \* register states an SMPU can be in
    QueryBases,       \* values of p the checker tries
    QuerySizes,       \* values of s the checker tries
    UDIV0_TRAPS       \* whether the build's unsigned division by zero faults

NUM_SUBREGIONS == 8
Word == 2^AddrBits
UINTPTR_MAX == Word - 1
U(x) == x % Word
Subregions == 0..(NUM_SUBREGIONS - 1)
Units == 0..(NumSmpus - 1)

\* CY_PROT_IS_PC_VALID
ValidPcs == 1..15

ASSUME /\ Pcs \subseteq ValidPcs
       /\ QueryBases \subseteq 0..UINTPTR_MAX
       /\ QuerySizes \subseteq 0..UINTPTR_MAX

\* REGIONSIZE_TO_BYTES(code) = 1 << (code + 1), in a uint32_t.
RegionsizeToBytes(code) == U(2^(code + 1))

\* struct mem_attr_info_t
Attr == [mpu: BOOLEAN, valid: BOOLEAN, xn: BOOLEAN,
         privRd: BOOLEAN, privWr: BOOLEAN, unprivRd: BOOLEAN, unprivWr: BOOLEAN]

\* set_to_deny_all_access
DenyAll == [mpu |-> TRUE, valid |-> TRUE, xn |-> TRUE, privRd |-> FALSE,
            privWr |-> FALSE, unprivRd |-> FALSE, unprivWr |-> FALSE]

\* A plausible slip: is_valid is not written, so the field is missing.
Att0ToTfmAttrNoValid(u) ==
    [mpu |-> TRUE, xn |-> ~u.px, privRd |-> u.pr,
     privWr |-> u.pw, unprivRd |-> u.ur, unprivWr |-> u.uw]

\* smpu_att0_to_tfm_attr: PX/PR/PW/UR/UW of ATT0 (UX is ignored).
Att0ToTfmAttr(u) ==
    [mpu |-> TRUE, valid |-> TRUE, xn |-> ~u.px, privRd |-> u.pr,
     privWr |-> u.pw, unprivRd |-> u.ur, unprivWr |-> u.uw]

\* The attributes returned when no SMPU covers the range.
NoSmpuAttr == [mpu |-> FALSE, valid |-> TRUE, xn |-> TRUE, privRd |-> TRUE,
               privWr |-> TRUE, unprivRd |-> TRUE, unprivWr |-> TRUE]

\* A plausible slip: the allow bits are or-ed like XN.
CombineMemAttrOr(a, b) ==
    IF a.valid /\ ~b.valid THEN b
    ELSE IF ~a.valid /\ b.valid THEN a
    ELSE [a EXCEPT !.mpu = a.mpu \/ b.mpu,
                   !.xn = a.xn \/ b.xn,
                   !.privRd = a.privRd \/ b.privRd,
                   !.privWr = a.privWr \/ b.privWr,
                   !.unprivRd = a.unprivRd \/ b.unprivRd,
                   !.unprivWr = a.unprivWr \/ b.unprivWr]

\* combine_mem_attr(p_attr, p_attr2): an invalid operand wins; otherwise
\* mpu-enabled and XN are or-ed, the allow bits and-ed.
CombineMemAttr(a, b) ==
    IF a.valid /\ ~b.valid THEN b
    ELSE IF ~a.valid /\ b.valid THEN a
    ELSE [a EXCEPT !.mpu = a.mpu \/ b.mpu,
                   !.xn = a.xn \/ b.xn,
                   !.privRd = a.privRd /\ b.privRd,
                   !.privWr = a.privWr /\ b.privWr,
                   !.unprivRd = a.unprivRd /\ b.unprivRd,
                   !.unprivWr = a.unprivWr /\ b.unprivWr]

\* A plausible slip: the last byte is taken as p + s.
CheckAddressRangePastEnd(p, s, start, limit) ==
    /\ p <= UINTPTR_MAX - s
    /\ p >= start
    /\ U(p + s) <= limit

\* A plausible slip: the overflow test is dropped, so p + s - 1 may wrap.
CheckAddressRangeNoOverflow(p, s, start, limit) ==
    /\ p >= start
    /\ U(p + s - 1) <= limit

\* check_address_range(p, s, start, limit) of the SPM core.
CheckAddressRange(p, s, start, limit) ==
    /\ p <= UINTPTR_MAX - s
    /\ p >= start
    /\ U(p + s - 1) <= limit

\* A plausible reading of the undefined remainder: 0, so the ignored
\* address bits stay.
UDivRemZero(x, y) == IF y = 0 THEN 0 ELSE x % y

\* address % size.  For the top REGION_SIZE code (31, 4 GB) the size is 0
\* in a uint32_t and the remainder is undefined: the Thumb-1 libgcc
\* __aeabi_uidivmod of the Cortex-M0+ returns the dividend; a build whose
\* division by zero traps faults instead (see SmpuReadRegion).
UDivRem(x, y) == IF y = 0 THEN x ELSE x % y

\* SMPU_Read_Region: the region as ATT0/ADDR0 describe it, or NONE when the
\* SMPU is disabled.  Address bits below the region size are ignored.
SmpuReadRegion(u) ==
    LET size == RegionsizeToBytes(u.regionSize) IN
    IF ~u.enabled THEN [ok |-> FALSE, address |-> 0, size |-> 0, fault |-> FALSE]
    ELSE [ok |-> TRUE, address |-> u.addr - UDivRem(u.addr, size), size |-> size,
          fault |-> size = 0 /\ UDIV0_TRAPS]

\* Number of disabled subregions at the bottom / at the top of the region.
RECURSIVE LeadingRun(_, _)
LeadingRun(mask, i) == IF i < NUM_SUBREGIONS /\ i \in mask THEN 1 + LeadingRun(mask, i + 1) ELSE 0
RECURSIVE TrailingRun(_, _)
TrailingRun(mask, i) == IF i >= 0 /\ i \in mask THEN 1 + TrailingRun(mask, i - 1) ELSE 0

Coverage(cov, attr) == [cov |-> cov, attr |-> attr, panic |-> FALSE]
NotCovered == Coverage("NOT_COVERED", DenyAll)
Panic == [cov |-> "NOT_COVERED", attr |-> DenyAll, panic |-> TRUE]

\* The SMPU's PC_MASK lacks pc and PC_MATCH is set: it neither allows nor
\* denies access for pc.
NeitherAllowsNorDenies(u, pc) == pc \notin u.pcMask /\ u.pcMatch

\* What SMPU_Region_Coverage writes to p_attr for a covered range: deny-all
\* on a PC mismatch, else the SMPU's ATT0 permissions.
CoverageAttr(u, pc) == IF pc \notin u.pcMask THEN DenyAll ELSE Att0ToTfmAttr(u)

\* SMPU_Region_Coverage(p, s, pc, smpu, p_attr): how much of [p, p+s) the
\* SMPU covers for pc, and the attributes it writes to p_attr.  The subregion
\* trimming runs only when some subregion is disabled; a mask that is not
\* one run at the bottom plus one run at the top panics.
SmpuRegionCoverage(p, s, pc, u) ==
    LET rd        == SmpuReadRegion(u)
        subSize   == rd.size \div NUM_SUBREGIONS
        lead      == LeadingRun(u.subregions, 0)
        trail     == TrailingRun(u.subregions, NUM_SUBREGIONS - 1)
        trimmed   == {i \in Subregions : i < lead \/ i >= NUM_SUBREGIONS - trail}
        address   == U(rd.address + lead * subSize)
        size      == rd.size - (lead + trail) * subSize
        limit     == U(address + size - 1)
        attr      == CoverageAttr(u, pc)
    IN
    IF ~rd.ok THEN NotCovered
    ELSE IF rd.fault THEN Panic
    ELSE IF NeitherAllowsNorDenies(u, pc) THEN NotCovered
    ELSE IF u.subregions # {} /\ rd.size - lead * subSize = 0 THEN NotCovered
    ELSE IF u.subregions # {} /\ trimmed # u.subregions THEN Panic
    ELSE IF CheckAddressRange(p, s, address, limit) THEN Coverage("FULLY_COVERED", attr)
    ELSE IF s = 0 \/ p > UINTPTR_MAX - s THEN Coverage("FULLY_COVERED", DenyAll)
    ELSE IF p <= limit /\ address <= p + s - 1 THEN Coverage("PARTLY_COVERED", attr)
    ELSE NotCovered

Answer(attr) == [panic |-> FALSE, attr |-> attr]
PanicAnswer == [panic |-> TRUE, attr |-> DenyAll]

\* The for-loop of SMPU_Get_Access_Rules from SMPU i-1 down to SMPU 0;
\* attr2 and partlyCovered are its locals.
RECURSIVE ScanSmpus(_, _, _, _, _, _, _)
ScanSmpus(hw, i, p, s, pc, attr2, partlyCovered) ==
    IF i = 0
    THEN IF partlyCovered THEN Answer(attr2) ELSE Answer(NoSmpuAttr)
    ELSE LET c == SmpuRegionCoverage(p, s, pc, hw[i - 1]) IN
         IF c.panic THEN PanicAnswer
         ELSE IF c.cov = "FULLY_COVERED" THEN Answer(c.attr)
         ELSE IF c.cov = "PARTLY_COVERED"
              THEN ScanSmpus(hw, i - 1, p, s, pc,
                             IF partlyCovered THEN CombineMemAttr(attr2, c.attr)
                                              ELSE c.attr,
                             TRUE)
         ELSE ScanSmpus(hw, i - 1, p, s, pc, attr2, partlyCovered)

\* SMPU_Get_Access_Rules(p, s, pc, p_attr) on the register state hw.
SmpuGetAccessRules(hw, p, s, pc) ==
    IF pc \notin ValidPcs THEN PanicAnswer
    ELSE ScanSmpus(hw, NumSmpus, p, s, pc, NoSmpuAttr, FALSE)

-----------------------------------------------------------------------------
(***************************************************************************)
(* The hardware: which SMPU decides an access by pc to byte b.             *)
(***************************************************************************)
\* The hardware's region: 2^(code+1) bytes, at most the whole address space,
\* aligned to its size.
HwRegionBytes(code) == IF code + 1 >= AddrBits THEN Word ELSE 2^(code + 1)

EnabledBytesOf(u) ==
    LET size == HwRegionBytes(u.regionSize)
        base == u.addr - (u.addr % size)
        sub == size \div NUM_SUBREGIONS
    IN IF ~u.enabled THEN {}
       ELSE UNION {(base + i * sub)..(base + (i + 1) * sub - 1) :
                       i \in Subregions \ u.subregions}

\* PC_MATCH set: a PC outside PC_MASK makes the SMPU not match at all.
Matches(u, b, pc) == b \in EnabledBytesOf(u) /\ (pc \in u.pcMask \/ ~u.pcMatch)

\* Access with no matching SMPU is not restricted at all (execution included).
Unrestricted == [NoSmpuAttr EXCEPT !.xn = FALSE]

\* The highest-numbered matching SMPU's attributes; DenyAll on a PC
\* mismatch; unrestricted when nothing matches.
HwDecision(hw, b, pc) ==
    LET m == {i \in Units : Matches(hw[i], b, pc)} IN
    IF m = {} THEN Unrestricted
    ELSE LET top == CHOOSE i \in m : \A j \in m : j <= i IN
         IF pc \in hw[top].pcMask THEN Att0ToTfmAttr(hw[top]) ELSE DenyAll

\* A query that names a non-empty range inside the address space.
WellFormed(p, s) == s > 0 /\ p + s <= Word

\* attr grants nothing that the hardware refuses on some byte of [p, p+s).
SoundFor(hw, attr, p, s, pc) ==
    \A b \in p..(p + s - 1) :
        LET h == HwDecision(hw, b, pc) IN
        /\ attr.privRd => h.privRd
        /\ attr.privWr => h.privWr
        /\ attr.unprivRd => h.unprivRd
        /\ attr.unprivWr => h.unprivWr
        /\ ~attr.xn => ~h.xn

-----------------------------------------------------------------------------
VARIABLES
    smpu,    \* register state of every SMPU
    query,   \* the last [p, s, pc] asked
    answer   \* what SMPU_Get_Access_Rules returned for it

vars == <<smpu, query, answer>>

NoQuery == [p |-> 0, s |-> 0, pc |-> 0]

\* The SMPUs are configured before the first query (boot, see SmpuBoot).
Init ==
    /\ smpu \in [Units -> UnitConfigs]
    /\ query = NoQuery
    /\ answer = Answer(NoSmpuAttr)

\* SMPU_Get_Access_Rules called by tfm_spm_hal_get_{secure,ns}_access_attr.
\* The registers do not change after boot and the function keeps no state
\* between calls, so one call per behaviour reaches every (registers,
\* query, answer) triple there is.
GetAccessRules ==
    /\ query = NoQuery
    /\ \E p \in QueryBases, s \in QuerySizes, pc \in Pcs :
          /\ query' = [p |-> p, s |-> s, pc |-> pc]
          /\ answer' = SmpuGetAccessRules(smpu, p, s, pc)
          /\ UNCHANGED smpu

Next == GetAccessRules

Spec == Init /\ [][Next]_vars

-----------------------------------------------------------------------------
TypeOK ==
    /\ smpu \in [Units -> UnitConfigs]
    /\ query \in [p: 0..UINTPTR_MAX, s: 0..UINTPTR_MAX, pc: Pcs \cup {0}]
    /\ answer \in [panic: BOOLEAN, attr: Attr]

\* The SMPUs that overlap the queried range for this PC at all.
Overlapping(hw, q) ==
    {i \in Units : \E b \in q.p..(q.p + q.s - 1) : Matches(hw[i], b, q.pc)}

\* When no SMPU covers the whole query, SMPU_Get_Access_Rules folds the
\* partly covering ones with most-restrictive-wins and treats the gaps as
\* unrestricted; the answer must never grant more than the hardware grants
\* on any byte of the range.
PartialScanSound ==
    LET q == query IN
    (/\ WellFormed(q.p, q.s)
     /\ ~answer.panic
     /\ \A i \in Overlapping(smpu, q) :
            ~\A b \in q.p..(q.p + q.s - 1) : Matches(smpu[i], b, q.pc))
    => SoundFor(smpu, answer.attr, q.p, q.s, q.pc)

\* Spec 8: when the highest-priority SMPU that overlaps the range covers
\* all of it, its attributes are the answer (deny-all if the PC does not
\* match and PC_MATCH is clear), whatever the lower SMPUs say.  A
\* discontiguous mask anywhere in the scan is a panic, not an answer.
TopFullCoverDecides ==
    LET q == query
        ov == Overlapping(smpu, q)
        top == CHOOSE i \in ov : \A j \in ov : j <= i
    IN
    (/\ WellFormed(q.p, q.s)
     /\ ~answer.panic
     /\ ov # {}
     /\ \A b \in q.p..(q.p + q.s - 1) : Matches(smpu[top], b, q.pc))
    => answer = Answer(IF q.pc \in smpu[top].pcMask THEN Att0ToTfmAttr(smpu[top])
                                                    ELSE DenyAll)

\* An SMPU the scan stops at for pc: enabled, not skipped through PC_MATCH,
\* and with some subregion enabled.
Applies(u, pc) ==
    u.enabled /\ ~NeitherAllowsNorDenies(u, pc) /\ u.subregions # Subregions

\* A query whose range wraps past UINTPTR_MAX is refused as a whole by the
\* first SMPU that applies to the PC, whatever that SMPU covers and allows;
\* a wrapped p + s - 1 must never make a region look like a full cover.
WrappingQueryDenied ==
    LET q == query IN
    (/\ q # NoQuery
     /\ q.p > UINTPTR_MAX - q.s
     /\ \E i \in Units : Applies(smpu[i], q.pc))
    => answer \in {Answer(DenyAll), PanicAnswer}

=============================================================================
