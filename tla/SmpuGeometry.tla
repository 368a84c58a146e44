---------------------------- MODULE SmpuGeometry ----------------------------
(***************************************************************************)
(* Region geometry of the PSoC64 SMPU driver (driver_smpu.c).              *)
(*                                                                         *)
(* calc_smpu_params() maps a byte range [base, base+size) onto one SMPU    *)
(* region: a power-of-two sized, size-aligned region split into 8 equal    *)
(* subregions, some of which are disabled.  The solver is a pure function; *)
(* it is modelled by operators, and the state machine below only feeds it  *)
(* inputs so that TLC checks the result of every input against a reference *)
(* definition of what the hardware can represent.                          *)
(*                                                                         *)
(* Addresses and sizes are uint32_t / size_t on the target; here they are  *)
(* AddrBits wide and every sum the C code computes wraps modulo 2^AddrBits.*)
(* MIN_REGIONSIZE and MAX_REGIONSIZE are scaled with the word (the code    *)
(* has MAX = 2^30 = word/4, MIN = 256); a subregion mask is the set of the *)
(* indices of its disabled subregions (bit i = CY_PROT_SUBREGION_DIS0<<i). *)
(***************************************************************************)
EXTENDS Integers, FiniteSets

CONSTANTS
    AddrBits,        \* width of uint32_t / size_t / uintptr_t
    MIN_REGIONSIZE,  \* smallest SMPU region in bytes
    MAX_REGIONSIZE   \* largest region the solver tries

NUM_SUBREGIONS == 8

Word == 2^AddrBits

ASSUME /\ AddrBits \in 6..12
       /\ MAX_REGIONSIZE = Word \div 4
       /\ MIN_REGIONSIZE \in {2^k : k \in 3..AddrBits}
       /\ MIN_REGIONSIZE < MAX_REGIONSIZE

\* Unsigned arithmetic of the target: results wrap at the word size.
U(x) == x % Word

Subregions == 0..(NUM_SUBREGIONS - 1)

PowersOfTwo == {2^k : k \in 0..AddrBits}

\* is_whole_power_of_two: ((size - 1) & size) == 0, which also holds for 0.
IsWholePowerOfTwo(size) == size = 0 \/ size \in PowersOfTwo

\* is_aligned: base % size == 0.  size == 0 is a division by zero (undefined
\* behaviour); divByZero is the outcome the build produces for it.
IsAligned(base, size, divByZero) ==
    IF size = 0 THEN divByZero ELSE base % size = 0

\* Bits smeared right by x |= x >> 1 ... x >> 16: the smallest 2^k - 1 >= x.
Smear(x) == (CHOOSE p \in PowersOfTwo : p > x /\ p \div 2 <= x) - 1
SmearZero(x) == IF x = 0 THEN 0 ELSE Smear(x)

\* round_up_to_power_of_two: x--, smear, x++ (0 and values above 2^(w-1)
\* wrap to 0).
RoundUpToPowerOfTwo(x) == U(SmearZero(U(x - 1)) + 1)

\* round_down_to_power_of_two: smear, then x - (x >> 1).
RoundDownToPowerOfTwo(x) == SmearZero(x) - (SmearZero(x) \div 2)

\* round_down_to_multiple
RoundDownToMultiple(base, regionSize) == regionSize * (base \div regionSize)

\* REGIONSIZE_TO_BYTES(code) = 1 << (code + 1), in a uint32_t.
RegionsizeToBytes(code) == U(2^(code + 1))

\* bytes_to_regionsize: the first code whose byte size reaches size.
RECURSIVE BytesToRegionsizeFrom(_, _)
BytesToRegionsizeFrom(ret, size) ==
    IF RegionsizeToBytes(ret) < size THEN BytesToRegionsizeFrom(ret + 1, size)
                                     ELSE ret
BytesToRegionsize(size) == BytesToRegionsizeFrom(1, size)

RegionSizeCodes == 1..(AddrBits - 2)

Failure == [status |-> "FAILURE", address |-> 0, regionSize |-> 0,
            subregions |-> {}]
Success(address, code, mask) ==
    [status |-> "SUCCESS", address |-> address, regionSize |-> code,
     subregions |-> mask]

\* A plausible slip: <= for <, so a region ending exactly at base + size is
\* passed over for a larger one.
RegionContainsStrict(address, regionSize, base, size) ==
    ~(U(address + regionSize) <= U(base + size))

\* A plausible slip: the containment test is dropped.
RegionContainsAlways(address, regionSize, base, size) == TRUE

\* The containment test of the loop: the candidate region, starting at
\* address, reaches the end of the range (both sums wrap).
RegionContains(address, regionSize, base, size) ==
    ~(U(address + regionSize) < U(base + size))

\* A plausible slip: the loop runs one subregion too far.
SubregionMaskPastEnd(address, subSize, base, size) ==
    {num \in 0..NUM_SUBREGIONS :
        \/ U(address + num * subSize) < base
        \/ U(address + num * subSize) >= U(base + size)}

\* The inner loop: a subregion is disabled when it starts below base or
\* at or above base + size (both sums wrap).
SubregionMask(address, subSize, base, size) ==
    {num \in Subregions :
        \/ U(address + num * subSize) < base
        \/ U(address + num * subSize) >= U(base + size)}

\* The body of the for-loop over candidate region sizes.
RECURSIVE TryRegionSize(_, _, _, _)
TryRegionSize(regionSize, highRs, base, size) ==
    LET subSize == regionSize \div NUM_SUBREGIONS
        address == RoundDownToMultiple(base, regionSize)
    IN
    IF regionSize > highRs THEN Failure
    ELSE IF base % subSize # 0 THEN Failure
    ELSE IF size % subSize # 0 \/ size \div subSize > NUM_SUBREGIONS
         THEN TryRegionSize(regionSize * 2, highRs, base, size)
    ELSE IF ~RegionContains(address, regionSize, base, size)
         THEN TryRegionSize(regionSize * 2, highRs, base, size)
    ELSE Success(address, BytesToRegionsize(regionSize),
                 SubregionMask(address, subSize, base, size))

\* A plausible slip: the search starts one size too high.
LowRsDoubled(size) ==
    2 * (IF RoundUpToPowerOfTwo(size) < MIN_REGIONSIZE
         THEN MIN_REGIONSIZE ELSE RoundUpToPowerOfTwo(size))

\* low_rs: the smallest candidate, size rounded up, at least MIN_REGIONSIZE.
LowRs(size) ==
    IF RoundUpToPowerOfTwo(size) < MIN_REGIONSIZE
    THEN MIN_REGIONSIZE ELSE RoundUpToPowerOfTwo(size)

\* high_rs: the largest candidate, 8 * size rounded down, at most
\* MAX_REGIONSIZE.
HighRs(size) ==
    IF size > MAX_REGIONSIZE \div NUM_SUBREGIONS
    THEN MAX_REGIONSIZE
    ELSE RoundDownToPowerOfTwo(U(size * NUM_SUBREGIONS))

\* calc_smpu_params(base, size, &slave_config)
CalcSmpuParams(base, size, divByZero) ==
    IF /\ IsWholePowerOfTwo(size)
       /\ IsAligned(base, size, divByZero)
       /\ size >= MIN_REGIONSIZE
    THEN Success(base, BytesToRegionsize(size), {})
    ELSE TryRegionSize(LowRs(size), HighRs(size), base, size)

-----------------------------------------------------------------------------
(***************************************************************************)
(* Reference: what an SMPU region can represent.  A region of size rs at   *)
(* an rs-aligned address a inside the address space, whose enabled         *)
(* subregions are the contiguous run lo..hi-1, covers exactly              *)
(* [a + lo*rs/8, a + hi*rs/8).  Plain integers, no wrapping.               *)
(***************************************************************************)
TriedRegionSizes == {rs \in PowersOfTwo : MIN_REGIONSIZE <= rs /\ rs <= MAX_REGIONSIZE}

RepresentableWith(rs, base, size) ==
    \E lo \in 0..(NUM_SUBREGIONS - 1), hi \in 1..NUM_SUBREGIONS :
        LET a == base - lo * (rs \div NUM_SUBREGIONS) IN
        /\ lo < hi
        /\ a >= 0 /\ a % rs = 0 /\ a + rs <= Word
        /\ a + hi * (rs \div NUM_SUBREGIONS) = base + size

Representable(base, size) == \E rs \in TriedRegionSizes : RepresentableWith(rs, base, size)

\* The bytes a solved geometry enables, read back as the hardware does.
EnabledBytes(g) ==
    LET rs  == 2^(g.regionSize + 1)
        sub == rs \div NUM_SUBREGIONS
    IN UNION {(g.address + i * sub)..(g.address + (i + 1) * sub - 1) :
                  i \in Subregions \ g.subregions}

-----------------------------------------------------------------------------
VARIABLES base, size, result

vars == <<base, size, result>>

\* The inputs a caller can pass: get_region() results.  InputOk restricts
\* them (the MC module says how).
CONSTANT InputOk(_, _)

Inputs == {bs \in (0..(Word - 1)) \X (0..(Word - 1)) : InputOk(bs[1], bs[2])}

NoResult == [status |-> "NONE", address |-> 0, regionSize |-> 0, subregions |-> {}]

Init ==
    /\ base = 0
    /\ size = 0
    /\ result = NoResult

\* One call of calc_smpu_params on an input of the caller.  The function is
\* called once per dynamic SMPU at boot; one call is one behaviour.
Solve ==
    /\ result = NoResult
    /\ \E bs \in Inputs, divByZero \in BOOLEAN :
          /\ base' = bs[1]
          /\ size' = bs[2]
          /\ result' = CalcSmpuParams(bs[1], bs[2], divByZero)

Next == Solve

Spec == Init /\ [][Next]_vars

-----------------------------------------------------------------------------
TypeOK ==
    /\ base \in 0..(Word - 1)
    /\ size \in 0..(Word - 1)
    /\ result.status \in {"NONE", "SUCCESS", "FAILURE"}
    /\ result.address \in 0..(Word - 1)
    /\ result.subregions \subseteq Subregions

\* Round trip (spec 8): whenever calc_smpu_params succeeds, the region it
\* returns is a legal SMPU region (size-aligned, at least MIN_REGIONSIZE and
\* inside the address space) and the bytes its enabled subregions cover are exactly
\* [base, base + size).  Anything less leaves part of the ITS, PS or NV
\* counter area unprotected, or protects memory nobody asked for.
SolverSound ==
    result.status = "SUCCESS" =>
        LET rs == 2^(result.regionSize + 1) IN
        /\ rs >= MIN_REGIONSIZE
        /\ result.address % rs = 0
        /\ result.address + rs <= Word
        /\ EnabledBytes(result) = base..(base + size - 1)
        /\ size > 0

\* calc_smpu_params() fails only when no region size it may use can
\* represent the range: its early return on a misaligned base, the
\* candidate bounds low_rs/high_rs and the containment test reject nothing
\* that the hardware could have protected.
SolverComplete ==
    result.status = "FAILURE" => ~Representable(base, size)

\* The solver returns the smallest region that works (spec 4.1), so the
\* protected range never drags in the coarser subregion granularity of a
\* larger region than needed.
SolverMinimal ==
    result.status = "SUCCESS" =>
        \A rs \in TriedRegionSizes :
            rs < 2^(result.regionSize + 1) => ~RepresentableWith(rs, base, size)

=============================================================================
