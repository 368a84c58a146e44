---------------------------- MODULE MCSmpuAccess ----------------------------
(***************************************************************************)
(* Model values for SmpuAccess: an 8-bit address space, three SMPUs, two   *)
(* protection contexts.  The geometries overlap in every way the scan      *)
(* distinguishes (nested, straddling, disjoint) and include a              *)
(* discontiguous subregion mask.                                           *)
(***************************************************************************)
EXTENDS SmpuAccess

Off == [enabled |-> FALSE, addr |-> 0, regionSize |-> 5, subregions |-> {},
        pcMask |-> {1}, pcMatch |-> FALSE,
        px |-> FALSE, pr |-> FALSE, pw |-> FALSE, ur |-> FALSE, uw |-> FALSE]

\* <<address, REGION_SIZE code, disabled subregions>>; code 5 is 64 bytes.
Geometries ==
    { <<64, 5, {4, 5, 6, 7}>>,     \* [64, 96)
      <<0, 6, {0, 1, 2}>>,         \* [48, 128)
      <<64, 5, {2}>> }             \* [64, 80) and [88, 128): discontiguous

\* <<PC_MASK, PC_MATCH>>: every PC, PC 1 with deny, PC 1 with skip.
PcSettings == { <<{1, 2}, FALSE>>, <<{1}, FALSE>>, <<{1}, TRUE>> }

\* <<PX, PR, PW, UR, UW>>: read-execute only, everything.
Permissions == { <<TRUE, TRUE, FALSE, TRUE, FALSE>>,
                 <<TRUE, TRUE, TRUE, TRUE, TRUE>> }

\* REGION_SIZE code 7 spans the whole 8-bit space, as code 31 does 32 bits:
\* its size reads as 0, and the address bits the driver should ignore are
\* set.  PC 1 only, read-execute.
FullSpace ==
    [enabled |-> TRUE, addr |-> 128, regionSize |-> 7, subregions |-> {},
     pcMask |-> {1}, pcMatch |-> FALSE,
     px |-> TRUE, pr |-> TRUE, pw |-> FALSE, ur |-> TRUE, uw |-> FALSE]

MCUnitConfigs ==
    {Off, FullSpace} \cup
    { [enabled |-> TRUE, addr |-> g[1], regionSize |-> g[2], subregions |-> g[3],
       pcMask |-> c[1], pcMatch |-> c[2],
       px |-> a[1], pr |-> a[2], pw |-> a[3], ur |-> a[4], uw |-> a[5]] :
         g \in Geometries, c \in PcSettings, a \in Permissions }

MCQueryBases == {40, 64, 88, 90, 104, 120, 250}   \* 88+8, 104+24, 120+8 end at a region end
MCQuerySizes == {0, 1, 8, 24}
====
