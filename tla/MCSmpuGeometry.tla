--------------------------- MODULE MCSmpuGeometry ---------------------------
(***************************************************************************)
(* Model-checking instance of SmpuGeometry: an 8-bit address space, so     *)
(* every (base, size) pair is tried.                                       *)
(***************************************************************************)
EXTENDS SmpuGeometry

\* Flash areas on this part (ITS, PS, NV counters) lie far below the top of
\* the 4 GB space: no protected range reaches the last MAX_REGIONSIZE bytes.
LowInput(b, s) == b + s <= Word - MAX_REGIONSIZE

\* Every range the uint32_t/size_t arguments can express.
AnyInput(b, s) == TRUE
=============================================================================
