--------------------------- MODULE NvCounterSpec ---------------------------
(***************************************************************************)
(* What the platform's non-volatile counters promise to their callers      *)
(* (tfm_plat_nv_counters.h): a set of anti-rollback counters, all 0 when   *)
(* first initialised, each of which only ever moves up.  One step changes  *)
(* one counter; a reset is invisible.                                      *)
(***************************************************************************)
EXTENDS Naturals

CONSTANTS
    Ids,        \* counter identifiers
    MaxValue    \* UINT32_MAX

VARIABLE value   \* value[id]: what tfm_plat_read_nv_counter returns for id

Values == 0..MaxValue

Init == value = [id \in Ids |-> 0]

\* Counter id moves up to v.
Advance(id, v) ==
    /\ v > value[id]
    /\ value' = [value EXCEPT ![id] = v]

Next == \E id \in Ids, v \in Values : Advance(id, v)

Spec == Init /\ [][Next]_value

TypeOK == value \in [Ids -> Values]

=============================================================================
