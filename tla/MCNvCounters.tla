---------------------------- MODULE MCNvCounters ----------------------------
(***************************************************************************)
(* Two counters with values 0..3 (3 standing for UINT32_MAX); PSoC6 flash  *)
(* rows erase to 0.                                                        *)
(***************************************************************************)
EXTENDS NvCounters

CrashOnly == {"crash"}
CrashOrFail == {"crash", "fail"}
====
