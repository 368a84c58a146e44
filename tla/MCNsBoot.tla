------------------------------ MODULE MCNsBoot ------------------------------
(* NsBoot with small values for TLC.                                       *)
EXTENDS NsBoot

\* The policy's boot config for image 1: unreadable, or enabled/disabled
\* with a timeout under and over the timer's maximum.
MCBootConfigs ==
    {[ok |-> FALSE, enable |-> TRUE, timeout |-> 0]}
    \cup [ok: {TRUE}, enable: BOOLEAN, timeout: {2, 4}]
\* No "extclk" block, or one whose boolean and integer entries are each
\* absent, well typed, or of a type the getters refuse.
MCExtClkBlocks ==
    {[present |-> FALSE, bool |-> "absent", uint32 |-> "absent"]}
    \cup [present: {TRUE}, bool: {"absent", "int01", "intOther"}, uint32: {"int01", "string"}]
=============================================================================
