---------------------------- MODULE MCTokenCache ----------------------------
(***************************************************************************)
(* Two processes that share a cache file.  The first has room for two      *)
(* refreshes at once; the second has its own audience, so that each finds  *)
(* what the other wrote and writes over it, and never refreshes early.     *)
(***************************************************************************)
EXTENDS TokenCache

CONSTANTS P, Q, p1, q1, g1, g2, k1, k2

MCOwner == [a \in Actor |-> IF a = q1 THEN Q ELSE P]
MCAud == [p \in Process |-> IF p = P THEN "nats" ELSE "other"]
MCKeys == [p \in Process |-> IF p = P THEN {k1, k2} ELSE {k2}]
MCRefreshBefore == [p \in Process |-> IF p = P THEN 2 ELSE 1]
=============================================================================
