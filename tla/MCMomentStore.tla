---------------------------- MODULE MCMomentStore ----------------------------
(* Small instances of MomentStore for TLC: three moments, one a second, and  *)
(* purges whose cutoffs cover the first, or the first two.                   *)
EXTENDS MomentStore

CONSTANTS m1, m2, m3, p1, p2

MCCapturedAt == [m \in Moments |-> CASE m = m1 -> 1 [] m = m2 -> 2 [] OTHER -> 3]
MCCutoff == [p \in Purges |-> IF p = p1 THEN 2 ELSE 3]

=============================================================================
