--------------------------- MODULE RetainedHistory ---------------------------
(***************************************************************************)
(* What the owner of a history may rely on: a moment that has been added   *)
(* stays, with its image, until a purge covers it, and a purge removes all *)
(* the moments that it covers at once or none.                              *)
(***************************************************************************)
EXTENDS Naturals

CONSTANTS Moments, Stored, Purges, CapturedAt, Cutoff

VARIABLE kept  \* the moments with their images

Init == kept = Stored

Add(m) == kept' = kept \cup {m}

Purge(p) == kept' = {m \in kept : CapturedAt[m] >= Cutoff[p]}

Next ==
    \/ \E m \in Moments \ kept : Add(m)
    \/ \E p \in Purges : Purge(p)

Spec == Init /\ [][Next]_kept

=============================================================================
