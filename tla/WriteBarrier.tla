---------------------------- MODULE WriteBarrier ----------------------------
(***************************************************************************)
(* What a caller of `rapp-recall pause --wait` or `stop --wait` may rely   *)
(* on: once it has a successful receipt, the history does not grow until   *)
(* a resume begins.  It says nothing of tasks, awaits, the source or the   *)
(* runtime_status row.                                                     *)
(***************************************************************************)
CONSTANT Frames

VARIABLES
    moments,  \* the frames stored so far
    barrier   \* a successful receipt stands

Init ==
    /\ moments = {}
    /\ barrier = FALSE

Record(f) ==
    /\ ~barrier
    /\ moments' = moments \cup {f}
    /\ UNCHANGED barrier

Acknowledge ==
    /\ barrier' = TRUE
    /\ UNCHANGED moments

Lift ==
    /\ barrier' = FALSE
    /\ UNCHANGED moments

Next ==
    \/ \E f \in Frames : Record(f)
    \/ Acknowledge
    \/ Lift

Spec == Init /\ [][Next]_<<moments, barrier>>

=============================================================================
