--------------------------- MODULE MCRecallDaemon ---------------------------
(* Small instances of RecallDaemon for TLC.                                 *)
EXTENDS RecallDaemon, TLC

\* Frames are only ever compared for identity.
FrameSymmetry == Permutations(Frames)
=============================================================================
