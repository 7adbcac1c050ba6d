---------------------------- MODULE MCFrameSource ----------------------------
(* A small instance of FrameSource for TLC.                                 *)
EXTENDS FrameSource
=============================================================================
