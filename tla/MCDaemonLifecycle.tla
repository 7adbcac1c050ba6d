-------------------------- MODULE MCDaemonLifecycle --------------------------
(* Small instances of DaemonLifecycle for TLC.                              *)
EXTENDS DaemonLifecycle, TLC

\* Daemons and senders are only compared for identity.
ProcessSymmetry == Permutations(Daemons) \cup Permutations(Senders)
=============================================================================
