---------------------------- MODULE MCDatabaseKey ----------------------------
(* Small instances of DatabaseKey for TLC.                                  *)
EXTENDS DatabaseKey, TLC

\* Processes, and the keys named after them, are only compared for identity.
ProcessSymmetry == Permutations(Processes)
=============================================================================
