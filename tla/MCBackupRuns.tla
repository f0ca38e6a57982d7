---------------------------- MODULE MCBackupRuns ----------------------------
(* Two backup runs, two starts of the process. *)
EXTENDS BackupRuns, TLC

WorkerSymmetry == Permutations(Workers)
=============================================================================
