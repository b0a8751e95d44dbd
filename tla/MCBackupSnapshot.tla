--------------------------- MODULE MCBackupSnapshot ---------------------------
(* BackupSnapshot on two volumes and two services besides the database.      *)
EXTENDS BackupSnapshot, TLC

CONSTANTS v1, v2, app, auditor

TwoVolumes == {v1, v2}
TwoClients == {app, auditor}

Symmetry == Permutations(TwoVolumes) \cup Permutations(TwoClients)
=============================================================================
