--------------------------- MODULE MCBackupStore ---------------------------
(* Two jobs for one snapshot, and two restores of it.                       *)
EXTENDS BackupStore

CONSTANTS j1, j2, b1, q1, q2

MCJobs == {j1, j2}
MCUuids == {b1}
MCRestores == {q1, q2}
=============================================================================
