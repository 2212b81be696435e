--------------------------- MODULE MCBackupQueue ---------------------------
(* A small instance of BackupQueue for TLC. *)
EXTENDS BackupQueue

CONSTANT d1

\* The scheduler job or the trigger of one device, and the trigger of the whole
\* inventory, which has more devices than there are workers.
MCBatches == {{d1}, Devices}
=============================================================================
