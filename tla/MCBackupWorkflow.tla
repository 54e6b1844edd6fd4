-------------------------- MODULE MCBackupWorkflow --------------------------
(* Bounds for TLC: the first machine is due at every time, the others at the first one. *)
EXTENDS BackupWorkflow

MCSchedule == [v \in Vm |-> IF v = 1 THEN Backup ELSE {1}]
=============================================================================
