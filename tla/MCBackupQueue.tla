--------------------------- MODULE MCBackupQueue ---------------------------
(* Small instances of BackupQueue for TLC. *)
EXTENDS BackupQueue, TLC

EqualPriority == [j \in Jobs |-> 0]

\* Workers are interchangeable uuids, and so are the VMs of a job.
QueueSymmetry == Permutations(Workers) \cup Permutations(VMs)
=============================================================================
