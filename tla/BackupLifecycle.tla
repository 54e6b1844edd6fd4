--------------------------- MODULE BackupLifecycle --------------------------
(***************************************************************************)
(* What fc-brokerd promises of the backups of a machine, whatever fails:   *)
(* the life of every entry below ou=backup, as its sstProvisioningMode     *)
(* shows it.  The broker creates entries, asks for the next step and       *)
(* removes entries; the Backup-Daemon answers; a user may ask for a        *)
(* finished backup to be restored.                                         *)
(***************************************************************************)
EXTENDS Naturals, FiniteSets

CONSTANTS
  Vm,          \* machines that are backed up
  Backup,      \* their backups, in the order of their times
  Iterations,  \* sstBackupNumberOfIterations, at least 1
  Overlap      \* how far back a time's name may be used again

VARIABLE mode  \* sstProvisioningMode of each entry, "none" without entry

Requests == {"snapshot", "merge", "retain", "delete", "restore"}
Answers == {"snapshotted", "merged", "retained", "deleted", "unretained", "restored"}
Modes == {"none", "initialized", "finished"} \cup Requests \cup Answers

\* Entries of a backup the user wants back.
Restoring == {"unretained", "restore", "restored"}

Backups(v, modes) == {b \in Backup : mode[v][b] \in modes}
Set(v, b, m) == mode' = [mode EXCEPT ![v][b] = m]

Init == mode = [v \in Vm |-> [b \in Backup |-> "none"]]

\* A backup is begun as the latest there is, but for names used again: only
\* when no other is under way and there is room for one more than the
\* iterations to keep.
MayBegin(v, b) ==
  /\ Backups(v, Modes \ ({"none", "finished"} \cup Restoring)) = {}
  /\ Cardinality(Backups(v, Modes \ {"none"})) <= Iterations
  /\ \A c \in Backups(v, Modes \ {"none"}) : c <= b + Overlap

Create(v, b) ==
  /\ MayBegin(v, b)
  /\ mode[v][b] = "none"
  /\ Set(v, b, "initialized")

\* Its name has an entry: that backup, finished, is taken for the new one.
\* A user's request for it is overridden, but not a restore under way.
Redo(v, b) ==
  /\ MayBegin(v, b)
  /\ mode[v][b] \in {"finished", "unretained"}
  /\ Set(v, b, "snapshot")

\* The broker writes `to' where it has read `from'.
Ask(v, b, from, to) == mode[v][b] = from /\ Set(v, b, to)
Advance(v, b) ==
  \/ Ask(v, b, "initialized", "snapshot")
  \/ Ask(v, b, "snapshotted", "merge")
  \/ Ask(v, b, "merged", "retain")
  \/ Ask(v, b, "retained", "finished")
  \/ Ask(v, b, "unretained", "restore")
  \/ Ask(v, b, "restored", "finished")
  \/ Ask(v, b, "deleted", "none")

\* The oldest finished backup, but for names used again, goes once enough
\* others are kept; a request to restore it that came too late is overridden.
Expire(v, b) ==
  /\ mode[v][b] \in {"finished"} \cup Restoring
  /\ \A c \in Backups(v, {"finished"}) : b <= c + Overlap
  /\ Cardinality(Backups(v, {"finished"} \cup Restoring) \ {b}) >= Iterations
  /\ Set(v, b, "delete")

\* The Backup-Daemon is done, or has failed, with what it was asked for.
Answer(v, b) ==
  \/ Ask(v, b, "snapshot", "snapshotted")
  \/ Ask(v, b, "merge", "merged")
  \/ Ask(v, b, "retain", "retained")
  \/ Ask(v, b, "delete", "deleted")
  \/ Ask(v, b, "restore", "restored")

\* A user asks for a restore; the large files are fetched first.
Restore(v, b) == Ask(v, b, "finished", "unretained")

Next == \E v \in Vm, b \in Backup :
          \/ Create(v, b)
          \/ Redo(v, b)
          \/ Advance(v, b)
          \/ Expire(v, b)
          \/ Answer(v, b)
          \/ Restore(v, b)

Spec == Init /\ [][Next]_mode
=============================================================================
