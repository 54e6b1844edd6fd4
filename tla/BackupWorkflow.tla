--------------------------- MODULE BackupWorkflow ---------------------------
(***************************************************************************)
(* The backup part of fc-brokerd's rounds, and those it shares the work    *)
(* with.  A round reads every machine and its backup entries, picks the    *)
(* machines to handle (Config::backupVms) and takes each one step further  *)
(* (Vm::handleBackupWorkflow), from what it has read at the beginning.     *)
(* Meanwhile the Backup-Daemon answers and users ask for restores in the   *)
(* same entries; LDAP may fail and the broker die between any two calls.   *)
(* An exception ends the backup block of the round for all machines.       *)
(***************************************************************************)
EXTENDS Naturals, FiniteSets

CONSTANTS
  Vm,          \* machines, in the order of their DNs
  Backup,      \* backups of a machine, in the order of their times
  Schedule,    \* bound: the times each machine is due at, of those in Backup
  Iterations,  \* sstBackupNumberOfIterations
  NoVm,
  Overlap,     \* how far back a name may come again: the times a machine is due
               \* at within the hour that the end of summer time repeats
  MaxRepeats,  \* bound: backups begun under a name used before
  MaxFaults,   \* bound: failing LDAP calls, failing backups, crashes
  MaxRestores  \* bound: restores users ask for

ASSUME VmAssumption == Vm \subseteq Nat /\ IsFiniteSet(Vm) /\ NoVm \notin Vm
ASSUME BackupAssumption == Backup \subseteq Nat \ {0} /\ IsFiniteSet(Backup)
ASSUME ScheduleAssumption == Schedule \in [Vm -> SUBSET Backup]
ASSUME IterationsAssumption == Iterations \in Nat \ {0}
ASSUME OverlapAssumption == Overlap \in Nat
ASSUME BoundAssumption == MaxFaults \in Nat /\ MaxRestores \in Nat /\ MaxRepeats \in Nat

VARIABLES
  mode,      \* LDAP: sstProvisioningMode of each entry, "none" without entry
  answer,    \* LDAP: sstProvisioningReturnValue: "unset", "ok" or "failed"
  defined,   \* libvirt: machines whose domain is defined
  latest,    \* the latest time a machine's backup was scheduled for
  pc,        \* "read", "handle", "request", "expire", "sleep"
  unread,    \* machines this round has still to read
  seen,      \* what it read of each machine
  backupVms, \* Config::backupVms: the machines still to handle
  current,   \* the machine in hand
  faults, restores, repeats

ldap == <<mode, answer, latest>>
world == <<ldap, defined>>
vars == <<world, pc, unread, seen, backupVms, current, faults, restores, repeats>>

\* The promise this module keeps; Requests, Modes, ... are defined there.
Lifecycle == INSTANCE BackupLifecycle
               WITH Vm <- Vm, Backup <- Backup, Iterations <- Iterations,
                    Overlap <- Overlap, mode <- mode

Nothing == [active |-> 0, mode |-> "unknown", failed |-> FALSE,
            count |-> 0, finished |-> {}, next |-> 0]

TypeOK ==
  /\ mode \in [Vm -> [Backup -> Lifecycle!Modes]]
  /\ answer \in [Vm -> [Backup -> {"unset", "ok", "failed"}]]
  /\ defined \subseteq Vm
  /\ latest \in [Vm -> Nat]
  /\ pc \in {"read", "handle", "request", "expire", "sleep"}
  /\ unread \subseteq Vm /\ backupVms \subseteq Vm
  /\ \A v \in Vm :
       /\ seen[v].active \in Backup \cup {0}
       /\ seen[v].mode \in Lifecycle!Modes \cup {"unknown", "initialize"}
       /\ seen[v].failed \in BOOLEAN
       /\ seen[v].count \in Nat
       /\ seen[v].finished \subseteq Backup
       /\ seen[v].next \in Backup \cup {0}
  /\ current \in Vm \cup {NoVm}
  /\ pc \in {"request", "expire"} => current \in Vm
  /\ faults \in 0..MaxFaults /\ restores \in 0..MaxRestores /\ repeats \in Nat

Fault == faults < MaxFaults /\ faults' = faults + 1

Cleared == /\ unread' = Vm
           /\ seen' = [v \in Vm |-> Nothing]
           /\ backupVms' = {}
           /\ current' = NoVm

Init ==
  /\ mode = [v \in Vm |-> [b \in Backup |-> "none"]]
  /\ answer = [v \in Vm |-> [b \in Backup |-> "unset"]]
  /\ defined = Vm
  /\ latest = [v \in Vm |-> 0]
  /\ pc = "read"
  /\ unread = Vm
  /\ seen = [v \in Vm |-> Nothing]
  /\ backupVms = {}
  /\ current = NoVm
  /\ faults = 0 /\ restores = 0 /\ repeats = 0

-----------------------------------------------------------------------------
\* Reading: Vm::addAttribute, readVmsByPool, Config::handleVmForBackup.

Entries(v) == {b \in Backup : mode[v][b] # "none"}
Finished(v) == {b \in Backup : mode[v][b] = "finished"}
Unfinished(v) == Entries(v) \ Finished(v)
Answered(v) == {b \in Entries(v) : answer[v][b] # "unset"}

\* The unfinished entry read last and the return value read last count, of
\* whichever entry it is; LDAP gives the entries in any order.
LastOf(S) == IF S = {} THEN {0} ELSE S
CanBeLast(v, active, returned) ==
  /\ active \in LastOf(Unfinished(v))
  /\ returned \in LastOf(Answered(v))
  /\ returned \in Unfinished(v) /\ active \in Answered(v) => returned = active

View(v, active, returned, next) ==
  [active   |-> active,
   mode     |-> IF active = 0 THEN "initialize" ELSE mode[v][active],
   failed   |-> IF returned = 0 THEN FALSE ELSE answer[v][returned] = "failed",
   count    |-> Cardinality(Entries(v)),
   finished |-> Finished(v),
   next     |-> next]

\* Mutant of IsBackupNeeded: an off-by-one in the number to keep.
IsBackupNeededUpTo(view) == view.active # 0 \/ view.count < Iterations + 2

IsBackupNeeded(view) == view.active # 0 \/ view.count < Iterations + 1

\* The map is keyed by the DN of the active backup, which is empty for every
\* machine that has none: of those the last one stays.
WithoutActive == {w \in backupVms : seen[w].active = 0}
HandleForBackup(v, view) ==
  IF ~ IsBackupNeeded(view) THEN backupVms
  ELSE IF view.active # 0 THEN backupVms \cup {v}
  ELSE IF view.next # 0 THEN (backupVms \ WithoutActive) \cup {v}
  ELSE backupVms

\* The times calculateBackupTime may find the machine due at (getNextTime): the
\* next one, or one whose name comes again.  Names are minutes of local time:
\* a round may begin in the minute of the last backup still, and the end of
\* summer time repeats an hour.
ComesAgain(v, b) == b <= latest[v] /\ latest[v] <= b + Overlap /\ repeats < MaxRepeats
CanBeDue(v, b) == b \in Schedule[v] /\ (b = latest[v] + 1 \/ ComesAgain(v, b))

ReadVm(v, active, returned, next) ==
  /\ pc = "read"
  /\ v \in unread
  /\ CanBeLast(v, active, returned)
  /\ next # 0 => active = 0 /\ CanBeDue(v, next)
  /\ seen' = [seen EXCEPT ![v] = View(v, active, returned, next)]
  /\ backupVms' = HandleForBackup(v, View(v, active, returned, next))
  /\ unread' = unread \ {v}
  /\ UNCHANGED <<world, pc, current, faults, restores, repeats>>

ReadDone ==
  /\ pc = "read"
  /\ unread = {}
  /\ pc' = "handle"
  /\ UNCHANGED <<world, unread, seen, backupVms, current, faults, restores, repeats>>

-----------------------------------------------------------------------------
\* Vm::handleBackupWorkflow.

\* backupVms is a map ordered by the DN, that is by time, then by machine.
Before(v, w) == \/ seen[v].active < seen[w].active
                \/ seen[v].active = seen[w].active /\ v <= w

TakeNext(v) ==
  /\ pc = "handle" /\ current = NoVm
  /\ v \in backupVms
  /\ \A w \in backupVms : Before(v, w)
  /\ current' = v
  /\ backupVms' = backupVms \ {v}
  /\ UNCHANGED <<world, pc, unread, seen, faults, restores, repeats>>

InHand(m) == /\ pc = "handle" /\ current # NoVm
             /\ seen[current].mode = m

\* The machine is done with for this round.
GoOn == pc' = "handle" /\ current' = NoVm

\* Mode "initialize": the entry is named for the time of the schedule.
Begin(b) ==
  /\ latest' = [latest EXCEPT ![current] = IF @ < b THEN b ELSE @]
  /\ repeats' = IF latest[current] < b THEN repeats ELSE repeats + 1
  /\ seen' = [seen EXCEPT ![current].active = b]
  /\ pc' = "request"
  /\ UNCHANGED <<answer, defined, unread, backupVms, current, faults, restores>>

AddEntry ==
  /\ InHand("initialize")
  /\ mode[current][seen[current].next] = "none"
  /\ mode' = [mode EXCEPT ![current][seen[current].next] = "initialized"]
  /\ Begin(seen[current].next)

\* hasDn finds an entry of that name: nothing is added, and the request that
\* follows turns the backup that was finished into one under way.
FindEntry ==
  /\ InHand("initialize")
  /\ mode[current][seen[current].next] # "none"
  /\ UNCHANGED mode
  /\ Begin(seen[current].next)

\* Mutant of MayGoOn: an answer nobody takes up.
MayGoOnNotMerged == /\ seen[current].mode \in {"snapshotted", "retained", "restored"}
                    /\ ~ seen[current].failed
\* Mutant of MayGoOn: the return value is not looked at.
MayGoOnAlways == seen[current].mode \in {"snapshotted", "merged", "retained", "restored"}

\* The answers that call for nothing but the next request.
MayGoOn == /\ seen[current].mode \in {"snapshotted", "merged", "retained", "restored"}
           /\ ~ seen[current].failed

Proceed ==
  /\ pc = "handle" /\ current # NoVm
  /\ MayGoOn \/ seen[current].mode = "initialized"
  /\ pc' = "request"
  /\ UNCHANGED <<world, unread, seen, backupVms, current, faults, restores, repeats>>

\* Mutant of Stopped: the machine is not undefined.
NotStopped == defined

Stopped == defined \ {current}

\* stopVmForRestore destroys and undefines the machine.
StopVmForRestore ==
  /\ InHand("unretained") /\ ~ seen[current].failed
  /\ current \in defined
  /\ defined' = Stopped
  /\ pc' = "request"
  /\ UNCHANGED <<ldap, unread, seen, backupVms, current, faults, restores, repeats>>

\* Mutant of NewMode: a mode nobody knows.
NewModeMisspelt(m) ==
  CASE m \in {"initialize", "initialized"} -> "snapshot"
    [] m = "snapshotted" -> "merging"
    [] m = "merged" -> "retain"
    [] m \in {"retained", "restored"} -> "finished"
    [] m = "unretained" -> "restore"

NewMode(m) ==
  CASE m \in {"initialize", "initialized"} -> "snapshot"
    [] m = "snapshotted" -> "merge"
    [] m = "merged" -> "retain"
    [] m \in {"retained", "restored"} -> "finished"
    [] m = "unretained" -> "restore"

\* singleBackupCount is of the beginning of the round.
MustExpire == /\ seen[current].mode = "retained"
              /\ seen[current].count > Iterations
              /\ seen[current].finished # {}

\* sstProvisioningMode of the active entry is replaced, whatever it is now.
Request ==
  /\ pc = "request"
  /\ mode' = [mode EXCEPT ![current][seen[current].active] = NewMode(seen[current].mode)]
  /\ IF MustExpire THEN pc' = "expire" /\ UNCHANGED current ELSE GoOn
  /\ UNCHANGED <<answer, defined, latest, unread, seen, backupVms, faults, restores, repeats>>

Oldest(S) == CHOOSE b \in S : \A c \in S : b <= c

Expire ==
  /\ pc = "expire"
  /\ mode' = [mode EXCEPT ![current][Oldest(seen[current].finished)] = "delete"]
  /\ GoOn
  /\ UNCHANGED <<answer, defined, latest, unread, seen, backupVms, faults, restores, repeats>>

RemoveEntry ==
  /\ InHand("deleted") /\ ~ seen[current].failed
  /\ mode' = [mode EXCEPT ![current][seen[current].active] = "none"]
  /\ answer' = [answer EXCEPT ![current][seen[current].active] = "unset"]
  /\ GoOn
  /\ UNCHANGED <<defined, latest, unread, seen, backupVms, faults, restores, repeats>>

\* A mode that is the Backup-Daemon's to change, or a step that has failed.
NothingToDo ==
  /\ pc = "handle" /\ current # NoVm
  /\ \/ seen[current].mode \in Lifecycle!Requests
     \/ seen[current].mode \in Lifecycle!Answers /\ seen[current].failed
  /\ GoOn
  /\ UNCHANGED <<world, unread, seen, backupVms, faults, restores, repeats>>

\* The exceptions: LDAP fails, or there is no domain to stop.
RoundFails ==
  /\ \/ pc \in {"read", "request", "expire"} /\ Fault
     \/ /\ \E m \in {"initialize", "unretained", "deleted"} : InHand(m)
        /\ Fault
     \/ /\ InHand("unretained") /\ ~ seen[current].failed
        /\ current \notin defined
        /\ UNCHANGED faults
  /\ pc' = "sleep"
  /\ UNCHANGED <<world, unread, seen, backupVms, current, restores, repeats>>

HandleDone ==
  /\ pc = "handle" /\ current = NoVm
  /\ backupVms = {}
  /\ pc' = "sleep"
  /\ UNCHANGED <<world, unread, seen, backupVms, current, faults, restores, repeats>>

Sleep ==
  /\ pc = "sleep"
  /\ Cleared
  /\ pc' = "read"
  /\ UNCHANGED <<world, faults, restores, repeats>>

\* The broker dies and is started again.
Crash ==
  /\ Fault
  /\ Cleared
  /\ pc' = "read"
  /\ UNCHANGED <<world, restores, repeats>>

-----------------------------------------------------------------------------
\* The others: the Backup-Daemon, the users and their administrator.

AnswerTo ==
  [m \in Lifecycle!Requests |->
     CASE m = "snapshot" -> "snapshotted" [] m = "merge" -> "merged"
       [] m = "retain" -> "retained"      [] m = "delete" -> "deleted"
       [] m = "restore" -> "restored"]

\* The Backup-Daemon is done with a request, or has failed.
BackupDaemon(v, b) ==
  /\ mode[v][b] \in Lifecycle!Requests
  /\ mode' = [mode EXCEPT ![v][b] = AnswerTo[@]]
  /\ \/ answer' = [answer EXCEPT ![v][b] = "ok"] /\ UNCHANGED faults
     \/ answer' = [answer EXCEPT ![v][b] = "failed"] /\ Fault
  /\ UNCHANGED <<defined, latest, pc, unread, seen, backupVms, current, restores, repeats>>

\* A user wants a finished backup back, and its large files have been fetched or not.
AskForRestore(v, b) ==
  /\ mode[v][b] = "finished"
  /\ restores < MaxRestores
  /\ restores' = restores + 1
  /\ mode' = [mode EXCEPT ![v][b] = "unretained"]
  /\ \/ answer' = [answer EXCEPT ![v][b] = "ok"] /\ UNCHANGED faults
     \/ answer' = [answer EXCEPT ![v][b] = "failed"] /\ Fault
  /\ UNCHANGED <<defined, latest, pc, unread, seen, backupVms, current, repeats>>

\* A restored machine is defined and started again.
Redefine(v) ==
  /\ v \notin defined
  /\ \A b \in Backup : mode[v][b] \notin {"unretained", "restore"}
  /\ defined' = defined \cup {v}
  /\ UNCHANGED <<ldap, pc, unread, seen, backupVms, current, faults, restores, repeats>>

-----------------------------------------------------------------------------

Round ==
  \/ \E v \in Vm, active, returned, next \in Backup \cup {0} :
       ReadVm(v, active, returned, next)
  \/ ReadDone
  \/ \E v \in Vm : TakeNext(v)
  \/ AddEntry
  \/ FindEntry
  \/ Proceed
  \/ StopVmForRestore
  \/ Request
  \/ Expire
  \/ RemoveEntry
  \/ NothingToDo
  \/ RoundFails
  \/ HandleDone
  \/ Sleep

Next ==
  \/ Round
  \/ Crash
  \/ \E v \in Vm, b \in Backup : BackupDaemon(v, b)
  \/ \E v \in Vm, b \in Backup : AskForRestore(v, b)
  \/ \E v \in Vm : Redefine(v)

\* One thread whose calls return or throw, and a Backup-Daemon that answers.
Spec == /\ Init /\ [][Next]_vars
        /\ WF_vars(Round)
        /\ \A v \in Vm, b \in Backup : WF_vars(BackupDaemon(v, b))

-----------------------------------------------------------------------------

(***************************************************************************)
(* The detailed workflow implements the life every backup is promised,     *)
(* although the broker decides on what it read at the beginning of the     *)
(* round and writes without looking again, and may die in between.  That   *)
(* includes: one backup of a machine under way at a time, never more than  *)
(* Iterations + 1 entries, the oldest one to go, and never so that fewer   *)
(* than Iterations are left.  Only a name that comes again turns a         *)
(* finished backup into one under way, never one that is being restored,   *)
(* and only then is a backup begun that is not the latest.                 *)
(***************************************************************************)
LifecycleKept == Lifecycle!Spec

(***************************************************************************)
(* A step that failed is not followed by the next one, as long as the      *)
(* machine has no other backup: addAttribute keeps one return value for    *)
(* all entries of a machine, so with two the good one can hide the bad.  A *)
(* restore that could not be prepared gives way to a backup of that name.  *)
(***************************************************************************)
FailureStops ==
  [][\A v \in Vm, b \in Backup :
       /\ mode'[v][b] # mode[v][b]
       /\ mode[v][b] \in Lifecycle!Answers
       /\ answer[v][b] = "failed"
       => \/ seen[v].count > 1
          \/ mode[v][b] = "unretained" /\ mode'[v][b] = "snapshot"]_vars

(***************************************************************************)
(* A restore never runs under a running machine: it is asked for only once *)
(* the machine is stopped, and after a crash or an exception between the   *)
(* two it is not asked for at all.                                         *)
(***************************************************************************)
RestoreOnStopped ==
  \A v \in Vm : (\E b \in Backup : mode[v][b] = "restore") => v \notin defined

(***************************************************************************)
(* While no restore is going on, every backup that was begun is finished   *)
(* in the end, and every one that is to go is gone, unless a step of the   *)
(* Backup-Daemon has failed: again and again each machine has nothing      *)
(* under way.  A crash between the entry and the first request, or an      *)
(* exception that ends a round for all machines, only delays it.           *)
(***************************************************************************)
NoRestore == \A v \in Vm, b \in Backup : mode[v][b] \notin Lifecycle!Restoring
Settled(v) == \/ \A b \in Backup : mode[v][b] \in {"none", "finished"}
              \/ \E b \in Backup : answer[v][b] = "failed"
BegunIsFinished == <>[]NoRestore => \A v \in Vm : []<>Settled(v)

(***************************************************************************)
(* "check for deletion of an older backup" (vm.cpp:515): a machine with    *)
(* more finished backups than it is to keep gets rid of one, unless a      *)
(* step has failed.                                                        *)
(***************************************************************************)
SurplusDeleted ==
  \A v \in Vm :
    (Cardinality(Finished(v)) > Iterations) ~>
      \/ Cardinality(Finished(v)) <= Iterations
      \/ \E b \in Backup : answer[v][b] = "failed"
=============================================================================
