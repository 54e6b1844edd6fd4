------------------------ MODULE BackupWorkflowProofs ------------------------
(***************************************************************************)
(* What holds of the backup workflow for all machines, backups, schedules, *)
(* numbers of faults and restores: it implements BackupLifecycle, although *)
(* a round writes on the strength of what it has read at its beginning.    *)
(*                                                                         *)
(* The argument: what a waiting machine was seen to be still holds of its  *)
(* active entry, unless the Backup-Daemon has the entry in hand; only the  *)
(* broker moves the others on.  Users turn finished entries into ones to   *)
(* be restored, so that counts stay and the finished seen are at rest.  A  *)
(* backup begun under a name used before finds all entries of its machine  *)
(* finished, or asked back since, and takes one of them over; no time is   *)
(* further than Overlap behind the latest.                                 *)
(***************************************************************************)
EXTENDS BackupWorkflow, FiniteSetTheorems, WellFoundedInduction, TLAPS

\* From the first request of a backup to its last.
UnderWay == {"initialized", "snapshot", "snapshotted", "merge", "merged", "retain", "retained"}
AtRest == {"finished", "unretained", "restore", "restored"}
Resting(v) == {b \in Backup : mode[v][b] \in AtRest}

SeenType ==
  [active : Backup \cup {0}, mode : Lifecycle!Modes \cup {"unknown", "initialize"},
   failed : BOOLEAN, count : Nat, finished : SUBSET Backup, next : Backup \cup {0}]
Types == TypeOK /\ seen \in [Vm -> SeenType]

Control ==
  /\ current \notin backupVms
  /\ unread \cap backupVms = {}
  /\ pc = "read" => current = NoVm

\* The entries of a machine.
Ordered(v) == \A b \in Backup : mode[v][b] # "none" => b <= latest[v]
OneUnderWay(v) ==
  \A b \in Backup : mode[v][b] \in UnderWay =>
    /\ latest[v] <= b + Overlap
    /\ \A c \in Backup \ {b} : mode[v][c] \in AtRest \cup {"none"}
Stands(v) == \A b \in Backup : mode[v][b] = "restore" => v \notin defined
Sound == \A v \in Vm : Ordered(v) /\ OneUnderWay(v) /\ Stands(v)

\* A machine that waits to be handled, and what was seen of it.
Waiting(v) == (v \in backupVms /\ pc # "sleep") \/ (v = current /\ pc = "handle")
SeesEntries(v) ==
  /\ seen[v].count = Cardinality(Entries(v))
  /\ seen[v].finished \subseteq Resting(v)
  /\ Finished(v) \subseteq seen[v].finished
SeesActive(v) ==
  /\ seen[v].active \in Backup
  /\ seen[v].mode \in Lifecycle!Modes \ {"none", "finished"}
  /\ seen[v].mode \notin Lifecycle!Requests => mode[v][seen[v].active] = seen[v].mode
Quiet(v) == \A b \in Backup : mode[v][b] \in {"none", "finished", "unretained"}
MayBegin(v) ==
  /\ seen[v].active = 0 /\ seen[v].mode = "initialize"
  /\ seen[v].next \in Backup
  /\ seen[v].next <= latest[v] + 1
  /\ latest[v] <= seen[v].next + Overlap
  /\ seen[v].count <= Iterations
  /\ Quiet(v)
Seen == \A v \in Vm : Waiting(v) => SeesEntries(v) /\ (SeesActive(v) \/ MayBegin(v))

\* The machine in hand between two modifications of LDAP.
GoesOn(v) ==
  /\ seen[v].mode \in {"initialized", "snapshotted", "merged", "retained", "restored",
                       "unretained"}
  /\ mode[v][seen[v].active] = seen[v].mode
  /\ SeesEntries(v)
  /\ seen[v].mode = "unretained" => v \notin defined
\* A backup begun has an entry of its own, or that of a backup at rest.
Begun(v) ==
  /\ seen[v].mode = "initialize"
  /\ latest[v] <= seen[v].active + Overlap
  /\ \/ mode[v][seen[v].active] = "initialized"
     \/ /\ mode[v][seen[v].active] # "none"
        /\ Quiet(v)
        /\ Cardinality(Entries(v)) <= Iterations
Requesting ==
  pc = "request" => seen[current].active \in Backup /\ (Begun(current) \/ GoesOn(current))
Expiring ==
  pc = "expire" =>
    /\ seen[current].finished # {}
    /\ seen[current].finished \subseteq Resting(current)
    /\ Finished(current) \subseteq seen[current].finished \cup {seen[current].active}
    /\ latest[current] <= seen[current].active + Overlap
    /\ Entries(current) = Resting(current)
    /\ Cardinality(Entries(current)) > Iterations

IInv == Types /\ Control /\ Sound /\ Seen /\ Requesting /\ Expiring

-----------------------------------------------------------------------------
\* One entry changes.

Writes(u, b, m) ==
  /\ mode'[u][b] = m
  /\ \A c \in Backup \ {b} : mode'[u][c] = mode[u][c]
  /\ \A v \in Vm \ {u} : mode'[v] = mode[v]

LEMMA ModeWritten ==
  ASSUME Types, NEW u \in Vm, NEW b \in Backup, NEW m \in Lifecycle!Modes,
         mode' = [mode EXCEPT ![u][b] = m]
  PROVE  /\ Writes(u, b, m)
         /\ mode' \in [Vm -> [Backup -> Lifecycle!Modes]]
<1>1. mode \in [Vm -> [Backup -> Lifecycle!Modes]]
  BY DEF Types, TypeOK
<1> QED  BY <1>1 DEF Writes

LEMMA ModesAre ==
  /\ Lifecycle!Modes = {"none"} \cup UnderWay \cup AtRest \cup {"delete", "deleted"}
  /\ Lifecycle!Restoring = AtRest \ {"finished"}
  /\ Lifecycle!Requests \subseteq Lifecycle!Modes
BY DEF Lifecycle!Modes, Lifecycle!Requests, Lifecycle!Answers, Lifecycle!Restoring, UnderWay,
       AtRest

LEMMA CountsEntries ==
  ASSUME NEW S, S \subseteq Backup
  PROVE  IsFiniteSet(S) /\ Cardinality(S) \in Nat
BY BackupAssumption, FS_Subset, FS_CardinalityType

-----------------------------------------------------------------------------
\* Type correctness.

LEMMA FaultStep == TypeOK /\ Fault => faults' \in 0..MaxFaults
<1> SUFFICES ASSUME TypeOK, Fault PROVE faults' \in 0..MaxFaults
  OBVIOUS
<1>1. faults \in 0..MaxFaults
  BY DEF TypeOK
<1>2. faults < MaxFaults /\ faults' = faults + 1
  BY DEF Fault
<1> QED  BY <1>1, <1>2, BoundAssumption, SMT

LEMMA ViewType ==
  ASSUME Types, NEW v \in Vm, NEW active \in Backup \cup {0}, NEW returned \in Backup \cup {0},
         NEW next \in Backup \cup {0}, active \in LastOf(Unfinished(v))
  PROVE  View(v, active, returned, next) \in SeenType
<1>1. Cardinality(Entries(v)) \in Nat
  BY CountsEntries DEF Entries
<1>2. (IF active = 0 THEN "initialize" ELSE mode[v][active])
         \in Lifecycle!Modes \cup {"unknown", "initialize"}
  BY DEF Types, TypeOK
<1>3. (IF returned = 0 THEN FALSE ELSE answer[v][returned] = "failed") \in BOOLEAN
  OBVIOUS
<1>4. Finished(v) \in SUBSET Backup
  BY DEF Finished
<1> QED  BY <1>1, <1>2, <1>3, <1>4 DEF View, SeenType

LEMMA NewModeType ==
  ASSUME NEW m \in {"initialize", "initialized", "snapshotted", "merged", "retained", "restored",
                    "unretained"}
  PROVE  NewMode(m) \in {"snapshot", "merge", "retain", "finished", "restore"}
BY DEF NewMode

LEMMA OldestIn ==
  ASSUME NEW S, S \subseteq Backup, S # {}
  PROVE  Oldest(S) \in S /\ \A c \in S : Oldest(S) <= c
<1>1. S \subseteq Nat
  BY BackupAssumption
<1>2. \E b \in S : \A c \in S : ~ (<<c, b>> \in OpToRel(<, Nat))
  BY <1>1, WFMin, NatLessThanWellFounded, Zenon
<1>3. PICK b \in S : \A c \in S : ~ (<<c, b>> \in OpToRel(<, Nat))
  BY <1>2
<1>4. \A c \in S : ~ (c < b)
  BY <1>1, <1>3, Zenon DEF OpToRel
<1>5. \A c \in S : b <= c
  BY <1>1, <1>4, SMT
<1> QED  BY <1>5 DEF Oldest

LEMMA ClearedTypes == Cleared => seen' \in [Vm -> SeenType] /\ unread' \subseteq Vm
                                 /\ backupVms' \subseteq Vm /\ current' \in Vm \cup {NoVm}
BY DEF Cleared, SeenType, Nothing

LEMMA TypesFromParts ==
  ASSUME mode' \in [Vm -> [Backup -> Lifecycle!Modes]],
         answer' \in [Vm -> [Backup -> {"unset", "ok", "failed"}]],
         defined' \subseteq Vm, latest' \in [Vm -> Nat],
         pc' \in {"read", "handle", "request", "expire", "sleep"},
         unread' \subseteq Vm, backupVms' \subseteq Vm, seen' \in [Vm -> SeenType],
         current' \in Vm \cup {NoVm}, pc' \in {"request", "expire"} => current' \in Vm,
         faults' \in 0..MaxFaults, restores' \in 0..MaxRestores, repeats' \in Nat
  PROVE  Types'
BY DEF Types, TypeOK, SeenType

LEMMA TypesInit == Init => Types
<1> SUFFICES ASSUME Init PROVE Types
  OBVIOUS
<1>1. Nothing \in SeenType
  BY DEF Nothing, SeenType
<1>2. seen \in [Vm -> SeenType]
  BY <1>1 DEF Init
<1>3. mode \in [Vm -> [Backup -> Lifecycle!Modes]]
  BY DEF Init, Lifecycle!Modes
<1>4. /\ answer \in [Vm -> [Backup -> {"unset", "ok", "failed"}]]
      /\ latest \in [Vm -> Nat]
  BY DEF Init
<1>5. \A v \in Vm : seen[v] \in SeenType
  BY <1>2
<1> QED
  BY <1>2, <1>3, <1>4, <1>5, BoundAssumption DEF Init, Types, TypeOK, SeenType

LEMMA ReadTypes ==
  ASSUME IInv, NEW v \in Vm, NEW active \in Backup \cup {0},
         NEW returned \in Backup \cup {0}, NEW next \in Backup \cup {0},
         ReadVm(v, active, returned, next)
  PROVE  Types'
<1>1. View(v, active, returned, next) \in SeenType
  BY ViewType DEF ReadVm, CanBeLast, IInv
<1>2. seen' \in [Vm -> SeenType]
  BY <1>1 DEF ReadVm, IInv, Types
<1>3. backupVms' \subseteq Vm
  BY DEF ReadVm, HandleForBackup, WithoutActive, IInv, Types, TypeOK
<1> QED
  BY <1>2, <1>3, TypesFromParts DEF ReadVm, IInv, Types, TypeOK, world, ldap

\* A backup begun is one of a machine with all its entries at rest.
LEMMA BeginsSeen ==
  ASSUME IInv, AddEntry \/ FindEntry
  PROVE  /\ current \in Vm /\ seen[current].mode = "initialize"
         /\ MayBegin(current) /\ SeesEntries(current)
         /\ seen[current].next \in Backup /\ Begin(seen[current].next)
<1>1. current \in Vm /\ Waiting(current) /\ seen[current].mode = "initialize"
  BY DEF AddEntry, FindEntry, InHand, IInv, Types, TypeOK, Waiting
<1>2. MayBegin(current) /\ SeesEntries(current)
  BY <1>1 DEF IInv, Seen, SeesActive, Lifecycle!Modes, Lifecycle!Requests, Lifecycle!Answers
<1> QED  BY <1>1, <1>2 DEF MayBegin, AddEntry, FindEntry

LEMMA BeginsLatest ==
  ASSUME IInv, AddEntry \/ FindEntry
  PROVE  /\ latest' \in [Vm -> Nat]
         /\ latest[current] \in Nat /\ latest'[current] \in Nat
         /\ latest[current] <= latest'[current]
         /\ seen[current].next <= latest'[current]
         /\ latest'[current] <= seen[current].next + Overlap
         /\ \A v \in Vm \ {current} : latest'[v] = latest[v]
<1> DEFINE n == seen[current].next
           l == latest[current]
<1>1. current \in Vm /\ MayBegin(current) /\ n \in Backup
  BY BeginsSeen
<1>2. n \in Nat /\ l \in Nat /\ latest \in [Vm -> Nat]
  BY <1>1, BackupAssumption DEF IInv, Types, TypeOK
<1>3. latest' = [latest EXCEPT ![current] = IF l < n THEN n ELSE l]
  BY BeginsSeen DEF Begin
<1>4. latest'[current] = IF l < n THEN n ELSE l
  BY <1>1, <1>2, <1>3
<1>5. l <= n + Overlap
  BY <1>1 DEF MayBegin
<1>6. latest' \in [Vm -> Nat] /\ \A v \in Vm \ {current} : latest'[v] = latest[v]
  BY <1>1, <1>2, <1>3
<1>7. l <= latest'[current] /\ n <= latest'[current] /\ latest'[current] <= n + Overlap
  <2> HIDE DEF n, l
  <2> QED  BY <1>2, <1>4, <1>5, OverlapAssumption, SMT
<1> QED  BY <1>2, <1>6, <1>7

LEMMA BeginTypes == ASSUME IInv, AddEntry \/ FindEntry PROVE Types'
<1> DEFINE b == seen[current].next
<1>1. current \in Vm /\ b \in Backup /\ Begin(b)
  BY BeginsSeen
<1>2. mode' \in [Vm -> [Backup -> Lifecycle!Modes]]
  <2>1. CASE AddEntry
    BY <1>1, <2>1, ModeWritten, "initialized" \in Lifecycle!Modes
    DEF AddEntry, IInv, Lifecycle!Modes
  <2>2. CASE FindEntry
    BY <2>2 DEF FindEntry, IInv, Types, TypeOK
  <2> QED  BY <2>1, <2>2
<1>3. latest' \in [Vm -> Nat]
  BY BeginsLatest
<1>4. seen' = [seen EXCEPT ![current].active = b] /\ seen \in [Vm -> SeenType]
  BY <1>1 DEF Begin, IInv, Types
<1>5. seen' \in [Vm -> SeenType]
  BY <1>1, <1>4 DEF SeenType
<1>6. repeats' \in Nat
  BY <1>1 DEF Begin, IInv, Types, TypeOK
<1> QED
  BY <1>1, <1>2, <1>3, <1>5, <1>6, TypesFromParts DEF Begin, IInv, Types, TypeOK

LEMMA RequestTypes == ASSUME IInv, Request PROVE Types'
<1>1. /\ current \in Vm /\ seen[current].active \in Backup
      /\ Begun(current) \/ GoesOn(current)
  BY DEF Request, IInv, Types, TypeOK, Requesting
<1>2. NewMode(seen[current].mode) \in Lifecycle!Modes
  BY <1>1, NewModeType DEF Begun, GoesOn, Lifecycle!Modes, Lifecycle!Requests
<1>3. mode' \in [Vm -> [Backup -> Lifecycle!Modes]]
  BY <1>1, <1>2, ModeWritten DEF Request, IInv
<1>4. /\ current' \in Vm \cup {NoVm} /\ pc' \in {"handle", "expire"}
      /\ pc' = "expire" => current' \in Vm
  BY <1>1 DEF Request, GoOn
<1> QED
  BY <1>3, <1>4, TypesFromParts DEF Request, IInv, Types, TypeOK

LEMMA ExpireTypes == ASSUME IInv, Expire PROVE Types'
<1>1. current \in Vm /\ seen[current].finished \subseteq Backup
  BY DEF Expire, IInv, Types, TypeOK
<1>2. Oldest(seen[current].finished) \in Backup
  BY <1>1, OldestIn DEF Expire, IInv, Expiring
<1>3. mode' \in [Vm -> [Backup -> Lifecycle!Modes]]
  BY <1>1, <1>2, ModeWritten, "delete" \in Lifecycle!Modes
  DEF Expire, IInv, Lifecycle!Modes, Lifecycle!Requests
<1> QED
  BY <1>3, TypesFromParts DEF Expire, GoOn, IInv, Types, TypeOK

\* What is in hand in a mode has been seen, and is what it was seen to be.
LEMMA HandInHand ==
  ASSUME IInv, NEW m \in Lifecycle!Modes, m \notin Lifecycle!Requests, InHand(m)
  PROVE  /\ current \in Vm /\ seen[current].active \in Backup
         /\ mode[current][seen[current].active] = m
         /\ SeesEntries(current)
<1>1. current \in Vm /\ Waiting(current)
  BY DEF InHand, IInv, Types, TypeOK, Waiting
<1>2. m # "initialize"
  BY DEF Lifecycle!Modes, Lifecycle!Requests, Lifecycle!Answers
<1>3. SeesActive(current) /\ SeesEntries(current)
  BY <1>1, <1>2 DEF IInv, Seen, MayBegin, InHand
<1> QED  BY <1>1, <1>3 DEF SeesActive, InHand

LEMMA RemoveEntryTypes == ASSUME IInv, RemoveEntry PROVE Types'
<1>1. current \in Vm /\ seen[current].active \in Backup
  BY HandInHand DEF RemoveEntry, Lifecycle!Modes, Lifecycle!Requests, Lifecycle!Answers
<1>2. mode' \in [Vm -> [Backup -> Lifecycle!Modes]]
  BY <1>1, ModeWritten, "none" \in Lifecycle!Modes DEF RemoveEntry, IInv, Lifecycle!Modes
<1>3. answer' \in [Vm -> [Backup -> {"unset", "ok", "failed"}]]
  BY <1>1 DEF RemoveEntry, IInv, Types, TypeOK
<1> QED
  BY <1>2, <1>3, TypesFromParts DEF RemoveEntry, GoOn, InHand, IInv, Types, TypeOK

LEMMA AnswerType ==
  ASSUME NEW m \in Lifecycle!Requests
  PROVE  AnswerTo[m] \in {"snapshotted", "merged", "retained", "deleted", "restored"}
BY DEF AnswerTo, Lifecycle!Requests

LEMMA AnswerSet ==
  ASSUME Types, NEW v \in Vm, NEW b \in Backup,
         \/ answer' = [answer EXCEPT ![v][b] = "ok"] /\ UNCHANGED faults
         \/ answer' = [answer EXCEPT ![v][b] = "failed"] /\ Fault
  PROVE  answer' \in [Vm -> [Backup -> {"unset", "ok", "failed"}]] /\ faults' \in 0..MaxFaults
<1>1. TypeOK /\ faults \in 0..MaxFaults
  BY DEF Types, TypeOK
<1>2. answer \in [Vm -> [Backup -> {"unset", "ok", "failed"}]]
  BY DEF Types, TypeOK
<1>3. answer' \in [Vm -> [Backup -> {"unset", "ok", "failed"}]]
  BY <1>2
<1> QED  BY <1>1, <1>3, FaultStep

LEMMA BackupDaemonTypes ==
  ASSUME IInv, NEW v \in Vm, NEW b \in Backup, BackupDaemon(v, b)
  PROVE  Types' /\ Writes(v, b, AnswerTo[mode[v][b]])
<1>1. AnswerTo[mode[v][b]] \in Lifecycle!Modes
  BY AnswerType DEF BackupDaemon, Lifecycle!Modes, Lifecycle!Answers
<1>2. mode' = [mode EXCEPT ![v][b] = AnswerTo[mode[v][b]]]
  BY DEF BackupDaemon
<1>3. mode' \in [Vm -> [Backup -> Lifecycle!Modes]] /\ Writes(v, b, AnswerTo[mode[v][b]])
  BY <1>1, <1>2, ModeWritten DEF IInv
<1>4. answer' \in [Vm -> [Backup -> {"unset", "ok", "failed"}]] /\ faults' \in 0..MaxFaults
  BY AnswerSet DEF BackupDaemon, IInv
<1> QED
  BY <1>3, <1>4, TypesFromParts DEF BackupDaemon, IInv, Types, TypeOK

LEMMA AskForRestoreTypes ==
  ASSUME IInv, NEW v \in Vm, NEW b \in Backup, AskForRestore(v, b)
  PROVE  Types' /\ Writes(v, b, "unretained")
<1>1. "unretained" \in Lifecycle!Modes
  BY DEF Lifecycle!Modes, Lifecycle!Answers
<1>2. mode' = [mode EXCEPT ![v][b] = "unretained"]
  BY DEF AskForRestore
<1>3. mode' \in [Vm -> [Backup -> Lifecycle!Modes]] /\ Writes(v, b, "unretained")
  BY <1>1, <1>2, ModeWritten DEF IInv
<1>4. answer' \in [Vm -> [Backup -> {"unset", "ok", "failed"}]] /\ faults' \in 0..MaxFaults
  BY AnswerSet DEF AskForRestore, IInv
<1>5. restores' \in 0..MaxRestores
  <2>1. restores \in 0..MaxRestores
    BY DEF IInv, Types, TypeOK
  <2> QED  BY <2>1, BoundAssumption, SMT DEF AskForRestore
<1> QED
  BY <1>3, <1>4, <1>5, TypesFromParts DEF AskForRestore, IInv, Types, TypeOK

\* The steps that leave LDAP alone.
LEMMA OtherTypes ==
  ASSUME IInv,
         \/ ReadDone \/ (\E v \in Vm : TakeNext(v) \/ Redefine(v)) \/ Proceed
         \/ StopVmForRestore \/ NothingToDo \/ RoundFails \/ HandleDone \/ Sleep \/ Crash
         \/ UNCHANGED vars
  PROVE  Types'
<1> USE DEF IInv, Types, TypeOK
<1>1. CASE ReadDone \/ HandleDone
  BY <1>1, TypesFromParts DEF ReadDone, HandleDone, world, ldap
<1>2. CASE \E v \in Vm : TakeNext(v)
  BY <1>2, TypesFromParts DEF TakeNext, world, ldap
<1>3. CASE \E v \in Vm : Redefine(v)
  BY <1>3, TypesFromParts DEF Redefine, ldap
<1>4. CASE Proceed
  BY <1>4, TypesFromParts DEF Proceed, world, ldap
<1>5. CASE StopVmForRestore
  BY <1>5, TypesFromParts DEF StopVmForRestore, Stopped, InHand, ldap
<1>6. CASE NothingToDo
  BY <1>6, TypesFromParts DEF NothingToDo, GoOn, world, ldap
<1>7. CASE RoundFails
  BY <1>7, FaultStep, TypesFromParts DEF RoundFails, world, ldap
<1>8. CASE Sleep \/ Crash
  BY <1>8, FaultStep, ClearedTypes, TypesFromParts DEF Sleep, Crash, world, ldap
<1>9. CASE UNCHANGED vars
  BY <1>9, TypesFromParts DEF vars, world, ldap
<1> QED  BY <1>1, <1>2, <1>3, <1>4, <1>5, <1>6, <1>7, <1>8, <1>9

LEMMA TypesStep == IInv /\ [Next]_vars => Types'
BY ReadTypes, BeginTypes, RequestTypes, ExpireTypes, RemoveEntryTypes, BackupDaemonTypes,
   AskForRestoreTypes, OtherTypes DEF Next, Round

-----------------------------------------------------------------------------
\* Control.

LEMMA ControlStep == IInv /\ [Next]_vars => Control'
<1> SUFFICES ASSUME IInv, [Next]_vars PROVE Control'
  OBVIOUS
<1> USE VmAssumption DEF Control
<1>1. Control /\ backupVms \subseteq Vm /\ current \in Vm \cup {NoVm}
  BY DEF IInv, Types, TypeOK
<1>2. CASE \E v \in Vm, active, returned, next \in Backup \cup {0} :
             ReadVm(v, active, returned, next)
  BY <1>1, <1>2 DEF ReadVm, HandleForBackup, WithoutActive
<1>3. CASE \E v \in Vm : TakeNext(v) \/ Redefine(v)
  BY <1>1, <1>3 DEF TakeNext, Redefine
<1>4. CASE ReadDone \/ Proceed \/ StopVmForRestore \/ RoundFails \/ HandleDone
  BY <1>1, <1>4 DEF ReadDone, Proceed, StopVmForRestore, RoundFails, HandleDone
<1>5. CASE Request \/ Expire \/ RemoveEntry \/ NothingToDo
  BY <1>1, <1>5 DEF Request, Expire, RemoveEntry, NothingToDo, GoOn
<1>6. CASE Sleep \/ Crash
  BY <1>1, <1>6 DEF Sleep, Crash, Cleared
<1>7. CASE (\E v \in Vm, b \in Backup : BackupDaemon(v, b) \/ AskForRestore(v, b)) \/ UNCHANGED vars
  BY <1>1, <1>7 DEF BackupDaemon, AskForRestore, vars
<1>8. CASE AddEntry \/ FindEntry
  BY <1>1, <1>8 DEF AddEntry, FindEntry, Begin
<1> QED
  BY <1>2, <1>3, <1>4, <1>5, <1>6, <1>7, <1>8 DEF Next, Round

-----------------------------------------------------------------------------
\* The entries of each machine.

Rests(u) == \A b \in Backup : mode[u][b] \in AtRest \cup {"none"}

LEMMA SoundWrites ==
  ASSUME IInv, NEW u \in Vm, NEW b \in Backup, NEW m, Writes(u, b, m),
         latest' = latest, defined' = defined, mode[u][b] # "none",
         m \in UnderWay => mode[u][b] \in UnderWay \/ (Rests(u) /\ latest[u] <= b + Overlap),
         mode[u][b] \in AtRest => m \in AtRest \cup {"none"} \/ Rests(u),
         m = "restore" => u \notin defined
  PROVE  Sound'
<1> SUFFICES ASSUME NEW v \in Vm PROVE Ordered(v)' /\ OneUnderWay(v)' /\ Stands(v)'
  BY DEF Sound
<1>1. Ordered(v) /\ OneUnderWay(v) /\ Stands(v)
  BY DEF IInv, Sound
<1>2. CASE v # u
  BY <1>1, <1>2 DEF Writes, Ordered, OneUnderWay, Stands
<1>3. CASE v = u
  <2>1. Ordered(u)' /\ Stands(u)'
    BY <1>1, <1>3 DEF Writes, Ordered, Stands
  <2>2. SUFFICES ASSUME NEW c \in Backup, mode'[u][c] \in UnderWay
                 PROVE  /\ latest[u] <= c + Overlap
                        /\ \A d \in Backup \ {c} : mode'[u][d] \in AtRest \cup {"none"}
    BY <2>1, <1>3 DEF OneUnderWay
  <2>3. UnderWay \cap (AtRest \cup {"none"}) = {}
    BY DEF UnderWay, AtRest
  <2>4. CASE Rests(u)
    <3>1. c = b /\ mode[u][b] \notin UnderWay
      BY <2>2, <2>3, <2>4 DEF Writes, Rests
    <3> QED  BY <2>2, <2>4, <3>1 DEF Writes, Rests
  <2>5. CASE ~ Rests(u)
    <3>1. mode[u][c] \in UnderWay
      BY <2>2, <2>5 DEF Writes
    <3>2. /\ latest[u] <= c + Overlap
          /\ \A d \in Backup \ {c} : mode[u][d] \in AtRest \cup {"none"}
      BY <1>1, <1>3, <3>1 DEF OneUnderWay
    <3>3. b # c => m \in AtRest \cup {"none"}
      BY <2>5, <3>2
    <3> QED  BY <3>2, <3>3 DEF Writes
  <2> QED  BY <2>4, <2>5
<1> QED  BY <1>2, <1>3

LEMMA QuietRests == ASSUME NEW v, Quiet(v) PROVE Rests(v) /\ Entries(v) = Resting(v)
BY DEF Quiet, Rests, Entries, Resting, AtRest

LEMMA BeginSound == ASSUME IInv, AddEntry \/ FindEntry PROVE Sound'
<1> DEFINE n == seen[current].next
           l == latest[current]
           l1 == latest'[current]
<1>1. current \in Vm /\ n \in Backup /\ Quiet(current) /\ Begin(n)
  BY BeginsSeen DEF MayBegin
<1>2. /\ l \in Nat /\ l1 \in Nat /\ l <= l1 /\ n <= l1 /\ l1 <= n + Overlap
      /\ \A v \in Vm \ {current} : latest'[v] = latest[v]
  BY BeginsLatest
<1>3. mode' = mode \/ Writes(current, n, "initialized")
  <2>1. CASE AddEntry
    BY <1>1, <2>1, ModeWritten, "initialized" \in Lifecycle!Modes
    DEF AddEntry, IInv, Lifecycle!Modes
  <2> QED  BY <2>1 DEF FindEntry
<1>4. defined' = defined
  BY <1>1 DEF Begin
<1> SUFFICES ASSUME NEW v \in Vm PROVE Ordered(v)' /\ OneUnderWay(v)' /\ Stands(v)'
  BY DEF Sound
<1>5. Ordered(v) /\ OneUnderWay(v) /\ Stands(v)
  BY DEF IInv, Sound
<1>6. CASE v # current
  BY <1>2, <1>3, <1>4, <1>5, <1>6 DEF Writes, Ordered, OneUnderWay, Stands
<1>7. CASE v = current
  <2>1. \A b \in Backup : mode[v][b] \in AtRest \cup {"none"}
    BY <1>1, <1>7, QuietRests DEF Rests
  <2>2. \A b \in Backup : mode'[v][b] = mode[v][b] \/ (b = n /\ mode'[v][b] = "initialized")
    BY <1>3, <1>7 DEF Writes
  <2>3. \A b \in Backup : mode[v][b] # "none" => b <= l
    BY <1>5, <1>7 DEF Ordered
  <2>4. \A b \in Backup : mode'[v][b] # "none" => b <= l1
    <3>1. \A b \in Backup : b \in Nat
      BY BackupAssumption
    <3>2. \A b \in Backup : b <= l => b <= l1
      <4> HIDE DEF l, l1
      <4> QED  BY <1>2, <3>1, SMT
    <3> QED  BY <1>2, <2>2, <2>3, <3>2
  <2>5. Ordered(v)'
    BY <1>7, <2>4 DEF Ordered
  <2>6. \A b \in Backup : mode'[v][b] \in UnderWay => b = n
    BY <2>1, <2>2 DEF UnderWay, AtRest
  <2>7. OneUnderWay(v)'
    BY <1>2, <1>7, <2>1, <2>2, <2>6 DEF OneUnderWay
  <2>8. Stands(v)'
    BY <1>4, <1>5, <2>2 DEF Stands
  <2> QED  BY <2>5, <2>7, <2>8
<1> QED  BY <1>6, <1>7

LEMMA RequestWrites ==
  ASSUME IInv, Request
  PROVE  /\ current \in Vm /\ seen[current].active \in Backup
         /\ Begun(current) \/ GoesOn(current)
         /\ Writes(current, seen[current].active, NewMode(seen[current].mode))
<1>1. /\ current \in Vm /\ seen[current].active \in Backup
      /\ Begun(current) \/ GoesOn(current)
  BY DEF Request, IInv, Types, TypeOK, Requesting
<1>2. NewMode(seen[current].mode) \in Lifecycle!Modes
  BY <1>1, NewModeType DEF Begun, GoesOn, Lifecycle!Modes, Lifecycle!Requests
<1> QED
  BY <1>1, <1>2, ModeWritten DEF Request, IInv

LEMMA RequestSound == ASSUME IInv, Request PROVE Sound'
<1> DEFINE a == seen[current].active
           m == seen[current].mode
<1>1. /\ current \in Vm /\ a \in Backup
      /\ Begun(current) \/ GoesOn(current)
      /\ Writes(current, a, NewMode(m))
  BY RequestWrites
<1>2. latest' = latest /\ defined' = defined
  BY DEF Request
<1>3. CASE m \in {"initialize", "initialized", "snapshotted", "merged", "retained"}
  <2>1. \/ mode[current][a] \in UnderWay
        \/ /\ Rests(current) /\ latest[current] <= a + Overlap
           /\ mode[current][a] # "none"
    BY <1>1, <1>3, QuietRests DEF Begun, GoesOn, UnderWay
  <2>2. NewMode(m) # "restore"
    BY <1>3 DEF NewMode
  <2> QED
    BY <1>1, <1>2, <2>1, <2>2, SoundWrites, "none" \notin UnderWay, UnderWay \cap AtRest = {}
    DEF UnderWay, AtRest
<1>4. CASE m \in {"restored", "unretained"}
  <2>1. mode[current][a] \in AtRest /\ mode[current][a] # "none"
    BY <1>1, <1>4 DEF Begun, GoesOn, AtRest
  <2>2. /\ NewMode(m) \in AtRest /\ NewMode(m) \notin UnderWay
        /\ NewMode(m) = "restore" => m = "unretained"
    BY <1>4 DEF NewMode, AtRest, UnderWay
  <2>3. m = "unretained" => current \notin defined
    BY <1>1, <1>4 DEF Begun, GoesOn
  <2> QED
    BY <1>1, <1>2, <2>1, <2>2, <2>3, SoundWrites
<1> QED  BY <1>1, <1>3, <1>4 DEF Begun, GoesOn

LEMMA ExpireWrites ==
  ASSUME IInv, Expire
  PROVE  /\ current \in Vm
         /\ Oldest(seen[current].finished) \in seen[current].finished
         /\ \A c \in seen[current].finished : Oldest(seen[current].finished) <= c
         /\ Oldest(seen[current].finished) \in Resting(current)
         /\ Writes(current, Oldest(seen[current].finished), "delete")
<1>1. current \in Vm /\ seen[current].finished \subseteq Backup /\ Expiring
  BY DEF Expire, IInv, Types, TypeOK
<1>2. seen[current].finished # {} /\ seen[current].finished \subseteq Resting(current)
  BY <1>1 DEF Expire, Expiring
<1>3. /\ Oldest(seen[current].finished) \in seen[current].finished
      /\ \A c \in seen[current].finished : Oldest(seen[current].finished) <= c
  BY <1>1, <1>2, OldestIn
<1>4. Writes(current, Oldest(seen[current].finished), "delete")
  BY <1>1, <1>3, ModeWritten, "delete" \in Lifecycle!Modes
  DEF Expire, IInv, Lifecycle!Modes, Lifecycle!Requests
<1> QED  BY <1>1, <1>2, <1>3, <1>4

LEMMA ExpireSound == ASSUME IInv, Expire PROVE Sound'
<1> DEFINE o == Oldest(seen[current].finished)
<1>1. /\ current \in Vm /\ o \in Resting(current) /\ Writes(current, o, "delete")
  BY ExpireWrites
<1>2. o \in Backup /\ mode[current][o] \in AtRest
  BY <1>1 DEF Resting
<1>3. Entries(current) = Resting(current) /\ latest' = latest /\ defined' = defined
  BY DEF Expire, IInv, Expiring
<1>4. Rests(current)
  BY <1>3 DEF Rests, Entries, Resting
<1>5. mode[current][o] # "none" /\ "delete" \notin UnderWay
  BY <1>2 DEF AtRest, UnderWay
<1> QED  BY <1>1, <1>2, <1>3, <1>4, <1>5, SoundWrites

LEMMA RemoveEntryWrites ==
  ASSUME IInv, RemoveEntry
  PROVE  /\ current \in Vm /\ seen[current].active \in Backup
         /\ mode[current][seen[current].active] = "deleted"
         /\ Writes(current, seen[current].active, "none")
<1>1. /\ current \in Vm /\ seen[current].active \in Backup
      /\ mode[current][seen[current].active] = "deleted"
  BY HandInHand DEF RemoveEntry, Lifecycle!Modes, Lifecycle!Requests, Lifecycle!Answers
<1> QED
  BY <1>1, ModeWritten, "none" \in Lifecycle!Modes DEF RemoveEntry, IInv, Lifecycle!Modes

LEMMA RemoveEntrySound == ASSUME IInv, RemoveEntry PROVE Sound'
<1>1. latest' = latest /\ defined' = defined /\ "none" \notin UnderWay
      /\ "deleted" \notin AtRest
  BY DEF RemoveEntry, UnderWay, AtRest
<1> QED  BY <1>1, RemoveEntryWrites, SoundWrites

\* What the Backup-Daemon and users do to an entry.
LEMMA BackupDaemonMoves ==
  ASSUME IInv, NEW u \in Vm, NEW b \in Backup, BackupDaemon(u, b)
  PROVE  \E m : /\ Writes(u, b, m)
                /\ mode[u][b] \in Lifecycle!Requests
                /\ m \notin {"none", "restore", "finished"}
                /\ m \in UnderWay <=> mode[u][b] \in UnderWay
                /\ m \in AtRest <=> mode[u][b] \in AtRest
<1> DEFINE from == mode[u][b]
<1>1. from \in Lifecycle!Requests /\ Writes(u, b, AnswerTo[from])
  BY BackupDaemonTypes DEF BackupDaemon
<1>2. /\ AnswerTo[from] \notin {"none", "restore", "finished"}
      /\ AnswerTo[from] \in UnderWay <=> from \in UnderWay
      /\ AnswerTo[from] \in AtRest <=> from \in AtRest
  <2> HIDE DEF from
  <2> QED  BY <1>1 DEF AnswerTo, Lifecycle!Requests, UnderWay, AtRest
<1> QED  BY <1>1, <1>2

LEMMA AskForRestoreMoves ==
  ASSUME IInv, NEW u \in Vm, NEW b \in Backup, AskForRestore(u, b)
  PROVE  \E m : /\ Writes(u, b, m)
                /\ mode[u][b] = "finished"
                /\ m = "unretained"
                /\ m \notin {"none", "restore", "finished"}
                /\ m \in UnderWay <=> mode[u][b] \in UnderWay
                /\ m \in AtRest <=> mode[u][b] \in AtRest
<1>1. mode[u][b] = "finished" /\ Writes(u, b, "unretained")
  BY AskForRestoreTypes DEF AskForRestore
<1> QED  BY <1>1 DEF UnderWay, AtRest

LEMMA WorldSound ==
  ASSUME IInv, NEW u \in Vm, NEW b \in Backup, BackupDaemon(u, b) \/ AskForRestore(u, b)
  PROVE  Sound'
<1>1. latest' = latest /\ defined' = defined
  BY DEF BackupDaemon, AskForRestore
<1>2. PICK m : /\ Writes(u, b, m)
               /\ mode[u][b] \in Lifecycle!Requests \cup {"finished"}
               /\ m \notin {"none", "restore", "finished"}
               /\ m \in UnderWay <=> mode[u][b] \in UnderWay
               /\ m \in AtRest <=> mode[u][b] \in AtRest
  BY BackupDaemonMoves, AskForRestoreMoves
<1>3. mode[u][b] # "none"
  BY <1>2 DEF Lifecycle!Requests
<1> QED  BY <1>1, <1>2, <1>3, SoundWrites

LEMMA SoundStep == IInv /\ [Next]_vars => Sound'
<1> SUFFICES ASSUME IInv, [Next]_vars PROVE Sound'
  OBVIOUS
<1>1. CASE mode' = mode /\ latest' = latest /\ defined' \subseteq defined
  BY <1>1 DEF IInv, Sound, Ordered, OneUnderWay, Stands
<1>2. CASE \E v \in Vm : Redefine(v)
  BY <1>2 DEF Redefine, ldap, IInv, Sound, Ordered, OneUnderWay, Stands
<1>3. CASE \/ \E v \in Vm, active, returned, next \in Backup \cup {0} :
                ReadVm(v, active, returned, next)
           \/ ReadDone \/ (\E v \in Vm : TakeNext(v)) \/ Proceed \/ StopVmForRestore \/ NothingToDo
           \/ RoundFails \/ HandleDone \/ Sleep \/ Crash \/ UNCHANGED vars
  BY <1>1, <1>3 DEF ReadVm, ReadDone, TakeNext, Proceed, StopVmForRestore, Stopped, NothingToDo,
     RoundFails, HandleDone, Sleep, Crash, vars, world, ldap
<1> QED
  BY <1>2, <1>3, BeginSound, RequestSound, ExpireSound, RemoveEntrySound, WorldSound
  DEF Next, Round

-----------------------------------------------------------------------------
\* What has been seen of the machines that wait.

Sees(v) == SeesEntries(v) /\ (SeesActive(v) \/ MayBegin(v))

LEMMA SeesKept ==
  ASSUME NEW v, Sees(v), mode'[v] = mode[v], latest'[v] = latest[v], seen'[v] = seen[v]
  PROVE  Sees(v)'
BY DEF Sees, SeesEntries, SeesActive, MayBegin, Quiet, Entries, Finished, Resting

LEMMA SeesWhatIsRead ==
  ASSUME IInv, NEW v \in Vm, NEW active \in Backup \cup {0},
         NEW returned \in Backup \cup {0}, NEW next \in Backup \cup {0},
         ReadVm(v, active, returned, next),
         v \in backupVms'
  PROVE  Sees(v)'
<1> DEFINE view == View(v, active, returned, next)
<1>1. seen'[v] = view /\ mode' = mode /\ latest' = latest
  BY DEF ReadVm, IInv, Types, world, ldap
<1>2. v \notin backupVms
  BY DEF ReadVm, IInv, Control
<1>3. IsBackupNeeded(view) /\ (active # 0 \/ next # 0)
  BY <1>2 DEF ReadVm, HandleForBackup, View
<1>4. \A b \in Backup : mode[v][b] \in Lifecycle!Modes
  BY DEF IInv, Types, TypeOK
<1>5. SeesEntries(v)'
  <2>1. Finished(v) \subseteq Resting(v)
    BY DEF Finished, Resting, AtRest
  <2> QED  BY <1>1, <2>1 DEF SeesEntries, View, Entries, Finished, Resting
<1>6. CASE active # 0
  <2>1. active \in Unfinished(v)
    BY <1>6 DEF ReadVm, CanBeLast, LastOf
  <2>2. active \in Backup /\ mode[v][active] \in Lifecycle!Modes \ {"none", "finished"}
    BY <1>4, <2>1 DEF Unfinished, Entries, Finished
  <2>3. SeesActive(v)'
    BY <1>1, <1>6, <2>2 DEF SeesActive, View
  <2> QED  BY <1>5, <2>3 DEF Sees
<1>7. CASE active = 0
  <2>1. Unfinished(v) = {}
    BY <1>7, BackupAssumption DEF ReadVm, CanBeLast, LastOf, Unfinished, Entries
  <2>2. Quiet(v)
    BY <2>1 DEF Unfinished, Entries, Finished, Quiet
  <2>3. next \in Backup /\ CanBeDue(v, next)
    BY <1>3, <1>7 DEF ReadVm
  <2>4. next <= latest[v] + 1 /\ latest[v] <= next + Overlap
    <3> DEFINE l == latest[v]
    <3>1. l \in Nat /\ next \in Nat
      BY <2>3, BackupAssumption DEF IInv, Types, TypeOK
    <3>2. next = l + 1 \/ (next <= l /\ l <= next + Overlap)
      BY <2>3 DEF CanBeDue, ComesAgain
    <3> HIDE DEF l
    <3>3. next <= l + 1 /\ l <= next + Overlap
      BY <3>1, <3>2, OverlapAssumption, SMT
    <3> QED  BY <3>3 DEF l
  <2>5. Cardinality(Entries(v)) \in Nat
    BY CountsEntries DEF Entries
  <2>6. view.count <= Iterations
    BY <1>3, <1>7, <2>5, IterationsAssumption, SMT DEF IsBackupNeeded, View
  <2>7. seen'[v].active = 0 /\ seen'[v].mode = "initialize" /\ seen'[v].next = next
    BY <1>1, <1>7 DEF View
  <2>8. MayBegin(v)'
    BY <1>1, <2>2, <2>3, <2>4, <2>6, <2>7 DEF MayBegin, Quiet
  <2> QED  BY <1>5, <2>8 DEF Sees
<1> QED  BY <1>6, <1>7

\* What has been seen survives what the Backup-Daemon and users do.
LEMMA EntriesKept ==
  ASSUME NEW u \in Vm, NEW b \in Backup, NEW m, Writes(u, b, m),
         mode[u][b] # "none", m \notin {"none", "finished"},
         m \in AtRest <=> mode[u][b] \in AtRest
  PROVE  \A v \in Vm : /\ Entries(v)' = Entries(v)
                        /\ Resting(v)' = Resting(v)
                        /\ Finished(v)' \subseteq Finished(v)
<1> SUFFICES ASSUME NEW v \in Vm
             PROVE  /\ Entries(v)' = Entries(v)
                    /\ Resting(v)' = Resting(v)
                    /\ Finished(v)' \subseteq Finished(v)
  OBVIOUS
<1>1. CASE v # u
  BY <1>1 DEF Writes, Entries, Resting, Finished
<1>2. CASE v = u
  <2>1. \A c \in Backup : /\ mode'[u][c] = "none" <=> mode[u][c] = "none"
                          /\ mode'[u][c] \in AtRest <=> mode[u][c] \in AtRest
                          /\ mode'[u][c] = "finished" => mode[u][c] = "finished"
    BY DEF Writes
  <2> QED  BY <1>2, <2>1 DEF Entries, Resting, Finished
<1> QED  BY <1>1, <1>2

LEMMA WorldKeeps ==
  ASSUME IInv, NEW u \in Vm, NEW b \in Backup, BackupDaemon(u, b) \/ AskForRestore(u, b),
         NEW v \in Vm
  PROVE  /\ Entries(v)' = Entries(v)
         /\ Resting(v)' = Resting(v)
         /\ Finished(v)' \subseteq Finished(v)
         /\ \A c \in Backup : mode[v][c] \notin Lifecycle!Requests \cup {"finished"} =>
                                mode'[v][c] = mode[v][c]
         /\ Quiet(v) => Quiet(v)'
         /\ latest' = latest /\ seen' = seen /\ defined' = defined
         /\ pc' = pc /\ current' = current /\ backupVms' = backupVms
<1>0. "finished" \notin Lifecycle!Requests
  BY DEF Lifecycle!Requests
<1>1. PICK m : /\ Writes(u, b, m)
               /\ mode[u][b] \in Lifecycle!Requests \cup {"finished"}
               /\ mode[u][b] = "finished" => m = "unretained"
               /\ m \notin {"none", "restore", "finished"}
               /\ m \in UnderWay <=> mode[u][b] \in UnderWay
               /\ m \in AtRest <=> mode[u][b] \in AtRest
  BY <1>0, BackupDaemonMoves, AskForRestoreMoves
<1>2. mode[u][b] # "none"
  BY <1>1 DEF Lifecycle!Requests
<1>3. \A c \in Backup : mode[v][c] \notin Lifecycle!Requests \cup {"finished"} =>
                         mode'[v][c] = mode[v][c]
  BY <1>1 DEF Writes
<1>4. Quiet(v) => Quiet(v)'
  <2> SUFFICES ASSUME Quiet(v), NEW c \in Backup, mode'[v][c] # mode[v][c]
               PROVE  mode'[v][c] = "unretained"
    BY DEF Quiet
  <2>1. v = u /\ c = b /\ mode'[v][c] = m
    BY <1>1 DEF Writes
  <2>2. mode[u][b] = "finished"
    BY <1>1, <2>1 DEF Quiet, Lifecycle!Requests
  <2> QED  BY <1>1, <2>1, <2>2
<1> QED
  BY <1>1, <1>2, <1>3, <1>4, EntriesKept DEF BackupDaemon, AskForRestore

LEMMA WorldSees ==
  ASSUME IInv, NEW u \in Vm, NEW b \in Backup, BackupDaemon(u, b) \/ AskForRestore(u, b),
         NEW v \in Vm
  PROVE  /\ SeesEntries(v) => SeesEntries(v)'
         /\ Sees(v) => Sees(v)'
<1>1. /\ Entries(v)' = Entries(v)
      /\ Resting(v)' = Resting(v)
      /\ Finished(v)' \subseteq Finished(v)
      /\ \A c \in Backup : mode[v][c] \notin Lifecycle!Requests \cup {"finished"} =>
                             mode'[v][c] = mode[v][c]
      /\ Quiet(v) => Quiet(v)'
      /\ latest' = latest /\ seen' = seen
  BY WorldKeeps
<1>2. SeesEntries(v) => SeesEntries(v)'
  BY <1>1 DEF SeesEntries
<1>3. SeesActive(v) => SeesActive(v)'
  BY <1>1 DEF SeesActive
<1>4. MayBegin(v) => MayBegin(v)'
  BY <1>1 DEF MayBegin
<1> QED  BY <1>2, <1>3, <1>4 DEF Sees

LEMMA SeenStep == IInv /\ [Next]_vars => Seen'
<1> SUFFICES ASSUME IInv, [Next]_vars, NEW v \in Vm, Waiting(v)' PROVE Sees(v)'
  BY DEF Seen, Sees
<1>1. Waiting(v) => Sees(v)
  BY DEF IInv, Seen, Sees
<1>2. v # NoVm /\ current \notin backupVms /\ (pc = "read" => current = NoVm)
  BY VmAssumption DEF IInv, Control
<1>3. CASE \E u \in Vm, active, returned, next \in Backup \cup {0} :
             ReadVm(u, active, returned, next)
  <2>1. PICK u \in Vm, active \in Backup \cup {0}, returned \in Backup \cup {0},
            next \in Backup \cup {0} :
          ReadVm(u, active, returned, next)
    BY <1>3
  <2>2. v \in backupVms'
    BY <1>2, <2>1 DEF ReadVm, Waiting
  <2>3. CASE v = u
    BY <2>1, <2>2, <2>3, SeesWhatIsRead
  <2>4. CASE v # u
    <3>1. v \in backupVms /\ pc = "read"
      BY <2>1, <2>2, <2>4 DEF ReadVm, HandleForBackup, WithoutActive
    <3>2. mode' = mode /\ latest' = latest /\ seen'[v] = seen[v]
      BY <2>1, <2>4 DEF ReadVm, world, ldap, IInv, Types
    <3> QED  BY <1>1, <3>1, <3>2, SeesKept DEF Waiting
  <2> QED  BY <2>3, <2>4
<1>4. CASE \/ ReadDone \/ (\E u \in Vm : TakeNext(u) \/ Redefine(u)) \/ Proceed \/ StopVmForRestore
           \/ NothingToDo \/ RoundFails \/ HandleDone \/ UNCHANGED vars
  <2>1. Waiting(v)
    <3>1. CASE ReadDone \/ RoundFails \/ HandleDone
      BY <1>2, <3>1 DEF ReadDone, RoundFails, HandleDone, Waiting
    <3>2. CASE \E u \in Vm : TakeNext(u) \/ Redefine(u)
      BY <3>2 DEF TakeNext, Redefine, Waiting
    <3>3. CASE Proceed \/ StopVmForRestore
      BY <3>3 DEF Proceed, StopVmForRestore, InHand, Waiting
    <3>4. CASE NothingToDo \/ UNCHANGED vars
      BY <1>2, <3>4 DEF NothingToDo, GoOn, vars, Waiting
    <3> QED  BY <1>4, <3>1, <3>2, <3>3, <3>4
  <2>2. mode' = mode /\ latest' = latest /\ seen' = seen
    BY <1>4 DEF ReadDone, TakeNext, Redefine, Proceed, StopVmForRestore, NothingToDo,
       RoundFails, HandleDone, vars, world, ldap
  <2> QED  BY <1>1, <2>1, <2>2, SeesKept
<1>5. CASE AddEntry \/ FindEntry
  <2>1. v \in backupVms /\ v # current /\ pc = "handle"
    BY <1>2, <1>5 DEF AddEntry, FindEntry, Begin, InHand, Waiting
  <2>2. mode'[v] = mode[v] /\ latest'[v] = latest[v] /\ seen'[v] = seen[v]
    BY <1>5, <2>1 DEF AddEntry, FindEntry, Begin, IInv, Types, TypeOK
  <2> QED  BY <1>1, <2>1, <2>2, SeesKept DEF Waiting
<1>6. CASE Request \/ Expire \/ RemoveEntry
  <2>1. v \in backupVms /\ v # current /\ pc # "sleep"
    BY <1>2, <1>6 DEF Request, Expire, RemoveEntry, InHand, GoOn, Waiting
  <2>2. mode'[v] = mode[v]
    BY <1>6, <2>1, RequestWrites, ExpireWrites, RemoveEntryWrites DEF Writes
  <2>3. latest' = latest /\ seen' = seen
    BY <1>6 DEF Request, Expire, RemoveEntry
  <2> QED  BY <1>1, <2>1, <2>2, <2>3, SeesKept DEF Waiting
<1>7. CASE Sleep \/ Crash
  BY <1>2, <1>7 DEF Sleep, Crash, Cleared, Waiting
<1>8. CASE \E u \in Vm, b \in Backup : BackupDaemon(u, b) \/ AskForRestore(u, b)
  <2>1. Waiting(v)
    BY <1>8 DEF BackupDaemon, AskForRestore, Waiting
  <2> QED  BY <1>1, <1>8, <2>1, WorldSees
<1> QED
  BY <1>3, <1>4, <1>5, <1>6, <1>7, <1>8 DEF Next, Round

-----------------------------------------------------------------------------
\* The machine in hand.

LEMMA HandSeen ==
  ASSUME IInv, pc = "handle", current # NoVm,
         seen[current].mode \in {"initialized", "snapshotted", "merged", "retained", "restored",
                                 "unretained"}
  PROVE  /\ current \in Vm /\ seen[current].active \in Backup
         /\ mode[current][seen[current].active] = seen[current].mode
         /\ SeesEntries(current)
<1>1. current \in Vm /\ Waiting(current)
  BY DEF IInv, Types, TypeOK, Waiting
<1>2. SeesActive(current) /\ SeesEntries(current)
  BY <1>1 DEF IInv, Seen, MayBegin
<1>3. seen[current].mode \notin Lifecycle!Requests
  BY DEF Lifecycle!Requests
<1> QED  BY <1>1, <1>2, <1>3 DEF SeesActive

LEMMA RequestingStep == IInv /\ [Next]_vars => Requesting'
<1> SUFFICES ASSUME IInv, [Next]_vars, pc' = "request"
             PROVE  /\ seen'[current'].active \in Backup
                    /\ Begun(current)' \/ GoesOn(current)'
  BY DEF Requesting
<1>1. /\ current \in Vm \cup {NoVm}
      /\ pc = "request" => /\ current \in Vm /\ seen[current].active \in Backup
                           /\ Begun(current) \/ GoesOn(current)
  BY DEF IInv, Types, TypeOK, Requesting
<1>2. CASE AddEntry \/ FindEntry
  <2> DEFINE n == seen[current].next
  <2>1. /\ current \in Vm /\ n \in Backup /\ Begin(n) /\ seen[current].mode = "initialize"
        /\ Quiet(current) /\ Cardinality(Entries(current)) <= Iterations
    BY <1>2, BeginsSeen DEF MayBegin, SeesEntries
  <2>2. latest'[current] <= n + Overlap
    BY <1>2, BeginsLatest
  <2>3. seen[current] \in SeenType /\ seen \in [Vm -> SeenType]
    BY <2>1 DEF IInv, Types
  <2>4. seen' = [seen EXCEPT ![current].active = n] /\ current' = current
    BY <2>1 DEF Begin
  <2>5. seen'[current].active = n /\ seen'[current].mode = "initialize"
    BY <2>1, <2>3, <2>4 DEF SeenType
  <2>6. \/ mode'[current][n] = "initialized"
        \/ mode' = mode /\ mode[current][n] # "none"
    <3>1. CASE AddEntry
      BY <2>1, <3>1, ModeWritten, "initialized" \in Lifecycle!Modes
      DEF AddEntry, Writes, IInv, Lifecycle!Modes
    <3>2. CASE FindEntry
      BY <3>2 DEF FindEntry
    <3> QED  BY <1>2, <3>1, <3>2
  <2>7. Begun(current)'
    BY <2>1, <2>2, <2>4, <2>5, <2>6 DEF Begun, Quiet, Entries
  <2> QED  BY <2>1, <2>4, <2>5, <2>7
<1>3. CASE Proceed
  <2>1. /\ seen[current].mode \in {"initialized", "snapshotted", "merged", "retained", "restored"}
        /\ pc = "handle" /\ current # NoVm
    BY <1>3 DEF Proceed, MayGoOn
  <2>2. /\ current \in Vm /\ seen[current].active \in Backup
        /\ mode[current][seen[current].active] = seen[current].mode
        /\ SeesEntries(current)
    BY <2>1, HandSeen
  <2>3. UNCHANGED <<mode, seen, current>>
    BY <1>3 DEF Proceed, world, ldap
  <2> QED  BY <2>1, <2>2, <2>3 DEF GoesOn, SeesEntries, Entries, Finished, Resting
<1>4. CASE StopVmForRestore
  <2>1. seen[current].mode = "unretained" /\ pc = "handle" /\ current # NoVm
    BY <1>4 DEF StopVmForRestore, InHand
  <2>2. /\ current \in Vm /\ seen[current].active \in Backup
        /\ mode[current][seen[current].active] = seen[current].mode
        /\ SeesEntries(current)
    BY <2>1, HandSeen
  <2>3. UNCHANGED <<mode, seen, current>> /\ current \notin defined'
    BY <1>4 DEF StopVmForRestore, Stopped, ldap
  <2> QED  BY <2>1, <2>2, <2>3 DEF GoesOn, SeesEntries, Entries, Finished, Resting
<1>5. CASE \E u \in Vm, b \in Backup : BackupDaemon(u, b) \/ AskForRestore(u, b)
  <2>1. pc = "request" /\ current' = current /\ seen' = seen /\ defined' = defined
    BY <1>5 DEF BackupDaemon, AskForRestore
  <2>2. /\ current \in Vm /\ seen[current].active \in Backup
        /\ Begun(current) \/ GoesOn(current)
    BY <1>1, <2>1
  <2>3. PICK v \in Vm : v = current
    BY <2>2
  <2>4. /\ Entries(v)' = Entries(v) /\ (Quiet(v) => Quiet(v)') /\ latest' = latest
        /\ \A c \in Backup : mode[v][c] \notin Lifecycle!Requests \cup {"finished"} =>
                               mode'[v][c] = mode[v][c]
        /\ SeesEntries(v) => SeesEntries(v)'
    BY <1>5, WorldKeeps, WorldSees
  <2>5. v' = v
    BY <2>1, <2>3
  <2>6. CASE GoesOn(current)
    <3>1. mode[v][seen[v].active] \notin Lifecycle!Requests \cup {"finished"}
      BY <2>3, <2>6 DEF GoesOn, Lifecycle!Requests
    <3>2. GoesOn(v)'
      BY <2>1, <2>2, <2>3, <2>4, <2>6, <3>1 DEF GoesOn
    <3> QED  BY <2>1, <2>2, <2>3, <3>2 DEF GoesOn, SeesEntries, Entries, Finished, Resting
  <2>7. CASE Begun(current)
    <3>1. mode[v][seen[v].active] = "initialized" => mode'[v][seen[v].active] = "initialized"
      BY <2>2, <2>3, <2>4 DEF Lifecycle!Requests
    <3>2. mode[v][seen[v].active] # "none" => mode'[v][seen[v].active] # "none"
      BY <2>2, <2>3, <2>4 DEF Entries
    <3>3. Begun(v)'
      BY <2>1, <2>3, <2>4, <2>7, <3>1, <3>2 DEF Begun
    <3> QED  BY <2>1, <2>2, <2>3, <3>3 DEF Begun, Quiet, Entries
  <2> QED  BY <2>2, <2>6, <2>7
<1>6. CASE \E u \in Vm : Redefine(u)
  <2>1. PICK u \in Vm : Redefine(u)
    BY <1>6
  <2>2. /\ pc = "request" /\ UNCHANGED <<current, seen, mode, latest>>
        /\ defined' = defined \cup {u}
        /\ \A b \in Backup : mode[u][b] # "unretained"
    BY <2>1 DEF Redefine, ldap
  <2>3. /\ seen[current].active \in Backup
        /\ Begun(current) \/ GoesOn(current)
    BY <1>1, <2>2
  <2>4. GoesOn(current) /\ seen[current].mode = "unretained" => current # u
    BY <2>2, <2>3 DEF GoesOn
  <2> QED
    <3>1. Begun(current) => Begun(current)'
      BY <2>2 DEF Begun, Quiet, Entries
    <3>2. GoesOn(current) => GoesOn(current)'
      BY <2>2, <2>4 DEF GoesOn, SeesEntries, Entries, Finished, Resting
    <3> QED  BY <2>2, <2>3, <3>1, <3>2
<1>7. CASE UNCHANGED vars
  BY <1>1, <1>7 DEF vars, world, ldap, Begun, Quiet, GoesOn, SeesEntries, Entries, Finished, Resting
<1> QED
  BY <1>2, <1>3, <1>4, <1>5, <1>6, <1>7 DEF Next, Round, ReadVm, ReadDone, TakeNext, Request, GoOn,
     Expire, RemoveEntry, NothingToDo, RoundFails, HandleDone, Sleep, Crash

\* Once the backup in hand is finished, everything of its machine is at rest.
LEMMA FinishedIsAtRest ==
  ASSUME IInv, Request, MustExpire
  PROVE  /\ current' = current /\ current \in Vm
         /\ seen[current].finished # {}
         /\ seen[current].finished \subseteq Resting(current)'
         /\ Finished(current)' \subseteq seen[current].finished \cup {seen[current].active}
         /\ latest[current] <= seen[current].active + Overlap
         /\ Entries(current)' = Resting(current)'
         /\ Entries(current)' = Entries(current)
         /\ Cardinality(Entries(current)) > Iterations
<1> DEFINE a == seen[current].active
<1>1. /\ current \in Vm /\ a \in Backup /\ seen[current].mode = "retained"
      /\ Writes(current, a, "finished") /\ GoesOn(current)
  BY RequestWrites DEF MustExpire, NewMode, Begun
<1>2. mode[current][a] = "retained" /\ SeesEntries(current)
  BY <1>1 DEF GoesOn
<1>3. /\ latest[current] <= a + Overlap
      /\ \A c \in Backup \ {a} : mode[current][c] \in AtRest \cup {"none"}
  BY <1>1, <1>2 DEF IInv, Sound, OneUnderWay, UnderWay
<1>4. \A c \in Backup :
        mode'[current][c] = IF c = a THEN "finished" ELSE mode[current][c]
  BY <1>1 DEF Writes
<1>5. current' = current
  BY DEF Request
<1>6. seen[current].finished \subseteq Resting(current)'
  BY <1>2, <1>4, <1>5 DEF SeesEntries, Resting, AtRest
<1>7. Finished(current)' \subseteq seen[current].finished \cup {a}
  BY <1>2, <1>4, <1>5 DEF SeesEntries, Finished
<1>8. Entries(current)' = Resting(current)'
  BY <1>3, <1>4, <1>5 DEF Entries, Resting, AtRest
<1>9. Entries(current)' = Entries(current)
  BY <1>2, <1>4, <1>5 DEF Entries
<1> QED
  BY <1>1, <1>2, <1>3, <1>5, <1>6, <1>7, <1>8, <1>9 DEF MustExpire, SeesEntries

LEMMA ExpiringStep == IInv /\ [Next]_vars => Expiring'
<1> SUFFICES ASSUME IInv, [Next]_vars, pc' = "expire" PROVE Expiring'
  BY DEF Expiring
<1>1. CASE Request
  <2>1. MustExpire /\ seen' = seen /\ latest' = latest
    BY <1>1 DEF Request, GoOn
  <2> QED  BY <1>1, <2>1, FinishedIsAtRest DEF Expiring
<1>2. CASE \E u \in Vm, b \in Backup : BackupDaemon(u, b) \/ AskForRestore(u, b)
  <2>1. /\ pc = "expire" /\ current' = current /\ seen' = seen /\ latest' = latest
        /\ current \in Vm
    BY <1>2 DEF BackupDaemon, AskForRestore, IInv, Types, TypeOK
  <2>2. PICK v \in Vm : v = current
    BY <2>1
  <2>3. /\ Entries(v)' = Entries(v)
        /\ Resting(v)' = Resting(v)
        /\ Finished(v)' \subseteq Finished(v)
    BY <1>2, WorldKeeps
  <2>4. /\ Entries(current)' = Entries(current)
        /\ Resting(current)' = Resting(current)
        /\ Finished(current)' \subseteq Finished(current)
    BY <2>1, <2>2, <2>3 DEF Entries, Resting, Finished
  <2> QED  BY <2>1, <2>4 DEF IInv, Expiring
<1>3. CASE (\E u \in Vm : Redefine(u)) \/ UNCHANGED vars
  <2>1. UNCHANGED <<pc, current, seen, mode, latest>>
    BY <1>3 DEF Redefine, vars, world, ldap
  <2> QED  BY <2>1 DEF IInv, Expiring, Entries, Resting, Finished
<1> QED
  BY <1>1, <1>2, <1>3 DEF Next, Round, ReadVm, ReadDone, TakeNext, AddEntry, FindEntry, Begin,
     Proceed, StopVmForRestore, GoOn, Expire, RemoveEntry, NothingToDo, RoundFails, HandleDone,
     Sleep, Crash

-----------------------------------------------------------------------------
\* Each step is one of BackupLifecycle, or stutters.

\* BackupLifecycle counts as BackupWorkflow does.
LEMMA CardinalityThere == ASSUME NEW S PROVE Lifecycle!Cardinality(S) = Cardinality(S)
BY DEF Lifecycle!Cardinality, Cardinality

LEMMA QuietMayBegin ==
  ASSUME IInv, NEW v \in Vm, NEW b \in Backup, Quiet(v), Cardinality(Entries(v)) <= Iterations,
         latest[v] <= b + Overlap
  PROVE  Lifecycle!MayBegin(v, b)
<1>1. Lifecycle!Backups(v, Lifecycle!Modes \ ({"none", "finished"} \cup Lifecycle!Restoring)) = {}
  BY DEF Quiet, Lifecycle!Backups, Lifecycle!Restoring
<1>2. \A c \in Backup : mode[v][c] \in Lifecycle!Modes
  BY DEF IInv, Types, TypeOK
<1>3. Lifecycle!Backups(v, Lifecycle!Modes \ {"none"}) = Entries(v)
  BY <1>2 DEF Lifecycle!Backups, Entries
<1>4. \A c \in Entries(v) : c <= b + Overlap
  <2> SUFFICES ASSUME NEW c \in Entries(v) PROVE c <= b + Overlap
    OBVIOUS
  <2> DEFINE l == latest[v]
  <2>1. c \in Nat /\ b \in Nat /\ l \in Nat
    BY BackupAssumption DEF Entries, IInv, Types, TypeOK
  <2>2. c <= l
    BY DEF Entries, IInv, Sound, Ordered
  <2>3. l <= b + Overlap
    OBVIOUS
  <2> HIDE DEF l
  <2> QED  BY <2>1, <2>2, <2>3, OverlapAssumption, SMT
<1> QED
  BY <1>1, <1>3, <1>4, CardinalityThere DEF Lifecycle!MayBegin

LEMMA AddEntryCreates ==
  ASSUME IInv, AddEntry
  PROVE  \E v \in Vm, b \in Backup : Lifecycle!Create(v, b)
<1> DEFINE n == seen[current].next
<1>1. /\ current \in Vm /\ n \in Backup /\ Quiet(current)
      /\ Cardinality(Entries(current)) <= Iterations /\ latest[current] <= n + Overlap
  BY BeginsSeen DEF MayBegin, SeesEntries
<1>2. Lifecycle!MayBegin(current, n)
  BY <1>1, QuietMayBegin
<1>3. Lifecycle!Create(current, n)
  BY <1>2 DEF AddEntry, Lifecycle!Create, Lifecycle!Set
<1> QED  BY <1>1, <1>3

\* The first request finds its entry initialized, or finished and found again.
LEMMA RequestRedoes ==
  ASSUME IInv, Request, Begun(current), mode[current][seen[current].active] # "initialized"
  PROVE  \E v \in Vm, b \in Backup : Lifecycle!Redo(v, b)
<1> DEFINE a == seen[current].active
<1>1. current \in Vm /\ a \in Backup
  BY RequestWrites
<1>2. /\ Quiet(current) /\ Cardinality(Entries(current)) <= Iterations
      /\ latest[current] <= a + Overlap
      /\ mode[current][a] \in {"finished", "unretained"}
  BY <1>1 DEF Begun, Quiet
<1>3. Lifecycle!MayBegin(current, a)
  BY <1>1, <1>2, QuietMayBegin
<1>4. mode' = [mode EXCEPT ![current][a] = "snapshot"]
  BY DEF Request, Begun, NewMode
<1>5. Lifecycle!Redo(current, a)
  BY <1>2, <1>3, <1>4 DEF Lifecycle!Redo, Lifecycle!Set
<1> QED  BY <1>1, <1>5

LEMMA RequestAdvances ==
  ASSUME IInv, Request
  PROVE  \E v \in Vm, b \in Backup : Lifecycle!Advance(v, b) \/ Lifecycle!Redo(v, b)
<1> DEFINE a == seen[current].active
           m == seen[current].mode
<1>1. current \in Vm /\ a \in Backup /\ (Begun(current) \/ GoesOn(current))
  BY RequestWrites
<1>2. mode' = [mode EXCEPT ![current][a] = NewMode(m)]
  BY DEF Request
<1>3. CASE m = "initialize"
  <2>1. Begun(current)
    BY <1>1, <1>3 DEF GoesOn
  <2>2. CASE mode[current][a] = "initialized"
    BY <1>1, <1>2, <1>3, <2>2 DEF NewMode, Lifecycle!Advance, Lifecycle!Ask, Lifecycle!Set
  <2> QED  BY <2>1, <2>2, RequestRedoes
<1>4. CASE m = "initialized"
  BY <1>1, <1>2, <1>4 DEF Begun, GoesOn, NewMode, Lifecycle!Advance, Lifecycle!Ask, Lifecycle!Set
<1>5. CASE m = "snapshotted"
  BY <1>1, <1>2, <1>5 DEF Begun, GoesOn, NewMode, Lifecycle!Advance, Lifecycle!Ask, Lifecycle!Set
<1>6. CASE m = "merged"
  BY <1>1, <1>2, <1>6 DEF Begun, GoesOn, NewMode, Lifecycle!Advance, Lifecycle!Ask, Lifecycle!Set
<1>7. CASE m \in {"retained", "restored"}
  BY <1>1, <1>2, <1>7 DEF Begun, GoesOn, NewMode, Lifecycle!Advance, Lifecycle!Ask, Lifecycle!Set
<1>8. CASE m = "unretained"
  BY <1>1, <1>2, <1>8 DEF Begun, GoesOn, NewMode, Lifecycle!Advance, Lifecycle!Ask, Lifecycle!Set
<1> QED  BY <1>1, <1>3, <1>4, <1>5, <1>6, <1>7, <1>8 DEF Begun, GoesOn

\* What was the oldest finished backup still is, and enough others are at rest.
LEMMA ExpireExpires ==
  ASSUME IInv, Expire
  PROVE  \E v \in Vm, b \in Backup : Lifecycle!Expire(v, b)
<1> DEFINE o == Oldest(seen[current].finished)
<1>1. /\ current \in Vm /\ o \in seen[current].finished
      /\ \A c \in seen[current].finished : o <= c
      /\ o \in Resting(current)
  BY ExpireWrites
<1>2. /\ Finished(current) \subseteq seen[current].finished \cup {seen[current].active}
      /\ latest[current] <= seen[current].active + Overlap
      /\ Entries(current) = Resting(current)
      /\ Cardinality(Entries(current)) > Iterations
  BY DEF Expire, IInv, Expiring
<1>3. o \in Backup /\ mode[current][o] \in AtRest /\ mode[current][o] # "none"
  BY <1>1 DEF Resting, AtRest
<1>4. o <= latest[current]
  BY <1>1, <1>3 DEF IInv, Sound, Ordered
<1>5. \A c \in Lifecycle!Backups(current, {"finished"}) : o <= c + Overlap
  <2> SUFFICES ASSUME NEW c \in Finished(current) PROVE o <= c + Overlap
    BY DEF Lifecycle!Backups, Finished
  <2> DEFINE l == latest[current]
  <2>1. c \in Nat /\ o \in Nat /\ l \in Nat
    BY <1>1, <1>3, BackupAssumption DEF Finished, IInv, Types, TypeOK
  <2>2. o <= c \/ (o <= l /\ l <= c + Overlap)
    BY <1>1, <1>2, <1>4
  <2> HIDE DEF l, o
  <2> QED  BY <2>1, <2>2, OverlapAssumption, SMT
<1>6. Lifecycle!Backups(current, {"finished"} \cup Lifecycle!Restoring) = Entries(current)
  BY <1>2 DEF Lifecycle!Backups, Lifecycle!Restoring, Resting, AtRest
<1>7. Cardinality(Entries(current) \ {o}) >= Iterations
  <2>1. IsFiniteSet(Entries(current)) /\ Cardinality(Entries(current)) \in Nat
    BY CountsEntries DEF Entries
  <2>2. o \in Entries(current)
    BY <1>1, <1>2
  <2>3. Cardinality(Entries(current) \ {o}) = Cardinality(Entries(current)) - 1
    BY <2>1, <2>2, FS_RemoveElement
  <2> QED  BY <1>2, <2>1, <2>3, IterationsAssumption, SMT
<1>8. mode' = [mode EXCEPT ![current][o] = "delete"]
  BY DEF Expire
<1>9. mode[current][o] \in {"finished"} \cup Lifecycle!Restoring
  BY <1>3 DEF AtRest, Lifecycle!Restoring
<1>10. Lifecycle!Expire(current, o)
  BY <1>5, <1>6, <1>7, <1>8, <1>9, CardinalityThere DEF Lifecycle!Expire, Lifecycle!Set
<1> QED  BY <1>1, <1>3, <1>10

LEMMA RemoveEntryAdvances ==
  ASSUME IInv, RemoveEntry
  PROVE  \E v \in Vm, b \in Backup : Lifecycle!Advance(v, b)
<1>1. /\ current \in Vm /\ seen[current].active \in Backup
      /\ mode[current][seen[current].active] = "deleted"
  BY RemoveEntryWrites
<1>2. mode' = [mode EXCEPT ![current][seen[current].active] = "none"]
  BY DEF RemoveEntry
<1> QED  BY <1>1, <1>2 DEF Lifecycle!Advance, Lifecycle!Ask, Lifecycle!Set

LEMMA BackupDaemonAnswers ==
  ASSUME NEW v \in Vm, NEW b \in Backup, BackupDaemon(v, b)
  PROVE  Lifecycle!Answer(v, b)
<1> DEFINE from == mode[v][b]
<1>1. from \in Lifecycle!Requests /\ mode' = [mode EXCEPT ![v][b] = AnswerTo[from]]
  BY DEF BackupDaemon
<1>2. \/ from = "snapshot" /\ AnswerTo[from] = "snapshotted"
      \/ from = "merge" /\ AnswerTo[from] = "merged"
      \/ from = "retain" /\ AnswerTo[from] = "retained"
      \/ from = "delete" /\ AnswerTo[from] = "deleted"
      \/ from = "restore" /\ AnswerTo[from] = "restored"
  <2> HIDE DEF from
  <2> QED  BY <1>1 DEF AnswerTo, Lifecycle!Requests
<1> QED  BY <1>1, <1>2 DEF Lifecycle!Answer, Lifecycle!Ask, Lifecycle!Set

LEMMA LifecycleStep == IInv /\ [Next]_vars => [Lifecycle!Next]_mode
<1> SUFFICES ASSUME IInv, [Next]_vars PROVE [Lifecycle!Next]_mode
  OBVIOUS
<1>1. CASE mode' = mode
  BY <1>1
<1>2. CASE AddEntry
  BY <1>2, AddEntryCreates DEF Lifecycle!Next
<1>3. CASE Request
  BY <1>3, RequestAdvances DEF Lifecycle!Next
<1>4. CASE Expire
  BY <1>4, ExpireExpires DEF Lifecycle!Next
<1>5. CASE RemoveEntry
  BY <1>5, RemoveEntryAdvances DEF Lifecycle!Next
<1>6. CASE \E v \in Vm, b \in Backup : BackupDaemon(v, b)
  BY <1>6, BackupDaemonAnswers DEF Lifecycle!Next
<1>7. CASE \E v \in Vm, b \in Backup : AskForRestore(v, b)
  <2>1. PICK v \in Vm, b \in Backup : AskForRestore(v, b)
    BY <1>7
  <2>2. Lifecycle!Restore(v, b)
    BY <2>1 DEF AskForRestore, Lifecycle!Restore, Lifecycle!Ask, Lifecycle!Set
  <2> QED  BY <2>2 DEF Lifecycle!Next
<1>8. CASE \/ \E v \in Vm, active, returned, next \in Backup \cup {0} :
                ReadVm(v, active, returned, next)
           \/ ReadDone \/ (\E v \in Vm : TakeNext(v) \/ Redefine(v)) \/ FindEntry \/ Proceed
           \/ StopVmForRestore
           \/ NothingToDo \/ RoundFails \/ HandleDone \/ Sleep \/ Crash \/ UNCHANGED vars
  BY <1>1, <1>8 DEF ReadVm, ReadDone, TakeNext, Redefine, FindEntry, Proceed, StopVmForRestore, NothingToDo,
     RoundFails, HandleDone, Sleep, Crash, vars, world, ldap
<1> QED
  BY <1>2, <1>3, <1>4, <1>5, <1>6, <1>7, <1>8 DEF Next, Round

-----------------------------------------------------------------------------
\* The theorems.

LEMMA InitIInv == Init => IInv
<1> SUFFICES ASSUME Init PROVE IInv
  OBVIOUS
<1>1. Types
  BY TypesInit
<1>2. Control
  BY DEF Init, Control
<1>3. Sound
  BY DEF Init, Sound, Ordered, OneUnderWay, Stands, UnderWay
<1>4. Seen /\ Requesting /\ Expiring
  BY VmAssumption DEF Init, Seen, Waiting, Requesting, Expiring
<1> QED  BY <1>1, <1>2, <1>3, <1>4 DEF IInv

LEMMA NextIInv == IInv /\ [Next]_vars => IInv'
BY TypesStep, ControlStep, SoundStep, SeenStep, RequestingStep, ExpiringStep DEF IInv

LEMMA Invariant == Spec => []IInv
BY InitIInv, NextIInv, PTL DEF Spec

\* TypeOK of BackupWorkflow; that a backup about to begin has a time at all is
\* what the broker has seen of the machine.
THEOREM TypeCorrect == Spec => []TypeOK
<1>1. IInv => TypeOK
  BY DEF IInv, Types
<1> QED  BY <1>1, Invariant, PTL

\* RestoreOnStopped of BackupWorkflow: nobody defines the machine again between
\* stopVmForRestore and the request to restore.
THEOREM RestoresStand == Spec => []RestoreOnStopped
<1>1. IInv => RestoreOnStopped
  BY DEF IInv, Sound, Stands, RestoreOnStopped
<1> QED  BY <1>1, Invariant, PTL

\* LifecycleKept of BackupWorkflow: rounds that write on the strength of what
\* they read at their beginning, names of backups that come again, crashes and
\* exceptions between two writes, the Backup-Daemon and users implement the life
\* every backup is promised.
THEOREM WorkflowKeepsLifecycle == Spec => LifecycleKept
<1>1. Init => Lifecycle!Init
  BY DEF Init, Lifecycle!Init
<1> QED
  BY <1>1, LifecycleStep, Invariant, PTL DEF Spec, LifecycleKept, Lifecycle!Spec

-----------------------------------------------------------------------------
\* Failures.  With no more than one entry the return value read is that of the
\* active one, and stays what it was as long as the entry is the broker's.

FailureSeen(v) ==
  seen[v].count <= 1 /\ seen[v].mode \in Lifecycle!Answers =>
    (answer[v][seen[v].active] = "failed" => seen[v].failed)
Heeding ==
  /\ \A v \in Vm : Waiting(v) => FailureSeen(v)
  /\ pc = "request" /\ seen[current].mode \in Lifecycle!Answers =>
       FailureSeen(current) /\ ~ seen[current].failed
  /\ pc = "expire" => seen[current].count > Iterations

LEMMA InitHeeding == Init => Heeding
BY VmAssumption DEF Init, Heeding, Waiting

LEMMA ReadSeesFailure ==
  ASSUME IInv, NEW v \in Vm, NEW active \in Backup \cup {0},
         NEW returned \in Backup \cup {0}, NEW next \in Backup \cup {0},
         ReadVm(v, active, returned, next)
  PROVE  FailureSeen(v)'
<1>1. seen'[v] = View(v, active, returned, next) /\ answer' = answer
  BY DEF ReadVm, IInv, Types, world, ldap
<1>2. /\ seen'[v].count = Cardinality(Entries(v))
      /\ seen'[v].active = active
      /\ seen'[v].mode \in Lifecycle!Answers => active # 0
      /\ returned # 0 /\ answer[v][returned] = "failed" => seen'[v].failed
  <2> DEFINE bad == IF returned = 0 THEN FALSE ELSE answer[v][returned] = "failed"
             kind == IF active = 0 THEN "initialize" ELSE mode[v][active]
  <2>1. View(v, active, returned, next) =
          [active |-> active, mode |-> kind, failed |-> bad,
           count |-> Cardinality(Entries(v)), finished |-> Finished(v), next |-> next]
    BY Zenon DEF View
  <2>2. returned # 0 /\ answer[v][returned] = "failed" => seen'[v].failed
    <3>1. returned # 0 /\ answer[v][returned] = "failed" => bad
      OBVIOUS
    <3> HIDE DEF bad
    <3>2. seen'[v].failed = bad
      BY <1>1, <2>1
    <3> QED  BY <3>1, <3>2, Zenon
  <2>3. /\ seen'[v].count = Cardinality(Entries(v))
        /\ seen'[v].active = active
        /\ seen'[v].mode = IF active = 0 THEN "initialize" ELSE mode[v][active]
    BY <1>1 DEF View
  <2>4. seen'[v].mode \in Lifecycle!Answers => active # 0
    BY <2>3 DEF Lifecycle!Answers
  <2> QED  BY <2>2, <2>3, <2>4, Zenon
<1>3. SUFFICES ASSUME Cardinality(Entries(v)) <= 1, active # 0, answer[v][active] = "failed"
               PROVE  returned # 0 /\ answer[v][returned] = "failed"
  BY <1>1, <1>2, Zenon DEF FailureSeen
<1>4. active \in Entries(v)
  BY <1>3 DEF ReadVm, CanBeLast, LastOf, Unfinished
<1>5. Entries(v) = {active}
  <2>1. IsFiniteSet(Entries(v)) /\ Cardinality(Entries(v)) \in Nat
    BY CountsEntries DEF Entries
  <2>2. /\ IsFiniteSet(Entries(v) \ {active})
        /\ Cardinality(Entries(v) \ {active}) = Cardinality(Entries(v)) - 1
    BY <1>4, <2>1, FS_RemoveElement
  <2>3. Cardinality(Entries(v) \ {active}) \in Nat
    BY <2>2, FS_CardinalityType
  <2>4. Cardinality(Entries(v) \ {active}) = 0
    BY <1>3, <2>1, <2>2, <2>3, SMT
  <2>5. Entries(v) \ {active} = {}
    BY <2>2, <2>4, FS_EmptySet
  <2> QED  BY <1>4, <2>5
<1>6. Answered(v) = {active}
  BY <1>3, <1>5 DEF Answered
<1>7. returned = active
  BY <1>6 DEF ReadVm, CanBeLast, LastOf
<1> QED  BY <1>3, <1>7

LEMMA WorldKeepsAnswer ==
  ASSUME IInv, NEW u \in Vm, NEW b \in Backup, BackupDaemon(u, b) \/ AskForRestore(u, b),
         NEW v \in Vm, NEW c \in Backup,
         mode[v][c] \notin Lifecycle!Requests \cup {"finished"}
  PROVE  answer'[v][c] = answer[v][c]
<1>1. answer \in [Vm -> [Backup -> {"unset", "ok", "failed"}]]
  BY DEF IInv, Types, TypeOK
<1>2. v # u \/ c # b
  BY DEF BackupDaemon, AskForRestore
<1>3. \E r : answer' = [answer EXCEPT ![u][b] = r]
  BY DEF BackupDaemon, AskForRestore
<1> QED  BY <1>1, <1>2, <1>3

LEMMA HeedingWaits ==
  ASSUME IInv, Heeding, [Next]_vars, NEW v \in Vm, Waiting(v)'
  PROVE  FailureSeen(v)'
<1>1. Waiting(v) => FailureSeen(v) /\ Sees(v)
  BY DEF IInv, Heeding, Seen, Sees
<1>2. v # NoVm /\ current \notin backupVms /\ (pc = "read" => current = NoVm)
  BY VmAssumption DEF IInv, Control
<1>3. CASE \E u \in Vm, active, returned, next \in Backup \cup {0} :
             ReadVm(u, active, returned, next)
  <2>1. PICK u \in Vm, active \in Backup \cup {0}, returned \in Backup \cup {0},
            next \in Backup \cup {0} :
          ReadVm(u, active, returned, next)
    BY <1>3
  <2>2. CASE v = u
    BY <2>1, <2>2, ReadSeesFailure
  <2>3. CASE v # u
    <3>1. v \in backupVms /\ pc = "read"
      BY <1>2, <2>1, <2>3 DEF ReadVm, HandleForBackup, WithoutActive, Waiting
    <3>2. answer' = answer /\ seen'[v] = seen[v]
      BY <2>1, <2>3 DEF ReadVm, world, ldap, IInv, Types
    <3> QED  BY <1>1, <3>1, <3>2 DEF Waiting, FailureSeen
  <2> QED  BY <2>2, <2>3
<1>4. CASE \/ ReadDone \/ (\E u \in Vm : TakeNext(u) \/ Redefine(u)) \/ Proceed \/ StopVmForRestore
           \/ NothingToDo \/ RoundFails \/ HandleDone \/ UNCHANGED vars
  <2>1. Waiting(v)
    <3>1. CASE ReadDone \/ RoundFails \/ HandleDone
      BY <1>2, <3>1 DEF ReadDone, RoundFails, HandleDone, Waiting
    <3>2. CASE \E u \in Vm : TakeNext(u) \/ Redefine(u)
      BY <3>2 DEF TakeNext, Redefine, Waiting
    <3>3. CASE Proceed \/ StopVmForRestore
      BY <3>3 DEF Proceed, StopVmForRestore, InHand, Waiting
    <3>4. CASE NothingToDo \/ UNCHANGED vars
      BY <1>2, <3>4 DEF NothingToDo, GoOn, vars, Waiting
    <3> QED  BY <1>4, <3>1, <3>2, <3>3, <3>4
  <2>2. answer' = answer /\ seen' = seen
    BY <1>4 DEF ReadDone, TakeNext, Redefine, Proceed, StopVmForRestore, NothingToDo,
       RoundFails, HandleDone, vars, world, ldap
  <2> QED  BY <1>1, <2>1, <2>2 DEF FailureSeen
<1>5. CASE AddEntry \/ FindEntry \/ Request \/ Expire \/ RemoveEntry
  <2>1. v \in backupVms /\ v # current /\ pc # "sleep"
    BY <1>2, <1>5 DEF AddEntry, FindEntry, Begin, Request, Expire, RemoveEntry, InHand, GoOn,
       Waiting
  <2>2. seen'[v] = seen[v]
    BY <1>5, <2>1 DEF AddEntry, FindEntry, Begin, Request, Expire, RemoveEntry, IInv, Types
  <2>3. answer'[v] = answer[v]
    BY <1>5, <2>1 DEF AddEntry, FindEntry, Begin, Request, Expire, RemoveEntry, IInv, Types,
       TypeOK
  <2> QED  BY <1>1, <2>1, <2>2, <2>3 DEF Waiting, FailureSeen
<1>6. CASE Sleep \/ Crash
  BY <1>2, <1>6 DEF Sleep, Crash, Cleared, Waiting
<1>7. CASE \E u \in Vm, b \in Backup : BackupDaemon(u, b) \/ AskForRestore(u, b)
  <2>1. Waiting(v) /\ seen' = seen
    BY <1>7 DEF BackupDaemon, AskForRestore, Waiting
  <2>2. SUFFICES ASSUME seen[v].mode \in Lifecycle!Answers
                 PROVE  answer'[v][seen[v].active] = answer[v][seen[v].active]
    BY <1>1, <2>1 DEF FailureSeen
  <2>3. SeesActive(v) /\ seen[v].mode \notin Lifecycle!Requests \cup {"finished"}
    BY <1>1, <2>1, <2>2 DEF Sees, MayBegin, Lifecycle!Answers, Lifecycle!Requests
  <2> QED  BY <1>7, <2>3, WorldKeepsAnswer DEF SeesActive
<1> QED
  BY <1>3, <1>4, <1>5, <1>6, <1>7 DEF Next, Round

LEMMA HeedingRequest ==
  ASSUME IInv, Heeding, [Next]_vars, pc' = "request", seen'[current'].mode \in Lifecycle!Answers
  PROVE  FailureSeen(current)' /\ ~ seen'[current'].failed
<1>1. current \in Vm \cup {NoVm}
  BY DEF IInv, Types, TypeOK
<1>2. CASE AddEntry \/ FindEntry
  <2>1. /\ current \in Vm /\ seen[current] \in SeenType /\ seen[current].mode = "initialize"
        /\ Begin(seen[current].next)
    BY <1>2, BeginsSeen DEF IInv, Types
  <2>2. seen'[current'].mode = "initialize"
    BY <2>1 DEF Begin, IInv, Types, SeenType
  <2> QED  BY <2>2 DEF Lifecycle!Answers
<1>3. CASE Proceed \/ StopVmForRestore
  <2>1. /\ pc = "handle" /\ current \in Vm
        /\ current' = current /\ seen' = seen /\ answer' = answer
    BY <1>1, <1>3 DEF Proceed, StopVmForRestore, InHand, world, ldap
  <2>2. FailureSeen(current)
    BY <2>1 DEF Waiting, Heeding
  <2>3. ~ seen[current].failed
    BY <1>3, <2>1 DEF Proceed, MayGoOn, StopVmForRestore, Lifecycle!Answers
  <2> QED  BY <2>1, <2>2, <2>3 DEF FailureSeen
<1>4. CASE \E u \in Vm, b \in Backup : BackupDaemon(u, b) \/ AskForRestore(u, b)
  <2>1. pc = "request" /\ current' = current /\ seen' = seen
    BY <1>4 DEF BackupDaemon, AskForRestore
  <2>2. /\ current \in Vm /\ seen[current].active \in Backup
        /\ GoesOn(current)
        /\ FailureSeen(current) /\ ~ seen[current].failed
    BY <2>1 DEF IInv, Types, TypeOK, Requesting, Begun, Lifecycle!Answers, Heeding
  <2>3. mode[current][seen[current].active] \notin Lifecycle!Requests \cup {"finished"}
    BY <2>2 DEF GoesOn, Lifecycle!Requests
  <2>4. answer'[current][seen[current].active] = answer[current][seen[current].active]
    BY <1>4, <2>2, <2>3, WorldKeepsAnswer
  <2> QED  BY <2>1, <2>2, <2>4 DEF FailureSeen
<1>5. CASE (\E u \in Vm : Redefine(u)) \/ UNCHANGED vars
  <2>1. UNCHANGED <<pc, current, seen, answer>>
    BY <1>5 DEF Redefine, vars, world, ldap
  <2>2. FailureSeen(current) /\ ~ seen[current].failed
    BY <2>1 DEF Heeding
  <2> QED  BY <2>1, <2>2 DEF FailureSeen
<1> QED
  BY <1>2, <1>3, <1>4, <1>5 DEF Next, Round, ReadVm, ReadDone, TakeNext, Request, GoOn,
     Expire, RemoveEntry, NothingToDo, RoundFails, HandleDone, Sleep, Crash

LEMMA HeedingExpire ==
  ASSUME IInv, Heeding, [Next]_vars, pc' = "expire"
  PROVE  seen'[current'].count > Iterations
<1>1. CASE Request
  BY <1>1 DEF Request, GoOn, MustExpire
<1>2. CASE \/ \E u \in Vm, b \in Backup : BackupDaemon(u, b) \/ AskForRestore(u, b)
           \/ (\E u \in Vm : Redefine(u)) \/ UNCHANGED vars
  BY <1>2 DEF BackupDaemon, AskForRestore, Redefine, vars, Heeding
<1> QED
  BY <1>1, <1>2 DEF Next, Round, ReadVm, ReadDone, TakeNext, AddEntry, FindEntry, Begin,
     Proceed, StopVmForRestore, GoOn, Expire, RemoveEntry, NothingToDo, RoundFails, HandleDone,
     Sleep, Crash

LEMMA NextHeeding == IInv /\ Heeding /\ [Next]_vars => Heeding'
BY HeedingWaits, HeedingRequest, HeedingExpire DEF Heeding

\* FailureStops of BackupWorkflow: with one entry, what the broker has read as
\* the return value is that of the entry it goes on with; only a new backup of
\* that name overrides a restore that failed.
THEOREM FailuresHeeded == Spec => FailureStops
<1> DEFINE Heeded == \A v \in Vm, b \in Backup :
                       /\ mode'[v][b] # mode[v][b]
                       /\ mode[v][b] \in Lifecycle!Answers
                       /\ answer[v][b] = "failed"
                       => \/ seen[v].count > 1
                          \/ mode[v][b] = "unretained" /\ mode'[v][b] = "snapshot"
<1>1. IInv /\ Heeding /\ [Next]_vars => [Heeded]_vars
  <2> SUFFICES ASSUME IInv, Heeding, [Next]_vars, NEW v \in Vm, NEW b \in Backup,
                      mode'[v][b] # mode[v][b], mode[v][b] \in Lifecycle!Answers,
                      answer[v][b] = "failed"
               PROVE  \/ seen[v].count > 1
                      \/ mode[v][b] = "unretained" /\ mode'[v][b] = "snapshot"
    OBVIOUS
  <2>1. seen[v].count \in Nat
    BY DEF IInv, Types, TypeOK
  <2>2. CASE AddEntry
    <3>1. PICK u \in Vm, c \in Backup : Lifecycle!Create(u, c)
      BY <2>2, AddEntryCreates
    <3>2. mode \in [Vm -> [Backup -> Lifecycle!Modes]]
      BY DEF IInv, Types, TypeOK
    <3>3. mode[u][c] = "none" /\ v = u /\ b = c
      BY <3>1, <3>2 DEF Lifecycle!Create, Lifecycle!Set
    <3> QED  BY <3>3 DEF Lifecycle!Answers
  <2>3. CASE Request
    <3>1. /\ v = current /\ b = seen[current].active
          /\ Begun(current) \/ GoesOn(current)
          /\ mode'[v][b] = NewMode(seen[current].mode)
      BY <2>3, RequestWrites DEF Writes
    <3>2. CASE Begun(current)
      <4>1. mode[v][b] = "unretained"
        BY <3>1, <3>2 DEF Begun, Quiet, Lifecycle!Answers
      <4>2. mode'[v][b] = "snapshot"
        BY <3>1, <3>2 DEF Begun, NewMode
      <4> QED  BY <4>1, <4>2
    <3>3. CASE GoesOn(current)
      <4>1. seen[current].mode \in Lifecycle!Answers
        BY <3>1, <3>3 DEF GoesOn
      <4>2. FailureSeen(current) /\ ~ seen[current].failed
        BY <2>3, <4>1 DEF Request, Heeding
      <4> QED  BY <2>1, <3>1, <4>1, <4>2 DEF FailureSeen
    <3> QED  BY <3>1, <3>2, <3>3
  <2>4. CASE Expire
    <3>1. v = current
      BY <2>4, ExpireWrites DEF Writes
    <3> QED  BY <2>1, <2>4, <3>1, IterationsAssumption DEF Expire, Heeding
  <2>5. CASE RemoveEntry
    <3>1. /\ v = current /\ b = seen[current].active /\ v \in Vm
      BY <2>5, RemoveEntryWrites DEF Writes
    <3>2. Waiting(current) /\ seen[current].mode = "deleted" /\ ~ seen[current].failed
      BY <2>5 DEF RemoveEntry, InHand, Waiting
    <3>3. FailureSeen(current)
      BY <3>1, <3>2 DEF Heeding
    <3> QED  BY <2>1, <3>1, <3>2, <3>3 DEF FailureSeen, Lifecycle!Answers
  <2>6. CASE \E u \in Vm, c \in Backup : BackupDaemon(u, c) \/ AskForRestore(u, c)
    <3>1. mode[v][b] \in Lifecycle!Requests \cup {"finished"}
      BY <2>6, WorldKeeps
    <3> QED  BY <3>1 DEF Lifecycle!Answers, Lifecycle!Requests
  <2>7. CASE mode' = mode
    BY <2>7
  <2> QED
    BY <2>2, <2>3, <2>4, <2>5, <2>6, <2>7
    DEF Next, Round, ReadVm, ReadDone, TakeNext, FindEntry, Redefine, Proceed, StopVmForRestore,
        NothingToDo, RoundFails, HandleDone, Sleep, Crash, vars, world, ldap
<1> QED
  BY <1>1, Invariant, InitHeeding, NextHeeding, PTL DEF Spec, FailureStops

-----------------------------------------------------------------------------
\* A backup goes forward.

\* The changes of mode between a backup and its end.
ToGo == [m \in UnderWay \cup {"delete", "deleted", "finished", "none"} |->
           CASE m = "initialized" -> 7 [] m = "snapshot" -> 6 [] m = "snapshotted" -> 5
             [] m = "merge" -> 4       [] m = "merged" -> 3   [] m = "retain" -> 2
             [] m = "retained" -> 1    [] m = "delete" -> 2   [] m = "deleted" -> 1
             [] m \in {"finished", "none"} -> 0]

(***************************************************************************)
(* A backup under way, or on its way out, is never set back by a request   *)
(* that is written on the strength of an old reading: each change of its   *)
(* mode takes it one step nearer to its end, so there are seven at most.   *)
(***************************************************************************)
THEOREM NeverSetBack ==
  Spec => [][\A v \in Vm, b \in Backup :
               mode[v][b] \in UnderWay \cup {"delete", "deleted"} =>
                 \/ mode'[v][b] = mode[v][b]
                 \/ ToGo[mode'[v][b]] = ToGo[mode[v][b]] - 1]_vars
<1>1. ASSUME IInv, [Next]_vars, NEW v \in Vm, NEW b \in Backup,
             mode[v][b] \in UnderWay \cup {"delete", "deleted"}, mode'[v][b] # mode[v][b]
      PROVE  ToGo[mode'[v][b]] = ToGo[mode[v][b]] - 1
<2>1. [Lifecycle!Next]_mode /\ mode \in [Vm -> [Backup -> Lifecycle!Modes]]
  BY <1>1, LifecycleStep DEF IInv, Types, TypeOK
<2>2. PICK u \in Vm, c \in Backup :
        \/ Lifecycle!Create(u, c) \/ Lifecycle!Redo(u, c) \/ Lifecycle!Advance(u, c)
        \/ Lifecycle!Expire(u, c) \/ Lifecycle!Answer(u, c) \/ Lifecycle!Restore(u, c)
  BY <1>1, <2>1 DEF Lifecycle!Next
<2>3. \E m : Lifecycle!Set(u, c, m)
  BY <2>2 DEF Lifecycle!Create, Lifecycle!Redo, Lifecycle!Advance, Lifecycle!Expire, Lifecycle!Answer,
              Lifecycle!Restore, Lifecycle!Ask
<2>4. u = v /\ c = b
  BY <1>1, <2>1, <2>3 DEF Lifecycle!Set
<2>5. \A m : Lifecycle!Set(v, b, m) => mode'[v][b] = m
  BY <2>1 DEF Lifecycle!Set
<2>6. <<mode[v][b], mode'[v][b]>> \in
        {<<"initialized", "snapshot">>, <<"snapshotted", "merge">>, <<"merged", "retain">>,
         <<"retained", "finished">>, <<"deleted", "none">>, <<"snapshot", "snapshotted">>,
         <<"merge", "merged">>, <<"retain", "retained">>, <<"delete", "deleted">>}
  BY <1>1, <2>2, <2>4, <2>5
     DEF UnderWay, Lifecycle!Create, Lifecycle!Redo, Lifecycle!Advance, Lifecycle!Expire, Lifecycle!Answer,
         Lifecycle!Restore, Lifecycle!Ask, Lifecycle!Restoring
<2> QED
  BY <2>6 DEF ToGo, UnderWay
<1>2. IInv /\ [Next]_vars =>
        [\A v \in Vm, b \in Backup :
           mode[v][b] \in UnderWay \cup {"delete", "deleted"} =>
             \/ mode'[v][b] = mode[v][b]
             \/ ToGo[mode'[v][b]] = ToGo[mode[v][b]] - 1]_vars
  BY <1>1
<1> QED
  BY <1>2, Invariant, PTL DEF Spec

-----------------------------------------------------------------------------
\* A round ends.

(***************************************************************************)
(* How far a round is from its end: reading and handling, the machines     *)
(* that part has still to come to, and the calls for the one in hand.      *)
(***************************************************************************)
Stage == CASE pc = "read" -> 2
           [] pc \in {"handle", "request", "expire"} -> 1
           [] OTHER -> 0
Jobs == IF pc = "read" THEN Cardinality(unread) ELSE Cardinality(backupVms)
Position == CASE pc = "handle" /\ current # NoVm -> 3
              [] pc = "request" -> 2
              [] pc = "expire" -> 1
              [] OTHER -> 0

Descends ==
  \/ Stage' < Stage
  \/ Stage' = Stage /\ Jobs' < Jobs
  \/ Stage' = Stage /\ Jobs' = Jobs /\ Position' < Position

\* The steps of others than the broker.
OthersAct == \/ \E v \in Vm, b \in Backup : BackupDaemon(v, b) \/ AskForRestore(v, b)
             \/ \E v \in Vm : Redefine(v)

LEMMA JobsAreFinite ==
  ASSUME TypeOK
  PROVE  /\ IsFiniteSet(unread) /\ Cardinality(unread) \in Nat
         /\ IsFiniteSet(backupVms) /\ Cardinality(backupVms) \in Nat
  BY VmAssumption, FS_Subset, FS_CardinalityType DEF TypeOK

LEMMA ReadingDescends ==
  ASSUME TypeOK, NEW v \in Vm, NEW active, NEW returned, NEW next,
         ReadVm(v, active, returned, next)
  PROVE  Descends
<1>1. pc = "read" /\ pc' = "read" /\ v \in unread /\ unread' = unread \ {v}
  BY DEF ReadVm
<1>2. Cardinality(unread') = Cardinality(unread) - 1 /\ Cardinality(unread) \in Nat
  BY <1>1, JobsAreFinite, FS_RemoveElement
<1>3. Stage = 2 /\ Stage' = 2 /\ Jobs = Cardinality(unread) /\ Jobs' = Cardinality(unread')
  BY <1>1 DEF Stage, Jobs
<1> QED
  BY <1>2, <1>3 DEF Descends

LEMMA TakingDescends ==
  ASSUME TypeOK, NEW v \in Vm, TakeNext(v)
  PROVE  Descends
<1>1. pc = "handle" /\ pc' = "handle" /\ v \in backupVms /\ backupVms' = backupVms \ {v}
  BY DEF TakeNext
<1>2. Cardinality(backupVms') = Cardinality(backupVms) - 1 /\ Cardinality(backupVms) \in Nat
  BY <1>1, JobsAreFinite, FS_RemoveElement
<1>3. Stage = 1 /\ Stage' = 1 /\ Jobs = Cardinality(backupVms) /\ Jobs' = Cardinality(backupVms')
  BY <1>1 DEF Stage, Jobs
<1> QED
  BY <1>2, <1>3 DEF Descends

\* The calls for one machine.
LEMMA HandlingDescends ==
  ASSUME \/ AddEntry \/ FindEntry \/ Proceed \/ StopVmForRestore
         \/ Request \/ Expire \/ RemoveEntry \/ NothingToDo
  PROVE  Descends
<1>1. UNCHANGED backupVms
  BY DEF AddEntry, FindEntry, Begin, Proceed, StopVmForRestore, Request, Expire, RemoveEntry,
         NothingToDo
<1>2. \/ /\ pc = "handle" /\ current # NoVm
         /\ pc' = "request" \/ (pc' = "handle" /\ current' = NoVm)
      \/ pc = "request" /\ (pc' = "expire" \/ (pc' = "handle" /\ current' = NoVm))
      \/ pc = "expire" /\ pc' = "handle" /\ current' = NoVm
  BY DEF AddEntry, FindEntry, Begin, Proceed, StopVmForRestore, Request, Expire, RemoveEntry,
         NothingToDo, InHand, GoOn
<1>3. Stage = 1 /\ Stage' = 1 /\ Jobs' = Jobs
  BY <1>1, <1>2 DEF Stage, Jobs
<1>4. Position' < Position
  BY <1>2 DEF Position
<1> QED
  BY <1>3, <1>4 DEF Descends

LEMMA LeavingDescends ==
  ASSUME ReadDone \/ RoundFails \/ HandleDone
  PROVE  Descends
<1>1. \/ pc = "read" /\ pc' \in {"handle", "sleep"}
      \/ pc \in {"handle", "request", "expire"} /\ pc' = "sleep"
  BY DEF ReadDone, RoundFails, HandleDone, InHand
<1>2. Stage' < Stage
  BY <1>1 DEF Stage
<1> QED
  BY <1>2 DEF Descends

LEMMA OthersKeepRanks ==
  ASSUME OthersAct
  PROVE  UNCHANGED <<Stage, Jobs, Position>>
<1>1. UNCHANGED <<pc, unread, backupVms, current>>
  BY DEF OthersAct, BackupDaemon, AskForRestore, Redefine
<1> QED
  BY <1>1 DEF Stage, Jobs, Position

(***************************************************************************)
(* Whatever fails and whoever else writes, a round comes to its end: every *)
(* step of the broker brings it nearer but the one that begins a new       *)
(* round, and the others never set it back, however many entries they      *)
(* change meanwhile.  What BegunIsFinished needs besides is that every     *)
(* round takes every backup a step further.                                *)
(***************************************************************************)
THEOREM BackupRoundsEnd ==
  Spec => /\ [](Stage \in Nat /\ Jobs \in Nat /\ Position \in Nat)
          /\ [][\/ Descends
                \/ pc' = "read" /\ unread' = Vm
                \/ OthersAct /\ UNCHANGED <<Stage, Jobs, Position>>]_vars
<1>1. TypeOK => Stage \in Nat /\ Jobs \in Nat /\ Position \in Nat
  BY JobsAreFinite DEF Stage, Jobs, Position
<1>2. TypeOK /\ [Next]_vars =>
        [\/ Descends
         \/ pc' = "read" /\ unread' = Vm
         \/ OthersAct /\ UNCHANGED <<Stage, Jobs, Position>>]_vars
<2> SUFFICES ASSUME TypeOK, Next, ~ OthersAct
             PROVE  Descends \/ (pc' = "read" /\ unread' = Vm)
  BY OthersKeepRanks
<2>1. CASE Sleep \/ Crash
  BY <2>1 DEF Sleep, Crash, Cleared
<2> QED
  BY <2>1, ReadingDescends, TakingDescends, HandlingDescends, LeavingDescends
     DEF Next, Round, OthersAct
<1> QED
  BY <1>1, <1>2, TypeCorrect, PTL DEF Spec
=============================================================================
