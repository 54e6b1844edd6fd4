----------------------------- MODULE RoundTiming -----------------------------
(***************************************************************************)
(* When fc-brokerd notices that a schedule is due.  The main loop sleeps   *)
(* for a cycle, takes the time (actTime, cut to the minute), reads pools   *)
(* and machines and compares what createTime returns, as of the moment of  *)
(* reading, with a window of one cycle from actTime.  There is no other    *)
(* memory of what has been begun than the entries in LDAP: a minute whose  *)
(* rounds all miss it is missed for good.                                  *)
(*                                                                         *)
(* One pool with golden images, all with the backup type "initialize"      *)
(* unless a backup of theirs is active.  Times are seconds, those of       *)
(* schedules and of entries minutes.                                       *)
(***************************************************************************)
EXTENDS CronTime, FiniteSets

CONSTANTS
  Vm,        \* machines with backups, not excluded and with room for another
  Cycle,     \* general.cycle, 30 by default
  MaxWork,   \* bound: what a round takes at most, without the sleep
  Tick,      \* bound: the grain of time
  Horizon,   \* bound: no round begins later than this after the first
  Settings,  \* the configurations and instants to begin at
  NoCron, NoVm

ASSUME VmAssumption == Vm # {} /\ IsFiniteSet(Vm) /\ NoVm \notin Vm
ASSUME CycleAssumption ==
  /\ Cycle \in Nat \ {0} /\ MaxWork \in Nat \ {0} /\ Tick \in Nat \ {0} /\ Horizon \in Nat
  /\ Cycle + 2 * MaxWork <= 60
\* Schedules as createTime wants them, for which it does not return at once.
ASSUME SettingsAssumption ==
  \A s \in Settings : /\ s.start \in Nat
                      /\ DOMAIN s.own = Vm
                      /\ \A v \in Vm : s.own[v] = NoCron \/ IsCron(s.own[v])
                      /\ s.pool = NoCron \/ IsCron(s.pool)
                      /\ s.shutdown = NoCron \/ IsCron(s.shutdown)
                      /\ IsCron(s.global)

VARIABLES
  setting,    \* the configuration: own, pool, global and shutdown schedules
  now,
  roundStart, \* when the main loop took the time; actTime is its minute
  pc,         \* "read", "shutdown", "backup", "rest"
  unread,     \* machines this round has still to read
  due,        \* backupVms[""]: the machine to begin, with its nextTime
  doShutdown, \* shutdownVmPools holds the pool, with its nextTime
  active,     \* LDAP: machines with an active backup
  begun,      \* LDAP: backups begun, by machine, time and round
  shutdowns,  \* shutdowns handled, by time and round
  excused,    \* history: machines found busy, with the minute
  thrown      \* history: the rounds whose reading has thrown

vars == <<setting, now, roundStart, pc, unread, due, doShutdown, active, begun,
          shutdowns, excused, thrown>>

Minute(t) == t \div 60
actTime == Minute(roundStart)

NoTime == 0
NotDue == [vm |-> NoVm, time |-> NoTime]

\* What addAttribute and readGlobalBackupConfiguration gather from the entries
\* of a machine, of the pool and of all: NoCron if there is nothing.
ownConfiguration(v) == setting.own[v]
poolConfiguration == setting.pool
globalConfiguration == setting.global
shutdownConfiguration == setting.shutdown

\* readVmPool takes the global configuration for a pool without one, and
\* readVmsByPool the pool's for a machine without one.
backupConfiguration(v) ==
  CASE ownConfiguration(v) # NoCron -> ownConfiguration(v)
    [] ownConfiguration(v) = NoCron /\ poolConfiguration # NoCron -> poolConfiguration
    [] OTHER -> globalConfiguration

\* Mutants of InWindow: the time of the round not cut to the minute; an
\* off-by-one.
InWindowOpen(time) ==
  time > NoTime /\ roundStart <= 60 * time /\ 60 * time <= roundStart + Cycle
InWindowAfter(time) == time \in (actTime + 1)..(actTime + Minute(Cycle))

\* actTime <= time && time <= actTime + cycle, of which time is a minute.
InWindow(time) == time > NoTime /\ time \in actTime..(actTime + Minute(Cycle))

TypeOK ==
  /\ setting \in Settings
  /\ now \in Nat /\ roundStart \in Nat
  /\ roundStart <= now /\ now <= roundStart + MaxWork
  /\ pc \in {"read", "shutdown", "backup", "rest"}
  /\ unread \subseteq Vm
  /\ due \in [vm : Vm, time : Nat] \cup {NotDue}
  /\ doShutdown \in Nat
  /\ active \subseteq Vm
  /\ begun \subseteq [vm : Vm, time : Nat, round : Nat]
  /\ shutdowns \subseteq [time : Nat, round : Nat]
  /\ excused \subseteq Vm \X Nat
  /\ thrown \subseteq Nat

Init ==
  /\ setting \in Settings
  /\ now \in {60 * setting.start + k : k \in {j \in 0..59 : j % Tick = 0}}
  /\ roundStart = now
  /\ pc = "read" /\ unread = Vm
  /\ due = NotDue /\ doShutdown = NoTime
  /\ active \in SUBSET Vm
  /\ begun = {} /\ shutdowns = {} /\ excused = {} /\ thrown = {}

-----------------------------------------------------------------------------

\* ptime_from_tm throws: main's first block is left with doBackup and
\* doShutdown (and doPolicy) unset, whatever the round has read before.
Throw ==
  /\ pc' = "rest" /\ thrown' = thrown \cup {roundStart}
  /\ due' = NotDue /\ doShutdown' = NoTime

\* readVm and handleVmForBackup.  Machines that are to begin all have the key
\* "" in backupVms, those with an active backup its DN.
ReadVm(v) ==
  /\ pc = "read" /\ v \in unread
  /\ unread' = unread \ {v}
  /\ IF v \in active
     THEN /\ excused' = excused \cup {<<v, actTime>>}
          /\ UNCHANGED <<pc, thrown, due, doShutdown>>
     ELSE LET time == backupTime(backupConfiguration(v), Minute(now))
          IN  /\ IF time = OutOfRange THEN Throw
                 ELSE /\ due' = IF InWindow(time) THEN [vm |-> v, time |-> time] ELSE due
                      /\ UNCHANGED <<pc, thrown, doShutdown>>
              /\ UNCHANGED excused
  /\ UNCHANGED <<setting, now, roundStart, active, begun, shutdowns>>

\* The rest of readVmPools: isShutdownTime, of a pool with that configuration.
ReadShutdown ==
  /\ pc = "read" /\ unread = {}
  /\ LET time == createTime(shutdownConfiguration, Minute(now))
     IN  IF shutdownConfiguration # NoCron /\ time = OutOfRange THEN Throw
         ELSE /\ pc' = "shutdown"
              /\ doShutdown' = IF shutdownConfiguration # NoCron /\ InWindow(time)
                               THEN time ELSE NoTime
              /\ UNCHANGED <<thrown, due>>
  /\ UNCHANGED <<setting, now, roundStart, unread, active, begun, shutdowns, excused>>

\* VmPool::handleShutdown, for all machines of the pool.
HandleShutdown ==
  /\ pc = "shutdown" /\ pc' = "backup"
  /\ shutdowns' = IF doShutdown = NoTime THEN shutdowns
                  ELSE shutdowns \cup {[time |-> doShutdown, round |-> roundStart]}
  /\ doShutdown' = NoTime
  /\ UNCHANGED <<setting, now, roundStart, unread, due, active, begun, excused, thrown>>

\* Mutant of HandleBackup: what is due is due for the whole pool.
HandleBackupOfPool ==
  /\ pc = "backup" /\ pc' = "rest"
  /\ IF due = NotDue THEN UNCHANGED <<begun, active>>
     ELSE /\ begun' = begun \cup {[vm |-> v, time |-> due.time, round |-> roundStart]
                                   : v \in Vm \ active}
          /\ active' = Vm
  /\ due' = NotDue
  /\ UNCHANGED <<setting, now, roundStart, unread, doShutdown, shutdowns, excused, thrown>>

\* handleBackupWorkflow in mode "initialize": the entry is named for nextTime.
HandleBackup ==
  /\ pc = "backup" /\ pc' = "rest"
  /\ IF due = NotDue THEN UNCHANGED <<begun, active>>
     ELSE /\ begun' = begun \cup {[vm |-> due.vm, time |-> due.time, round |-> roundStart]}
          /\ active' = active \cup {due.vm}
  /\ due' = NotDue
  /\ UNCHANGED <<setting, now, roundStart, unread, doShutdown, shutdowns, excused, thrown>>

\* Mutant of NextRound: the time is taken before the sleep.
NextRoundBefore ==
  /\ pc = "rest" /\ now <= 60 * setting.start + Horizon
  /\ now' = now + Cycle
  /\ roundStart' = now
  /\ pc' = "read" /\ unread' = Vm /\ due' = NotDue
  /\ UNCHANGED <<setting, doShutdown, active, begun, shutdowns, excused, thrown>>

\* sleep(), getTime() and clearMaps().
NextRound ==
  /\ pc = "rest" /\ now <= 60 * setting.start + Horizon
  /\ now' = now + Cycle
  /\ roundStart' = now + Cycle
  /\ pc' = "read" /\ unread' = Vm /\ due' = NotDue
  /\ UNCHANGED <<setting, doShutdown, active, begun, shutdowns, excused, thrown>>

\* Reading and handling take their time.
Work ==
  /\ now + Tick <= roundStart + MaxWork
  /\ now' = now + Tick
  /\ UNCHANGED <<setting, roundStart, pc, unread, due, doShutdown, active, begun,
                 shutdowns, excused, thrown>>

\* The last step of the backup workflow, of another round.
BackupEnds(v) ==
  /\ v \in active
  /\ active' = active \ {v}
  /\ UNCHANGED <<setting, now, roundStart, pc, unread, due, doShutdown, begun,
                 shutdowns, excused, thrown>>

Next ==
  \/ \E v \in Vm : ReadVm(v) \/ BackupEnds(v)
  \/ ReadShutdown \/ HandleShutdown \/ HandleBackup
  \/ NextRound \/ Work

Spec == Init /\ [][Next]_vars

-----------------------------------------------------------------------------

\* The schedule names this minute, as createTime itself sees it.
Names(cron, minute) == createTime(cron, minute) = minute

\* The first minute that begins when the daemon is running, and the minutes
\* that are over before the current round.
Watched(minute) == 60 * setting.start < 60 * minute
Over(minute) == 60 * minute + 60 <= roundStart
Lost(minute) == \E r \in thrown : Minute(r) = minute

\* createTime returns the minute it is called in just if the schedule names it,
\* whatever it makes of the others on its way through months, days and hours.
NamesWhatMatches ==
  \A cron \in {backupConfiguration(v) : v \in Vm} \cup ({shutdownConfiguration} \ {NoCron}) :
    createTime(cron, Minute(now)) # OutOfRange =>
      (Names(cron, Minute(now)) <=> Matches(cron, Minute(now)))

\* A backup is only begun for a minute its machine's schedule names, in month,
\* day, day of the week, hour and minute.
BegunOnSchedule ==
  \A e \in begun : Matches(backupConfiguration(e.vm), e.time)

\* A minute a machine's schedule names does not pass without a backup: of this
\* machine, or of another that was due in the same round and took its place in
\* backupVms.  Only a machine whose backup is still active is passed over, and
\* the minute of a round that throws is lost.
NoneMissed ==
  \A v \in Vm : \A m \in Minute(60 * setting.start)..actTime :
    Watched(m) /\ Over(m) /\ Names(backupConfiguration(v), m) =>
      \/ <<v, m>> \in excused
      \/ \E e \in begun : e.time = m
      \/ Lost(m)

\* Machines due in the same minute are begun in different rounds.
OneBeginPerRound ==
  \A e, f \in begun : e.round = f.round => e = f

\* Nor does a minute the pool's shutdown is scheduled for pass without it.
ShutdownMet ==
  shutdownConfiguration # NoCron =>
    \A m \in Minute(60 * setting.start)..actTime :
      Watched(m) /\ Over(m) /\ Names(shutdownConfiguration, m) =>
        Lost(m) \/ \E e \in shutdowns : e.time = m

\* Reading only throws, and the whole round is only lost, with schedules that
\* name a month, or a day not all months have.
ThrowsOnlyForRareDays ==
  thrown # {} =>
    \E cron \in {backupConfiguration(v) : v \in Vm} \cup ({shutdownConfiguration} \ {NoCron}) :
      cron.month # Star \/ cron.day \in 29..31
=============================================================================
