-------------------------- MODULE RoundTimingProofs --------------------------
(***************************************************************************)
(* What holds of the rounds for every number of machines, every schedule   *)
(* and every cycle that, with twice the work of a round, fits a minute.    *)
(*                                                                         *)
(* The argument for NoneMissed: rounds begin at most Cycle + MaxWork       *)
(* apart, so the first one to begin at or after a scheduled minute m does  *)
(* so before m + Cycle + MaxWork and has read everything MaxWork later,    *)
(* which is still within the minute.  For it actTime is m, and createTime  *)
(* returns m when called in m.  The proofs use nothing else of createTime; *)
(* that these are the minutes that match the schedule, and that nothing is *)
(* begun for any other, is the last part, from CronTimeProofs.             *)
(***************************************************************************)
EXTENDS RoundTiming, CronTimeProofs, TLAPS

\* A machine's backup for the minute has been dealt with.
Dealt(v, m) == \/ <<v, m>> \in excused
               \/ \E e \in begun : e.time = m
               \/ Lost(m)
ShutdownDealt(m) == Lost(m) \/ \E e \in shutdowns : e.time = m

NamedFor(v, m) == Watched(m) /\ Names(backupConfiguration(v), m)
ShutdownNamed(m) ==
  shutdownConfiguration # NoCron /\ Watched(m) /\ Names(shutdownConfiguration, m)

\* A minute this round is too late for, and one it is in time for.
Early(m) == 60 * m + Cycle + MaxWork <= roundStart
Timely(m) == 60 * m <= roundStart /\ ~Early(m)

\* The machines read have put what is due now into backupVms.
InReading ==
  pc # "rest" /\ Timely(actTime) =>
    \A v \in Vm \ unread :
      NamedFor(v, actTime) => Dealt(v, actTime) \/ due.time = actTime

Backups ==
  /\ \A v \in Vm : \A m \in Nat : NamedFor(v, m) /\ Early(m) => Dealt(v, m)
  /\ pc = "rest" =>
       \A v \in Vm : \A m \in Nat : NamedFor(v, m) /\ 60 * m <= roundStart => Dealt(v, m)
  /\ InReading

Shutdowns ==
  /\ \A m \in Nat : ShutdownNamed(m) /\ Early(m) => ShutdownDealt(m)
  /\ pc \in {"backup", "rest"} =>
       \A m \in Nat : ShutdownNamed(m) /\ 60 * m <= roundStart => ShutdownDealt(m)
  /\ pc = "shutdown" /\ Timely(actTime) /\ ShutdownNamed(actTime) =>
       ShutdownDealt(actTime) \/ doShutdown = actTime

\* Type correctness, with what the program counter says of the work done.
Types == TypeOK /\ (pc \in {"shutdown", "backup"} => unread = {})

\* A round begins no second machine.
Rounds ==
  /\ \A e \in begun : e.round <= roundStart
  /\ pc # "rest" => \A e \in begun : e.round < roundStart
  /\ \A e, f \in begun : e.round = f.round => e = f

-----------------------------------------------------------------------------

LEMMA MinuteFacts ==
  ASSUME NEW t \in Nat
  PROVE  /\ Minute(t) \in Nat
         /\ 60 * Minute(t) <= t
         /\ t < 60 * Minute(t) + 60
  BY SMT DEF Minute

LEMMA MinuteIs ==
  ASSUME NEW t \in Nat, NEW m \in Nat, 60 * m <= t, t < 60 * m + 60
  PROVE  Minute(t) = m
  BY SMT DEF Minute

\* A cycle is shorter than a minute: the window holds the minute itself only.
LEMMA Window ==
  ASSUME NEW time, roundStart \in Nat
  PROVE  InWindow(time) <=> (time = actTime /\ actTime > 0)
<1>1. Minute(Cycle) = 0
  BY MinuteIs, CycleAssumption, SMT
<1>2. actTime \in Nat
  BY MinuteFacts DEF actTime
<1> QED  BY <1>1, <1>2, SMT DEF InWindow, NoTime

\* The minute of the round is the only one it is in time for.
LEMMA TimelyIsNow ==
  ASSUME NEW m \in Nat, roundStart \in Nat, Timely(m)
  PROVE  m = actTime
<1>1. roundStart < 60 * m + 60
  BY CycleAssumption, SMT DEF Timely, Early
<1> QED  BY <1>1, MinuteIs DEF actTime, Timely

LEMMA TypesInit == Init => Types
<1> SUFFICES ASSUME Init  PROVE Types
  OBVIOUS
<1>1. setting.start \in Nat
  BY SettingsAssumption DEF Init
<1>2. now \in Nat /\ roundStart = now
  BY <1>1, SMT DEF Init
<1>3. TypeOK
  BY <1>2, CycleAssumption DEF Init, TypeOK, NoTime
<1> QED  BY <1>3 DEF Init, Types

LEMMA TypesNext == Types /\ [Next]_vars => Types'
<1> SUFFICES ASSUME Types, [Next]_vars  PROVE Types'
  OBVIOUS
<1>a. actTime \in Nat
  BY MinuteFacts DEF actTime, Types, TypeOK
<1>b. NoTime \in Nat /\ NotDue \notin [vm : Vm, time : Nat]
  BY VmAssumption DEF NoTime, NotDue
<1>1. ASSUME NEW v \in Vm, ReadVm(v)  PROVE Types'
  <2> USE DEF Types, TypeOK
  <2>1. CASE v \in active
    BY <1>1, <2>1, <1>a DEF ReadVm
  <2>2. CASE v \notin active
    <3> DEFINE time == backupTime(backupConfiguration(v), Minute(now))
    <3> HIDE DEF time
    <3>1. CASE time = OutOfRange
      BY <1>1, <2>2, <3>1 DEF ReadVm, Throw, NoTime, time
    <3>2. CASE time # OutOfRange
      <4>1. /\ due' = IF InWindow(time) THEN [vm |-> v, time |-> time] ELSE due
            /\ UNCHANGED <<pc, thrown, doShutdown, excused>>
        BY <1>1, <2>2, <3>2 DEF ReadVm, time
      <4>2. InWindow(time) => time \in Nat
        BY <1>a, Window
      <4>3. due' \in [vm : Vm, time : Nat] \cup {NotDue}'
        BY <4>1, <4>2 DEF NotDue, NoTime
      <4> QED  BY <1>1, <4>1, <4>3 DEF ReadVm
    <3> QED  BY <3>1, <3>2
  <2> QED  BY <2>1, <2>2
<1>2. ASSUME NEW v \in Vm, BackupEnds(v)  PROVE Types'
  BY <1>2 DEF BackupEnds, Types, TypeOK
<1>3. CASE ReadShutdown
  <2> USE DEF Types, TypeOK
  <2> DEFINE time == createTime(shutdownConfiguration, Minute(now))
  <2> HIDE DEF time
  <2>1. CASE shutdownConfiguration # NoCron /\ time = OutOfRange
    <3>1. Throw
      BY <1>3, <2>1 DEF ReadShutdown, time
    <3> QED  BY <1>3, <3>1, <1>b DEF ReadShutdown, Throw
  <2>2. CASE ~(shutdownConfiguration # NoCron /\ time = OutOfRange)
    <3>1. /\ pc' = "shutdown"
          /\ doShutdown' = IF shutdownConfiguration # NoCron /\ InWindow(time)
                           THEN time ELSE NoTime
          /\ UNCHANGED <<thrown, due>>
      BY <1>3, <2>2 DEF ReadShutdown, time
    <3>2. doShutdown' \in Nat
      BY <3>1, <1>a, <1>b, Window
    <3> QED  BY <1>3, <3>1, <3>2 DEF ReadShutdown
  <2> QED  BY <2>1, <2>2
<1>4. CASE HandleShutdown
  BY <1>4, <1>b DEF HandleShutdown, Types, TypeOK
<1>5. CASE HandleBackup
  <2> USE DEF Types, TypeOK
  <2>1. CASE due = NotDue
    BY <1>5, <2>1 DEF HandleBackup
  <2>2. CASE due # NotDue
    <3>1. due.vm \in Vm /\ due.time \in Nat
      BY <2>2
    <3>2. /\ begun' = begun \cup {[vm |-> due.vm, time |-> due.time, round |-> roundStart]}
          /\ active' = active \cup {due.vm}
      BY <1>5, <2>2 DEF HandleBackup
    <3> QED  BY <1>5, <3>1, <3>2 DEF HandleBackup
  <2> QED  BY <2>1, <2>2
<1>6. CASE NextRound
  BY <1>6, <1>b, CycleAssumption DEF NextRound, Types, TypeOK
<1>7. CASE Work
  BY <1>7, CycleAssumption DEF Work, Types, TypeOK
<1>8. CASE UNCHANGED vars
  BY <1>8 DEF vars, Types, TypeOK, NotDue
<1> QED  BY <1>1, <1>2, <1>3, <1>4, <1>5, <1>6, <1>7, <1>8 DEF Next

\* What the state holds is of the types the module gives it; the rounds are
\* never longer than their work.
THEOREM TypeCorrect == Spec => []TypeOK
<1>1. Types => TypeOK
  BY DEF Types
<1> QED  BY TypesInit, TypesNext, <1>1, PTL DEF Spec

-----------------------------------------------------------------------------

LEMMA RoundsNext == Types /\ Rounds /\ [Next]_vars => Rounds'
<1> SUFFICES ASSUME Types, Rounds, [Next]_vars  PROVE Rounds'
  OBVIOUS
<1>1. CASE HandleBackup
  <2>1. CASE due = NotDue
    BY <1>1, <2>1 DEF HandleBackup, Rounds, Types, TypeOK
  <2>2. CASE due # NotDue
    <3> DEFINE e == [vm |-> due.vm, time |-> due.time, round |-> roundStart]
    <3>1. begun' = begun \cup {e} /\ pc = "backup" /\ pc' = "rest" /\ roundStart' = roundStart
      BY <1>1, <2>2 DEF HandleBackup
    <3>2. e.round = roundStart
      OBVIOUS
    <3>3. \A f \in begun : f.round \in Nat
      BY DEF Types, TypeOK
    <3>4. roundStart \in Nat
      BY DEF Types, TypeOK
    <3> HIDE DEF e
    <3>5. \A f \in begun : f.round < roundStart
      BY <3>1 DEF Rounds
    <3> QED  BY <3>1, <3>2, <3>3, <3>4, <3>5 DEF Rounds
  <2> QED  BY <2>1, <2>2
<1>2. CASE NextRound
  <2>1. roundStart' > roundStart /\ begun' = begun /\ pc' = "read"
    BY <1>2, CycleAssumption DEF NextRound, Types, TypeOK
  <2>2. \A f \in begun : f.round \in Nat
    BY DEF Types, TypeOK
  <2>3. roundStart \in Nat /\ roundStart' \in Nat
    BY TypesNext DEF Types, TypeOK
  <2> QED  BY <2>1, <2>2, <2>3 DEF Rounds
<1>3. CASE \/ \E v \in Vm : ReadVm(v) \/ BackupEnds(v)
           \/ ReadShutdown \/ HandleShutdown \/ Work \/ UNCHANGED vars
  <2>1. UNCHANGED <<begun, roundStart>> /\ (pc = "rest" => pc' = "rest")
    BY <1>3 DEF ReadVm, BackupEnds, ReadShutdown, HandleShutdown, Work, Throw, vars
  <2> QED  BY <2>1 DEF Rounds
<1> QED  BY <1>1, <1>2, <1>3 DEF Next

\* However many machines a schedule names for the same minute, a round begins
\* one backup: backupVms holds them under the same key.
THEOREM OneBegin == Spec => []OneBeginPerRound
<1>1. Init => Rounds
  BY DEF Init, Rounds
<1>2. Rounds => OneBeginPerRound
  BY DEF Rounds, OneBeginPerRound
<1> QED  BY TypesInit, TypesNext, RoundsNext, <1>1, <1>2, PTL DEF Spec

-----------------------------------------------------------------------------

\* What has been dealt with stays so, and no step changes the configuration.
LEMMA DealtStays ==
  ASSUME [Next]_vars
  PROVE  /\ setting' = setting
         /\ \A v, m : Dealt(v, m) => Dealt(v, m)'
         /\ \A m : ShutdownDealt(m) => ShutdownDealt(m)'
         /\ \A v \in Vm : \A m : NamedFor(v, m)' <=> NamedFor(v, m)
         /\ \A m : ShutdownNamed(m)' <=> ShutdownNamed(m)
<1>1. /\ setting' = setting /\ excused \subseteq excused' /\ begun \subseteq begun'
      /\ thrown \subseteq thrown' /\ shutdowns \subseteq shutdowns'
  BY DEF Next, ReadVm, BackupEnds, ReadShutdown, HandleShutdown, HandleBackup, NextRound,
         Work, Throw, vars
<1>2. \A v : backupConfiguration(v)' = backupConfiguration(v)
  BY <1>1 DEF backupConfiguration, ownConfiguration, poolConfiguration, globalConfiguration
<1> QED
  BY <1>1, <1>2 DEF Dealt, ShutdownDealt, Lost, NamedFor, ShutdownNamed, Watched, Names,
                    shutdownConfiguration

LEMMA BackupsInit == Init => Backups
<1> SUFFICES ASSUME Init  PROVE Backups
  OBVIOUS
<1>1. setting.start \in Nat
  BY SettingsAssumption DEF Init
<1>2. \A m \in Nat : ~(Watched(m) /\ Early(m))
  BY <1>1, CycleAssumption DEF Init, Watched, Early
<1>3. pc = "read" /\ unread = Vm
  BY DEF Init
<1> QED  BY <1>2, <1>3 DEF Backups, InReading, NamedFor

\* Steps within a round that neither read a machine nor end the round.
LEMMA BackupsKept ==
  ASSUME Backups, [Next]_vars, UNCHANGED <<roundStart, unread, due>>,
         pc' = "rest" => pc = "rest", pc' # "rest" => pc # "rest"
  PROVE  Backups'
<1>1. actTime' = actTime /\ (Timely(actTime)' <=> Timely(actTime))
  BY DEF actTime, Timely, Early
<1>2. InReading'
  BY <1>1, DealtStays DEF InReading, Backups
<1> QED  BY <1>2, DealtStays DEF Backups, Early

\* A round that throws is the loss of its minute.
LEMMA BackupsThrow ==
  ASSUME Types, Backups, [Next]_vars, Throw, roundStart' = roundStart
  PROVE  Backups'
<1> USE DEF Types, TypeOK
<1>1. ASSUME NEW m \in Nat, NEW v \in Vm, NamedFor(v, m), 60 * m <= roundStart
      PROVE  Dealt(v, m)'
  <2>1. CASE Early(m)
    BY <1>1, <2>1, DealtStays DEF Backups
  <2>2. CASE ~Early(m)
    <3>1. Minute(roundStart) = m
      BY <1>1, <2>2, TimelyIsNow DEF Timely, actTime
    <3> QED  BY <3>1 DEF Throw, Dealt, Lost
  <2> QED  BY <2>1, <2>2
<1> QED  BY <1>1, DealtStays DEF Backups, InReading, Throw, Early

LEMMA BackupsRead ==
  ASSUME Types, Backups, [Next]_vars, NEW v \in Vm, ReadVm(v)
  PROVE  Backups'
<1> USE DEF Types, TypeOK
<1>1. pc = "read" /\ roundStart' = roundStart /\ now' = now /\ unread' = unread \ {v}
  BY DEF ReadVm
<1>2. actTime \in Nat /\ actTime' = actTime /\ (Timely(actTime)' <=> Timely(actTime))
  BY <1>1, MinuteFacts DEF actTime, Timely, Early
<1>3. \A w \in Vm : \A m \in Nat : NamedFor(w, m)' /\ Early(m)' => Dealt(w, m)'
  BY <1>1, DealtStays DEF Backups, Early
<1>4. CASE v \in active
  <2>1. Dealt(v, actTime)' /\ pc' = pc /\ due' = due
    BY <1>4, <1>2 DEF ReadVm, Dealt
  <2>2. InReading'
    BY <1>1, <1>2, <2>1, DealtStays DEF InReading, Backups
  <2> QED  BY <1>1, <1>3, <2>1, <2>2 DEF Backups
<1>5. CASE v \notin active
  <2> DEFINE time == backupTime(backupConfiguration(v), Minute(now))
  <2> HIDE DEF time
  <2>1. CASE time = OutOfRange
    BY <1>1, <1>5, <2>1, BackupsThrow DEF ReadVm, time
  <2>2. CASE time # OutOfRange
    <3>1. /\ due' = IF InWindow(time) THEN [vm |-> v, time |-> time] ELSE due
          /\ pc' = pc
      BY <1>5, <2>2 DEF ReadVm, time
    <3>2. ASSUME Timely(actTime), NamedFor(v, actTime)
          PROVE  due'.time = actTime
      <4>1. Minute(now) = actTime
        <5>1. 60 * actTime <= now /\ now < 60 * actTime + 60
          BY <1>2, <3>2, CycleAssumption DEF Timely, Early
        <5> QED  BY <5>1, <1>2, MinuteIs
      <4>2. time = actTime
        BY <3>2, <4>1 DEF NamedFor, Names, time, backupTime
      <4>3. actTime > 0
        BY <3>2, <1>2, SettingsAssumption DEF NamedFor, Watched
      <4> QED  BY <3>1, <4>2, <4>3, Window
    <3>3. due.time = actTime => due'.time = actTime
      BY <3>1, Window
    <3>4. InReading'
      BY <1>1, <1>2, <3>1, <3>2, <3>3, DealtStays DEF InReading, Backups
    <3> QED  BY <1>1, <1>3, <3>1, <3>4 DEF Backups
  <2> QED  BY <2>1, <2>2
<1> QED  BY <1>4, <1>5

LEMMA BackupsHandle ==
  ASSUME Types, Backups, [Next]_vars, HandleBackup
  PROVE  Backups'
<1> USE DEF Types, TypeOK
<1>1. pc = "backup" /\ pc' = "rest" /\ roundStart' = roundStart /\ unread = {}
  BY DEF HandleBackup
<1>2. ASSUME NEW m \in Nat, NEW v \in Vm, NamedFor(v, m), 60 * m <= roundStart
      PROVE  Dealt(v, m)'
  <2>1. CASE Early(m)
    BY <1>2, <2>1, DealtStays DEF Backups
  <2>2. CASE ~Early(m)
    <3>1. m = actTime /\ Timely(actTime)
      BY <1>2, <2>2, TimelyIsNow DEF Timely
    <3>2. Dealt(v, m) \/ due.time = m
      BY <1>1, <1>2, <3>1 DEF Backups, InReading
    <3>3. m > 0
      BY <1>2, SettingsAssumption DEF NamedFor, Watched
    <3>4. CASE due.time = m
      <4>1. due # NotDue
        BY <3>3, <3>4 DEF NotDue, NoTime
      <4>2. [vm |-> due.vm, time |-> due.time, round |-> roundStart] \in begun'
        BY <4>1 DEF HandleBackup
      <4> QED  BY <3>4, <4>2 DEF Dealt
    <3> QED  BY <3>2, <3>4, DealtStays
  <2> QED  BY <2>1, <2>2
<1> QED  BY <1>1, <1>2, DealtStays DEF Backups, InReading, Early

LEMMA BackupsRound ==
  ASSUME Types, Backups, [Next]_vars, NextRound
  PROVE  Backups'
<1> USE DEF Types, TypeOK
<1>1. pc = "rest" /\ pc' = "read" /\ unread' = Vm /\ roundStart' = now + Cycle
  BY DEF NextRound
<1>2. \A m \in Nat : Early(m)' => 60 * m <= roundStart
  BY <1>1, CycleAssumption DEF Early
<1> QED  BY <1>1, <1>2, DealtStays DEF Backups, InReading

LEMMA BackupsNext == Types /\ Backups /\ [Next]_vars => Backups'
<1> SUFFICES ASSUME Types, Backups, [Next]_vars  PROVE Backups'
  OBVIOUS
<1>1. ASSUME NEW v \in Vm, ReadVm(v)  PROVE Backups'
  BY <1>1, BackupsRead
<1>2. CASE HandleBackup
  BY <1>2, BackupsHandle
<1>3. CASE NextRound
  BY <1>3, BackupsRound
<1>4. CASE ReadShutdown
  <2>1. CASE Throw
    BY <1>4, <2>1, BackupsThrow DEF ReadShutdown
  <2>2. CASE ~Throw
    BY <1>4, <2>2, BackupsKept DEF ReadShutdown
  <2> QED  BY <2>1, <2>2
<1>5. CASE HandleShutdown \/ Work \/ (\E v \in Vm : BackupEnds(v)) \/ UNCHANGED vars
  BY <1>5, BackupsKept DEF HandleShutdown, Work, BackupEnds, vars
<1> QED  BY <1>1, <1>2, <1>3, <1>4, <1>5 DEF Next

\* No minute that a machine's schedule names passes without a backup, unless
\* this machine's is still active or a round that throws takes the minute.
THEOREM NothingMissed == Spec => []NoneMissed
<1>1. Types /\ Backups => NoneMissed
  <2> SUFFICES ASSUME Types, Backups,
                      NEW v \in Vm, NEW m \in Minute(60 * setting.start)..actTime,
                      Watched(m), Over(m), Names(backupConfiguration(v), m)
               PROVE  Dealt(v, m)
    BY DEF NoneMissed, Dealt
  <2>1. Minute(60 * setting.start) \in Nat /\ actTime \in Nat
    <3>1. setting.start \in Nat /\ roundStart \in Nat
      BY SettingsAssumption DEF Types, TypeOK
    <3>2. 60 * setting.start \in Nat
      BY <3>1
    <3> QED  BY <3>1, <3>2, MinuteFacts DEF actTime
  <2>2. m \in Nat
    BY <2>1
  <2>3. Early(m)
    BY <2>2, CycleAssumption DEF Early, Over, Types, TypeOK
  <2> QED  BY <2>2, <2>3 DEF Backups, NamedFor
<1> QED  BY TypesInit, TypesNext, BackupsInit, BackupsNext, <1>1, PTL DEF Spec

-----------------------------------------------------------------------------

LEMMA ShutdownsInit == Init => Shutdowns
<1> SUFFICES ASSUME Init  PROVE Shutdowns
  OBVIOUS
<1>1. setting.start \in Nat
  BY SettingsAssumption DEF Init
<1>2. \A m \in Nat : ~(Watched(m) /\ Early(m))
  BY <1>1, CycleAssumption DEF Init, Watched, Early
<1> QED  BY <1>2 DEF Init, Shutdowns, ShutdownNamed

LEMMA ShutdownsKept ==
  ASSUME Shutdowns, [Next]_vars, UNCHANGED <<roundStart, doShutdown>>,
         pc' \in {"backup", "rest"} => pc \in {"backup", "rest"},
         pc' = "shutdown" => pc = "shutdown"
  PROVE  Shutdowns'
<1>1. actTime' = actTime /\ (Timely(actTime)' <=> Timely(actTime))
  BY DEF actTime, Timely, Early
<1> QED  BY <1>1, DealtStays DEF Shutdowns, Early

LEMMA ShutdownsThrow ==
  ASSUME Types, Shutdowns, [Next]_vars, Throw, roundStart' = roundStart
  PROVE  Shutdowns'
<1> USE DEF Types, TypeOK
<1>1. ASSUME NEW m \in Nat, ShutdownNamed(m), 60 * m <= roundStart
      PROVE  ShutdownDealt(m)'
  <2>1. CASE Early(m)
    BY <1>1, <2>1, DealtStays DEF Shutdowns
  <2>2. CASE ~Early(m)
    <3>1. Minute(roundStart) = m
      BY <1>1, <2>2, TimelyIsNow DEF Timely, actTime
    <3> QED  BY <3>1 DEF Throw, ShutdownDealt, Lost
  <2> QED  BY <2>1, <2>2
<1> QED  BY <1>1, DealtStays DEF Shutdowns, Throw, Early

LEMMA ShutdownsRead ==
  ASSUME Types, Shutdowns, [Next]_vars, ReadShutdown, ~Throw
  PROVE  Shutdowns'
<1> USE DEF Types, TypeOK
<1> DEFINE time == createTime(shutdownConfiguration, Minute(now))
<1> HIDE DEF time
<1>1. /\ pc' = "shutdown" /\ roundStart' = roundStart
      /\ doShutdown' = IF shutdownConfiguration # NoCron /\ InWindow(time) THEN time ELSE NoTime
  BY DEF ReadShutdown, time
<1>2. actTime \in Nat /\ actTime' = actTime /\ (Timely(actTime)' <=> Timely(actTime))
  BY <1>1, MinuteFacts DEF actTime, Timely, Early
<1>3. ASSUME Timely(actTime), ShutdownNamed(actTime)
      PROVE  doShutdown' = actTime
  <2>1. Minute(now) = actTime
    <3>1. 60 * actTime <= now /\ now < 60 * actTime + 60
      BY <1>2, <1>3, CycleAssumption DEF Timely, Early
    <3> QED  BY <3>1, <1>2, MinuteIs
  <2>2. time = actTime
    BY <1>3, <2>1 DEF ShutdownNamed, Names, time
  <2>3. actTime > 0
    BY <1>3, <1>2, SettingsAssumption DEF ShutdownNamed, Watched
  <2> QED  BY <1>1, <1>3, <2>2, <2>3, Window DEF ShutdownNamed
<1> QED  BY <1>1, <1>2, <1>3, DealtStays DEF Shutdowns, Early

LEMMA ShutdownsHandle ==
  ASSUME Types, Shutdowns, [Next]_vars, HandleShutdown
  PROVE  Shutdowns'
<1> USE DEF Types, TypeOK
<1>1. pc = "shutdown" /\ pc' = "backup" /\ roundStart' = roundStart
  BY DEF HandleShutdown
<1>2. ASSUME NEW m \in Nat, ShutdownNamed(m), 60 * m <= roundStart
      PROVE  ShutdownDealt(m)'
  <2>1. CASE Early(m)
    BY <1>2, <2>1, DealtStays DEF Shutdowns
  <2>2. CASE ~Early(m)
    <3>1. m = actTime /\ Timely(actTime)
      BY <1>2, <2>2, TimelyIsNow DEF Timely
    <3>2. ShutdownDealt(m) \/ doShutdown = m
      BY <1>1, <1>2, <3>1 DEF Shutdowns
    <3>3. m > 0
      BY <1>2, SettingsAssumption DEF ShutdownNamed, Watched
    <3>4. CASE doShutdown = m
      <4>1. [time |-> doShutdown, round |-> roundStart] \in shutdowns'
        BY <3>3, <3>4 DEF HandleShutdown, NoTime
      <4> QED  BY <3>4, <4>1 DEF ShutdownDealt
    <3> QED  BY <3>2, <3>4, DealtStays
  <2> QED  BY <2>1, <2>2
<1> QED  BY <1>1, <1>2, DealtStays DEF Shutdowns, Early

LEMMA ShutdownsNext == Types /\ Shutdowns /\ [Next]_vars => Shutdowns'
<1> SUFFICES ASSUME Types, Shutdowns, [Next]_vars  PROVE Shutdowns'
  OBVIOUS
<1>1. ASSUME NEW v \in Vm, ReadVm(v)  PROVE Shutdowns'
  <2>1. CASE Throw
    BY <1>1, <2>1, ShutdownsThrow DEF ReadVm
  <2>2. CASE ~Throw
    <3>1. UNCHANGED <<roundStart, doShutdown, pc>>
      BY <1>1, <2>2 DEF ReadVm
    <3> QED  BY <3>1, ShutdownsKept
  <2> QED  BY <2>1, <2>2
<1>2. CASE ReadShutdown
  BY <1>2, ShutdownsRead, ShutdownsThrow DEF ReadShutdown
<1>3. CASE HandleShutdown
  BY <1>3, ShutdownsHandle
<1>4. CASE NextRound
  <2>1. pc = "rest" /\ pc' = "read" /\ roundStart' = now + Cycle
    BY <1>4 DEF NextRound
  <2>2. \A m \in Nat : Early(m)' => 60 * m <= roundStart
    BY <2>1, CycleAssumption DEF Early, Types, TypeOK
  <2> QED  BY <2>1, <2>2, DealtStays DEF Shutdowns
<1>5. CASE HandleBackup \/ Work \/ (\E v \in Vm : BackupEnds(v)) \/ UNCHANGED vars
  BY <1>5, ShutdownsKept DEF HandleBackup, Work, BackupEnds, vars
<1> QED  BY <1>1, <1>2, <1>3, <1>4, <1>5 DEF Next

\* Nor does a minute that the pool's shutdown schedule names, but to a throw.
THEOREM ShutdownsMet == Spec => []ShutdownMet
<1>1. Types /\ Shutdowns => ShutdownMet
  <2> SUFFICES ASSUME Types, Shutdowns, shutdownConfiguration # NoCron,
                      NEW m \in Minute(60 * setting.start)..actTime,
                      Watched(m), Over(m), Names(shutdownConfiguration, m)
               PROVE  ShutdownDealt(m)
    BY DEF ShutdownMet, ShutdownDealt
  <2>1. Minute(60 * setting.start) \in Nat /\ actTime \in Nat
    <3>1. setting.start \in Nat /\ roundStart \in Nat
      BY SettingsAssumption DEF Types, TypeOK
    <3>2. 60 * setting.start \in Nat
      BY <3>1
    <3> QED  BY <3>1, <3>2, MinuteFacts DEF actTime
  <2>2. m \in Nat
    BY <2>1
  <2>3. Early(m)
    BY <2>2, CycleAssumption DEF Early, Over, Types, TypeOK
  <2> QED  BY <2>2, <2>3 DEF Shutdowns, ShutdownNamed
<1> QED  BY TypesInit, TypesNext, ShutdownsInit, ShutdownsNext, <1>1, PTL DEF Spec

-----------------------------------------------------------------------------

\* What is due, and what has been begun, is on schedule.
OnSchedule ==
  /\ due # NotDue => Matches(backupConfiguration(due.vm), due.time)
  /\ BegunOnSchedule

LEMMA SchedulesAreCron ==
  ASSUME setting \in Settings
  PROVE  /\ \A v \in Vm : IsCron(backupConfiguration(v))
         /\ shutdownConfiguration = NoCron \/ IsCron(shutdownConfiguration)
  BY SettingsAssumption DEF backupConfiguration, ownConfiguration, poolConfiguration,
                            globalConfiguration, shutdownConfiguration

LEMMA SchedulesStay ==
  ASSUME [Next]_vars
  PROVE  /\ \A v : backupConfiguration(v)' = backupConfiguration(v)
         /\ shutdownConfiguration' = shutdownConfiguration
<1>1. setting' = setting
  BY DEF Next, ReadVm, BackupEnds, ReadShutdown, HandleShutdown, HandleBackup, NextRound,
         Work, vars
<1> QED  BY <1>1 DEF backupConfiguration, ownConfiguration, poolConfiguration,
                     globalConfiguration, shutdownConfiguration

\* A schedule in the window is the minute of the round, which is not to come.
LEMMA DueMatches ==
  ASSUME TypeOK, NEW cron, IsCron(cron), InWindow(createTime(cron, Minute(now)))
  PROVE  Matches(cron, createTime(cron, Minute(now)))
<1> DEFINE time == createTime(cron, Minute(now))
<1>1. roundStart \in Nat /\ now \in Nat /\ roundStart <= now
  BY DEF TypeOK
<1>2. time = actTime
  BY <1>1, Window
<1>3. actTime \in Nat /\ Minute(now) \in Nat /\ actTime <= Minute(now)
  BY <1>1, MinuteFacts, SMT DEF actTime, Minute
<1>4. time \in 0..Minute(now)
  BY <1>2, <1>3
<1> QED  BY <1>3, <1>4, ResultMatches

LEMMA OnScheduleInit == Init => OnSchedule
  BY DEF Init, OnSchedule, BegunOnSchedule

LEMMA OnScheduleNext == Types /\ OnSchedule /\ [Next]_vars => OnSchedule'
<1> SUFFICES ASSUME Types, OnSchedule, [Next]_vars  PROVE OnSchedule'
  OBVIOUS
<1> USE DEF Types
<1>1. ASSUME due' = NotDue \/ due' = due, begun' = begun  PROVE OnSchedule'
  BY <1>1, SchedulesStay DEF OnSchedule, BegunOnSchedule
<1>2. ASSUME NEW v \in Vm, ReadVm(v)  PROVE OnSchedule'
  <2> DEFINE time == backupTime(backupConfiguration(v), Minute(now))
  <2>1. begun' = begun
    BY <1>2 DEF ReadVm
  <2>2. CASE due' = NotDue \/ due' = due
    BY <1>1, <2>1, <2>2
  <2>3. CASE ~(due' = NotDue \/ due' = due)
    <3>1. due' = [vm |-> v, time |-> time] /\ InWindow(time)
      BY <1>2, <2>3 DEF ReadVm, Throw
    <3>2. IsCron(backupConfiguration(v))
      BY SchedulesAreCron DEF TypeOK
    <3>3. Matches(backupConfiguration(v), time)
      BY <3>1, <3>2, DueMatches DEF backupTime
    <3> HIDE DEF time
    <3>4. due'.vm = v /\ due'.time = time
      BY <3>1
    <3> QED  BY <2>1, <3>3, <3>4, SchedulesStay DEF OnSchedule, BegunOnSchedule
  <2> QED  BY <2>2, <2>3
<1>3. CASE HandleBackup
  <2>1. due' = NotDue
    BY <1>3 DEF HandleBackup
  <2>2. CASE due = NotDue
    BY <1>1, <1>3, <2>1, <2>2 DEF HandleBackup
  <2>3. CASE due # NotDue
    <3>1. begun' = begun \cup {[vm |-> due.vm, time |-> due.time, round |-> roundStart]}
      BY <1>3, <2>3 DEF HandleBackup
    <3>2. \A e \in begun' : Matches(backupConfiguration(e.vm), e.time)
      BY <2>3, <3>1 DEF OnSchedule, BegunOnSchedule
    <3> QED  BY <2>1, <3>2, SchedulesStay DEF OnSchedule, BegunOnSchedule
  <2> QED  BY <2>2, <2>3
<1>4. CASE ReadShutdown \/ HandleShutdown \/ NextRound \/ Work
             \/ (\E v \in Vm : BackupEnds(v)) \/ UNCHANGED vars
  BY <1>1, <1>4 DEF ReadShutdown, Throw, HandleShutdown, NextRound, Work, BackupEnds, vars
<1> QED  BY <1>2, <1>3, <1>4 DEF Next

\* A backup is only begun for a minute that matches its machine's schedule.
THEOREM BackupsOnSchedule == Spec => []BegunOnSchedule
<1>1. OnSchedule => BegunOnSchedule
  BY DEF OnSchedule
<1> QED  BY TypesInit, TypesNext, OnScheduleInit, OnScheduleNext, <1>1, PTL DEF Spec

\* Every schedule of every configuration is one that createTime is right about.
AllSupported ==
  \A s \in Settings : /\ \A v \in Vm : s.own[v] = NoCron \/ Supported(s.own[v])
                      /\ s.pool = NoCron \/ Supported(s.pool)
                      /\ s.shutdown = NoCron \/ Supported(s.shutdown)
                      /\ Supported(s.global)

\* With such schedules createTime returns the minute it is called in just if
\* that matches the schedule.
THEOREM NamesAreMatches ==
  ASSUME AllSupported
  PROVE  Spec => []NamesWhatMatches
<1>1. Types => NamesWhatMatches
  <2> SUFFICES ASSUME Types,
                      NEW cron \in {backupConfiguration(v) : v \in Vm}
                                     \cup ({shutdownConfiguration} \ {NoCron}),
                      createTime(cron, Minute(now)) # OutOfRange
               PROVE  Names(cron, Minute(now)) <=> Matches(cron, Minute(now))
    BY DEF NamesWhatMatches
  <2>1. Supported(cron)
    BY AllSupported DEF AllSupported, Types, TypeOK, backupConfiguration, ownConfiguration,
       poolConfiguration, globalConfiguration, shutdownConfiguration
  <2>2. Minute(now) \in Nat
    BY MinuteFacts DEF Types, TypeOK
  <2>3. IsCron(cron)
    BY <2>1 DEF Supported
  <2>4. Names(cron, Minute(now)) => Matches(cron, Minute(now))
    <3> SUFFICES ASSUME Names(cron, Minute(now))  PROVE Matches(cron, Minute(now))
      OBVIOUS
    <3>1. createTime(cron, Minute(now)) = Minute(now)
      BY DEF Names
    <3>2. createTime(cron, Minute(now)) \in 0..Minute(now)
      BY <2>2, <3>1
    <3> QED  BY <2>2, <2>3, <3>1, <3>2, ResultMatches
  <2>5. Matches(cron, Minute(now)) => Names(cron, Minute(now))
    BY <2>1, <2>2, MatchIsNamed DEF Names
  <2> QED  BY <2>4, <2>5
<1> QED  BY TypesInit, TypesNext, <1>1, PTL DEF Spec

LEMMA RareInit == Init => ThrowsOnlyForRareDays
  BY DEF Init, ThrowsOnlyForRareDays

LEMMA RareNext == Types /\ ThrowsOnlyForRareDays /\ [Next]_vars => ThrowsOnlyForRareDays'
<1> SUFFICES ASSUME Types, ThrowsOnlyForRareDays, [Next]_vars  PROVE ThrowsOnlyForRareDays'
  OBVIOUS
<1> DEFINE Crons == {backupConfiguration(v) : v \in Vm} \cup ({shutdownConfiguration} \ {NoCron})
<1>1. Crons' = Crons
  BY SchedulesStay
<1>2. Minute(now) \in Nat
  BY MinuteFacts DEF Types, TypeOK
<1>3. CASE thrown' = thrown
  BY <1>1, <1>3 DEF ThrowsOnlyForRareDays
<1>4. CASE thrown' # thrown
  <2>1. \E cron \in Crons : IsCron(cron) /\ createTime(cron, Minute(now)) = OutOfRange
    <3>1. setting \in Settings
      BY DEF Types, TypeOK
    <3>2. ASSUME NEW v \in Vm, ReadVm(v)  PROVE createTime(backupConfiguration(v), Minute(now)) = OutOfRange
      BY <1>4, <3>2 DEF ReadVm, backupTime
    <3>3. ASSUME ReadShutdown
          PROVE  /\ shutdownConfiguration # NoCron
                 /\ createTime(shutdownConfiguration, Minute(now)) = OutOfRange
      BY <1>4, <3>3 DEF ReadShutdown
    <3>4. (\E v \in Vm : ReadVm(v)) \/ ReadShutdown
      BY <1>4 DEF Next, BackupEnds, HandleShutdown, HandleBackup, NextRound, Work, vars
    <3> QED  BY <3>1, <3>2, <3>3, <3>4, SchedulesAreCron
  <2>2. \E cron \in Crons : cron.month # Star \/ cron.day \in 29..31
    BY <1>2, <2>1, ThrowIsRare
  <2> QED  BY <1>1, <2>2 DEF ThrowsOnlyForRareDays
<1> QED  BY <1>3, <1>4

\* A round is only lost to a throw with a schedule that names a month, or a day
\* not all months have.
THEOREM ThrowsAreRare == Spec => []ThrowsOnlyForRareDays
  BY TypesInit, TypesNext, RareInit, RareNext, PTL DEF Spec
=============================================================================
