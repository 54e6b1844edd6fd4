------------------------------ MODULE PoolRounds ------------------------------
(***************************************************************************)
(* A dynamic pool from round to round.  Its VmPool object and the policy's *)
(* countdown (sstBrokerPreStartInterval) outlive the round, the machines,  *)
(* the golden image and the range it points to do not: Config::clearMaps   *)
(* deletes them, and the next round's reading is to replace every pointer. *)
(* Where it does not, the program uses or deletes what has been deleted:   *)
(* from there on, pc = "undefined", it may do anything or die.             *)
(*                                                                         *)
(* One pool on one node, which has room for all.                           *)
(***************************************************************************)
EXTENDS Integers, FiniteSets

CONSTANTS
  Vm,         \* names for the pool's machines
  Demand,     \* sstBrokerPreStartNumberOfVirtualMachines
  Interval,   \* sstBrokerPreStartInterval
  Cycle,      \* general.cycle
  MaxEvents   \* bound: faults, and what users and others do

ASSUME DemandAssumption == Demand \in Nat /\ MaxEvents \in Nat
ASSUME IntervalAssumption == Interval \in Nat /\ Cycle \in Nat \ {0}

VARIABLES
  entries,      \* LDAP: the pool's machines
  assigned,     \* LDAP: those a user has
  goldenImage,  \* LDAP: sstActiveGoldenImage is "present", "gone" or "unset"
  running,      \* libvirt: domains on the node
  known,        \* Config::vmPools holds the pool
  golden,       \* VmPool: the pointer is "null", "live" or "freed"
  range,        \* VmPool: likewise
  vms,          \* VmPool: of each name no machine, one "read" in this round, one
                \* "created" by the policy, or one "freed"
  nextStart,    \* EvenlyPolicyInterval: what is left of the countdown
  doShutdown,   \* shutdownVmPools holds the pool
  pc,
  since,        \* history: time since the last start, in cycles, up to Interval
  forgot,       \* history: the broker has been started anew since
  cause,        \* history: what may have left pointers behind in this process
  events

ldap == <<entries, assigned, goldenImage>>
pool == <<known, golden, range, vms>>
history == <<since, forgot, cause>>
vars == <<ldap, running, pool, nextStart, doShutdown, pc, history, events>>

Pointers == {"null", "live", "freed"}
Steps == {"policy object", "golden image", "range", "machines", "check", "policy",
          "shutdown", "cleanup"}

\* setInterval: the round's own sleep is part of the interval.
interval == IF Interval - Cycle < 1 THEN 1 ELSE Interval - Cycle

TypeOK ==
  /\ entries \subseteq Vm /\ assigned \subseteq Vm /\ running \subseteq Vm
  /\ goldenImage \in {"present", "gone", "unset"}
  /\ known \in BOOLEAN /\ doShutdown \in BOOLEAN /\ forgot \in BOOLEAN
  /\ golden \in Pointers /\ range \in Pointers
  /\ vms \in [Vm -> {"none", "read", "created", "freed"}]
  /\ nextStart \in (1 - Cycle)..interval \cup {-1}
  /\ pc \in Steps \cup {"undefined"}
  /\ since \in 0..Interval
  /\ cause \subseteq {"read", "entry", "golden image"}
  /\ events \in 0..MaxEvents

NewProcess ==
  /\ known' = FALSE /\ golden' = "null" /\ range' = "null"
  /\ vms' = [v \in Vm |-> "none"]
  /\ nextStart' = interval
  /\ doShutdown' = FALSE /\ pc' = "policy object" /\ cause' = {} /\ forgot' = TRUE

Init ==
  /\ entries = {} /\ assigned = {} /\ running = {}
  /\ goldenImage = "present"
  /\ known = FALSE /\ golden = "null" /\ range = "null"
  /\ vms = [v \in Vm |-> "none"]
  /\ nextStart = interval
  /\ doShutdown = FALSE /\ pc = "policy object" /\ cause = {} /\ forgot = TRUE
  /\ since = Interval /\ events = 0

Event == events < MaxEvents /\ events' = events + 1

Goto(step) == pc' = step /\ UNCHANGED events

\* Freed memory is used, or freed again.
Undefined == Goto("undefined") /\ UNCHANGED <<ldap, running, pool, nextStart, doShutdown, history>>

Dangling == \E v \in Vm : vms[v] = "freed"

-----------------------------------------------------------------------------
\* Reading: readVmPools, readVmPool.

\* Mutant of ReadPolicy: the countdown is not handed over.
ReadPolicyAnew ==
  /\ pc = "policy object" /\ Goto("golden image")
  /\ nextStart' = interval
  /\ IF known THEN UNCHANGED pool
     ELSE /\ golden' = "null" /\ range' = "null"
          /\ vms' = [v \in Vm |-> "none"] /\ UNCHANGED known
  /\ UNCHANGED <<ldap, running, doShutdown, history>>

\* A new policy object takes the countdown over (setPolicy, setNextStart); a
\* new pool, the object of the last round if that was not kept, starts anew.
ReadPolicy ==
  /\ pc = "policy object" /\ Goto("golden image")
  /\ IF known
     THEN /\ nextStart' = IF nextStart < 1 THEN -1 ELSE nextStart
          /\ UNCHANGED pool
     ELSE /\ nextStart' = interval
          /\ golden' = "null" /\ range' = "null"
          /\ vms' = [v \in Vm |-> "none"] /\ UNCHANGED known
  /\ UNCHANGED <<ldap, running, doShutdown, history>>

\* readVm returns NULL for a machine that is gone.
ReadGolden ==
  /\ pc = "golden image" /\ Goto("range")
  /\ golden' = CASE goldenImage = "present" -> "live"
                 [] goldenImage = "gone"    -> "null"
                 [] goldenImage = "unset"   -> golden
  /\ UNCHANGED <<ldap, running, known, range, vms, nextStart, doShutdown, history>>

\* Mutant of ReadRange: the range is taken for one that does not change.
ReadRangeOnce ==
  /\ pc = "range" /\ Goto("machines")
  /\ range' = IF range = "null" THEN "live" ELSE range
  /\ UNCHANGED <<ldap, running, known, golden, vms, nextStart, doShutdown, history>>

ReadRange ==
  /\ pc = "range" /\ Goto("machines")
  /\ range' = "live"
  /\ UNCHANGED <<ldap, running, known, golden, vms, nextStart, doShutdown, history>>

\* Mutant of ReadMachines: machines the pool has already are not added again.
ReadMachinesNew ==
  /\ pc = "machines"
  /\ IF golden = "null" THEN Undefined
     ELSE /\ Goto("check")
          /\ vms' = [v \in Vm |-> IF v \in entries /\ vms[v] = "none" THEN "read" ELSE vms[v]]
          /\ known' = TRUE
          /\ UNCHANGED <<ldap, running, golden, range, nextStart, doShutdown, history>>

\* readVmsByPool and addVmPool.  A pool without a golden image is deleted, and
\* asked for its shutdown configuration then.
ReadMachines ==
  /\ pc = "machines"
  /\ IF golden = "null" THEN Undefined
     ELSE /\ Goto("check")
          /\ vms' = [v \in Vm |-> IF v \in entries THEN "read" ELSE vms[v]]
          /\ known' = TRUE
          /\ UNCHANGED <<ldap, running, golden, range, nextStart, doShutdown, history>>

\* isShutdownTime, the pool's schedule being due.
ShutdownIsDue ==
  /\ pc = "check" /\ Event /\ ~doShutdown
  /\ doShutdown' = TRUE
  /\ UNCHANGED <<ldap, running, pool, nextStart, pc, history>>

\* LDAP fails: the round does nothing more but to clean up.
ReadFails ==
  /\ pc \in {"policy object", "golden image", "range", "machines"} /\ Event
  /\ pc' = "cleanup"
  /\ cause' = cause \cup {"read"}
  /\ UNCHANGED <<ldap, running, pool, nextStart, doShutdown, since, forgot>>

-----------------------------------------------------------------------------
\* Check, policy, shutdown and the end of the round.

\* checkVmsPerNode: machines without a domain are removed.
Check ==
  /\ pc = "check" /\ Goto("policy")
  /\ LET gone == {v \in Vm : vms[v] = "read" /\ v \notin running}
     IN  /\ entries' = entries \ gone /\ assigned' = assigned \ gone
         /\ vms' = [v \in Vm |-> IF v \in gone THEN "none" ELSE vms[v]]
  /\ UNCHANGED <<goldenImage, running, known, golden, range, nextStart, doShutdown, history>>

\* The node does not answer: no policy in this round, if machines were to be
\* found there.
CheckFails ==
  /\ pc = "check" /\ Event
  /\ pc' = IF \E v \in Vm : vms[v] = "read" THEN "shutdown" ELSE "policy"
  /\ UNCHANGED <<ldap, running, pool, nextStart, doShutdown, history>>

Prestarted == {v \in Vm : vms[v] = "read" /\ v \in running \ assigned}
numberVmsToStart == Demand - Cardinality(Prestarted)

\* checkPolicy asks every machine of the pool for its status.
PolicyUndefined == pc = "policy" /\ Dangling /\ Undefined

PolicyEnough ==
  /\ pc = "policy" /\ ~Dangling /\ numberVmsToStart <= 0 /\ Goto("shutdown")
  /\ UNCHANGED <<ldap, running, pool, nextStart, doShutdown, history>>

\* Mutant of CountDown: the dropped test of the countdown.
CountDownOn ==
  /\ pc = "policy" /\ ~Dangling /\ numberVmsToStart > 0
  /\ Goto("shutdown")
  /\ nextStart' = nextStart - Cycle
  /\ UNCHANGED <<ldap, running, pool, doShutdown, history>>

CountDown ==
  /\ pc = "policy" /\ ~Dangling /\ numberVmsToStart > 0
  /\ nextStart > 0 /\ Goto("shutdown")
  /\ nextStart' = nextStart - Cycle
  /\ UNCHANGED <<ldap, running, pool, doShutdown, history>>

StartDue == pc = "policy" /\ ~Dangling /\ numberVmsToStart > 0 /\ nextStart <= 0

StartUndefined == StartDue /\ golden = "freed" /\ Undefined

\* Mutant of Starts: the countdown is not wound up again.
StartsOn(v) ==
  /\ StartDue /\ golden = "live" /\ Goto("shutdown")
  /\ v \notin entries /\ vms[v] = "none"
  /\ entries' = entries \cup {v} /\ running' = running \cup {v}
  /\ vms' = [vms EXCEPT ![v] = "created"]
  /\ since' = 0 /\ forgot' = FALSE
  /\ UNCHANGED <<assigned, goldenImage, known, golden, range, nextStart, doShutdown, cause>>

Starts(v) ==
  /\ StartDue /\ golden = "live" /\ Goto("shutdown")
  /\ v \notin entries /\ vms[v] = "none"
  /\ entries' = entries \cup {v} /\ running' = running \cup {v}
  /\ vms' = [vms EXCEPT ![v] = "created"]
  /\ nextStart' = interval
  /\ since' = 0 /\ forgot' = FALSE
  /\ UNCHANGED <<assigned, goldenImage, known, golden, range, doShutdown, cause>>

\* createInstance throws; it has undone what it had done, at best.
StartFails ==
  /\ StartDue /\ golden = "live" /\ Event /\ pc' = "shutdown"
  /\ UNCHANGED <<ldap, running, pool, nextStart, doShutdown, history>>

\* VmPool::handleShutdown.
Shutdown ==
  /\ pc = "shutdown"
  /\ IF ~doShutdown
     THEN Goto("cleanup") /\ UNCHANGED <<ldap, running, pool, nextStart, doShutdown, history>>
     ELSE IF Dangling THEN Undefined
     ELSE LET all == {v \in Vm : vms[v] # "none"}
          IN  /\ Goto("cleanup")
              /\ entries' = entries \ all /\ assigned' = assigned \ all
              /\ running' = running \ all
              /\ vms' = [v \in Vm |-> "none"]
              /\ doShutdown' = FALSE
              /\ UNCHANGED <<goldenImage, known, golden, range, nextStart, history>>

\* sleep(), Config::clearMaps, VmPool::clear.  Machines the policy has created
\* are not in Config::vms and live on.  Reading that failed has lost a new pool.
Cleanup ==
  /\ pc = "cleanup"
  /\ IF known /\ "freed" \in {golden, range} THEN Undefined
     ELSE /\ Goto("policy object")
          /\ vms' = [v \in Vm |-> IF vms[v] = "read" THEN "freed" ELSE vms[v]]
          /\ golden' = IF golden = "live" THEN "freed" ELSE golden
          /\ range' = IF range = "live" THEN "freed" ELSE range
          /\ doShutdown' = FALSE
          /\ since' = IF since + Cycle < Interval THEN since + Cycle ELSE Interval
          /\ UNCHANGED <<ldap, running, known, nextStart, forgot, cause>>

-----------------------------------------------------------------------------
\* The rest of the world.

UserTakes(v) ==
  /\ Event /\ v \in entries \ assigned
  /\ assigned' = assigned \cup {v}
  /\ UNCHANGED <<entries, goldenImage, running, pool, nextStart, doShutdown, pc, history>>

GuestStops(v) ==
  /\ Event /\ v \in running
  /\ running' = running \ {v}
  /\ UNCHANGED <<ldap, pool, nextStart, doShutdown, pc, history>>

\* Others remove a machine of the pool.
MachineRemoved(v) ==
  /\ Event /\ v \in entries
  /\ entries' = entries \ {v} /\ assigned' = assigned \ {v} /\ running' = running \ {v}
  /\ cause' = cause \cup {"entry"}
  /\ UNCHANGED <<goldenImage, pool, nextStart, doShutdown, pc, since, forgot>>

GoldenChanges(g) ==
  /\ Event /\ g # goldenImage
  /\ goldenImage' = g
  /\ cause' = cause \cup {"golden image"}
  /\ UNCHANGED <<entries, assigned, running, pool, nextStart, doShutdown, pc, since, forgot>>

\* The broker is stopped, or dies, and is started again.
Restart ==
  /\ Event /\ NewProcess
  /\ UNCHANGED <<ldap, running, since>>

Broker ==
  \/ ReadPolicy \/ ReadGolden \/ ReadRange \/ ReadMachines
  \/ Check \/ PolicyUndefined \/ PolicyEnough \/ CountDown \/ StartUndefined
  \/ (\E v \in Vm : Starts(v)) \/ Shutdown \/ Cleanup

World ==
  \/ ShutdownIsDue \/ ReadFails \/ CheckFails \/ StartFails \/ Restart
  \/ \E v \in Vm : UserTakes(v) \/ GuestStops(v) \/ MachineRemoved(v)
  \/ \E g \in {"present", "gone", "unset"} : GoldenChanges(g)

Next == Broker \/ World

\* The main loop never waits for anybody: as long as the process lives, its
\* next step comes.
Spec == Init /\ [][Next]_vars /\ WF_vars(Broker)

-----------------------------------------------------------------------------

\* A process uses or deletes freed memory only after an LDAP failure, a machine
\* removed by others or a change of the golden image: while it alone removes
\* machines and reads all it needs, every pointer of the pool is renewed before
\* its use, however machines come and go.
PointersAlive == pc = "undefined" => cause # {} \/ goldenImage # "present"

\* After a change of LDAP that is not the broker's alone, or none at all, the
\* loss of a pointer shows in the round itself: no more than the names of
\* machines that are gone are left pointing nowhere when machines are handled.
OnlyRemovedDangle ==
  pc \in {"policy", "shutdown"} =>
    \A v \in Vm : vms[v] = "freed" => v \notin entries

\* The countdown, which is in rounds, stops while nothing is missing and passes
\* from one policy object to the next, keeps what the configuration asks for:
\* machines are started one at a time and Interval apart.
Paced == INSTANCE Pacing
  WITH Interval <- Interval, Slack <- Cycle, since <- since, forgot <- forgot
StartsSpaced == Paced!PacingSpec

\* Missing machines are started in the end, however often they go.
MissingStarted ==
  []<>(pc = "undefined" \/ Cardinality((entries \cap running) \ assigned) >= Demand)
=============================================================================
