# Verification of fc-brokerd

`fc-brokerd` (FOSS-Cloud's broker daemon, `src/`) keeps two worlds in step: an
LDAP directory, which says which virtual machines exist and which are wanted,
and the libvirt daemons of a set of nodes, where the machines run. Once per
cycle (30 s) it reads the directory, asks every node what runs there, and then
creates, migrates, shuts down, removes and backs up machines.

This directory holds TLA+ models of the daemon, TLC runs that check them on
small instances, and TLAPS proofs about them for every instance.

## 1. Inventory

The program is one thread. What makes it hard is not threads but that every
call to LDAP or libvirt can fail, that the daemon can die between any two, that
other programs and users change the same LDAP entries and the same machines
meanwhile, and that the next round starts from whatever was left.

| Component | State it keeps | Operations | Modelled in |
|---|---|---|---|
| Lock and signals (`main.cpp` 191-209, 413-428; `signalHandler.*`) | lock file, its lock, exit flag | open, lock, unlock, close, remove | `SingleInstance` |
| Main loop (`main.cpp` 267-412) | `doPolicy`, `doShutdown`, `doBackup` | a round: read, check, policy, shutdown, backup, sleep, clear | `Broker`, `BackupWorkflow` |
| VirtTools (`virtTools.*`) | cached libvirt connections | `checkVmsPerNode`, `startVm`, `migrateVm`, `destroyDynVm`, `stopVmForRestore`, volumes | `Broker`, `BackupWorkflow` |
| LdapTools (`ldapTools.*`) | the LDAP connection | `readVmPools`, `readVmsByPool`, `cloneVm`, `removeEntry`, `nextSpicePort`, `getFreeIp` | `Broker`, `PoolRounds`; the last two in `AddressAllocation` |
| VmPool, VmPoolNodeWrapper (`vmPool.*`) | machines of a pool, machines per node; golden image, range, policy | `addVm`, `removeVm`, `migrateFirstVm`, `handleShutdown`, `clear`, `setPolicy` | `EvenlyPolicy`, `Broker`; the last two in `PoolRounds` |
| EvenlyPolicy (`evenlyPolicy.*`, `basePolicy.*`) | counters and vectors of one call | `checkPolicy`, `preStart` | `EvenlyPolicy` |
| VmFactory (`vmFactory.*`) | none | `createInstance` | `Broker` |
| Vm (`vm.*`) | a machine's attributes, its active backup | `remove`, `migrate`, `handleBackupWorkflow`, `createTime` | `Broker`, `BackupWorkflow`; `createTime` in `CronTime` |
| Config (`config.*`) | the maps of a round | `handleVmForBackup`, `clearMaps` | `Broker`, `BackupWorkflow`, `PoolRounds` |
| EvenlyPolicyInterval (`evenlyPolicyInterval.*`) | time to the next start | `preStart`, `setInterval`, `setNextStart` | `PoolRounds`, `Pacing` |
| CronConfiguration (`cronConfiguration.*`, and again in `vm.cpp`) | a schedule | `createTime` | `CronTime`, `RoundTiming` |
| NetworkRange (`networkRange.*`) | a range of addresses | the constructor, `ip2long`, `long2ip` | `AddressAllocation` |
| Node, LdapData, Factory, Logger | records, no behaviour | | not modelled |
| `tPolicy`, `tLdap`, `tRange` | hand-run test programs, out of date | | not modelled |

External to `src/`, and modelled only as the code uses them: the LDAP server,
libvirt on the nodes, the Backup-Daemon (it answers requests in
`sstProvisioningMode`), users and administrators.

How the parts interact: `main` calls `LdapTools::readVmPools`, which fills
`Config`'s maps with `VmPool`, `Node` and `Vm` objects. `checkVmsPerNode`
marks the machines it finds and calls `Vm::remove` for those found nowhere.
`EvenlyPolicy::checkPolicy` calls `VmFactory::createInstance` (LDAP and
libvirt) and `VmPoolNodeWrapper::migrateFirstVm` (which calls `Vm::migrate`).
`VmPool::handleShutdown` and `Vm::handleBackupWorkflow` act on single
machines. All blocks share the maps; an exception ends its block and, if it
is the first, the policy, shutdown and backup blocks of that round as well.

What makes each part correct:

- *Lock*: one copy at a time; a dead one does not keep the next from starting.
- *Check and clean-up*: nothing that runs is removed because a node, a
  connection or a record of it was stale; leftovers of half-done work do not
  accumulate.
- *Policy*: starts what is missing and no more; terminates; balances without
  carrying machines in circles; leaves nodes in maintenance alone.
- *Rounds*: retries converge; the daemon recovers by itself.
- *Starts in intervals*: no two closer than configured, whatever the rounds do.
- *From round to round*: what a pool keeps points to nothing that was deleted.
- *Schedules*: what is named comes, once, and nothing else; no round misses it.
- *Ports and addresses*: nobody gets what another has; running out is survived.
- *Backup*: each backup follows its protocol, enough are kept, surplus ones
  go, a failed step is not taken for a success, and one machine's trouble
  does not starve the others.

The full list of hazards with their lines is in `PROJECT.json`.

## 2. Modules

| Module | What it is |
|---|---|
| `SingleInstance` | the lock file, names and inodes apart |
| `MCSingleInstance` | symmetry for TLC |
| `SingleInstanceProofs` | theorems about it |
| `EvenlyPolicy` | one call of `checkPolicy` at the grain of its loops |
| `MCEvenlyPolicy` | its initial pools up to renaming, for TLC |
| `EvenlyPolicyProofs` | theorems about it |
| `Broker` | rounds of the daemon against LDAP and libvirt, with failures and crashes; composes VirtTools, VmFactory, Vm, VmPool, the policy and the main loop |
| `BrokerProofs` | theorems about it |
| `BackupLifecycle` | abstract specification: the life of every backup entry |
| `BackupWorkflow` | the backup block, the Backup-Daemon and users; implements `BackupLifecycle` |
| `MCBackupWorkflow` | which machine is due when, for TLC |
| `BackupWorkflowProofs` | theorems about it, the refinement among them |
| `CronTime` | `createTime` and the calendar it works on, as operators |
| `CronTimeProofs` | theorems about what `createTime` returns |
| `RoundTiming` | rounds that take time, and the schedules they are to notice; uses `CronTime` |
| `MCRoundTiming` | schedules and instants to begin at, for TLC |
| `RoundTimingProofs` | theorems about it, on top of those |
| `Pacing` | abstract specification: starts are an interval apart |
| `PoolRounds` | what a pool keeps from round to round; implements `Pacing` |
| `PoolRoundsProofs` | theorems about it |
| `AddressAllocation` | ports and addresses, and who else takes them |
| `MCAddressAllocation` | a range, bounds of ports and symmetry for TLC |
| `AddressAllocationProofs` | theorems about it |

`PROJECT.json` maps every definition to the lines it models.

### SingleInstance

`lockFile` is the inode that bears `DAEMON_LOCK_FILE`; `lfp[p]` is what process
p has open; `lockOwner` holds the record locks. Actions are the calls of
`main`: `Open`, `Lock`/`CannotLock`, `Unlock`, `Close`, `Remove`; `Crash` is any
end that does not run the last three. `Unlock` releases nothing as a rule: `lockf` works
from the file's offset, which writing the pid has moved on (`main.cpp` 207, 423), so
the bytes of the pid stay locked until `Close`. Only if that write failed, whose result nobody
looks at, is the file free already. Inodes are distinct from names because
`remove` acts on whatever has the name then.

### EvenlyPolicy

Variables bear the names of the code's members. `wrapper[n]` is the set of
machines the broker thinks are on node n. `NextNode`, `StartVm`, `LeaveNode`,
`NextPass` are the three nested loops of `preStart`; `MigrateFirstVm` and
`LeaveLoop` the loop of `checkPolicy`. A *misplaced* machine is one that runs
on another node than its `sstNode`; it is in two wrappers, as in the code.

### Broker

One pool. LDAP is `entry` (a machine's `sstNode`), `diskEntry` (its disk's entry) and
`dhcp`; storage is `disk`; libvirt is `runsOn` and `up`. What the daemon
remembers between rounds is only `connection`, the cache of
`VirtTools::getConnection`, which may be live or dead. Within a round it has
`nodeName` (the machines of `VmPool::vms` with their `Vm::nodeName`), `status`
and `wrapper`. `pc` names the call under way.

Each LDAP or libvirt call is one action with a failing counterpart: e.g.
`RemoveEntry`/`RemoveEntryFails` and `RemoveDhcp`/`RemoveDhcpFails` for
`Vm::remove`, whose `caller` decides where an exception leads; `AddEntry`,
`CreateVolume`, `AddDiskEntry`, `AddDhcp`, `StartVm` for `createInstance`;
`MigrateVm`, `RecordMigration` for `Vm::migrate`, which swallows exceptions.
The volume of a new machine is made through the node of the golden image
(`GoldenNode`, one of the nodes), wherever the machine itself is to run. When that
fails (`CreateVolumeFails`) `cloneVm` deletes a disk entry it has not added yet; LDAP
refuses this, so the policy ends with the machine's entry left behind. A recursive
`removeEntry` that fails may have deleted what is below the entry before.
`CheckNode` has as a parameter the domains whose lookup fails after they were
listed, since `checkVmsByNode` skips these in silence. `Spin` is the endless
loop of `preStart` when machines are missing and no node has room.

All that goes wrong (a failing call, a lookup that fails, a node's outage or
crash, a guest that shuts down, a crash of the daemon, a shutdown the
administrator asks for) draws on one budget, `MaxDisturbances`.

`failed` and `overlooked` are history variables the properties refer to.

### BackupLifecycle and BackupWorkflow

`mode[v][b]` is `sstProvisioningMode` of backup b of machine v; backups are
numbered by their scheduled times, since the time is an entry's name. A round reads every machine (`ReadVm`: which
of several unfinished entries becomes the active one depends on the order of
LDAP's answer), puts some into `backupVms` (`HandleForBackup`, keyed by the DN
of the active entry, so of several machines without one only the last stays)
and takes each one step further from what it *read*, while `BackupDaemon`,
`AskForRestore` and `Redefine` change the entries underneath. `RoundFails` is
the exception that ends the block for all machines.

A name is a minute of local time and can come again (`ComesAgain`): a backup may be
over while the minute it was begun in is not, and the end of summer time repeats an hour.
`Overlap` says how many of a machine's times lie in such an hour. If the entry of that name is
gone, `AddEntry` makes it anew, with a time before the latest; if it is there, `hasDn` keeps the
broker from adding one (`FindEntry`, `vm.cpp:418`), and the request that follows turns that
backup, finished or asked back by a user since, into one under way.

`BackupLifecycle` says what a reader of LDAP may rely on: the protocol of one
entry, one backup under way at a time, at most `Iterations` + 1 entries, only
the oldest is expired and only if enough remain. Finished backups stay so, but for
restores and for names that come again (`Redo`); and "latest" and "oldest" hold up to `Overlap`,
with 0 as they stand. `LifecycleKept` is that
specification under the identity mapping on `mode`; the rest of
`BackupWorkflow`'s state is hidden. `Schedule` bounds the times each machine
becomes due at; when the real schedule is due is the question of `RoundTiming`.

### CronTime and RoundTiming

`createTime(c, now)` runs through the code's steps in its order (`MonthStep`,
`DateStep`, `HourStep`, `MinuteStep`, then the cases of its switch,
`OthersDay`, `OthersHour`, `OthersMinute`). A state of these has both of the code's
variables, `t` (a ptime) and `tm` (a struct tm): the first cuts days to the
month, the second lets them run over. A date no ptime can have is
`OutOfRange`: there the code throws. The calendar is that of Boost and libc,
with months from 0 as in `tm_mon`; `Matches` is the reference.

`RoundTiming` has seconds. `Work` lets time pass within a round, up to
`MaxWork`; `NextRound` is sleep, `getTime` and `clearMaps`. `ReadVm` asks
`createTime` as of the moment of reading, but `InWindow` compares with
`actTime`, the minute the round began in: a round that reads across the end of
a minute asks about another minute than the one it compares with. `Throw` is the
exception of `createTime`, which ends reading. `begun` and `shutdowns` remember
what was done for which minute in which round.

### PoolRounds and Pacing

Of every pointer a `VmPool` keeps, the model has what it points to: `golden`
and `range` are "null", "live" or "freed", `vms[v]` likewise, where machines
the policy has created ("created") are not freed by `clearMaps`, as in the
code. Reading (`ReadPolicy`, `ReadGolden`, `ReadRange`, `ReadMachines`) renews
them in the order of `readVmPool`, and may fail between any two. Where the code
would follow or delete a freed pointer, `pc` is "undefined" and nothing more is
said; so nothing is claimed of a process that outlives such an access. `nextStart` is the countdown of `EvenlyPolicyInterval`; `CountDown` and
`Starts` are its `preStart`, `ReadPolicy` hands it to the new object, which
keeps it only if it is positive.

The pool is on one node, which loses nothing here: `preStart` of an
`EvenlyPolicyInterval` starts one machine on the first node with room and breaks
off.

`Pacing` says what the interval promises of `since`, the time since the last
start in cycles. `StartsSpaced` is that specification under the mapping
`Slack <- Cycle`: only a broker started anew may be a round early.

### AddressAllocation

`FindPort` is `nextSpicePort` with its array of marks; `getFreeIp` searches the
range; `Clone`, `AddEntry`, `FindIp`, `AddHost`, `StartVm` are `cloneVm` and
`createInstance`, `Migrate`, `Record`, `MigrateVm`, `RecordDone` `Vm::migrate`,
`RemoveEntry`, `RemoveHost` `Vm::remove`, each LDAP or libvirt call an action,
any of which may fail. `WebAdds` is the web manager, which takes ports and
addresses the same way, at any time. `ip2long`, `long2ip` and the range's
constructor are modelled on numbers. Writing a mark outside the array is "undefined",
the failing assertion in `ip2long` "aborted"; either ends the run of the model. A real
process often survives the write and goes on, as it may with port 0 being handed out again: of
that the properties say nothing. They show what leads there (`FailsOnlyWhenFull`). That the
range of the pool has its entry in LDAP is presumed; without one `createInstance` adds no
host to DHCP and says nothing (`ldapTools.cpp:590`).

## 3. Runs

| Run | Instance | What it shows |
|---|---|---|
| `single_instance` | 3 processes, 4 inodes | no stale locks; two copies only after a race at an exit |
| `single_instance_two_copies` | same | **violated**: two copies do run |
| `evenly_policy` | 3 nodes, up to 4 machines at first, 6 names, limits {0,1,2} and {0,5}, one node in maintenance, one misplaced machine | demand met exactly, one pass suffices, balance, no circles, termination |
| `evenly_policy_misplaced` | 2 nodes, 3 names | **violated**: with a misplaced machine `preStart` can loop for ever |
| `broker` | 2 nodes, 4 UUIDs, demand 2, 2 disturbances | running machines spared, never too many, leftovers bounded, policy sees all, pool settles |
| `broker_node_failure` | same | **violated**: a machine is removed while it runs on a node that does not answer |
| `broker_dead_connection` | 2 nodes, 3 UUIDs, 1 disturbance | **violated**: a dead cached connection stops the policy for good |
| `backup_workflow` | 2 machines, one due twice, the other once, one name that comes again, keep 1, 2 faults, 1 restore | the life of backups; restores only on stopped machines; failures are not passed over; every backup begun is finished |
| `backup_surplus` | 1 machine, 2 backups, keep 1, 1 fault | **violated**: a surplus backup stays for ever and no new ones are made |
| `round_timing` | 2 machines, 46 settings of schedules and instants, rounds of 30 s with up to 15 s of work | `createTime` against the reference; no named minute is missed, none is made up; one begin per round |
| `pool_rounds` | 5 machines, demand 2, interval 5, cycle 2, 3 events | starts are spaced; missing machines come; pointers are renewed before use |
| `address_allocation` | 3 machines and 2 of the web manager, 3 ports, 3 addresses, 3 events | ports and addresses are distinct but for a race; shortage is the only way to fail |

The violated properties are quoted from comments in the code; `PROJECT.json`,
`findings`, has the quotations.

**Bounds.** Two nodes are enough for a source and a destination and for one
node that answers while another does not; three in `EvenlyPolicy`, so that
there are a fullest, an emptiest and a node in between or in maintenance. Two
disturbances let a second failure strike while the first one's consequences
are being handled: two are what every counterexample found needed at most.
`Vm` in `Broker` has `Demand` + `MaxDisturbances` names, since a disturbance
spoils at most one UUID (leftovers); with fewer names creation would stop for want of
names, with more nothing new happens. The limits of `EvenlyPolicy` cover
nothing missing, one limit missing, both, and remainders of 0, 1 and 2 in the
division; `Vm` there has room for all the limits can make it start. In `backup_workflow`
two times with one backup to keep let the first be expired, and the one name that comes again
(`Overlap` 1, `MaxRepeats` 1; two if two machines were read before) meets an entry
that is finished, one that is asked back, and none, before or after the first is
expired. The second machine is due once, enough to be displaced in `backupVms`, to be
passed over by an exception and to be taken up again.

`round_timing` begins at any 5 s of the last minute before a midnight, so that
rounds lie on both sides of it; the midnights are ends of a year, of February with and
without a leap day, of a month of 31 days before one of 30, and of a day in the
middle of a week. `Horizon` (90 s) is enough for the rounds before, at and after the
minute that is named; each round is a function of the clock and of LDAP, so
later ones bring nothing new. `MaxWork` 15 is the most under which
`CycleAssumption` (`Cycle + 2 * MaxWork <= 60`) holds for 30 s.

In `pool_rounds` an interval of 5 in cycles of 2 leaves a remainder, so that rounding
would show; three events are a fault, its consequence and one more, and five
names are what demand and events can use up. In `address_allocation` the five
machines are more than three ports and three addresses, which are not side by
side; the two bounds of ports overlap, so that a change leaves entries outside. All
three of its events can be spent on one operation.

`evenly_policy` starts from pools up to a renaming of machines, at most one of
them misplaced. There is no symmetry set where liveness is checked; `address_allocation` has
one (machines of a kind), for invariants only.

**Fairness.** The daemon is one thread whose calls return or throw: weak
fairness of its own steps (`Round` as a whole, so that nothing is said of
which branch a failing call takes). Nodes come back in the end
(`WF(NodeReturns)`), and the Backup-Daemon answers (`WF(BackupDaemon)`); both
are assumptions about the environment the daemon's loop relies on. Nothing else
is fair: failures, crashes, users and guests act or do not. `Settles` further
has two conditions which the violated runs show to be needed: no connection stays
dead in the cache, no machine stays misplaced. In `PoolRounds` the daemon's own steps
are fair as a whole (`WF_vars(Broker)`), its failing ones and the rest of the
world are not. `RoundTiming` and `AddressAllocation` state safety only.

Deadlock is checked but in three runs, whose models may really stop: `round_timing`
at its horizon, `pool_rounds` when the process has gone astray and no event is left,
`address_allocation` when the process is gone, or all machines run and no event is left.

## 4. Proofs

All theorems hold for every finite set of nodes, machines or processes, every
demand and tolerance and every number of disturbances.

*SingleInstanceProofs.* `LockInv`: a process has a file open exactly while it
works or is about to close it, a working process holds the lock of what it has open, a
lock's owner has that file open, unlocked or not, and, without a race, everything open is the file with the name.
Then `LocksHaveOwners` (`NoStaleLock`) and `TwoCopiesNeedRace`
(`SingleCopyUnlessRaced`): two running processes would own the same lock.

*EvenlyPolicyProofs.* `TypeCorrect`; `MachinesConserved` (no machine falls out of the
wrappers or is doubled); `MigrationInvariant`: while migrating, every node that has
received a machine is within one machine of the emptiest one. It is needed
because `NeverSourceAfterDest` is about two steps that can be far apart: a
receiver is never again the fullest by more than the tolerance since the
emptiest load never falls. `NeverSource`, `MigratedOnce`,
`MaintenanceLeftAlone`, `Balanced` follow from it; `DemandMet` from an
invariant that ties `numberVmsToStart` to the two limits. `OnePass`
(`OnePassIsEnough`) rests on `PassInv`: a node the loop has left has `maxVmPerNode`
machines as long as some are missing. When all are left, the loads add up to more
than there are machines; that they add up is shown by the smallest number of nodes
for which they would not. `CallsDescend` is what stands behind `Terminates`:
`StepsLeft`, a natural number, falls with every step of a call when no machine is
misplaced. `OnePass` keeps preStart from starting over, and the balancing loop moves
a machine at most once (`MigrationInvariant`).

*BrokerProofs.* `TypeCorrect`. `Spared` (`RunningSpared`) rests on `SparedInv`:
while nodes are being asked, a machine still unknown does not run where its
entry says, or was overlooked, or its node is still to be asked; once
`checkVmsPerNode` cleans up the third case is gone; and what is removable
stays so, because only the broker starts and migrates. `SeesAll` and
`NotTooMany` rest on `PoolInv`: in the phases that count, the machines in
memory are those with entries, but for the one `createInstance` has in hand; the
wrappers hold nothing else (or migrating could give a removed machine a new
entry); and an unknown machine is in one wrapper only (or `removeVm` would
leave it in the other). `SeesAll` also needs `StatusInv`, on the return value
of `checkVmsPerNode`.

`LeftoversArePaid` (`LeftoversBounded`). Counting is not enough,
as one lost golden node makes every volume from then on fail, each leaving an entry
with nothing below it. `PaidInv` therefore counts two ways: all leftovers,
and those that are more than such a bare entry, with one disturbance to spare while the golden
node is lost. `DhcpInv` closes the gap: a machine that was ever started has
a DHCP entry as long as it has its own, so a bare entry is never found running, is
removed before the policy begins, and there is no second one. `ProgressInv` says how
far the machine in hand has come.

`RoundsEnd` is what stands behind `Settles`: a rank (`Stage`, `Jobs`, `Position`: the part
of the round, the nodes or machines that part has still to deal with, the calls for
the one in hand) falls lexicographically with every step of the broker, but the
one that begins a new round, and whatever nodes and guests do leaves it as it is. For
the balancing loop the number is that of the pairs of machines that share a wrapper; a
migration from a fuller node to an emptier one makes them fewer. It needs a tolerance of 1 at
least (`setTolerance`; with 0 a machine could go to and fro for ever), and that no machine
is in two wrappers. Then preStart always finds room (`StuckOnlyDoubled`). When this
condition holds is `OnlyMisplacedDouble`: as long as no machine runs on another
node than its entry says, which `Settles` asks for too.

*BackupWorkflowProofs.* `TypeCorrect`; `WorkflowKeepsLifecycle` (`LifecycleKept`):
every step of the workflow is one of `BackupLifecycle` or leaves `mode` alone. The
difficulty is that a round writes what follows from entries read at its beginning,
while others change them. The invariant `Seen` says what of it still holds: a
waiting machine has as many entries as were seen, the finished ones seen are at
rest (finished still, or being restored or deleted), and its active entry is in the
mode seen unless that is a request, which the Backup-Daemon may have answered since. A
machine that is to begin a backup has nothing but finished ones, or some asked back
(`Quiet`), so that an entry found under the new name is one of these.
`Requesting` and `Expiring` carry this through the writes of one machine. It rests
on `Sound`: no entry is later than the latest, and while one is under way it is at most
`Overlap` behind that and all others are at rest. `RestoresStand` (`RestoreOnStopped`) is a part of `Sound`;
`FailuresHeeded` (`FailureStops`) adds that the return value seen of a sole entry
is its own; only a new backup of the same name overrides a restore that failed. `NeverSetBack` is what the refinement is for: from the first request to
the last each change of a backup's mode is one step towards its end, so no request written
late takes it back. `BackupRoundsEnd` ranks a round by its part (reading, handling), the
machines that part has still to come to and the calls for the one in hand: every step of the
broker lowers it or begins a new round, and neither the Backup-Daemon nor a user raises it.

*CronTimeProofs.* What `createTime` returns, for every schedule and every minute from
1 March of the year 0 on. First the calendar: month follows month without a gap, so days are in the order
of years and months, and `Tm` is the inverse of `Minutes`. (The proof of that
found the model's formula of the year wrong on 29 February 2400; `YearOf` is what came of it.)
Then the steps of `createTime`: each leaves a time that is later than the one it was given, or
leaves alone what matches already (`MonthStep`, `DateStep`, ...); once one has moved
the time on, the cases of the switch set the finer fields to their first named value.
`ResultMatches`: a result that is not still to come matches in every
field. `MatchIsNamed`: asked in a matching minute, it returns that one. This is not so for
schedules outside `Supported`: days of the week out of order, or several of them in a schedule
with a month, where the code looks at the first only (`cronConfiguration.cpp:176`).
`ThrowIsRare`: it throws only with a month or a day from 29 on.

*RoundTimingProofs.* `TypeCorrect`; `OneBegin` (`OneBeginPerRound`).
`NothingMissed` (`NoneMissed`) and `ShutdownsMet` (`ShutdownMet`) hold under
`CycleAssumption`: with rounds that long at most, of every minute some round
begins early enough to read all in it. The invariant says of each minute the daemon
has watched that it is over and dealt with, or that a round of this minute is
under way with its work still before it, or that the next round will be in
time. They do not look into `createTime`: `Names` is the minute it returns for
itself. Without the assumption (slower LDAP, longer cycles) the argument fails. Three
theorems take the step from there to the schedules, by those of `CronTimeProofs`:
`BackupsOnSchedule` (`BegunOnSchedule`), with the machine that is due in the invariant
(`OnSchedule`); `NamesAreMatches` (`NamesWhatMatches`) for schedules that are
`Supported`, as all of the run are; `ThrowsAreRare` (`ThrowsOnlyForRareDays`). Together with
`NothingMissed`: every minute that matches a schedule gets its backup.

*PoolRoundsProofs.* `TypeCorrect`; `NothingDangles` (`PointersAlive`): without
a cause, in every step of the round, the pointers not yet renewed are the only freed ones, and
machines read earlier still have their entries. `RemovedDangle`
(`OnlyRemovedDangle`). `PoolRoundsArePaced` (`StartsSpaced`): every step maps to
one of `Pacing` or to a stutter; its invariant ties `since` to `nextStart`: what is
left of the interval is never more than the countdown promises. `MissingComesNearer`: while
the process has the pool only a start raises the countdown, and a round that finds
machines missing lowers it or, at its end, comes to `createInstance`, the golden image
being there (or freed, but never `NULL`).

*AddressAllocationProofs.* `TypeCorrect`. `DistinctPorts` (`PortsDistinct`): a
port found is in no entry until it is written, unless raced for.
`DistinctDomainPorts` follows with the invariant that a domain that is not astray
listens where its entry says. `DistinctAddresses` (`AddressesDistinct`) for every
range and netmask, with the lemma that `long2ip` is inverse to `ip2long`.
`FailureNeedsShortage` (`FailsOnlyWhenFull`). That a smallest free port or
address exists is the well-foundedness of the natural numbers.

The assumptions are those named `...Assumption` in the modules: finite sets, special
values outside them, natural numbers where the code has counts, a tolerance of 1 at least,
and schedules within the ranges of their fields that do not name both a day and a day
of the week (`IsCron`; for others `createTime` returns 0 at once).

**Only model-checked:** liveness (`Terminates`, `Settles`, `BegunIsFinished`,
`MissingStarted`), as fairness speaks of what is enabled, which is out of the prover's
reach. The part of them that is safety, that what is left to do shrinks, is proved:
`CallsDescend`, `RoundsEnd`, `NeverSetBack` with `BackupRoundsEnd`, `MissingComesNearer`. For
`BegunIsFinished` it is not all: that every round which fails in nothing takes every
machine's backup a step further is left. Every other property of a passing run is proved.

## 5. Not modelled

- Attribute parsing, XML of domains and volumes, logging, options, the PWFCCK
  hook: data and I/O, on which no property depends.
- A start whose success libvirt fails to report: `startVm`'s answer is taken at its
  word. A started machine that the daemon takes for failed is removed in LDAP
  and runs on.
- Several pools in one round: their policies run one after the other, and an
  exception in one keeps the later ones from running; the blocks share no other
  state than the spice ports and addresses. `AddressAllocation` has one range; with several
  each is like this one, as ports are shared and addresses are not.
- Summer time: `RoundTiming` has local time without it. What `createTime` does when
  an hour is left out or comes twice is libc's affair. What the workflow does with a
  name that comes twice is in `BackupWorkflow`.
- Schedules `createTime` is not made for: days of the week that are not in ascending
  order, and both a day and a day of the week (it returns 0 at once). Months
  are taken as the code does, counted from 0; of a list of days together with a
  month only the first day is looked for.
- A change of the global backup configuration while the daemon runs, which a pool already
  read does not notice (`ldapTools.cpp:252`).
- A machine whose `sstNode` is none of the pool's nodes (`vmPool.cpp:194`): the broker
  writes no such entry.
- `PoolRounds` with more than one node; which machine goes where is
  `EvenlyPolicy`'s part.
- `maximalNumberOfVirtualMachines` is read by the code but no policy looks at it.
- That the daemon ends when LDAP cannot be bound to anew (`main.cpp:289`, a bind in an
  exception's handler) is one case of `Crash`.

## 6. Plan

Done: the lock, the policy, rounds, the backup workflow; schedules, intervals, what
outlives a round, ports and addresses. Every safety property of a passing run is proved,
and for the policy and the rounds that they end; for the countdown that it runs down.

Left: that every round without a failure takes every backup a step further; an abstract
placement specification (machines wanted, machines placed) that `EvenlyPolicy` and the
policy phase of `Broker` both implement.
