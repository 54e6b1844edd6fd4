------------------------------- MODULE Broker -------------------------------
(***************************************************************************)
(* The main loop of fc-brokerd over the two stores it keeps in step: the   *)
(* LDAP directory, which says what machines a dynamic pool has, and the    *)
(* libvirt daemons of the nodes, where they run.  A round reads the pool,  *)
(* asks every node what runs there, removes what runs nowhere, prestarts   *)
(* and migrates (EvenlyPolicy), shuts the pool down when its time has      *)
(* come, sleeps and forgets everything but the libvirt connections.        *)
(*                                                                         *)
(* Every call to LDAP and libvirt is a step of its own, because the other  *)
(* side can fail, and the daemon die, between any two.  All such           *)
(* disturbances draw on one budget, MaxDisturbances.  One pool without     *)
(* users or nodes in maintenance; for those see EvenlyPolicy.              *)
(***************************************************************************)
EXTENDS Integers, FiniteSets

CONSTANTS
  Node,             \* the nodes of the pool
  Vm,               \* UUIDs of machines, used or not
  GoldenNode,       \* sstNode of the pool's golden image
  NoNode, NoVm,
  Demand,           \* machines the pool's policy asks for
  Tolerance,        \* EvenlyPolicy::tolerance
  MaxDisturbances   \* bound: disturbances in a behaviour

ASSUME NodeAssumption == IsFiniteSet(Node) /\ Node # {} /\ NoNode \notin Node
ASSUME GoldenAssumption == GoldenNode \in Node
ASSUME VmAssumption == IsFiniteSet(Vm) /\ NoVm \notin Vm
\* setTolerance raises anything smaller to 1.
ASSUME LimitsAssumption ==
  Demand \in Nat /\ Tolerance \in Nat \ {0} /\ MaxDisturbances \in Nat

VARIABLES
  \* LDAP and the pool's storage
  entry,        \* sstNode of the entry of each machine, NoNode without entry
  diskEntry,    \* machines whose entry has its disk below it
  dhcp,         \* machines with an entry in the DHCP subtree
  disk,         \* machines with a disk file
  \* libvirt
  runsOn,       \* where each domain is active
  up,           \* nodes whose libvirtd can be reached
  \* the broker: what outlives a round
  connection,   \* VirtTools::connections: "none", "live" or "dead"
  \* the broker: what a round has in hand
  pc,
  nodeName,     \* Vm::nodeName of the machines in VmPool::vms
  status,       \* Vm::status
  wrapper,      \* VmPoolNodeWrapper::vms
  unchecked,    \* nodes checkVmsPerNode has still to ask
  failed,       \* history: nodes that did not answer in this round
  overlooked,   \* history: domains whose lookup failed in this round
  retval,       \* of checkVmsPerNode
  shutdownDue,  \* the pool is in Config::shutdownVmPools
  vm, node,     \* the machine and the node of the call under way
  caller,       \* the phase Vm::remove was called from
  disturbances

ldap == <<entry, diskEntry, dhcp>>
world == <<ldap, disk, runsOn, up>>
checks == <<status, unchecked, failed, overlooked, retval, shutdownDue>>
pool == <<nodeName, wrapper>>
call == <<vm, node, caller>>
vars == <<world, connection, pc, pool, checks, call, disturbances>>

PolicyPhases == {"policy", "clone", "volume", "diskEntry", "dhcp", "start",
                 "migrate", "record"}

TypeOK ==
  /\ entry \in [Vm -> Node \cup {NoNode}]
  /\ diskEntry \subseteq Vm /\ dhcp \subseteq Vm /\ disk \subseteq Vm
  /\ runsOn \in [Vm -> Node \cup {NoNode}]
  /\ up \subseteq Node
  /\ connection \in [Node -> {"none", "live", "dead"}]
  /\ pc \in PolicyPhases \cup {"read", "check", "clean", "remove", "removeDhcp",
                               "shutdown", "sleep"}
  /\ nodeName \in [Vm -> Node \cup {NoNode}]
  /\ status \in [Vm -> {"unknown", "checkAgain", "running"}]
  /\ wrapper \in [Node -> SUBSET Vm]
  /\ unchecked \subseteq Node /\ failed \subseteq Node /\ overlooked \subseteq Vm
  /\ retval \in BOOLEAN /\ shutdownDue \in BOOLEAN
  /\ vm \in Vm \cup {NoVm} /\ node \in Node \cup {NoNode}
  /\ pc \in {"remove", "removeDhcp"} \cup (PolicyPhases \ {"policy"}) => vm \in Vm
  /\ pc \in PolicyPhases \ {"policy"} => node \in Node
  /\ caller \in {"none", "clean", "start", "shutdown"}
  /\ pc \in {"remove", "removeDhcp"} => caller # "none"
  /\ disturbances \in 0..MaxDisturbances

inPool == {v \in Vm : nodeName[v] # NoNode}              \* VmPool::vms
Entries == {v \in Vm : entry[v] # NoNode}
Unknown == {v \in inPool : status[v] = "unknown"}
Load(n) == Cardinality(wrapper[n])
\* What UUIDs are good for: nothing has the name of a new machine.
Fresh == {v \in Vm \ (diskEntry \cup dhcp \cup disk) :
            entry[v] = NoNode /\ runsOn[v] = NoNode}

Disturbed == /\ disturbances < MaxDisturbances
             /\ disturbances' = disturbances + 1

\* The broker's memory between two rounds (Config::clearMaps).
Cleared ==
  /\ nodeName' = [v \in Vm |-> NoNode]
  /\ status' = [v \in Vm |-> "unknown"]
  /\ wrapper' = [n \in Node |-> {}]
  /\ unchecked' = {} /\ failed' = {} /\ overlooked' = {}
  /\ retval' = FALSE /\ shutdownDue' = FALSE
  /\ vm' = NoVm /\ node' = NoNode /\ caller' = "none"

\* A pool that runs as it should, before the first round.
Init ==
  /\ entry \in [Vm -> Node \cup {NoNode}]
  /\ Cardinality(Entries) <= Demand
  /\ diskEntry = Entries /\ dhcp = Entries /\ disk = Entries
  /\ runsOn = entry
  /\ up = Node
  /\ connection = [n \in Node |-> "none"]
  /\ pc = "read"
  /\ nodeName = [v \in Vm |-> NoNode]
  /\ status = [v \in Vm |-> "unknown"]
  /\ wrapper = [n \in Node |-> {}]
  /\ unchecked = {} /\ failed = {} /\ overlooked = {}
  /\ retval = FALSE /\ shutdownDue = FALSE
  /\ vm = NoVm /\ node = NoNode /\ caller = "none"
  /\ disturbances = 0

-----------------------------------------------------------------------------
\* Reading the pool and asking the nodes.

\* readVmPools: every machine of the pool, in the wrapper of its sstNode.
ReadPools(due) ==
  /\ pc = "read"
  /\ due => Disturbed
  /\ ~ due => UNCHANGED disturbances
  /\ nodeName' = entry
  /\ wrapper' = [n \in Node |-> {v \in Vm : entry[v] = n}]
  /\ unchecked' = Node
  /\ retval' = TRUE
  /\ shutdownDue' = due
  /\ pc' = "check"
  /\ UNCHANGED <<world, connection, status, failed, overlooked, call>>

\* An LDAPException: no policy, no shutdown in this round.
ReadPoolsFails ==
  /\ pc = "read"
  /\ Disturbed
  /\ pc' = "sleep"
  /\ UNCHANGED <<world, connection, pool, checks, call>>

\* getConnection hands out what it has cached, whatever has become of it.
Usable(n) == n \in up /\ connection[n] # "dead"
Connected(n) == IF n \in up /\ connection[n] = "none"
                THEN [connection EXCEPT ![n] = "live"]
                ELSE connection

\* The machines of the pool active on a node: what checkVmsByNode looks up.
FoundOn(n) == {v \in inPool : runsOn[v] = n}

\* Node n lists its domains; a domain that cannot be looked up after that is
\* skipped without an exception.
CheckNode(n, missed) ==
  /\ pc = "check"
  /\ n \in unchecked
  /\ Usable(n)
  /\ disturbances' = disturbances + Cardinality(missed)
  /\ disturbances' <= MaxDisturbances
  /\ status' = [v \in Vm |-> IF v \in FoundOn(n) \ missed THEN "running" ELSE status[v]]
  /\ wrapper' = [wrapper EXCEPT ![n] = @ \cup (FoundOn(n) \ missed)]
  /\ overlooked' = overlooked \cup missed
  /\ connection' = Connected(n)
  /\ unchecked' = unchecked \ {n}
  /\ UNCHANGED <<world, pc, nodeName, failed, retval, shutdownDue, call>>

\* Mutant of UnknownOn: no machine is spared when its node does not answer.
UnknownNowhere(n) == {v \in Unknown : nodeName[v] = NoNode}

\* The machines a node that does not answer may be running, by LDAP.
UnknownOn(n) == {v \in Unknown : nodeName[v] = n}

\* The VirtException in checkVmsByNode.
CheckNodeFails(n) ==
  /\ pc = "check"
  /\ n \in unchecked
  /\ ~ Usable(n)
  /\ status' = [v \in Vm |-> IF v \in UnknownOn(n) THEN "checkAgain" ELSE status[v]]
  /\ retval' = (retval /\ UnknownOn(n) = {})
  /\ failed' = failed \cup {n}
  /\ unchecked' = unchecked \ {n}
  /\ UNCHANGED <<world, connection, pc, pool, overlooked, shutdownDue, call, disturbances>>

Checked ==
  /\ pc = "check"
  /\ unchecked = {}
  /\ pc' = IF retval THEN "clean" ELSE "shutdown"
  /\ UNCHANGED <<world, connection, pool, checks, call, disturbances>>

-----------------------------------------------------------------------------
\* Vm::remove, called from checkVmsPerNode ("clean"), VmFactory::createInstance
\* ("start") and VmPool::handleShutdown ("shutdown").

RemoveUnknown(v) ==
  /\ pc = "clean"
  /\ v \in Unknown
  /\ vm' = v /\ caller' = "clean"
  /\ pc' = "remove"
  /\ UNCHANGED <<world, connection, pool, checks, node, disturbances>>

Cleaned ==
  /\ pc = "clean"
  /\ Unknown = {}
  /\ pc' = "policy"
  /\ UNCHANGED <<world, connection, pool, checks, call, disturbances>>

\* Where the round goes on when remove returns: createInstance throws again
\* what made it call remove, which ends the policy.
Returned == IF caller = "start" THEN "shutdown" ELSE caller

\* Mutant of Thrown: an exception while cleaning up does not keep the policy from running.
ThrownToPolicy == IF caller = "clean" THEN "policy"
                  ELSE IF caller = "start" THEN "shutdown" ELSE "sleep"

\* Where it goes on when remove throws: doShutdown is still false in the first
\* block of main().
Thrown == IF caller = "start" THEN "shutdown" ELSE "sleep"

\* VmPool::removeVm and the removal of the file of disk vda.
DropDisk ==
  /\ nodeName' = [nodeName EXCEPT ![vm] = NoNode]
  /\ wrapper' = [n \in Node |-> IF n = nodeName[vm] THEN wrapper[n] \ {vm} ELSE wrapper[n]]
  /\ disk' = disk \ (diskEntry \cap {vm})

\* Mutant of EntryRemoved: the children stay.
EntryRemovedAlone == /\ entry' = [entry EXCEPT ![vm] = NoNode]
                     /\ diskEntry' = diskEntry

\* removeEntry(getDn(), true): the entry and all below it.
EntryRemoved == /\ entry' = [entry EXCEPT ![vm] = NoNode]
                /\ diskEntry' = diskEntry \ {vm}

RemoveEntry ==
  /\ pc = "remove"
  /\ DropDisk
  /\ EntryRemoved
  /\ pc' = "removeDhcp"
  /\ UNCHANGED <<dhcp, runsOn, up, connection, checks, call, disturbances>>

\* What is below the entry goes first and may be gone when it fails.
RemoveEntryFails ==
  /\ pc = "remove"
  /\ Disturbed
  /\ DropDisk
  /\ diskEntry' \in {diskEntry, diskEntry \ {vm}}
  /\ pc' = Thrown
  /\ UNCHANGED <<entry, dhcp, runsOn, up, connection, checks, call>>

RemoveDhcp ==
  /\ pc = "removeDhcp"
  /\ vm \in dhcp
  /\ dhcp' = dhcp \ {vm}
  /\ pc' = Returned
  /\ UNCHANGED <<entry, diskEntry, disk, runsOn, up, connection, pool, checks, call,
                 disturbances>>

\* LDAP fails, or there is no such entry (result 32).
RemoveDhcpFails ==
  /\ pc = "removeDhcp"
  /\ IF vm \in dhcp THEN Disturbed ELSE UNCHANGED disturbances
  /\ pc' = Thrown
  /\ UNCHANGED <<world, connection, pool, checks, call>>

-----------------------------------------------------------------------------
\* The policy: EvenlyPolicy::checkPolicy and VmFactory::createInstance.

NumberToStart == Demand - Cardinality(inPool)
MaxPerNode ==
  (Demand \div Cardinality(Node)) + (IF Demand % Cardinality(Node) > 0 THEN 1 ELSE 0)
HasRoom(n) == Load(n) < MaxPerNode

\* preStart comes to a node with room, in whatever order the nodes are sorted.
PreStart(n, v) ==
  /\ pc = "policy"
  /\ NumberToStart > 0
  /\ HasRoom(n)
  /\ v \in Fresh
  /\ vm' = v /\ node' = n
  /\ pc' = "clone"
  /\ UNCHANGED <<world, connection, pool, checks, caller, disturbances>>

\* preStart's `while' goes round for ever: machines are missing, no node has room.
Spin ==
  /\ pc = "policy"
  /\ NumberToStart > 0
  /\ \A n \in Node : ~ HasRoom(n)
  /\ UNCHANGED vars

\* One step of createInstance, cloneVm included.
InstanceStep(from, to) == pc = from /\ pc' = to /\ UNCHANGED <<checks, call>>

AddEntry ==
  /\ InstanceStep("clone", "volume")
  /\ entry' = [entry EXCEPT ![vm] = node]
  /\ UNCHANGED <<diskEntry, dhcp, disk, runsOn, up, connection, pool, disturbances>>

\* The volume is created by the libvirt of the golden image's node.
CreateVolume ==
  /\ InstanceStep("volume", "diskEntry")
  /\ Usable(GoldenNode)
  /\ connection' = Connected(GoldenNode)
  /\ disk' = disk \cup {vm}
  /\ UNCHANGED <<ldap, runsOn, up, pool, disturbances>>

\* A VirtException: cloneVm deletes an entry that is not there yet, and that
\* is an LDAPException.
CreateVolumeFails ==
  /\ InstanceStep("volume", "shutdown")
  /\ IF Usable(GoldenNode) THEN Disturbed ELSE UNCHANGED disturbances
  /\ connection' = Connected(GoldenNode)
  /\ UNCHANGED <<world, pool>>

AddDiskEntry ==
  /\ InstanceStep("diskEntry", "dhcp")
  /\ diskEntry' = diskEntry \cup {vm}
  /\ UNCHANGED <<entry, dhcp, disk, runsOn, up, connection, pool, disturbances>>

AddDhcp ==
  /\ InstanceStep("dhcp", "start")
  /\ dhcp' = dhcp \cup {vm}
  /\ UNCHANGED <<entry, diskEntry, disk, runsOn, up, connection, pool, disturbances>>

\* An LDAPException, the last when the clone is read back: the policy ends,
\* what was added stays.
CloneFails ==
  /\ pc \in {"clone", "diskEntry", "dhcp", "start"}
  /\ Disturbed
  /\ pc' = "shutdown"
  /\ UNCHANGED <<world, connection, pool, checks, call>>

\* startVm, then VmPool::addVm.
StartVm ==
  /\ InstanceStep("start", "policy")
  /\ Usable(node)
  /\ connection' = Connected(node)
  /\ runsOn' = [runsOn EXCEPT ![vm] = node]
  /\ nodeName' = [nodeName EXCEPT ![vm] = node]
  /\ wrapper' = [wrapper EXCEPT ![node] = @ \cup {vm}]
  /\ UNCHANGED <<ldap, disk, up, disturbances>>

\* A VirtException: createInstance removes the new machine.
StartVmFails ==
  /\ pc = "start"
  /\ IF Usable(node) THEN Disturbed ELSE UNCHANGED disturbances
  /\ connection' = Connected(node)
  /\ caller' = "start"
  /\ pc' = "remove"
  /\ UNCHANGED <<world, pool, checks, vm, node>>

\* Mutant of Uneven: an off-by-one in the tolerance.
UnevenByMore(source, dest) == Load(source) > Load(dest) + Tolerance + 1

Fullest(n) == \A m \in Node : Load(m) <= Load(n)
Emptiest(n) == \A m \in Node : Load(n) <= Load(m)
Uneven(source, dest) == Load(source) > Load(dest) + Tolerance

\* migrateFirstVm: the machine changes wrappers whatever becomes of it.
MigrateFirstVm(source, dest, v) ==
  /\ pc = "policy"
  /\ NumberToStart <= 0 /\ Cardinality(inPool) >= 2
  /\ Fullest(source) /\ Emptiest(dest) /\ Uneven(source, dest)
  /\ v \in wrapper[source]
  /\ wrapper' = [wrapper EXCEPT ![source] = @ \ {v}, ![dest] = @ \cup {v}]
  /\ vm' = v /\ node' = dest
  /\ pc' = "migrate"
  /\ UNCHANGED <<world, connection, nodeName, checks, caller, disturbances>>

\* migrateVm, with the sstMigrationNode of the entry set before.  The domain
\* is looked up where LDAP had it when the round began.
MigrateVm ==
  /\ pc = "migrate"
  /\ Usable(nodeName[vm]) /\ node \in up
  /\ runsOn[vm] = nodeName[vm]
  /\ connection' = Connected(nodeName[vm])
  /\ runsOn' = [runsOn EXCEPT ![vm] = node]
  /\ pc' = "record"
  /\ UNCHANGED <<ldap, disk, up, pool, checks, call, disturbances>>

\* Vm::migrate swallows the exceptions of both modifications and of migrateVm.
MigrateFails ==
  /\ \/ /\ pc = "migrate"
        /\ IF Usable(nodeName[vm]) /\ node \in up /\ runsOn[vm] = nodeName[vm]
           THEN Disturbed
           ELSE UNCHANGED disturbances
        /\ connection' \in {connection, Connected(nodeName[vm])}
     \/ pc = "record" /\ Disturbed /\ UNCHANGED connection
  /\ pc' = "policy"
  /\ UNCHANGED <<world, pool, checks, call>>

\* Mutant of Recorded: the name of the machine for that of the node.
RecordedName == [entry EXCEPT ![vm] = vm]

\* The last modification of Vm::migrate: sstNode is the new node.
Recorded == [entry EXCEPT ![vm] = node]

RecordMigration ==
  /\ pc = "record"
  /\ entry' = Recorded
  /\ pc' = "policy"
  /\ UNCHANGED <<diskEntry, dhcp, disk, runsOn, up, connection, pool, checks, call,
                 disturbances>>

PolicyDone ==
  /\ pc = "policy"
  /\ NumberToStart <= 0
  /\ \/ Cardinality(inPool) < 2
     \/ \A m, n \in Node : ~ Uneven(m, n)
  /\ pc' = "shutdown"
  /\ UNCHANGED <<world, connection, pool, checks, call, disturbances>>

-----------------------------------------------------------------------------
\* VmPool::handleShutdown, and the end of the round.

\* destroyDynVm looks the domain up on the node in Vm::nodeName.
CanDestroy(v) == Usable(nodeName[v]) /\ runsOn[v] = nodeName[v]

\* Mutant of Destroyed: the result of virDomainDestroy is not looked at.
NotDestroyed(v) == runsOn

Destroyed(v) == [runsOn EXCEPT ![v] = NoNode]

ShutdownVm(v) ==
  /\ pc = "shutdown" /\ shutdownDue
  /\ v \in inPool
  /\ CanDestroy(v)
  /\ connection' = Connected(nodeName[v])
  /\ runsOn' = Destroyed(v)
  /\ vm' = v /\ caller' = "shutdown"
  /\ pc' = "remove"
  /\ UNCHANGED <<ldap, disk, up, pool, checks, node, disturbances>>

\* The VirtException ends the shutdown block of main().
ShutdownVmFails(v) ==
  /\ pc = "shutdown" /\ shutdownDue
  /\ v \in inPool
  /\ IF CanDestroy(v) THEN Disturbed ELSE UNCHANGED disturbances
  /\ connection' = Connected(nodeName[v])
  /\ pc' = "sleep"
  /\ UNCHANGED <<world, pool, checks, call>>

ShutdownDone ==
  /\ pc = "shutdown"
  /\ shutdownDue => inPool = {}
  /\ pc' = "sleep"
  /\ UNCHANGED <<world, connection, pool, checks, call, disturbances>>

\* sleep(cycle), clearMaps, next round.
Sleep ==
  /\ pc = "sleep"
  /\ Cleared
  /\ pc' = "read"
  /\ UNCHANGED <<world, connection, disturbances>>

\* The daemon dies at any point and is started again.  So it does when the LDAP
\* server that has failed cannot be bound to anew: main() binds in the handler
\* of the exception, and what that throws ends the loop.
Crash ==
  /\ Disturbed
  /\ Cleared
  /\ connection' = [n \in Node |-> "none"]
  /\ pc' = "read"
  /\ UNCHANGED world

-----------------------------------------------------------------------------
\* The nodes.

\* A connection that is open may outlive the failure or not.
Broken(n) == {connection} \cup {[connection EXCEPT ![n] = "dead"] :
                                   m \in {k \in {n} : connection[k] = "live"}}

\* libvirtd stops or the network is cut; machines keep running.
NodeFails(n) ==
  /\ n \in up
  /\ Disturbed
  /\ up' = up \ {n}
  /\ connection' \in Broken(n)
  /\ UNCHANGED <<ldap, disk, runsOn, pc, pool, checks, call>>

\* The node goes down with its machines.
NodeCrashes(n) ==
  /\ n \in up
  /\ Disturbed
  /\ up' = up \ {n}
  /\ connection' \in Broken(n)
  /\ runsOn' = [v \in Vm |-> IF runsOn[v] = n THEN NoNode ELSE runsOn[v]]
  /\ UNCHANGED <<ldap, disk, pc, pool, checks, call>>

NodeReturns(n) ==
  /\ n \notin up
  /\ up' = up \cup {n}
  /\ UNCHANGED <<ldap, disk, runsOn, connection, pc, pool, checks, call, disturbances>>

\* A guest shuts down.
VmStops(v) ==
  /\ runsOn[v] # NoNode
  /\ Disturbed
  /\ runsOn' = [runsOn EXCEPT ![v] = NoNode]
  /\ UNCHANGED <<ldap, disk, up, connection, pc, pool, checks, call>>

-----------------------------------------------------------------------------

Round ==
  \/ \E due \in BOOLEAN : ReadPools(due)
  \/ ReadPoolsFails
  \/ \E n \in Node : \E missed \in SUBSET FoundOn(n) : CheckNode(n, missed)
  \/ \E n \in Node : CheckNodeFails(n)
  \/ Checked
  \/ \E v \in Vm : RemoveUnknown(v)
  \/ Cleaned
  \/ RemoveEntry
  \/ RemoveEntryFails
  \/ RemoveDhcp
  \/ RemoveDhcpFails
  \/ \E n \in Node, v \in Vm : PreStart(n, v)
  \/ Spin
  \/ AddEntry
  \/ CreateVolume
  \/ CreateVolumeFails
  \/ AddDiskEntry
  \/ AddDhcp
  \/ CloneFails
  \/ StartVm
  \/ StartVmFails
  \/ \E source, dest \in Node, v \in Vm : MigrateFirstVm(source, dest, v)
  \/ MigrateVm
  \/ MigrateFails
  \/ RecordMigration
  \/ PolicyDone
  \/ \E v \in Vm : ShutdownVm(v)
  \/ \E v \in Vm : ShutdownVmFails(v)
  \/ ShutdownDone
  \/ Sleep

Next ==
  \/ Round
  \/ Crash
  \/ \E n \in Node : NodeFails(n) \/ NodeCrashes(n) \/ NodeReturns(n)
  \/ \E v \in Vm : VmStops(v)

\* One thread whose calls return or throw, and nodes that come back.
Spec == /\ Init /\ [][Next]_vars
        /\ WF_vars(Round)
        /\ \A n \in Node : WF_vars(NodeReturns(n))

-----------------------------------------------------------------------------

(***************************************************************************)
(* The broker never takes the entry or the disk of a machine that runs     *)
(* where LDAP says it runs, unless its lookup failed in this round without *)
(* a word: not when nodes fail or come back between two checks, not after  *)
(* a crash, and at a shutdown only once the machine is destroyed.  So a    *)
(* running machine is lost only when its entry is stale (a migration that  *)
(* was not recorded) or when it was overlooked.                            *)
(***************************************************************************)
RunningSpared ==
  [][\A v \in Vm :
       /\ runsOn[v] # NoNode /\ runsOn'[v] = runsOn[v]
       /\ runsOn[v] = entry[v] /\ v \notin overlooked
       => entry'[v] # NoNode /\ (v \in disk => v \in disk')]_vars

(***************************************************************************)
(* Whatever fails, the pool never gets more machines than were asked for:  *)
(* retries do not pile up entries.                                         *)
(***************************************************************************)
NeverTooMany == Cardinality(Entries) <= Demand

(***************************************************************************)
(* Between rounds, the entry, the disk file, the disk's entry and the DHCP *)
(* entry of a machine are all there or all gone, but for one machine per   *)
(* disturbance: cloneVm and Vm::remove have one machine in hand at a time, *)
(* and what a failure leaves behind is never made worse by a later round.  *)
(***************************************************************************)
Complete(v) == entry[v] # NoNode /\ v \in diskEntry \cap dhcp \cap disk
Gone(v) == entry[v] = NoNode /\ v \notin diskEntry \cup dhcp \cup disk
LeftoversBounded ==
  pc = "read" => Cardinality({v \in Vm : ~ Complete(v) /\ ~ Gone(v)}) <= disturbances

(***************************************************************************)
(* The policy decides on a complete picture: the machines it counts are    *)
(* those LDAP has entries for, and none of them was out of reach.  A       *)
(* failed removal or check keeps the policy from running, or it would      *)
(* start machines the pool already has.                                    *)
(***************************************************************************)
PolicySeesAll ==
  pc = "policy" => inPool = Entries /\ \A v \in inPool : status[v] # "checkAgain"

(***************************************************************************)
(* Once disturbances stop, the pool gets to the state its policy asks for  *)
(* and stays there: as many machines as demanded, every entry's machine    *)
(* running where the entry says, loads within the tolerance.  It needs     *)
(* that no cached connection stays dead and no machine stays misplaced.    *)
(***************************************************************************)
EntryLoad(n) == Cardinality({v \in Vm : entry[v] = n})
Settled ==
  /\ \A v \in Entries : runsOn[v] = entry[v]
  /\ Cardinality(Entries) = Demand
  /\ Demand >= 2 => \A m, n \in Node : EntryLoad(m) <= EntryLoad(n) + Tolerance
ConnectionsWork == \A n \in Node : connection[n] # "dead"
NoneMisplaced == \A v \in Entries : runsOn[v] \in {entry[v], NoNode}
Settles == <>[](ConnectionsWork /\ NoneMisplaced) => <>[]Settled

(***************************************************************************)
(* "set all domains that have status=VmStatusUnknown to                    *)
(* status=VmCheckAgain" (virtTools.cpp:151) when a node does not answer:   *)
(* then no machine that may be running there is removed in this round.     *)
(***************************************************************************)
UnknownCheckedAgain ==
  pc = "clean" /\ failed # {} /\ overlooked = {} =>
    \A v \in Unknown : runsOn[v] \notin failed

(***************************************************************************)
(* "try it in next loop" (virtTools.cpp:150): once every node can be       *)
(* reached again, the policy is run again and again.                       *)
(***************************************************************************)
TriedInNextLoop == <>[](up = Node) => []<>(pc \in PolicyPhases)
=============================================================================
