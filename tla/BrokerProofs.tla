---------------------------- MODULE BrokerProofs ----------------------------
(***************************************************************************)
(* Proofs about Broker for every number of nodes, machines and             *)
(* disturbances: its types, that running machines are spared, that the     *)
(* policy sees the whole pool, that the pool never has too many machines,  *)
(* what failures leave behind and, in the last part, that rounds end.      *)
(***************************************************************************)
EXTENDS Broker, FiniteSetTheorems, WellFoundedInduction, TLAPS

\* Nothing is lost when this machine's entry and disk go.
Removable(v) == \/ runsOn[v] = NoNode
                \/ runsOn[v] # entry[v]
                \/ v \in overlooked

\* createInstance before startVm.
Creating == {"clone", "volume", "diskEntry", "dhcp", "start"}
\* From the check of the nodes to the end of checkVmsPerNode.
Cleaning == pc = "clean" \/ (pc \in {"remove", "removeDhcp"} /\ caller = "clean")

(***************************************************************************)
(* Why a machine that is removed may be removed: while nodes are checked,  *)
(* a machine still unknown is removable or its node is still to be asked   *)
(* (nodeName is the entry's node then); after that it is removable, and    *)
(* removable it stays, because only the broker starts and migrates.        *)
(***************************************************************************)
SparedInv ==
  /\ pc = "check" =>
       \A v \in inPool : /\ nodeName[v] = entry[v]
                         /\ status[v] = "unknown" =>
                              Removable(v) \/ entry[v] \in unchecked
  /\ Cleaning => \A v \in Unknown : Removable(v)
  /\ pc \in Creating => runsOn[vm] = NoNode
  /\ pc = "remove" => Removable(vm)

\* The broker's picture of the pool is being built, or acted on.
Tracked == pc = "check" \/ Cleaning \/ pc \in {"policy", "clone", "migrate", "record"}

(***************************************************************************)
(* What the broker has in mind of the pool: the machines in memory are     *)
(* those with entries, but for the one createInstance has in hand; the     *)
(* wrappers hold nothing else, and a machine not found yet is in the       *)
(* wrapper of its own node only, so that VmPool::removeVm takes it out of  *)
(* all of them.                                                            *)
(***************************************************************************)
PoolInv ==
  /\ Tracked => inPool = Entries
  /\ pc \in Creating \ {"clone"} => Entries = inPool \cup {vm}
  /\ pc = "clone" => Cardinality(inPool) < Demand
  /\ pc \in {"migrate", "record"} => vm \in inPool
  /\ pc = "remove" /\ caller = "clean" => vm \in Unknown
  /\ Tracked \/ pc \in Creating => \A n \in Node : wrapper[n] \subseteq inPool
  /\ pc = "check" \/ Cleaning =>
       \A v \in Unknown : \A n \in Node : v \in wrapper[n] => n = nodeName[v]

(***************************************************************************)
(* No machine waits to be checked again once checkVmsPerNode has found     *)
(* nothing to keep it from cleaning up.                                    *)
(***************************************************************************)
NoneToCheckAgain == \A v \in Vm : status[v] # "checkAgain"
StatusInv ==
  /\ pc = "read" => \A v \in Vm : status[v] = "unknown"
  /\ pc = "check" /\ retval => NoneToCheckAgain
  /\ Cleaning \/ pc \in PolicyPhases => NoneToCheckAgain

-----------------------------------------------------------------------------
\* The types of Broker.

LEMMA InitTypeOK == Init => TypeOK
<1> SUFFICES ASSUME Init PROVE TypeOK
  OBVIOUS
<1>1. Entries \subseteq Vm
  BY DEF Entries
<1>2. /\ diskEntry \subseteq Vm /\ dhcp \subseteq Vm /\ disk \subseteq Vm
      /\ entry \in [Vm -> Node \cup {NoNode}] /\ runsOn \in [Vm -> Node \cup {NoNode}]
      /\ up \subseteq Node
  BY <1>1 DEF Init
<1>3. /\ connection \in [Node -> {"none", "live", "dead"}]
      /\ nodeName \in [Vm -> Node \cup {NoNode}]
      /\ status \in [Vm -> {"unknown", "checkAgain", "running"}]
      /\ wrapper \in [Node -> SUBSET Vm]
  BY DEF Init
<1>4. /\ pc = "read" /\ disturbances \in 0..MaxDisturbances
      /\ unchecked \subseteq Node /\ failed \subseteq Node /\ overlooked \subseteq Vm
      /\ vm \in Vm \cup {NoVm} /\ node \in Node \cup {NoNode} /\ caller = "none"
  BY LimitsAssumption DEF Init
<1>5. /\ pc \in PolicyPhases \cup {"read", "check", "clean", "remove", "removeDhcp",
                                 "shutdown", "sleep"}
      /\ pc \in {"remove", "removeDhcp"} \cup (PolicyPhases \ {"policy"}) => vm \in Vm
      /\ pc \in PolicyPhases \ {"policy"} => node \in Node
  BY <1>4 DEF PolicyPhases
<1>6. retval \in BOOLEAN /\ shutdownDue \in BOOLEAN
  BY Zenon DEF Init
<1> QED
  BY <1>2, <1>3, <1>4, <1>5, <1>6, Zenon DEF TypeOK

\* What a disturbance does to the budget.
LEMMA DisturbedInBudget ==
  TypeOK /\ Disturbed => disturbances' \in 0..MaxDisturbances
  BY LimitsAssumption DEF TypeOK, Disturbed

LEMMA ConnectedType ==
  ASSUME TypeOK, NEW n
  PROVE  Connected(n) \in [Node -> {"none", "live", "dead"}]
  BY DEF TypeOK, Connected

LEMMA CheckNodeTypeOK ==
  ASSUME TypeOK, NEW n \in Node, NEW missed \in SUBSET FoundOn(n), CheckNode(n, missed)
  PROVE  TypeOK'
<1>1. FoundOn(n) \subseteq Vm
  BY DEF FoundOn, inPool
<1>2. IsFiniteSet(missed)
  BY <1>1, VmAssumption, FS_Subset
<1>3. Cardinality(missed) \in Nat
  BY <1>2, FS_CardinalityType
<1>4. disturbances' \in 0..MaxDisturbances
  BY <1>3, LimitsAssumption DEF TypeOK, CheckNode
<1>5. connection' \in [Node -> {"none", "live", "dead"}]
  BY ConnectedType DEF CheckNode
<1>6. status' \in [Vm -> {"unknown", "checkAgain", "running"}]
  BY DEF TypeOK, CheckNode
<1>7. wrapper' \in [Node -> SUBSET Vm] /\ overlooked' \subseteq Vm
  BY <1>1 DEF TypeOK, CheckNode
<1> QED
  BY <1>4, <1>5, <1>6, <1>7 DEF TypeOK, CheckNode, world, ldap, call

LEMMA ReadTypeOK ==
  ASSUME TypeOK, \/ \E due \in BOOLEAN : ReadPools(due)
                 \/ ReadPoolsFails
                 \/ \E n \in Node : CheckNodeFails(n)
                 \/ Checked
  PROVE  TypeOK'
<1>1. ASSUME NEW due \in BOOLEAN, ReadPools(due) PROVE TypeOK'
  BY <1>1, DisturbedInBudget
     DEF TypeOK, ReadPools, world, ldap, call, PolicyPhases
<1>2. CASE ReadPoolsFails
  BY <1>2, DisturbedInBudget
     DEF TypeOK, ReadPoolsFails, world, ldap, pool, checks, call, PolicyPhases
<1>3. ASSUME NEW n \in Node, CheckNodeFails(n) PROVE TypeOK'
  BY <1>3 DEF TypeOK, CheckNodeFails, UnknownOn, world, ldap, pool, call, PolicyPhases
<1>4. CASE Checked
  BY <1>4 DEF TypeOK, Checked, world, ldap, pool, checks, call, PolicyPhases
<1> QED
  BY <1>1, <1>2, <1>3, <1>4

LEMMA RemoveTypeOK ==
  ASSUME TypeOK, \/ \E v \in Vm : RemoveUnknown(v)
                 \/ Cleaned \/ RemoveEntry \/ RemoveEntryFails
                 \/ RemoveDhcp \/ RemoveDhcpFails
  PROVE  TypeOK'
<1>1. ASSUME NEW v \in Vm, RemoveUnknown(v) PROVE TypeOK'
  BY <1>1 DEF TypeOK, RemoveUnknown, world, ldap, pool, checks, PolicyPhases
<1>2. CASE Cleaned
  BY <1>2 DEF TypeOK, Cleaned, world, ldap, pool, checks, call, PolicyPhases
<1>3. CASE RemoveEntry
<2>1. /\ nodeName' \in [Vm -> Node \cup {NoNode}]
      /\ wrapper' \in [Node -> SUBSET Vm]
      /\ disk' \subseteq Vm
  BY <1>3 DEF TypeOK, RemoveEntry, DropDisk
<2>2. entry' \in [Vm -> Node \cup {NoNode}] /\ diskEntry' \subseteq Vm
  BY <1>3 DEF TypeOK, RemoveEntry, EntryRemoved
<2>3. vm' \in Vm /\ pc' = "removeDhcp"
  BY <1>3 DEF TypeOK, RemoveEntry, call
<2> QED
  BY <1>3, <2>1, <2>2, <2>3 DEF TypeOK, RemoveEntry, checks, call, PolicyPhases
<1>4. CASE RemoveEntryFails
<2>1. /\ nodeName' \in [Vm -> Node \cup {NoNode}]
      /\ wrapper' \in [Node -> SUBSET Vm]
      /\ disk' \subseteq Vm
  BY <1>4 DEF TypeOK, RemoveEntryFails, DropDisk
<2>2. pc' \in {"shutdown", "sleep"} /\ diskEntry' \subseteq Vm
  BY <1>4 DEF TypeOK, RemoveEntryFails, Thrown
<2>3. disturbances' \in 0..MaxDisturbances
  BY <1>4, DisturbedInBudget DEF RemoveEntryFails
<2> QED
  BY <1>4, <2>1, <2>2, <2>3 DEF TypeOK, RemoveEntryFails, checks, call, PolicyPhases
<1>5. CASE RemoveDhcp
<2>1. pc' \in {"clean", "shutdown"}
  BY <1>5 DEF TypeOK, RemoveDhcp, Returned
<2> QED
  BY <1>5, <2>1 DEF TypeOK, RemoveDhcp, pool, checks, call, PolicyPhases
<1>6. CASE RemoveDhcpFails
  BY <1>6, DisturbedInBudget
     DEF TypeOK, RemoveDhcpFails, Thrown, world, ldap, pool, checks, call, PolicyPhases
<1> QED
  BY <1>1, <1>2, <1>3, <1>4, <1>5, <1>6

\* The steps of createInstance before startVm.
CreateStep == AddEntry \/ CreateVolume \/ AddDiskEntry \/ AddDhcp

LEMMA CreateTypeOK ==
  ASSUME TypeOK, \/ \E n \in Node, v \in Vm : PreStart(n, v)
                 \/ CreateStep \/ CreateVolumeFails \/ CloneFails
                 \/ StartVm \/ StartVmFails
  PROVE  TypeOK'
<1>1. ASSUME NEW n \in Node, NEW v \in Vm, PreStart(n, v) PROVE TypeOK'
  BY <1>1 DEF TypeOK, PreStart, world, ldap, pool, checks, PolicyPhases
<1>2. CASE CreateStep
<2>1. /\ pc \in {"clone", "volume", "diskEntry", "dhcp"}
      /\ pc' \in {"volume", "diskEntry", "dhcp", "start"}
      /\ UNCHANGED <<runsOn, up, pool, checks, call, disturbances>>
  BY <1>2 DEF CreateStep, AddEntry, CreateVolume, AddDiskEntry, AddDhcp, InstanceStep
<2>2. vm \in Vm /\ node \in Node
  BY <2>1 DEF TypeOK, PolicyPhases
<2>3. entry' \in [Vm -> Node \cup {NoNode}]
  BY <1>2, <2>2 DEF TypeOK, CreateStep, AddEntry, CreateVolume, AddDiskEntry, AddDhcp, ldap
<2>4. diskEntry' \subseteq Vm /\ dhcp' \subseteq Vm /\ disk' \subseteq Vm
  BY <1>2, <2>2 DEF TypeOK, CreateStep, AddEntry, CreateVolume, AddDiskEntry, AddDhcp, ldap
<2>5. connection' \in [Node -> {"none", "live", "dead"}]
  BY <1>2, ConnectedType
     DEF TypeOK, CreateStep, AddEntry, CreateVolume, AddDiskEntry, AddDhcp
<2> QED
  BY <2>1, <2>2, <2>3, <2>4, <2>5 DEF TypeOK, pool, checks, call, PolicyPhases
<1>3. CASE CloneFails
  BY <1>3, DisturbedInBudget
     DEF TypeOK, CloneFails, world, ldap, pool, checks, call, PolicyPhases
<1>4. CASE StartVm
<2>1. vm \in Vm /\ node \in Node
  BY <1>4 DEF TypeOK, StartVm, InstanceStep, PolicyPhases
<2>2. connection' \in [Node -> {"none", "live", "dead"}]
  BY <1>4, <2>1, ConnectedType DEF StartVm
<2>3. /\ runsOn' \in [Vm -> Node \cup {NoNode}]
      /\ nodeName' \in [Vm -> Node \cup {NoNode}]
      /\ wrapper' \in [Node -> SUBSET Vm]
  BY <1>4, <2>1 DEF TypeOK, StartVm
<2> QED
  BY <1>4, <2>1, <2>2, <2>3
     DEF TypeOK, StartVm, InstanceStep, ldap, checks, call, PolicyPhases
<1>5. CASE StartVmFails
  BY <1>5, DisturbedInBudget, ConnectedType
     DEF TypeOK, StartVmFails, world, ldap, pool, checks, PolicyPhases
<1>6. CASE CreateVolumeFails
  BY <1>6, DisturbedInBudget, ConnectedType
     DEF TypeOK, CreateVolumeFails, InstanceStep, world, ldap, pool, checks, call, PolicyPhases
<1> QED
  BY <1>1, <1>2, <1>3, <1>4, <1>5, <1>6

LEMMA MigrateTypeOK ==
  ASSUME TypeOK, \/ \E source, dest \in Node, v \in Vm : MigrateFirstVm(source, dest, v)
                 \/ MigrateVm \/ MigrateFails \/ RecordMigration \/ PolicyDone
  PROVE  TypeOK'
<1>1. ASSUME NEW source \in Node, NEW dest \in Node, NEW v \in Vm,
             MigrateFirstVm(source, dest, v)
      PROVE  TypeOK'
<2>1. wrapper' \in [Node -> SUBSET Vm]
  BY <1>1 DEF TypeOK, MigrateFirstVm
<2> QED
  BY <1>1, <2>1 DEF TypeOK, MigrateFirstVm, world, ldap, checks, PolicyPhases
<1>2. CASE MigrateVm
<2>1. vm \in Vm /\ node \in Node /\ pc' = "record"
  BY <1>2 DEF TypeOK, MigrateVm, PolicyPhases
<2>2. connection' \in [Node -> {"none", "live", "dead"}]
  BY <1>2, ConnectedType DEF MigrateVm
<2>3. runsOn' \in [Vm -> Node \cup {NoNode}]
  BY <1>2, <2>1 DEF TypeOK, MigrateVm
<2> QED
  BY <1>2, <2>1, <2>2, <2>3
     DEF TypeOK, MigrateVm, ldap, pool, checks, call, PolicyPhases
<1>3. CASE MigrateFails
  BY <1>3, DisturbedInBudget, ConnectedType
     DEF TypeOK, MigrateFails, world, ldap, pool, checks, call, PolicyPhases
<1>4. CASE RecordMigration
<2>1. vm \in Vm /\ node \in Node
  BY <1>4 DEF TypeOK, RecordMigration, PolicyPhases
<2>2. entry' \in [Vm -> Node \cup {NoNode}]
  BY <1>4, <2>1 DEF TypeOK, RecordMigration, Recorded
<2> QED
  BY <1>4, <2>2 DEF TypeOK, RecordMigration, pool, checks, call, PolicyPhases
<1>5. CASE PolicyDone
  BY <1>5 DEF TypeOK, PolicyDone, world, ldap, pool, checks, call, PolicyPhases
<1> QED
  BY <1>1, <1>2, <1>3, <1>4, <1>5

\* What a round starts with in memory has its type.
LEMMA ClearedTypeOK ==
  ASSUME Cleared
  PROVE  /\ nodeName' \in [Vm -> Node \cup {NoNode}]
         /\ status' \in [Vm -> {"unknown", "checkAgain", "running"}]
         /\ wrapper' \in [Node -> SUBSET Vm]
         /\ unchecked' \subseteq Node /\ failed' \subseteq Node /\ overlooked' \subseteq Vm
         /\ retval' \in BOOLEAN /\ shutdownDue' \in BOOLEAN
         /\ vm' \in Vm \cup {NoVm} /\ node' \in Node \cup {NoNode}
         /\ caller' \in {"none", "clean", "start", "shutdown"}
<1>1. retval' \in BOOLEAN /\ shutdownDue' \in BOOLEAN
  BY Zenon DEF Cleared
<1>2. /\ nodeName' \in [Vm -> Node \cup {NoNode}]
      /\ status' \in [Vm -> {"unknown", "checkAgain", "running"}]
      /\ wrapper' \in [Node -> SUBSET Vm]
  BY DEF Cleared
<1>3. /\ unchecked' \subseteq Node /\ failed' \subseteq Node /\ overlooked' \subseteq Vm
      /\ vm' \in Vm \cup {NoVm} /\ node' \in Node \cup {NoNode}
      /\ caller' \in {"none", "clean", "start", "shutdown"}
  BY DEF Cleared
<1> QED
  BY <1>1, <1>2, <1>3

LEMMA ShutdownTypeOK ==
  ASSUME TypeOK, \/ \E v \in Vm : ShutdownVm(v) \/ ShutdownVmFails(v)
                 \/ ShutdownDone \/ Sleep \/ Crash
  PROVE  TypeOK'
<1>1. ASSUME NEW v \in Vm, ShutdownVm(v) PROVE TypeOK'
<2>1. connection' \in [Node -> {"none", "live", "dead"}]
  BY <1>1, ConnectedType DEF ShutdownVm
<2>2. runsOn' \in [Vm -> Node \cup {NoNode}]
  BY <1>1 DEF TypeOK, ShutdownVm, Destroyed
<2> QED
  BY <1>1, <2>1, <2>2 DEF TypeOK, ShutdownVm, ldap, pool, checks, PolicyPhases
<1>2. ASSUME NEW v \in Vm, ShutdownVmFails(v) PROVE TypeOK'
  BY <1>2, DisturbedInBudget, ConnectedType
     DEF TypeOK, ShutdownVmFails, world, ldap, pool, checks, call, PolicyPhases
<1>3. CASE ShutdownDone
  BY <1>3 DEF TypeOK, ShutdownDone, world, ldap, pool, checks, call, PolicyPhases
<1>4. CASE Sleep
  BY <1>4, ClearedTypeOK DEF TypeOK, Sleep, world, ldap, PolicyPhases
<1>5. CASE Crash
<2>1. connection' \in [Node -> {"none", "live", "dead"}]
  BY <1>5 DEF Crash
<2> QED
  BY <1>5, <2>1, DisturbedInBudget, ClearedTypeOK
     DEF TypeOK, Crash, world, ldap, PolicyPhases
<1> QED
  BY <1>1, <1>2, <1>3, <1>4, <1>5

LEMMA NodesTypeOK ==
  ASSUME TypeOK, \/ \E n \in Node : NodeFails(n) \/ NodeCrashes(n) \/ NodeReturns(n)
                 \/ \E v \in Vm : VmStops(v)
  PROVE  TypeOK'
<1>1. ASSUME NEW n \in Node, connection' \in Broken(n)
      PROVE  connection' \in [Node -> {"none", "live", "dead"}]
  BY <1>1 DEF TypeOK, Broken
<1>2. ASSUME NEW n \in Node, NodeFails(n) PROVE TypeOK'
  BY <1>1, <1>2, DisturbedInBudget
     DEF TypeOK, NodeFails, ldap, pool, checks, call, PolicyPhases
<1>3. ASSUME NEW n \in Node, NodeCrashes(n) PROVE TypeOK'
<2>1. runsOn' \in [Vm -> Node \cup {NoNode}]
  BY <1>3 DEF TypeOK, NodeCrashes
<2> QED
  BY <1>1, <1>3, <2>1, DisturbedInBudget
     DEF TypeOK, NodeCrashes, ldap, pool, checks, call, PolicyPhases
<1>4. ASSUME NEW n \in Node, NodeReturns(n) PROVE TypeOK'
  BY <1>4 DEF TypeOK, NodeReturns, ldap, pool, checks, call, PolicyPhases
<1>5. ASSUME NEW v \in Vm, VmStops(v) PROVE TypeOK'
  BY <1>5, DisturbedInBudget
     DEF TypeOK, VmStops, ldap, pool, checks, call, PolicyPhases
<1> QED
  BY <1>2, <1>3, <1>4, <1>5

\* The steps, as the proofs below take them apart.
Reads == \/ \E due \in BOOLEAN : ReadPools(due)
         \/ ReadPoolsFails
         \/ \E n \in Node : CheckNodeFails(n)
         \/ Checked
Removes == \/ \E v \in Vm : RemoveUnknown(v)
           \/ Cleaned \/ RemoveEntry \/ RemoveEntryFails
           \/ RemoveDhcp \/ RemoveDhcpFails
Creates == \/ \E n \in Node, v \in Vm : PreStart(n, v)
           \/ CreateStep \/ CreateVolumeFails \/ CloneFails \/ StartVm \/ StartVmFails
Migrates == \/ \E source, dest \in Node, v \in Vm : MigrateFirstVm(source, dest, v)
            \/ MigrateVm \/ MigrateFails \/ RecordMigration \/ PolicyDone
Ends == \/ \E v \in Vm : ShutdownVm(v) \/ ShutdownVmFails(v)
        \/ ShutdownDone \/ Sleep \/ Crash
NodesAct == \/ \E n \in Node : NodeFails(n) \/ NodeCrashes(n) \/ NodeReturns(n)
            \/ \E v \in Vm : VmStops(v)

LEMMA NextCases ==
  ASSUME [Next]_vars
  PROVE  \/ Reads \/ Removes \/ Creates \/ Migrates \/ Ends \/ NodesAct
         \/ \E n \in Node : \E missed \in SUBSET FoundOn(n) : CheckNode(n, missed)
         \/ UNCHANGED vars
  BY DEF Next, Round, Spin, Reads, Removes, Creates, CreateStep, Migrates, Ends, NodesAct

LEMMA NextTypeOK == TypeOK /\ [Next]_vars => TypeOK'
<1> SUFFICES ASSUME TypeOK, [Next]_vars PROVE TypeOK'
  OBVIOUS
<1>1. CASE Reads
  BY <1>1, ReadTypeOK DEF Reads
<1>2. CASE Removes
  BY <1>2, RemoveTypeOK DEF Removes
<1>3. CASE Creates
  BY <1>3, CreateTypeOK DEF Creates
<1>4. CASE Migrates
  BY <1>4, MigrateTypeOK DEF Migrates
<1>5. CASE Ends
  BY <1>5, ShutdownTypeOK DEF Ends
<1>6. CASE NodesAct
  BY <1>6, NodesTypeOK DEF NodesAct
<1>7. CASE \E n \in Node : \E missed \in SUBSET FoundOn(n) : CheckNode(n, missed)
  BY <1>7, CheckNodeTypeOK
<1>8. CASE UNCHANGED vars
  BY <1>8 DEF TypeOK, vars, world, ldap, pool, checks, call
<1> QED
  BY <1>1, <1>2, <1>3, <1>4, <1>5, <1>6, <1>7, <1>8, NextCases

(***************************************************************************)
(* Every variable has its type in every reachable state, whatever fails.   *)
(***************************************************************************)
THEOREM TypeCorrect == Spec => []TypeOK
  BY InitTypeOK, NextTypeOK, PTL DEF Spec

-----------------------------------------------------------------------------
\* Running machines are spared.

LEMMA InitSparedInv == Init => SparedInv
  BY DEF Init, SparedInv, Cleaning, Creating

\* A machine that may be removed stays so when nothing is started, migrated,
\* recorded or forgotten.
StillRemovable ==
  /\ \A v \in Vm : runsOn'[v] \in {runsOn[v], NoNode}
  /\ UNCHANGED entry
  /\ overlooked \subseteq overlooked'
LEMMA RemovableKept ==
  ASSUME StillRemovable, NEW v \in Vm, Removable(v)
  PROVE  Removable(v)'
  BY DEF StillRemovable, Removable

LEMMA ReadSparedInv ==
  ASSUME TypeOK, SparedInv,
         \/ Reads
         \/ \E n \in Node : \E missed \in SUBSET FoundOn(n) : CheckNode(n, missed)
  PROVE  SparedInv'
<1>1. ASSUME NEW due \in BOOLEAN, ReadPools(due) PROVE SparedInv'
<2>1. pc' = "check" /\ nodeName' = entry /\ entry' = entry /\ unchecked' = Node
  BY <1>1 DEF ReadPools, world, ldap
<2>2. \A v \in inPool' : nodeName'[v] = entry'[v] /\ entry'[v] \in unchecked'
  BY <2>1, NodeAssumption DEF inPool, TypeOK
<2> QED
  BY <2>1, <2>2 DEF SparedInv, Cleaning, Creating
<1>2. CASE ReadPoolsFails
  BY <1>2 DEF SparedInv, Cleaning, Creating, ReadPoolsFails
<1>3. ASSUME NEW n \in Node, CheckNodeFails(n) PROVE SparedInv'
<2>1. /\ pc = "check" /\ pc' = "check" /\ unchecked' = unchecked \ {n}
      /\ UNCHANGED <<nodeName, entry, runsOn, overlooked>>
  BY <1>3 DEF CheckNodeFails, world, ldap, pool
<2>2. ASSUME NEW v \in inPool', status'[v] = "unknown"
      PROVE  Removable(v)' \/ entry'[v] \in unchecked'
  <3>1. v \in inPool /\ v \in Vm
    BY <2>1 DEF inPool
  <3>2. v \notin UnknownOn(n) /\ status[v] = "unknown"
    BY <1>3, <2>2, <3>1 DEF CheckNodeFails, TypeOK
  <3>3. entry[v] # n
    BY <2>1, <3>1, <3>2 DEF UnknownOn, Unknown, SparedInv
  <3> QED
    BY <2>1, <3>1, <3>2, <3>3 DEF SparedInv, Removable
<2>3. \A v \in inPool' : nodeName'[v] = entry'[v]
  BY <2>1 DEF SparedInv, inPool
<2> QED
  BY <2>1, <2>2, <2>3 DEF SparedInv, Cleaning, Creating
<1>4. CASE Checked
<2>1. /\ pc = "check" /\ pc' \in {"clean", "shutdown"} /\ unchecked = {}
      /\ UNCHANGED <<nodeName, status, entry, runsOn, overlooked>>
  BY <1>4 DEF Checked, world, ldap, pool, checks
<2>2. \A v \in Unknown' : Removable(v)'
  BY <2>1 DEF SparedInv, Unknown, inPool, Removable
<2> QED
  BY <2>1, <2>2 DEF SparedInv, Creating
<1>5. ASSUME NEW n \in Node, NEW missed \in SUBSET FoundOn(n), CheckNode(n, missed)
      PROVE  SparedInv'
<2>1. /\ pc = "check" /\ pc' = "check" /\ unchecked' = unchecked \ {n}
      /\ overlooked' = overlooked \cup missed
      /\ UNCHANGED <<nodeName, entry, runsOn>>
  BY <1>5 DEF CheckNode, world, ldap
<2>2. ASSUME NEW v \in inPool', status'[v] = "unknown"
      PROVE  Removable(v)' \/ entry'[v] \in unchecked'
  <3>1. v \in inPool /\ v \in Vm
    BY <2>1 DEF inPool
  <3>2. v \notin FoundOn(n) \ missed /\ status[v] = "unknown"
    BY <1>5, <2>2, <3>1 DEF CheckNode, TypeOK
  <3>3. CASE entry[v] = n
    BY <2>1, <3>1, <3>2, <3>3 DEF FoundOn, Removable
  <3>4. CASE entry[v] # n
    BY <2>1, <3>1, <3>2, <3>4 DEF SparedInv, Removable
  <3> QED
    BY <3>3, <3>4
<2>3. \A v \in inPool' : nodeName'[v] = entry'[v]
  BY <2>1 DEF SparedInv, inPool
<2> QED
  BY <2>1, <2>2, <2>3 DEF SparedInv, Cleaning, Creating
<1> QED
  BY <1>1, <1>2, <1>3, <1>4, <1>5 DEF Reads

LEMMA RemoveSparedInv ==
  ASSUME TypeOK, SparedInv, Removes
  PROVE  SparedInv'
<1>1. ASSUME NEW v \in Vm, RemoveUnknown(v) PROVE SparedInv'
<2>1. /\ pc = "clean" /\ pc' = "remove" /\ vm' = v /\ v \in Unknown
      /\ UNCHANGED <<nodeName, status, entry, runsOn, overlooked>>
  BY <1>1 DEF RemoveUnknown, world, ldap, pool, checks
<2>2. \A u \in Unknown' : Removable(u)'
  BY <2>1 DEF SparedInv, Cleaning, Unknown, inPool, Removable
<2>3. Removable(vm)'
  BY <2>1, <2>2 DEF Unknown, inPool, Removable
<2> QED
  BY <2>1, <2>2, <2>3 DEF SparedInv, Creating
<1>2. CASE Cleaned
  BY <1>2 DEF Cleaned, SparedInv, Cleaning, Creating
<1>3. CASE RemoveEntry
<2>1. /\ pc = "remove" /\ pc' = "removeDhcp" /\ vm \in Vm
      /\ nodeName' = [nodeName EXCEPT ![vm] = NoNode]
      /\ entry' = [entry EXCEPT ![vm] = NoNode]
      /\ UNCHANGED <<status, runsOn, overlooked, caller>>
  BY <1>3 DEF RemoveEntry, DropDisk, EntryRemoved, checks, call, TypeOK
<2>2. ASSUME NEW v \in Unknown' PROVE v \in Unknown /\ v # vm
  BY <2>1, <2>2 DEF Unknown, inPool, TypeOK
<2>3. Cleaning' => \A v \in Unknown' : Removable(v)'
  BY <2>1, <2>2 DEF SparedInv, Cleaning, Removable, Unknown, inPool, TypeOK
<2> QED
  BY <2>1, <2>3 DEF SparedInv, Creating
<1>4. CASE RemoveEntryFails
  BY <1>4 DEF RemoveEntryFails, Thrown, SparedInv, Cleaning, Creating
<1>5. CASE RemoveDhcp
<2>1. /\ pc = "removeDhcp" /\ pc' \in {"clean", "shutdown"}
      /\ pc' = "clean" => caller = "clean"
      /\ UNCHANGED <<nodeName, status, entry, runsOn, overlooked>>
  BY <1>5 DEF RemoveDhcp, Returned, pool, checks, TypeOK
<2>2. Cleaning' => \A v \in Unknown' : Removable(v)'
  BY <2>1 DEF SparedInv, Cleaning, Removable, Unknown, inPool
<2> QED
  BY <2>1, <2>2 DEF SparedInv, Creating
<1>6. CASE RemoveDhcpFails
  BY <1>6 DEF RemoveDhcpFails, Thrown, SparedInv, Cleaning, Creating
<1> QED
  BY <1>1, <1>2, <1>3, <1>4, <1>5, <1>6 DEF Removes

LEMMA OtherSparedInv ==
  ASSUME TypeOK, SparedInv, Creates \/ Migrates \/ Ends
  PROVE  SparedInv'
<1>1. ASSUME NEW n \in Node, NEW v \in Vm, PreStart(n, v) PROVE SparedInv'
  BY <1>1 DEF PreStart, Fresh, SparedInv, Cleaning, Creating, world
<1>2. CASE CreateStep
<2>1. /\ pc \in Creating /\ pc' \in Creating
      /\ UNCHANGED <<runsOn, vm>>
  BY <1>2 DEF CreateStep, AddEntry, CreateVolume, AddDiskEntry, AddDhcp, InstanceStep,
              Creating, call
<2> QED
  BY <2>1 DEF SparedInv, Cleaning, Creating
<1>3. CASE StartVmFails
<2>1. /\ pc = "start" /\ pc' = "remove" /\ caller' = "start"
      /\ UNCHANGED <<entry, runsOn, overlooked, vm>>
  BY <1>3 DEF StartVmFails, world, ldap, checks
<2> QED
  BY <2>1 DEF SparedInv, Cleaning, Creating, Removable
<1>4. CASE CreateVolumeFails \/ CloneFails \/ StartVm \/ Migrates
  BY <1>4 DEF CreateVolumeFails, CloneFails, StartVm, InstanceStep, Migrates, MigrateFirstVm, MigrateVm,
              MigrateFails, RecordMigration, PolicyDone, SparedInv, Cleaning, Creating
<1>5. ASSUME NEW v \in Vm, ShutdownVm(v) PROVE SparedInv'
<2>1. /\ pc' = "remove" /\ caller' = "shutdown" /\ vm' = v
      /\ runsOn'[v] = NoNode
  BY <1>5 DEF ShutdownVm, Destroyed, TypeOK
<2> QED
  BY <2>1 DEF SparedInv, Cleaning, Creating, Removable
<1>6. ASSUME NEW v \in Vm, ShutdownVmFails(v) PROVE SparedInv'
  BY <1>6 DEF ShutdownVmFails, SparedInv, Cleaning, Creating
<1>7. CASE ShutdownDone \/ Sleep \/ Crash
  BY <1>7 DEF ShutdownDone, Sleep, Crash, SparedInv, Cleaning, Creating
<1> QED
  BY <1>1, <1>2, <1>3, <1>4, <1>5, <1>6, <1>7 DEF Creates, Ends

\* What the nodes leave alone.
NodesKeep == /\ \A v \in Vm : runsOn'[v] \in {runsOn[v], NoNode}
             /\ UNCHANGED <<pc, pool, checks, call, ldap>>

LEMMA NodesOnlyStop ==
  ASSUME TypeOK, NodesAct
  PROVE  NodesKeep
<1>1. ASSUME NEW n \in Node, NodeFails(n) \/ NodeReturns(n) PROVE NodesKeep
  BY <1>1 DEF NodeFails, NodeReturns, NodesKeep
<1>2. ASSUME NEW n \in Node, NodeCrashes(n) PROVE NodesKeep
  BY <1>2 DEF NodeCrashes, NodesKeep
<1>3. ASSUME NEW v \in Vm, VmStops(v) PROVE NodesKeep
  BY <1>3 DEF TypeOK, VmStops, NodesKeep
<1> QED
  BY <1>1, <1>2, <1>3 DEF NodesAct

LEMMA NodesSparedInv ==
  ASSUME TypeOK, SparedInv, NodesAct
  PROVE  SparedInv'
<1>1. /\ \A v \in Vm : runsOn'[v] \in {runsOn[v], NoNode}
      /\ UNCHANGED <<pc, nodeName, status, entry, unchecked, overlooked, vm, caller>>
  BY NodesOnlyStop DEF NodesKeep, pool, checks, call, ldap
<1>2. \A v \in Vm : Removable(v) => Removable(v)'
  BY <1>1, RemovableKept DEF StillRemovable
<1>3. inPool' = inPool /\ Unknown' = Unknown /\ inPool \subseteq Vm
  BY <1>1 DEF inPool, Unknown
<1>4. pc = "check" =>
        \A v \in inPool' : /\ nodeName'[v] = entry'[v]
                           /\ status'[v] = "unknown" =>
                                Removable(v)' \/ entry'[v] \in unchecked'
  BY <1>1, <1>2, <1>3 DEF SparedInv
<1>5. Cleaning' => \A v \in Unknown' : Removable(v)'
  BY <1>1, <1>2, <1>3 DEF SparedInv, Cleaning, Unknown
<1>6. pc' \in Creating => runsOn'[vm'] = NoNode
  BY <1>1 DEF SparedInv, Creating, TypeOK, PolicyPhases
<1>7. pc' = "remove" => Removable(vm)'
  BY <1>1, <1>2 DEF SparedInv, TypeOK, Removable
<1> QED
  BY <1>1, <1>4, <1>5, <1>6, <1>7 DEF SparedInv

LEMMA NextSparedInv == TypeOK /\ SparedInv /\ [Next]_vars => SparedInv'
<1> SUFFICES ASSUME TypeOK, SparedInv, [Next]_vars PROVE SparedInv'
  OBVIOUS
<1>1. CASE UNCHANGED vars
  BY <1>1 DEF SparedInv, Cleaning, Creating, Unknown, inPool, Removable,
              vars, world, ldap, pool, checks, call
<1> QED
  BY <1>1, NextCases, ReadSparedInv, RemoveSparedInv, OtherSparedInv, NodesSparedInv

(***************************************************************************)
(* Why machines are spared: what Vm::remove is called for does not run, or *)
(* not where its entry says, or was overlooked.                            *)
(***************************************************************************)
THEOREM SparedInvariant == Spec => []SparedInv
  BY InitTypeOK, NextTypeOK, InitSparedInv, NextSparedInv, PTL DEF Spec

\* The steps that change an entry or take a disk away.
LEMMA WhoTakesAway ==
  ASSUME TypeOK, [Next]_vars, NEW v \in Vm, entry[v] # NoNode
  PROVE  \/ pc = "remove" /\ vm = v
         \/ entry'[v] # NoNode /\ (v \in disk => v \in disk')
<1>1. CASE Reads
  BY <1>1 DEF Reads, ReadPools, ReadPoolsFails, CheckNodeFails, Checked, world, ldap
<1>2. CASE Removes
<2>1. CASE RemoveEntry \/ RemoveEntryFails
  BY <2>1 DEF RemoveEntry, RemoveEntryFails, DropDisk, EntryRemoved, TypeOK
<2>2. CASE RemoveDhcp
  BY <2>2 DEF RemoveDhcp
<2>3. CASE RemoveDhcpFails \/ Cleaned \/ \E u \in Vm : RemoveUnknown(u)
  BY <2>3 DEF RemoveDhcpFails, Cleaned, RemoveUnknown, world, ldap
<2> QED
  BY <1>2, <2>1, <2>2, <2>3 DEF Removes
<1>3. CASE Creates
<2>1. CASE CreateStep
  <3>1. node \in Node /\ node # NoNode
    BY <2>1, NodeAssumption
       DEF CreateStep, AddEntry, CreateVolume, AddDiskEntry, AddDhcp, InstanceStep,
           TypeOK, PolicyPhases
  <3> QED
    BY <2>1, <3>1 DEF CreateStep, AddEntry, CreateVolume, AddDiskEntry, AddDhcp, ldap, TypeOK
<2>2. CASE StartVm
  BY <2>2 DEF StartVm, ldap
<2>3. CASE CreateVolumeFails \/ CloneFails \/ StartVmFails
           \/ \E n \in Node, u \in Vm : PreStart(n, u)
  BY <2>3 DEF CreateVolumeFails, CloneFails, StartVmFails, PreStart, world, ldap
<2> QED
  BY <1>3, <2>1, <2>2, <2>3 DEF Creates
<1>4. CASE Migrates
<2>1. CASE RecordMigration
  <3>1. node \in Node /\ node # NoNode
    BY <2>1, NodeAssumption DEF RecordMigration, TypeOK, PolicyPhases
  <3> QED
    BY <2>1, <3>1 DEF RecordMigration, Recorded, TypeOK
<2>2. CASE MigrateVm
  BY <2>2 DEF MigrateVm, ldap
<2>3. CASE \/ MigrateFails \/ PolicyDone
           \/ \E m, n \in Node, u \in Vm : MigrateFirstVm(m, n, u)
  BY <2>3 DEF MigrateFails, PolicyDone, MigrateFirstVm, world, ldap
<2> QED
  BY <1>4, <2>1, <2>2, <2>3 DEF Migrates
<1>5. CASE Ends
  BY <1>5 DEF Ends, ShutdownVm, ShutdownVmFails, ShutdownDone, Sleep, Crash, world, ldap
<1>6. CASE NodesAct
  BY <1>6 DEF NodesAct, NodeFails, NodeCrashes, NodeReturns, VmStops, ldap
<1>7. CASE \E n \in Node : \E missed \in SUBSET FoundOn(n) : CheckNode(n, missed)
  BY <1>7 DEF CheckNode, world, ldap
<1>8. CASE UNCHANGED vars
  BY <1>8 DEF vars, world, ldap
<1> QED
  BY <1>1, <1>2, <1>3, <1>4, <1>5, <1>6, <1>7, <1>8, NextCases

(***************************************************************************)
(* A machine that runs where LDAP says it runs, and was not overlooked in  *)
(* this round, keeps its entry and its disk, for any number of nodes,      *)
(* machines, failures and crashes.                                         *)
(***************************************************************************)
THEOREM Spared == Spec => RunningSpared
<1>1. ASSUME TypeOK, SparedInv, [Next]_vars
      PROVE  [\A v \in Vm :
                /\ runsOn[v] # NoNode /\ runsOn'[v] = runsOn[v]
                /\ runsOn[v] = entry[v] /\ v \notin overlooked
                => entry'[v] # NoNode /\ (v \in disk => v \in disk')]_vars
  <2> SUFFICES ASSUME NEW v \in Vm, runsOn[v] # NoNode, runsOn[v] = entry[v],
                      v \notin overlooked
               PROVE  entry'[v] # NoNode /\ (v \in disk => v \in disk')
    OBVIOUS
  <2>1. ~ Removable(v)
    BY DEF Removable
  <2>2. ~ (pc = "remove" /\ vm = v)
    BY <1>1, <2>1 DEF SparedInv, Removable
  <2> QED
    BY <1>1, <2>2, WhoTakesAway
<1> QED
  BY <1>1, TypeCorrect, SparedInvariant, PTL DEF Spec, RunningSpared

-----------------------------------------------------------------------------
\* The policy decides on a complete picture.

LEMMA InitStatusInv == Init => StatusInv
  BY DEF Init, StatusInv, Cleaning, PolicyPhases

LEMMA NextStatusInv == TypeOK /\ StatusInv /\ [Next]_vars => StatusInv'
<1> SUFFICES ASSUME TypeOK, StatusInv, [Next]_vars PROVE StatusInv'
  OBVIOUS
<1> USE DEF StatusInv, NoneToCheckAgain, Cleaning, PolicyPhases
<1>1. CASE Reads
<2>1. ASSUME NEW due \in BOOLEAN, ReadPools(due) PROVE StatusInv'
  BY <2>1 DEF ReadPools
<2>2. CASE ReadPoolsFails
  BY <2>2 DEF ReadPoolsFails
<2>3. ASSUME NEW n \in Node, CheckNodeFails(n) PROVE StatusInv'
  <3>1. pc' = "check" /\ (retval' => retval /\ UnknownOn(n) = {})
    BY <2>3 DEF CheckNodeFails
  <3>2. retval' => \A v \in Vm : status'[v] = status[v]
    BY <2>3, <3>1 DEF CheckNodeFails, TypeOK
  <3> QED
    BY <2>3, <3>1, <3>2 DEF CheckNodeFails
<2>4. CASE Checked
  BY <2>4 DEF Checked, checks
<2> QED
  BY <1>1, <2>1, <2>2, <2>3, <2>4 DEF Reads
<1>2. CASE Removes
<2>1. CASE RemoveDhcp
  <3>1. pc' \in {"clean", "shutdown"} /\ (pc' = "clean" => caller = "clean")
    BY <2>1 DEF RemoveDhcp, Returned, TypeOK
  <3> QED
    BY <2>1, <3>1 DEF RemoveDhcp, checks
<2>2. CASE RemoveEntryFails \/ RemoveDhcpFails
  BY <2>2 DEF RemoveEntryFails, RemoveDhcpFails, Thrown
<2>3. CASE RemoveEntry \/ Cleaned \/ \E v \in Vm : RemoveUnknown(v)
  BY <2>3 DEF RemoveEntry, Cleaned, RemoveUnknown, checks, call
<2> QED
  BY <1>2, <2>1, <2>2, <2>3 DEF Removes
<1>3. CASE Creates
<2>1. CASE StartVmFails
  BY <2>1 DEF StartVmFails
<2>2. CASE CreateStep \/ StartVm
  <3>1. /\ pc \in PolicyPhases /\ pc' \in PolicyPhases /\ UNCHANGED checks
    BY <2>2 DEF CreateStep, AddEntry, CreateVolume, AddDiskEntry, AddDhcp, InstanceStep, StartVm
  <3> QED
    BY <3>1 DEF checks
<2>3. CASE CreateVolumeFails \/ CloneFails \/ \E n \in Node, v \in Vm : PreStart(n, v)
  BY <2>3 DEF CreateVolumeFails, InstanceStep, CloneFails, PreStart, checks
<2> QED
  BY <1>3, <2>1, <2>2, <2>3 DEF Creates
<1>4. CASE Migrates
  BY <1>4 DEF Migrates, MigrateFirstVm, MigrateVm, MigrateFails, RecordMigration, PolicyDone,
              checks
<1>5. CASE Ends
<2>1. CASE Sleep \/ Crash
  BY <2>1 DEF Sleep, Crash, Cleared
<2>2. CASE ShutdownDone \/ \E v \in Vm : ShutdownVm(v) \/ ShutdownVmFails(v)
  BY <2>2 DEF ShutdownDone, ShutdownVm, ShutdownVmFails
<2> QED
  BY <1>5, <2>1, <2>2 DEF Ends
<1>6. CASE NodesAct
<2>1. UNCHANGED <<pc, status, retval, caller>>
  BY <1>6, NodesOnlyStop DEF NodesKeep, checks, call
<2> QED
  BY <2>1
<1>7. CASE \E n \in Node : \E missed \in SUBSET FoundOn(n) : CheckNode(n, missed)
  BY <1>7 DEF CheckNode, TypeOK
<1>8. CASE UNCHANGED vars
  BY <1>8 DEF vars, checks, call
<1> QED
  BY <1>1, <1>2, <1>3, <1>4, <1>5, <1>6, <1>7, <1>8, NextCases

LEMMA InitPoolInv == Init => PoolInv
  BY DEF Init, PoolInv, Tracked, Cleaning, Creating

LEMMA ReadPoolInv ==
  ASSUME TypeOK, PoolInv,
         \/ Reads
         \/ \E n \in Node : \E missed \in SUBSET FoundOn(n) : CheckNode(n, missed)
  PROVE  PoolInv'
<1> USE DEF Tracked, Cleaning, Creating
<1>1. ASSUME NEW due \in BOOLEAN, ReadPools(due) PROVE PoolInv'
<2>1. /\ pc' = "check" /\ nodeName' = entry /\ entry' = entry
      /\ wrapper' = [n \in Node |-> {v \in Vm : entry[v] = n}]
  BY <1>1 DEF ReadPools, world, ldap
<2>2. inPool' = Entries'
  BY <2>1 DEF inPool, Entries
<2>3. ASSUME NEW n \in Node, NEW v \in wrapper'[n] PROVE v \in inPool' /\ n = nodeName'[v]
  BY <2>1, <2>3, NodeAssumption DEF inPool
<2> QED
  BY <2>1, <2>2, <2>3 DEF PoolInv
<1>2. CASE ReadPoolsFails
  BY <1>2 DEF PoolInv, ReadPoolsFails
<1>3. ASSUME NEW n \in Node, CheckNodeFails(n) PROVE PoolInv'
<2>1. /\ pc = "check" /\ pc' = "check"
      /\ UNCHANGED <<nodeName, entry, wrapper>>
  BY <1>3 DEF CheckNodeFails, world, ldap, pool
<2>2. inPool' = inPool /\ Entries' = Entries
  BY <2>1 DEF inPool, Entries
<2>3. Unknown' \subseteq Unknown
  BY <1>3, <2>2 DEF Unknown, inPool, CheckNodeFails, TypeOK
<2> QED
  BY <2>1, <2>2, <2>3 DEF PoolInv
<1>4. CASE Checked
<2>1. /\ pc = "check" /\ pc' \in {"clean", "shutdown"}
      /\ UNCHANGED <<nodeName, entry, status, wrapper>>
  BY <1>4 DEF Checked, world, ldap, pool, checks
<2>2. inPool' = inPool /\ Entries' = Entries /\ Unknown' = Unknown
  BY <2>1 DEF inPool, Entries, Unknown
<2> QED
  BY <2>1, <2>2 DEF PoolInv
<1>5. ASSUME NEW n \in Node, NEW missed \in SUBSET FoundOn(n), CheckNode(n, missed)
      PROVE  PoolInv'
<2>1. /\ pc = "check" /\ pc' = "check"
      /\ wrapper' = [wrapper EXCEPT ![n] = @ \cup (FoundOn(n) \ missed)]
      /\ UNCHANGED <<nodeName, entry>>
  BY <1>5 DEF CheckNode, world, ldap
<2>2. inPool' = inPool /\ Entries' = Entries /\ inPool \subseteq Vm
  BY <2>1 DEF inPool, Entries
<2>3. \A v \in Unknown' : v \in Unknown /\ v \notin FoundOn(n) \ missed
  BY <1>5, <2>2 DEF Unknown, inPool, CheckNode, TypeOK
<2>4. \A m \in Node : wrapper'[m] \subseteq wrapper[m] \cup (FoundOn(n) \ missed)
  BY <2>1 DEF TypeOK
<2>5. \A m \in Node : wrapper'[m] \subseteq inPool'
  BY <2>1, <2>2, <2>4 DEF FoundOn, PoolInv
<2>6. \A v \in Unknown' : \A m \in Node : v \in wrapper'[m] => m = nodeName'[v]
  BY <2>1, <2>3, <2>4 DEF PoolInv
<2> QED
  BY <2>1, <2>2, <2>5, <2>6 DEF PoolInv
<1> QED
  BY <1>1, <1>2, <1>3, <1>4, <1>5 DEF Reads

LEMMA RemovePoolInv ==
  ASSUME TypeOK, PoolInv, Removes
  PROVE  PoolInv'
<1> USE DEF Tracked, Cleaning, Creating
<1>1. ASSUME NEW v \in Vm, RemoveUnknown(v) PROVE PoolInv'
<2>1. /\ pc = "clean" /\ pc' = "remove" /\ vm' = v /\ v \in Unknown
      /\ UNCHANGED <<nodeName, entry, status, wrapper>>
  BY <1>1 DEF RemoveUnknown, world, ldap, pool, checks
<2>2. inPool' = inPool /\ Entries' = Entries /\ Unknown' = Unknown
  BY <2>1 DEF inPool, Entries, Unknown
<2> QED
  BY <2>1, <2>2 DEF PoolInv
<1>2. CASE Cleaned
<2>1. /\ pc = "clean" /\ pc' = "policy"
      /\ UNCHANGED <<nodeName, entry, wrapper>>
  BY <1>2 DEF Cleaned, world, ldap, pool
<2>2. inPool' = inPool /\ Entries' = Entries
  BY <2>1 DEF inPool, Entries
<2> QED
  BY <2>1, <2>2 DEF PoolInv
<1>3. CASE RemoveEntry
<2>1. /\ pc = "remove" /\ pc' = "removeDhcp" /\ vm \in Vm
      /\ nodeName' = [nodeName EXCEPT ![vm] = NoNode]
      /\ entry' = [entry EXCEPT ![vm] = NoNode]
      /\ wrapper' = [n \in Node |-> IF n = nodeName[vm] THEN wrapper[n] \ {vm} ELSE wrapper[n]]
      /\ UNCHANGED <<status, caller>>
  BY <1>3 DEF RemoveEntry, DropDisk, EntryRemoved, checks, call, TypeOK
<2>2. inPool' = inPool \ {vm} /\ Entries' = Entries \ {vm} /\ Unknown' \subseteq Unknown
  BY <2>1 DEF inPool, Entries, Unknown, TypeOK
<2>3. CASE caller = "clean"
  <3>1. inPool' = Entries'
    BY <2>1, <2>2, <2>3 DEF PoolInv
  <3>2. \A n \in Node : wrapper'[n] \subseteq wrapper[n] /\ vm \notin wrapper'[n]
    BY <2>1, <2>3 DEF PoolInv
  <3>3. \A n \in Node : wrapper'[n] \subseteq inPool'
    BY <2>1, <2>2, <2>3, <3>2 DEF PoolInv
  <3>4. \A v \in Unknown' : v \in Vm /\ v # vm
    BY <2>2 DEF Unknown, inPool
  <3>5. \A v \in Unknown' : nodeName'[v] = nodeName[v]
    BY <2>1, <3>4 DEF TypeOK
  <3>6. \A v \in Unknown' : \A n \in Node : v \in wrapper'[n] => n = nodeName'[v]
    BY <2>1, <2>2, <2>3, <3>2, <3>5 DEF PoolInv
  <3> QED
    BY <2>1, <3>1, <3>3, <3>6 DEF PoolInv
<2>4. CASE caller # "clean"
  BY <2>1, <2>4 DEF PoolInv
<2> QED
  BY <2>3, <2>4
<1>4. CASE RemoveEntryFails \/ RemoveDhcpFails
  BY <1>4 DEF RemoveEntryFails, RemoveDhcpFails, Thrown, PoolInv
<1>5. CASE RemoveDhcp
<2>1. /\ pc = "removeDhcp" /\ pc' \in {"clean", "shutdown"}
      /\ pc' = "clean" => caller = "clean"
      /\ UNCHANGED <<nodeName, entry, status, wrapper>>
  BY <1>5 DEF RemoveDhcp, Returned, pool, checks, TypeOK
<2>2. inPool' = inPool /\ Entries' = Entries /\ Unknown' = Unknown
  BY <2>1 DEF inPool, Entries, Unknown
<2> QED
  BY <2>1, <2>2 DEF PoolInv
<1> QED
  BY <1>1, <1>2, <1>3, <1>4, <1>5 DEF Removes

LEMMA PoolSizes ==
  /\ IsFiniteSet(inPool) /\ Cardinality(inPool) \in Nat
  /\ IsFiniteSet(Entries) /\ Cardinality(Entries) \in Nat
<1>1. inPool \subseteq Vm /\ Entries \subseteq Vm
  BY DEF inPool, Entries
<1> QED
  BY <1>1, VmAssumption, FS_Subset, FS_CardinalityType

LEMMA CreatePoolInv ==
  ASSUME TypeOK, PoolInv, Creates
  PROVE  PoolInv'
<1> USE DEF Tracked, Cleaning, Creating
<1>1. ASSUME NEW n \in Node, NEW v \in Vm, PreStart(n, v) PROVE PoolInv'
<2>1. /\ pc = "policy" /\ pc' = "clone" /\ NumberToStart > 0
      /\ UNCHANGED <<nodeName, entry, wrapper>>
  BY <1>1 DEF PreStart, world, ldap, pool
<2>2. inPool' = inPool /\ Entries' = Entries
  BY <2>1 DEF inPool, Entries
<2>3. Cardinality(inPool) < Demand
  BY <2>1, PoolSizes, LimitsAssumption DEF NumberToStart
<2> QED
  BY <2>1, <2>2, <2>3 DEF PoolInv
<1>2. CASE AddEntry
<2>1. /\ pc = "clone" /\ pc' = "volume" /\ vm \in Vm /\ node \in Node /\ vm' = vm
      /\ entry' = [entry EXCEPT ![vm] = node]
      /\ UNCHANGED <<nodeName, wrapper>>
  BY <1>2 DEF AddEntry, InstanceStep, pool, call, TypeOK, PolicyPhases
<2>2. inPool' = inPool /\ Entries' = Entries \cup {vm}
  BY <2>1, NodeAssumption DEF inPool, Entries, TypeOK
<2> QED
  BY <2>1, <2>2 DEF PoolInv
<1>3. CASE CreateVolume \/ AddDiskEntry \/ AddDhcp
<2>1. /\ pc \in Creating \ {"clone"} /\ pc' \in Creating \ {"clone"}
      /\ UNCHANGED <<nodeName, entry, wrapper, vm>>
  BY <1>3 DEF CreateVolume, AddDiskEntry, AddDhcp, InstanceStep, pool, call, ldap
<2>2. inPool' = inPool /\ Entries' = Entries
  BY <2>1 DEF inPool, Entries
<2> QED
  BY <2>1, <2>2 DEF PoolInv
<1>4. CASE StartVm
<2>1. /\ pc = "start" /\ pc' = "policy" /\ vm \in Vm /\ node \in Node
      /\ nodeName' = [nodeName EXCEPT ![vm] = node]
      /\ wrapper' = [wrapper EXCEPT ![node] = @ \cup {vm}]
      /\ UNCHANGED entry
  BY <1>4 DEF StartVm, InstanceStep, ldap, TypeOK, PolicyPhases
<2>2. inPool' = inPool \cup {vm} /\ Entries' = Entries
  BY <2>1, NodeAssumption DEF inPool, Entries, TypeOK
<2>3. \A n \in Node : wrapper'[n] \subseteq inPool'
  BY <2>1, <2>2 DEF PoolInv, TypeOK
<2> QED
  BY <2>1, <2>2, <2>3 DEF PoolInv
<1>5. CASE CreateVolumeFails \/ CloneFails \/ StartVmFails
  BY <1>5 DEF CreateVolumeFails, InstanceStep, CloneFails, StartVmFails, PoolInv
<1> QED
  BY <1>1, <1>2, <1>3, <1>4, <1>5 DEF Creates, CreateStep

LEMMA MigratePoolInv ==
  ASSUME TypeOK, PoolInv, Migrates
  PROVE  PoolInv'
<1> USE DEF Tracked, Cleaning, Creating
<1>1. ASSUME NEW source \in Node, NEW dest \in Node, NEW v \in Vm,
             MigrateFirstVm(source, dest, v)
      PROVE  PoolInv'
<2>1. /\ pc = "policy" /\ pc' = "migrate" /\ vm' = v /\ v \in wrapper[source]
      /\ wrapper' = [wrapper EXCEPT ![source] = @ \ {v}, ![dest] = @ \cup {v}]
      /\ UNCHANGED <<nodeName, entry>>
  BY <1>1 DEF MigrateFirstVm, world, ldap
<2>2. inPool' = inPool /\ Entries' = Entries
  BY <2>1 DEF inPool, Entries
<2>3. v \in inPool
  BY <2>1 DEF PoolInv
<2>4. \A n \in Node : wrapper'[n] \subseteq wrapper[n] \cup {v}
  BY <2>1 DEF TypeOK
<2>5. \A n \in Node : wrapper'[n] \subseteq inPool'
  BY <2>1, <2>2, <2>3, <2>4 DEF PoolInv
<2> QED
  BY <2>1, <2>2, <2>3, <2>5 DEF PoolInv
<1>2. CASE RecordMigration
<2>1. /\ pc = "record" /\ pc' = "policy" /\ node \in Node /\ vm \in inPool
      /\ entry' = [entry EXCEPT ![vm] = node]
      /\ UNCHANGED <<nodeName, wrapper>>
  BY <1>2 DEF RecordMigration, Recorded, pool, PoolInv, TypeOK, PolicyPhases
<2>2. inPool' = inPool /\ inPool = Entries
  BY <2>1 DEF inPool, PoolInv
<2>3. Entries' = Entries
  BY <2>1, <2>2, NodeAssumption DEF Entries, TypeOK
<2> QED
  BY <2>1, <2>2, <2>3 DEF PoolInv
<1>3. CASE MigrateVm \/ MigrateFails \/ PolicyDone
<2>1. /\ \/ pc = "migrate" /\ pc' = "record" /\ vm' = vm
         \/ pc \in {"migrate", "record", "policy"} /\ pc' \in {"policy", "shutdown"}
      /\ UNCHANGED <<nodeName, entry, wrapper>>
  BY <1>3 DEF MigrateVm, MigrateFails, PolicyDone, world, ldap, pool, call
<2>2. inPool' = inPool /\ Entries' = Entries
  BY <2>1 DEF inPool, Entries
<2> QED
  BY <2>1, <2>2 DEF PoolInv
<1> QED
  BY <1>1, <1>2, <1>3 DEF Migrates

LEMMA NextPoolInv == TypeOK /\ PoolInv /\ [Next]_vars => PoolInv'
<1> SUFFICES ASSUME TypeOK, PoolInv, [Next]_vars PROVE PoolInv'
  OBVIOUS
<1>1. CASE Ends
<2>1. CASE \E v \in Vm : ShutdownVm(v)
  BY <2>1 DEF ShutdownVm, PoolInv, Tracked, Cleaning, Creating
<2>2. CASE ShutdownDone \/ Sleep \/ Crash \/ \E v \in Vm : ShutdownVmFails(v)
  BY <2>2 DEF ShutdownDone, Sleep, Crash, ShutdownVmFails, PoolInv, Tracked, Cleaning, Creating
<2> QED
  BY <1>1, <2>1, <2>2 DEF Ends
<1>2. CASE NodesAct \/ UNCHANGED vars
<2>1. UNCHANGED <<pc, nodeName, entry, wrapper, status, vm, caller>>
  BY <1>2, NodesOnlyStop DEF NodesKeep, vars, world, ldap, pool, checks, call
<2>2. inPool' = inPool /\ Entries' = Entries /\ Unknown' = Unknown
  BY <2>1 DEF inPool, Entries, Unknown
<2> QED
  BY <2>1, <2>2 DEF PoolInv, Tracked, Cleaning, Creating
<1> QED
  BY <1>1, <1>2, NextCases, ReadPoolInv, RemovePoolInv, CreatePoolInv, MigratePoolInv

(***************************************************************************)
(* What the policy counts is what LDAP has entries for, and nothing of it  *)
(* was out of reach when it was checked.                                   *)
(***************************************************************************)
THEOREM SeesAll == Spec => []PolicySeesAll
<1>1. TypeOK /\ PoolInv /\ StatusInv => PolicySeesAll
  BY DEF PoolInv, Tracked, StatusInv, NoneToCheckAgain, PolicySeesAll, PolicyPhases, inPool
<1> QED
  BY <1>1, InitTypeOK, NextTypeOK, InitPoolInv, NextPoolInv, InitStatusInv, NextStatusInv,
     PTL DEF Spec

\* Only cloneVm adds an entry, and only to a pool with room.
LEMMA WhoAdds ==
  ASSUME TypeOK, PoolInv, [Next]_vars
  PROVE  \/ Entries' \subseteq Entries
         \/ /\ Cardinality(Entries) < Demand
            /\ Entries' = Entries \cup {vm}
<1>1. CASE UNCHANGED entry
  BY <1>1 DEF Entries
<1>2. CASE AddEntry
<2>1. /\ vm \in Vm /\ node \in Node /\ entry' = [entry EXCEPT ![vm] = node] /\ pc = "clone"
  BY <1>2 DEF AddEntry, InstanceStep, TypeOK, PolicyPhases
<2>2. Entries' = Entries \cup {vm}
  BY <2>1, NodeAssumption DEF Entries, TypeOK
<2> QED
  BY <2>1, <2>2 DEF PoolInv, Tracked
<1>3. CASE RemoveEntry
  BY <1>3 DEF RemoveEntry, EntryRemoved, Entries, TypeOK
<1>4. CASE RecordMigration
<2>1. vm \in Entries
  BY <1>4 DEF RecordMigration, PoolInv, Tracked
<2> QED
  BY <1>4, <2>1 DEF RecordMigration, Recorded, Entries, TypeOK
<1>5. \/ UNCHANGED entry \/ AddEntry \/ RemoveEntry \/ RecordMigration
<2>1. Reads => UNCHANGED entry
  BY DEF Reads, ReadPools, ReadPoolsFails, CheckNodeFails, Checked, world, ldap
<2>2. Removes => RemoveEntry \/ UNCHANGED entry
  BY DEF Removes, RemoveUnknown, Cleaned, RemoveEntryFails, RemoveDhcp, RemoveDhcpFails,
         world, ldap
<2>3. Creates => AddEntry \/ UNCHANGED entry
  BY DEF Creates, CreateStep, PreStart, CreateVolume, CreateVolumeFails, AddDiskEntry,
         AddDhcp, CloneFails, StartVm, StartVmFails, world, ldap
<2>4. Migrates => RecordMigration \/ UNCHANGED entry
  BY DEF Migrates, MigrateFirstVm, MigrateVm, MigrateFails, PolicyDone, world, ldap
<2>5. Ends => UNCHANGED entry
  BY DEF Ends, ShutdownVm, ShutdownVmFails, ShutdownDone, Sleep, Crash, world, ldap
<2>6. NodesAct => UNCHANGED entry
  BY NodesOnlyStop DEF NodesKeep, ldap
<2>7. (\E n \in Node : \E missed \in SUBSET FoundOn(n) : CheckNode(n, missed))
        => UNCHANGED entry
  BY DEF CheckNode, world, ldap
<2>8. UNCHANGED vars => UNCHANGED entry
  BY DEF vars, world, ldap
<2> QED
  BY <2>1, <2>2, <2>3, <2>4, <2>5, <2>6, <2>7, <2>8, NextCases
<1> QED
  BY <1>1, <1>2, <1>3, <1>4, <1>5

LEMMA NextNeverTooMany ==
  TypeOK /\ PoolInv /\ NeverTooMany /\ [Next]_vars => NeverTooMany'
<1> SUFFICES ASSUME TypeOK, PoolInv, NeverTooMany, [Next]_vars PROVE NeverTooMany'
  OBVIOUS
<1>1. IsFiniteSet(Entries) /\ Cardinality(Entries) \in Nat
  BY PoolSizes
<1>2. CASE Entries' \subseteq Entries
<2>1. Cardinality(Entries') <= Cardinality(Entries) /\ Cardinality(Entries') \in Nat
  BY <1>1, <1>2, FS_Subset, FS_CardinalityType
<2> QED
  BY <1>1, <2>1, LimitsAssumption DEF NeverTooMany
<1>3. CASE Cardinality(Entries) < Demand /\ Entries' = Entries \cup {vm}
<2>1. Cardinality(Entries \cup {vm}) \in {Cardinality(Entries), Cardinality(Entries) + 1}
  BY <1>1, FS_AddElement
<2>2. Cardinality(Entries \cup {vm}) \in Nat
  BY <1>1, FS_AddElement, FS_CardinalityType
<2> QED
  BY <1>1, <1>3, <2>1, <2>2, LimitsAssumption DEF NeverTooMany
<1> QED
  BY <1>2, <1>3, WhoAdds

(***************************************************************************)
(* The pool never has more machines than were asked for, however many      *)
(* calls fail and however often the daemon is started again.               *)
(***************************************************************************)
THEOREM NotTooMany == Spec => []NeverTooMany
<1>1. Init => NeverTooMany
  BY DEF Init, NeverTooMany
<1> QED
  BY <1>1, InitTypeOK, NextTypeOK, InitPoolInv, NextPoolInv, NextNeverTooMany, PTL DEF Spec

-----------------------------------------------------------------------------

(***************************************************************************)
(* Proofs about what a failure leaves behind in Broker: between rounds no  *)
(* more machines are incomplete than there have been disturbances.         *)
(*                                                                         *)
(* A disturbance does not always leave its machine behind at once: one     *)
(* failure of the golden node fails every volume from then on, and every   *)
(* failed volume leaves an entry without anything below it.  Such an entry *)
(* runs nowhere and is removed without a trace before the policy begins    *)
(* anew, so that there is one of them at most and the failure of the node  *)
(* pays for it.                                                            *)
(***************************************************************************)

\* createInstance and remove may do what is left to do for their machine, but
\* for a disk file without entry, which remove does not know of.
InHand(v) ==
  /\ v = vm
  /\ \/ pc \in Creating
     \/ pc \in {"remove", "removeDhcp"} /\ (v \in disk => v \in diskEntry)
Unborn(v) == entry[v] # NoNode /\ v \notin diskEntry \cup dhcp \cup disk
Leftovers == {v \in Vm : ~ Complete(v) /\ ~ Gone(v) /\ ~ InHand(v)}
Lasting == {v \in Leftovers : ~ Unborn(v)}

\* How far the machine in hand has come.
ProgressInv ==
  /\ pc = "clone" => Gone(vm)
  /\ pc = "volume" => Unborn(vm)
  /\ pc \in {"diskEntry", "dhcp", "start"} => entry[vm] # NoNode /\ vm \in disk
  /\ pc \in {"dhcp", "start"} => vm \in diskEntry
  /\ pc = "start" => vm \in dhcp
  /\ pc = "removeDhcp" => entry[vm] = NoNode /\ vm \notin diskEntry

\* A machine that was ever started has a DHCP entry as long as it has its own.
DhcpInv ==
  /\ \A v \in Entries \ dhcp :
       runsOn[v] = NoNode /\ (v \in inPool => status[v] # "running")
  /\ pc \in PolicyPhases => \A v \in Entries \ dhcp : pc \in Creating /\ v = vm

PaidInv ==
  /\ Cardinality(Leftovers) <= disturbances
  /\ ~ Usable(GoldenNode) => Cardinality(Lasting) + 1 <= disturbances

Known == TypeOK /\ SparedInv /\ StatusInv /\ PoolInv
AsksNode == \E n \in Node : \E missed \in SUBSET FoundOn(n) : CheckNode(n, missed)

-----------------------------------------------------------------------------
\* Who changes what.

LEMMA WhoWrites ==
  ASSUME [Next]_vars
  PROVE  \/ RemoveEntry \/ RemoveEntryFails \/ RemoveDhcp
         \/ AddEntry \/ CreateVolume \/ AddDiskEntry \/ AddDhcp \/ RecordMigration
         \/ UNCHANGED <<ldap, disk>>
<1>1. CASE Reads \/ AsksNode
  BY <1>1 DEF Reads, AsksNode, ReadPools, ReadPoolsFails, CheckNode, CheckNodeFails, Checked,
              world
<1>2. CASE Removes
  BY <1>2 DEF Removes, RemoveUnknown, Cleaned, RemoveDhcpFails, world
<1>3. CASE Creates
  BY <1>3 DEF Creates, CreateStep, PreStart, CreateVolumeFails, CloneFails, StartVm,
              StartVmFails, world
<1>4. CASE Migrates
  BY <1>4 DEF Migrates, MigrateFirstVm, MigrateVm, MigrateFails, PolicyDone, world
<1>5. CASE Ends
  BY <1>5 DEF Ends, ShutdownVm, ShutdownVmFails, ShutdownDone, Sleep, Crash, world
<1>6. CASE NodesAct
  BY <1>6 DEF NodesAct, NodeFails, NodeCrashes, NodeReturns, VmStops, world
<1>7. CASE UNCHANGED vars
  BY <1>7 DEF vars, world
<1> QED
  BY <1>1, <1>2, <1>3, <1>4, <1>5, <1>6, <1>7, NextCases DEF AsksNode

\* What the writing steps are about.
LEMMA WritesTypes ==
  ASSUME Known,
         \/ RemoveEntry \/ RemoveEntryFails \/ RemoveDhcp
         \/ AddEntry \/ CreateVolume \/ AddDiskEntry \/ AddDhcp \/ RecordMigration
  PROVE  vm \in Vm
BY DEF Known, TypeOK, RemoveEntry, RemoveEntryFails, RemoveDhcp, AddEntry, CreateVolume,
       AddDiskEntry, AddDhcp, RecordMigration, InstanceStep, PolicyPhases

LEMMA NodePresent ==
  ASSUME Known, AddEntry \/ RecordMigration
  PROVE  node \in Node /\ node # NoNode
BY NodeAssumption DEF Known, TypeOK, AddEntry, RecordMigration, InstanceStep, PolicyPhases

\* Machines that are not in hand stay as they are.
SameParts(v) ==
  /\ (entry'[v] = NoNode) <=> (entry[v] = NoNode)
  /\ v \in diskEntry' <=> v \in diskEntry
  /\ v \in dhcp' <=> v \in dhcp
  /\ v \in disk' <=> v \in disk

LEMMA OthersKept ==
  ASSUME Known, [Next]_vars, NEW v \in Vm, v # vm
  PROVE  SameParts(v)
<1>1. CASE UNCHANGED <<ldap, disk>>
  BY <1>1 DEF SameParts, ldap
<1>2. CASE RemoveEntry \/ RemoveEntryFails
  BY <1>2 DEF RemoveEntry, RemoveEntryFails, DropDisk, EntryRemoved, SameParts, Known, TypeOK
<1>3. CASE RemoveDhcp
  BY <1>3 DEF RemoveDhcp, SameParts
<1>4. CASE AddEntry \/ RecordMigration
  BY <1>4 DEF AddEntry, RecordMigration, Recorded, SameParts, Known, TypeOK
<1>5. CASE CreateVolume \/ AddDiskEntry \/ AddDhcp
  BY <1>5 DEF CreateVolume, AddDiskEntry, AddDhcp, SameParts, ldap
<1> QED
  BY <1>1, <1>2, <1>3, <1>4, <1>5, WhoWrites

LEMMA NoOthers ==
  ASSUME Known, [Next]_vars
  PROVE  Leftovers' \subseteq Leftovers \cup {vm} /\ Lasting' \subseteq Lasting \cup {vm}
<1> SUFFICES ASSUME NEW v \in Vm, v # vm
             PROVE  /\ v \in Leftovers' => v \in Leftovers
                    /\ v \in Lasting' => v \in Lasting
  BY DEF Leftovers, Lasting
<1>1. SameParts(v)
  BY OthersKept
<1>2. ~ InHand(v)
  BY DEF InHand
<1>3. (Complete(v)' <=> Complete(v)) /\ (Gone(v)' <=> Gone(v)) /\ (Unborn(v)' <=> Unborn(v))
  BY <1>1 DEF SameParts, Complete, Gone, Unborn
<1> QED
  BY <1>2, <1>3 DEF Leftovers, Lasting

\* A node is lost by a failure of its own only.
LEMMA GoldenKept ==
  ASSUME Known, [Next]_vars,
         ~ \E n \in Node : NodeFails(n) \/ NodeCrashes(n),
         ~ Usable(GoldenNode)'
  PROVE  ~ Usable(GoldenNode)
<1> SUFFICES ASSUME GoldenNode \in up, connection[GoldenNode] # "dead"
             PROVE  GoldenNode \in up' /\ connection'[GoldenNode] # "dead"
  BY DEF Usable
<1>1. ASSUME NEW n PROVE Connected(n)[GoldenNode] # "dead"
  BY GoldenAssumption DEF Connected, Known, TypeOK
<1>2. CASE Reads \/ AsksNode
  BY <1>1, <1>2 DEF Reads, AsksNode, ReadPools, ReadPoolsFails, CheckNode, CheckNodeFails,
                    Checked, world
<1>3. CASE Removes
  BY <1>3 DEF Removes, RemoveUnknown, Cleaned, RemoveEntry, RemoveEntryFails, RemoveDhcp,
              RemoveDhcpFails, world
<1>4. CASE Creates
  BY <1>1, <1>4 DEF Creates, CreateStep, PreStart, AddEntry, CreateVolume, AddDiskEntry,
                    AddDhcp, CreateVolumeFails, CloneFails, StartVm, StartVmFails, world
<1>5. CASE Migrates
  BY <1>1, <1>5 DEF Migrates, MigrateFirstVm, MigrateVm, MigrateFails, RecordMigration,
                    PolicyDone, world
<1>6. CASE Ends
<2>1. CASE Crash
  BY <2>1, GoldenAssumption DEF Crash, world
<2> QED
  BY <1>1, <1>6, <2>1 DEF Ends, ShutdownVm, ShutdownVmFails, ShutdownDone, Sleep, world
<1>7. CASE NodesAct
  BY <1>7 DEF NodesAct, NodeReturns, VmStops
<1>8. CASE UNCHANGED vars
  BY <1>8 DEF vars, world
<1> QED
  BY <1>2, <1>3, <1>4, <1>5, <1>6, <1>7, <1>8, NextCases DEF AsksNode

-----------------------------------------------------------------------------
\* How far the machine in hand has come.

LEMMA NextProgress == Known /\ ProgressInv /\ [Next]_vars => ProgressInv'
<1> SUFFICES ASSUME Known, ProgressInv, [Next]_vars PROVE ProgressInv'
  OBVIOUS
<1>1. ASSUME NEW n \in Node, NEW v \in Vm, PreStart(n, v) PROVE ProgressInv'
  BY <1>1 DEF PreStart, Fresh, ProgressInv, Gone, world, ldap
<1>2. CASE CreateStep
<2>1. vm \in Vm
  BY <1>2, WritesTypes DEF CreateStep
<2>2. CASE AddEntry
<3>1. entry'[vm] # NoNode
  BY <2>1, <2>2, NodePresent DEF AddEntry, Known, TypeOK
<3> QED
  BY <2>2, <3>1 DEF AddEntry, InstanceStep, ProgressInv, Gone, Unborn, call
<2> QED
  BY <1>2, <2>2
     DEF CreateStep, CreateVolume, AddDiskEntry, AddDhcp, InstanceStep, ProgressInv, Unborn,
         call, ldap
<1>3. CASE RemoveEntry
<2>1. vm \in Vm
  BY <1>3, WritesTypes
<2> QED
  BY <1>3, <2>1 DEF RemoveEntry, EntryRemoved, ProgressInv, call, Known, TypeOK
<1>4. \/ pc' \notin Creating \cup {"removeDhcp"}
      \/ UNCHANGED <<pc, vm, ldap, disk>>
      \/ CreateStep \/ RemoveEntry \/ \E n \in Node, v \in Vm : PreStart(n, v)
<2>1. CASE Reads \/ AsksNode
  BY <2>1 DEF Reads, AsksNode, ReadPools, ReadPoolsFails, CheckNode, CheckNodeFails, Checked,
              Creating, world, call
<2>2. CASE Removes
<3>1. Thrown \notin Creating \cup {"removeDhcp"} /\ Returned \notin Creating \cup {"removeDhcp"}
  BY DEF Thrown, Returned, Known, TypeOK, Creating
<3> QED
  BY <2>2, <3>1 DEF Removes, RemoveUnknown, Cleaned, RemoveEntryFails, RemoveDhcp,
                    RemoveDhcpFails, Creating
<2>3. CASE Creates
  BY <2>3 DEF Creates, CreateVolumeFails, CloneFails, StartVm, StartVmFails, InstanceStep,
              Creating
<2>4. CASE Migrates
  BY <2>4 DEF Migrates, MigrateFirstVm, MigrateVm, MigrateFails, RecordMigration,
              PolicyDone, Creating
<2>5. CASE Ends
  BY <2>5 DEF Ends, ShutdownVm, ShutdownVmFails, ShutdownDone, Sleep, Crash, Creating
<2>6. CASE NodesAct
  BY <2>6 DEF NodesAct, NodeFails, NodeCrashes, NodeReturns, VmStops, call
<2>7. CASE UNCHANGED vars
  BY <2>7 DEF vars, world, call
<2> QED
  BY <2>1, <2>2, <2>3, <2>4, <2>5, <2>6, <2>7, NextCases DEF AsksNode
<1>5. ASSUME pc' \notin Creating \cup {"removeDhcp"} PROVE ProgressInv'
  BY <1>5 DEF ProgressInv, Creating
<1>6. ASSUME UNCHANGED <<pc, vm, ldap, disk>> PROVE ProgressInv'
  BY <1>6 DEF ProgressInv, Gone, Unborn, ldap
<1> QED
  BY <1>1, <1>2, <1>3, <1>4, <1>5, <1>6

-----------------------------------------------------------------------------
\* Machines that were started have a DHCP entry.

\* Who has never been started: entries without a DHCP entry.
Bare == Entries \ dhcp

LEMMA WhoIsBare ==
  ASSUME Known, ProgressInv, [Next]_vars
  PROVE  Bare' \subseteq Bare \/ (AddEntry /\ Bare' \subseteq Bare \cup {vm})
<1>1. CASE UNCHANGED <<ldap, disk>>
  BY <1>1 DEF Bare, Entries, ldap
<1>2. CASE AddEntry
  BY <1>2, WritesTypes DEF AddEntry, Bare, Entries, Known, TypeOK
<1>3. CASE RemoveEntry \/ RemoveEntryFails
  BY <1>3, WritesTypes
     DEF RemoveEntry, RemoveEntryFails, EntryRemoved, Bare, Entries, Known, TypeOK
<1>4. CASE RemoveDhcp
  BY <1>4 DEF RemoveDhcp, ProgressInv, Bare, Entries
<1>5. CASE CreateVolume \/ AddDiskEntry \/ AddDhcp
  BY <1>5 DEF CreateVolume, AddDiskEntry, AddDhcp, Bare, Entries, ldap
<1>6. CASE RecordMigration
<2>1. vm \in Entries
  BY <1>6 DEF RecordMigration, Known, PoolInv, Tracked
<2> QED
  BY <1>6, <2>1 DEF RecordMigration, Recorded, Bare, Entries, Known, TypeOK
<1> QED
  BY <1>1, <1>2, <1>3, <1>4, <1>5, <1>6, WhoWrites

Idle(v) == runsOn[v] = NoNode /\ (v \in inPool => status[v] # "running")

\* Nothing but what is in the pool with a DHCP entry starts, migrates or is found.
LEMMA BareStayIdle ==
  ASSUME Known, ProgressInv, DhcpInv, [Next]_vars, NEW v \in Bare
  PROVE  Idle(v)'
<1>1. v \in Vm /\ Idle(v) /\ v \notin dhcp
  BY DEF Bare, Entries, DhcpInv, Idle
<1>2. ASSUME UNCHANGED <<nodeName, status>>, runsOn'[v] \in {runsOn[v], NoNode}
      PROVE  Idle(v)'
  BY <1>1, <1>2 DEF Idle, inPool
<1>3. ASSUME \A u \in Vm : status'[u] # "running", UNCHANGED runsOn
      PROVE  Idle(v)'
  BY <1>1, <1>3 DEF Idle, inPool
<1>4. CASE Reads
<2>1. ASSUME NEW due \in BOOLEAN, ReadPools(due) PROVE Idle(v)'
  BY <1>3, <2>1 DEF ReadPools, Known, StatusInv, world
<2>2. CASE ReadPoolsFails \/ Checked
  BY <1>2, <2>2 DEF ReadPoolsFails, Checked, world, pool, checks
<2>3. ASSUME NEW n \in Node, CheckNodeFails(n) PROVE Idle(v)'
  BY <1>1, <2>3 DEF CheckNodeFails, world, pool, Idle, inPool, Known, TypeOK
<2> QED
  BY <1>4, <2>1, <2>2, <2>3 DEF Reads
<1>5. ASSUME NEW n \in Node, NEW missed \in SUBSET FoundOn(n), CheckNode(n, missed)
      PROVE  Idle(v)'
<2>1. v \notin FoundOn(n)
  BY <1>1, NodeAssumption DEF FoundOn, Idle
<2> QED
  BY <1>1, <1>5, <2>1 DEF CheckNode, world, Idle, inPool, Known, TypeOK
<1>6. CASE Removes
<2>1. CASE RemoveEntry \/ RemoveEntryFails
<3>1. UNCHANGED <<status, runsOn>> /\ inPool' \subseteq inPool
  BY <2>1 DEF RemoveEntry, RemoveEntryFails, DropDisk, checks, inPool, Known, TypeOK
<3> QED
  BY <1>1, <3>1 DEF Idle
<2> QED
  BY <1>2, <1>6, <2>1 DEF Removes, RemoveUnknown, Cleaned, RemoveDhcp, RemoveDhcpFails,
                          world, pool, checks
<1>7. CASE Creates
<2>1. CASE StartVm
<3>1. v # vm
  BY <1>1, <2>1 DEF StartVm, InstanceStep, ProgressInv
<3> QED
  BY <1>1, <2>1, <3>1 DEF StartVm, InstanceStep, checks, Idle, inPool, Known, TypeOK
<2> QED
  BY <1>2, <1>7, <2>1 DEF Creates, CreateStep, PreStart, AddEntry, CreateVolume, AddDiskEntry,
                          AddDhcp, InstanceStep, CreateVolumeFails, CloneFails,
                          StartVmFails, world, pool, checks
<1>8. CASE Migrates
<2>1. CASE MigrateVm
<3>1. runsOn[vm] # NoNode
  BY <2>1 DEF MigrateVm, Known, PoolInv, inPool
<3>2. v # vm
  BY <1>1, <3>1 DEF Idle
<3> QED
  BY <1>2, <2>1, <3>2 DEF MigrateVm, pool, checks, Known, TypeOK
<2> QED
  BY <1>2, <1>8, <2>1 DEF Migrates, MigrateFirstVm, MigrateFails, RecordMigration, PolicyDone,
                          world, pool, checks
<1>9. CASE Ends
<2>1. CASE Sleep \/ Crash
  BY <1>3, <2>1 DEF Sleep, Crash, Cleared, world
<2>2. ASSUME NEW u \in Vm, ShutdownVm(u) PROVE Idle(v)'
  BY <1>2, <2>2 DEF ShutdownVm, Destroyed, pool, checks, Known, TypeOK
<2> QED
  BY <1>2, <1>9, <2>1, <2>2 DEF Ends, ShutdownVmFails, ShutdownDone, world, pool, checks
<1>10. CASE NodesAct
  BY <1>1, <1>2, <1>10, NodesOnlyStop DEF NodesKeep, pool, checks, Known
<1>11. CASE UNCHANGED vars
  BY <1>2, <1>11 DEF vars, world, pool, checks
<1> QED
  BY <1>4, <1>5, <1>6, <1>7, <1>8, <1>9, <1>10, <1>11, NextCases

\* The policy begins when all that was not found running is removed, and it
\* goes on when its new machine was started.
LEMMA PolicyBare ==
  ASSUME Known, ProgressInv, DhcpInv, [Next]_vars, pc' \in PolicyPhases
  PROVE  \A v \in Bare' : pc' \in Creating /\ v = vm'
<1>1. CASE Cleaned
<2>1. Entries = inPool /\ Unknown = {} /\ NoneToCheckAgain
  BY <1>1 DEF Cleaned, Known, PoolInv, Tracked, StatusInv, Cleaning
<2>2. \A v \in inPool : status[v] = "running"
  BY <2>1 DEF Unknown, inPool, NoneToCheckAgain, Known, TypeOK
<2>3. Bare' = Bare
  BY <1>1 DEF Cleaned, Bare, Entries, world, ldap
<2> QED
  BY <2>1, <2>2, <2>3 DEF Bare, DhcpInv
<1>2. CASE StartVm
<2>1. Bare' = Bare
  BY <1>2 DEF StartVm, Bare, Entries, ldap
<2> QED
  BY <1>2, <2>1 DEF StartVm, InstanceStep, Bare, DhcpInv, ProgressInv, PolicyPhases
<1>3. CASE CreateStep
<2>1. pc \in PolicyPhases /\ pc \in Creating /\ pc' \in Creating /\ vm' = vm
  BY <1>3 DEF CreateStep, AddEntry, CreateVolume, AddDiskEntry, AddDhcp, InstanceStep,
              PolicyPhases, Creating, call
<2> QED
  BY <2>1, WhoIsBare DEF Bare, DhcpInv
<1>4. CASE \E n \in Node, v \in Vm : PreStart(n, v)
<2>1. pc = "policy" /\ Bare' = Bare
  BY <1>4 DEF PreStart, Bare, Entries, world, ldap
<2> QED
  BY <2>1 DEF Bare, DhcpInv, Creating, PolicyPhases
<1>5. CASE Migrates
<2>1. pc \in PolicyPhases \ Creating /\ ~ AddEntry
  BY <1>5 DEF Migrates, MigrateFirstVm, MigrateVm, MigrateFails, RecordMigration, PolicyDone,
              AddEntry, InstanceStep, PolicyPhases, Creating
<2> QED
  BY <2>1, WhoIsBare DEF Bare, DhcpInv
<1>6. CASE NodesAct \/ UNCHANGED vars
<2>1. UNCHANGED <<pc, vm, ldap>>
  BY <1>6, NodesOnlyStop DEF NodesKeep, call, vars, world, Known
<2> QED
  BY <2>1 DEF Bare, Entries, DhcpInv, ldap
<1>7. \/ Cleaned \/ StartVm \/ CreateStep \/ \E n \in Node, v \in Vm : PreStart(n, v)
      \/ Migrates \/ NodesAct \/ UNCHANGED vars
<2>1. ~ Reads /\ ~ AsksNode
  BY DEF Reads, AsksNode, ReadPools, ReadPoolsFails, CheckNode, CheckNodeFails, Checked,
         PolicyPhases
<2>2. CASE Removes
<3>1. Thrown \notin PolicyPhases /\ (pc = "removeDhcp" => Returned \notin PolicyPhases)
  BY DEF Thrown, Returned, Known, TypeOK, PolicyPhases
<3> QED
  BY <2>2, <3>1 DEF Removes, RemoveUnknown, RemoveEntry, RemoveEntryFails, RemoveDhcp,
                    RemoveDhcpFails, PolicyPhases
<2>3. ~ Ends
  BY DEF Ends, ShutdownVm, ShutdownVmFails, ShutdownDone, Sleep, Crash, PolicyPhases
<2>4. CASE Creates
  BY <2>4 DEF Creates, CreateVolumeFails, CloneFails, StartVmFails, InstanceStep, PolicyPhases
<2> QED
  BY <2>1, <2>2, <2>3, <2>4, NextCases DEF AsksNode
<1> QED
  BY <1>1, <1>2, <1>3, <1>4, <1>5, <1>6, <1>7

LEMMA NextDhcp == Known /\ ProgressInv /\ DhcpInv /\ [Next]_vars => DhcpInv'
<1> SUFFICES ASSUME Known, ProgressInv, DhcpInv, [Next]_vars PROVE DhcpInv'
  OBVIOUS
<1>1. ASSUME AddEntry PROVE Idle(vm)'
<2>1. runsOn[vm] = NoNode /\ vm \notin Entries /\ inPool = Entries
  BY <1>1 DEF AddEntry, InstanceStep, Known, SparedInv, Creating, PoolInv, Tracked,
              ProgressInv, Gone, Entries
<2> QED
  BY <1>1, <2>1 DEF AddEntry, InstanceStep, Idle, inPool, pool, call
<1>2. ASSUME NEW v \in Bare' PROVE Idle(v)'
<2>1. v \in Bare \/ (AddEntry /\ v = vm)
  BY WhoIsBare
<2>2. AddEntry => vm' = vm
  BY DEF AddEntry, InstanceStep, call
<2> QED
  BY <1>1, <2>1, <2>2, BareStayIdle DEF Idle, inPool
<1>3. pc' \in PolicyPhases => \A v \in Bare' : pc' \in Creating /\ v = vm'
  BY PolicyBare
<1> QED
  BY <1>2, <1>3 DEF DhcpInv, Bare, Idle

-----------------------------------------------------------------------------
\* Disturbances pay for leftovers.

LEMMA Sizes ==
  /\ IsFiniteSet(Leftovers) /\ Cardinality(Leftovers) \in Nat
  /\ IsFiniteSet(Lasting) /\ Cardinality(Lasting) \in Nat
  /\ Cardinality(Lasting) <= Cardinality(Leftovers)
<1>1. Lasting \subseteq Leftovers /\ Leftovers \subseteq Vm
  BY DEF Leftovers, Lasting
<1>2. IsFiniteSet(Leftovers)
  BY <1>1, VmAssumption, FS_Subset
<1>3. IsFiniteSet(Lasting) /\ Cardinality(Lasting) <= Cardinality(Leftovers)
  BY <1>1, <1>2, FS_Subset
<1> QED
  BY <1>2, <1>3, FS_CardinalityType

\* One machine more at most.
LEMMA OneMore ==
  ASSUME NEW S, IsFiniteSet(S), NEW T, NEW x, T \subseteq S \cup {x}
  PROVE  /\ Cardinality(S) \in Nat /\ Cardinality(T) \in Nat
         /\ Cardinality(T) <= Cardinality(S) + 1
         /\ T \subseteq S => Cardinality(T) <= Cardinality(S)
<1>1. IsFiniteSet(S \cup {x})
      /\ Cardinality(S \cup {x}) \in {Cardinality(S), Cardinality(S) + 1}
  BY FS_AddElement
<1>2. IsFiniteSet(T) /\ Cardinality(T) <= Cardinality(S \cup {x})
  BY <1>1, FS_Subset
<1>3. Cardinality(S) \in Nat /\ Cardinality(T) \in Nat /\ Cardinality(S \cup {x}) \in Nat
  BY <1>1, <1>2, FS_CardinalityType
<1>4. T \subseteq S => Cardinality(T) <= Cardinality(S)
  BY FS_Subset
<1> QED
  BY <1>1, <1>2, <1>3, <1>4

LEMMA Free ==
  ASSUME Known, PaidInv, Leftovers' \subseteq Leftovers, Lasting' \subseteq Lasting,
         disturbances' \in Nat, disturbances' >= disturbances,
         ~ Usable(GoldenNode)' => ~ Usable(GoldenNode)
  PROVE  PaidInv'
<1>1. Cardinality(Leftovers') \in Nat /\ Cardinality(Leftovers') <= Cardinality(Leftovers)
  BY Sizes, OneMore
<1>2. Cardinality(Lasting') \in Nat /\ Cardinality(Lasting') <= Cardinality(Lasting)
  BY Sizes, OneMore
<1> QED
  BY <1>1, <1>2, Sizes, LimitsAssumption DEF PaidInv, Known, TypeOK

LEMMA Paid ==
  ASSUME Known, PaidInv, Disturbed, [Next]_vars,
         ~ Usable(GoldenNode)' => ~ Usable(GoldenNode)
  PROVE  PaidInv'
<1>1. Cardinality(Leftovers') \in Nat /\ Cardinality(Leftovers') <= Cardinality(Leftovers) + 1
  BY Sizes, OneMore, NoOthers
<1>2. Cardinality(Lasting') \in Nat /\ Cardinality(Lasting') <= Cardinality(Lasting) + 1
  BY Sizes, OneMore, NoOthers
<1> QED
  BY <1>1, <1>2, Sizes, LimitsAssumption DEF PaidInv, Known, TypeOK, Disturbed

\* A volume that fails because the golden node was lost before.
LEMMA FailsOfOld ==
  ASSUME Known, ProgressInv, DhcpInv, PaidInv, [Next]_vars, CreateVolumeFails,
         ~ Usable(GoldenNode)
  PROVE  PaidInv'
<1>1. pc = "volume" /\ pc' = "shutdown" /\ vm' = vm
      /\ UNCHANGED <<entry, diskEntry, dhcp, disk, disturbances>>
  BY DEF CreateVolumeFails, InstanceStep, world, ldap, call
<1>2. Leftovers = Lasting
<2> SUFFICES ASSUME NEW v \in Leftovers, Unborn(v) PROVE FALSE
  BY DEF Lasting
<2>1. v \in Entries \ dhcp
  BY DEF Unborn, Entries, Leftovers
<2>2. v = vm
  BY <1>1, <2>1 DEF DhcpInv, PolicyPhases
<2> QED
  BY <1>1, <2>2 DEF Leftovers, InHand, Creating
<1>3. Unborn(vm)'
  BY <1>1 DEF ProgressInv, Unborn
<1>4. Lasting' \subseteq Lasting
  BY <1>1, <1>3, NoOthers DEF Lasting, Unborn
<1>5. Cardinality(Lasting') \in Nat /\ Cardinality(Lasting') <= Cardinality(Lasting)
  BY <1>4, Sizes, OneMore
<1>6. Cardinality(Leftovers') \in Nat /\ Cardinality(Leftovers') <= Cardinality(Leftovers) + 1
  BY Sizes, OneMore, NoOthers
<1> QED
  BY <1>1, <1>2, <1>5, <1>6, Sizes DEF PaidInv, Known, TypeOK

NoMore == Leftovers' \subseteq Leftovers /\ Lasting' \subseteq Lasting

\* Steps that write nothing and give nothing up.
LEMMA NothingWritten ==
  ASSUME UNCHANGED <<ldap, disk>>, \A v \in Vm : InHand(v) => InHand(v)'
  PROVE  NoMore
<1> SUFFICES ASSUME NEW v \in Vm
             PROVE  /\ v \in Leftovers' => v \in Leftovers
                    /\ v \in Lasting' => v \in Lasting
  BY DEF NoMore, Leftovers, Lasting
<1>1. (Complete(v)' <=> Complete(v)) /\ (Gone(v)' <=> Gone(v)) /\ (Unborn(v)' <=> Unborn(v))
  BY DEF Complete, Gone, Unborn, ldap
<1> QED
  BY <1>1 DEF Leftovers, Lasting

\* Steps after which the machine in hand is no leftover, or no other than before.
LEMMA OnlyHand ==
  ASSUME Known, [Next]_vars, vm' = vm,
         \/ Complete(vm)' \/ Gone(vm)' \/ InHand(vm)'
         \/ ~ InHand(vm) /\ vm \in disk \ diskEntry /\ vm \in Vm
  PROVE  NoMore
<1>1. vm \notin Leftovers' \/ (vm \in Leftovers /\ vm \in Lasting)
<2>1. CASE Complete(vm)' \/ Gone(vm)' \/ InHand(vm)'
  BY <2>1 DEF Leftovers
<2>2. CASE ~ InHand(vm) /\ vm \in disk \ diskEntry /\ vm \in Vm
  BY <2>2 DEF Leftovers, Lasting, Complete, Gone, Unborn
<2> QED
  BY <2>1, <2>2
<1>2. vm \notin Leftovers' => vm \notin Lasting'
  BY DEF Lasting
<1> QED
  BY <1>1, <1>2, NoOthers DEF NoMore

LEMMA EmptyHanded ==
  ASSUME pc \notin Creating \cup {"remove", "removeDhcp"}, NEW v
  PROVE  ~ InHand(v)
BY DEF InHand

LEMMA QuietSteps ==
  ASSUME Known, ProgressInv,
         \/ Reads \/ AsksNode \/ Cleaned \/ NodesAct \/ UNCHANGED vars
         \/ \E v \in Vm : RemoveUnknown(v)
         \/ StartVmFails
         \/ \E n \in Node, v \in Vm : PreStart(n, v)
         \/ Migrates /\ ~ RecordMigration
         \/ Ends /\ ~ Crash
  PROVE  NoMore
<1>1. CASE Reads \/ AsksNode
  BY <1>1, EmptyHanded, NothingWritten
     DEF Reads, AsksNode, ReadPools, ReadPoolsFails, CheckNode, CheckNodeFails, Checked,
         Creating, world
<1>2. CASE Cleaned \/ \E v \in Vm : RemoveUnknown(v)
  BY <1>2, EmptyHanded, NothingWritten DEF Cleaned, RemoveUnknown, Creating, world
<1>3. CASE NodesAct \/ UNCHANGED vars
<2>1. UNCHANGED <<pc, vm, ldap, disk>>
  BY <1>3 DEF NodesAct, NodeFails, NodeCrashes, NodeReturns, VmStops, vars, world, call
<2>2. \A v \in Vm : InHand(v) => InHand(v)'
  BY <2>1 DEF InHand, ldap
<2> QED
  BY <2>1, <2>2, NothingWritten
<1>4. CASE StartVmFails
<2>1. UNCHANGED <<ldap, disk>> /\ pc' = "remove" /\ vm' = vm
      /\ vm \in disk /\ vm \in diskEntry
  BY <1>4 DEF StartVmFails, world, ProgressInv
<2>2. \A v \in Vm : InHand(v) => InHand(v)'
  BY <2>1 DEF InHand, ldap
<2> QED
  BY <2>1, <2>2, NothingWritten
<1>5. CASE \E n \in Node, v \in Vm : PreStart(n, v)
  BY <1>5, EmptyHanded, NothingWritten DEF PreStart, Creating, world
<1>6. CASE Migrates /\ ~ RecordMigration
  BY <1>6, EmptyHanded, NothingWritten
     DEF Migrates, MigrateFirstVm, MigrateVm, MigrateFails, PolicyDone, Creating, world
<1>7. CASE Ends /\ ~ Crash
  BY <1>7, EmptyHanded, NothingWritten
     DEF Ends, ShutdownVm, ShutdownVmFails, ShutdownDone, Sleep, Creating, world
<1> QED
  BY <1>1, <1>2, <1>3, <1>4, <1>5, <1>6, <1>7

LEMMA WritingSteps ==
  ASSUME Known, ProgressInv, [Next]_vars,
         \/ CreateStep \/ StartVm \/ RecordMigration
         \/ RemoveEntry \/ RemoveDhcp \/ (RemoveDhcpFails /\ vm \notin dhcp)
  PROVE  NoMore
<1>1. CASE CreateStep
<2>1. vm' = vm /\ pc' \in Creating
  BY <1>1 DEF CreateStep, AddEntry, CreateVolume, AddDiskEntry, AddDhcp, InstanceStep,
              Creating, call
<2> QED
  BY <2>1, OnlyHand DEF InHand
<1>2. CASE StartVm
<2>1. vm' = vm /\ UNCHANGED <<ldap, disk>> /\ Complete(vm)
  BY <1>2 DEF StartVm, InstanceStep, call, ProgressInv, Complete
<2>2. Complete(vm)'
  BY <2>1 DEF Complete, ldap
<2> QED
  BY <2>1, <2>2, OnlyHand
<1>3. CASE RecordMigration
<2>1. vm \in Vm /\ entry[vm] # NoNode
  BY <1>3 DEF RecordMigration, Known, PoolInv, Tracked, Entries
<2>2. SameParts(vm)
  BY <1>3, <2>1, NodePresent DEF RecordMigration, Recorded, SameParts, Known, TypeOK
<2>3. (Complete(vm)' <=> Complete(vm)) /\ (Unborn(vm)' <=> Unborn(vm)) /\ vm' = vm
      /\ (Gone(vm)' <=> Gone(vm))
  BY <1>3, <2>2 DEF RecordMigration, SameParts, Complete, Gone, Unborn, call
<2>4. ~ InHand(vm)
  BY <1>3 DEF RecordMigration, InHand, Creating
<2>5. (vm \in Leftovers' => vm \in Leftovers) /\ (vm \in Lasting' => vm \in Lasting)
  BY <2>3, <2>4 DEF Leftovers, Lasting
<2> QED
  BY <2>5, NoOthers DEF NoMore
<1>4. CASE RemoveEntry
<2>1. vm \in Vm /\ vm' = vm /\ pc = "remove" /\ pc' = "removeDhcp"
  BY <1>4, WritesTypes DEF RemoveEntry, call
<2>2. CASE vm \in disk => vm \in diskEntry
<3>1. vm \notin disk'
  BY <1>4, <2>2 DEF RemoveEntry, DropDisk
<3> QED
  BY <2>1, <3>1, OnlyHand DEF InHand
<2>3. CASE vm \in disk \ diskEntry
  BY <2>1, <2>3, OnlyHand DEF InHand, Creating
<2> QED
  BY <2>2, <2>3
<1>5. CASE RemoveDhcp \/ (RemoveDhcpFails /\ vm \notin dhcp)
<2>1. /\ pc = "removeDhcp" /\ vm' = vm /\ vm \in Vm
      /\ UNCHANGED <<entry, diskEntry, disk>> /\ vm \notin dhcp'
  BY <1>5 DEF RemoveDhcp, RemoveDhcpFails, world, ldap, call, Known, TypeOK
<2>2. CASE vm \in disk
  BY <2>1, <2>2, OnlyHand DEF InHand, ProgressInv, Creating
<2>3. CASE vm \notin disk
<3>1. Gone(vm)'
  BY <2>1, <2>3 DEF Gone, ProgressInv
<3> QED
  BY <2>1, <3>1, OnlyHand
<2> QED
  BY <2>2, <2>3
<1> QED
  BY <1>1, <1>2, <1>3, <1>4, <1>5

\* Disturbances are counted and never forgotten.
LEMMA Counted ==
  ASSUME Known, [Next]_vars
  PROVE  disturbances' \in Nat /\ disturbances' >= disturbances
<1>1. disturbances \in Nat
  BY LimitsAssumption DEF Known, TypeOK
<1>2. CASE Disturbed \/ UNCHANGED disturbances
  BY <1>1, <1>2 DEF Disturbed
<1>3. ASSUME NEW n \in Node, NEW missed \in SUBSET FoundOn(n), CheckNode(n, missed)
      PROVE  disturbances' \in Nat /\ disturbances' >= disturbances
<2>1. Cardinality(missed) \in Nat
<3>1. FoundOn(n) \subseteq Vm
  BY DEF FoundOn, inPool
<3> QED
  BY <3>1, VmAssumption, FS_Subset, FS_CardinalityType
<2> QED
  BY <1>1, <1>3, <2>1 DEF CheckNode
<1>4. (Disturbed \/ UNCHANGED disturbances)
      \/ \E n \in Node : \E missed \in SUBSET FoundOn(n) : CheckNode(n, missed)
<2>1. CASE Reads \/ Removes
  BY <2>1 DEF Reads, ReadPools, ReadPoolsFails, CheckNodeFails, Checked, Removes,
              RemoveUnknown, Cleaned, RemoveEntry, RemoveEntryFails, RemoveDhcp,
              RemoveDhcpFails
<2>2. CASE Creates
  BY <2>2 DEF Creates, CreateStep, PreStart, AddEntry, CreateVolume, AddDiskEntry, AddDhcp,
              CreateVolumeFails, CloneFails, StartVm, StartVmFails
<2>3. CASE Migrates \/ Ends
  BY <2>3 DEF Migrates, MigrateFirstVm, MigrateVm, MigrateFails, RecordMigration, PolicyDone,
              Ends, ShutdownVm, ShutdownVmFails, ShutdownDone, Sleep, Crash
<2>4. CASE NodesAct \/ UNCHANGED vars
  BY <2>4 DEF NodesAct, NodeFails, NodeCrashes, NodeReturns, VmStops, vars
<2> QED
  BY <2>1, <2>2, <2>3, <2>4, NextCases
<1> QED
  BY <1>2, <1>3, <1>4

LEMMA NextPaid == Known /\ ProgressInv /\ DhcpInv /\ PaidInv /\ [Next]_vars => PaidInv'
<1> SUFFICES ASSUME Known, ProgressInv, DhcpInv, PaidInv, [Next]_vars PROVE PaidInv'
  OBVIOUS
<1>1. CASE \E n \in Node : NodeFails(n) \/ NodeCrashes(n)
<2>1. Disturbed
  BY <1>1 DEF NodeFails, NodeCrashes
<2>2. NoMore
  BY <1>1, QuietSteps DEF NodesAct
<2>3. /\ Cardinality(Leftovers') \in Nat /\ Cardinality(Leftovers') <= Cardinality(Leftovers)
      /\ Cardinality(Lasting') \in Nat /\ Cardinality(Lasting') <= Cardinality(Lasting)
  BY <2>2, Sizes, OneMore DEF NoMore
<2> QED
  BY <2>1, <2>3, Sizes, LimitsAssumption DEF PaidInv, Known, TypeOK, Disturbed
<1>2. CASE ~ \E n \in Node : NodeFails(n) \/ NodeCrashes(n)
<2>1. ~ Usable(GoldenNode)' => ~ Usable(GoldenNode)
  BY <1>2, GoldenKept
<2>2. CASE NoMore
  BY <2>1, <2>2, Free, Counted DEF NoMore
<2>3. CASE RemoveEntryFails \/ (RemoveDhcpFails /\ vm \in dhcp) \/ CloneFails \/ Crash
           \/ (CreateVolumeFails /\ Usable(GoldenNode))
<3>1. Disturbed
  BY <2>3 DEF RemoveEntryFails, RemoveDhcpFails, CloneFails, Crash, CreateVolumeFails
<3> QED
  BY <2>1, <3>1, Paid
<2>4. CASE CreateVolumeFails /\ ~ Usable(GoldenNode)
  BY <2>4, FailsOfOld
<2> QED
  BY <2>2, <2>3, <2>4, QuietSteps, WritingSteps, NextCases
     DEF Removes, Creates, Migrates, Ends, AsksNode
<1> QED
  BY <1>1, <1>2

-----------------------------------------------------------------------------

IInv == Known /\ ProgressInv /\ DhcpInv /\ PaidInv

LEMMA InitIInv == Init => IInv
<1> SUFFICES ASSUME Init PROVE IInv
  OBVIOUS
<1>1. Known
  BY InitTypeOK, InitSparedInv, InitStatusInv, InitPoolInv DEF Known
<1>2. ProgressInv
  BY DEF Init, ProgressInv
<1>3. DhcpInv
  BY DEF Init, DhcpInv, PolicyPhases
<1>4. Leftovers = {}
  BY DEF Init, Leftovers, Complete, Gone, Entries
<1>5. Lasting = {}
  BY <1>4 DEF Lasting
<1>6. Usable(GoldenNode) /\ disturbances = 0
  BY GoldenAssumption DEF Init, Usable
<1>7. PaidInv
  BY <1>4, <1>5, <1>6, FS_EmptySet DEF PaidInv
<1> QED
  BY <1>1, <1>2, <1>3, <1>7 DEF IInv

LEMMA NextIInv == IInv /\ [Next]_vars => IInv'
BY NextTypeOK, NextSparedInv, NextStatusInv, NextPoolInv, NextProgress, NextDhcp, NextPaid
   DEF IInv, Known

(***************************************************************************)
(* LeftoversBounded of Broker: between two rounds, as many machines as     *)
(* there were disturbances are incomplete at most, for any number of       *)
(* nodes, machines, failures and crashes.                                  *)
(***************************************************************************)
THEOREM LeftoversArePaid == Spec => []LeftoversBounded
<1>1. IInv => LeftoversBounded
<2> SUFFICES ASSUME IInv, pc = "read"
             PROVE  Cardinality({v \in Vm : ~ Complete(v) /\ ~ Gone(v)}) <= disturbances
  BY DEF LeftoversBounded
<2>1. Leftovers = {v \in Vm : ~ Complete(v) /\ ~ Gone(v)}
  BY DEF Leftovers, InHand, Creating
<2> QED
  BY <2>1 DEF IInv, PaidInv
<1> QED
  BY <1>1, InitIInv, NextIInv, PTL DEF Spec

-----------------------------------------------------------------------------
\* A round ends.

\* No machine is in the wrappers of two nodes.
Apart == \A m, n \in Node : m # n => wrapper[m] \cap wrapper[n] = {}

\* preStart's `while' would go round for ever.
Stuck == pc = "policy" /\ NumberToStart > 0 /\ \A n \in Node : ~ HasRoom(n)

\* The parts of a round.
Prestarting == pc \in Creating \/ (pc = "policy" /\ NumberToStart > 0)
Balancing == pc \in {"migrate", "record"} \/ (pc = "policy" /\ ~ (NumberToStart > 0))
Removing(from) == pc \in {"remove", "removeDhcp"} /\ caller = from
ShuttingDown == pc = "shutdown" \/ Removing("shutdown")

\* Machines that share a wrapper, in pairs: a migration from a fuller node to
\* an emptier one makes them fewer.
Together == {p \in Vm \X Vm : \E n \in Node : p[1] \in wrapper[n] /\ p[2] \in wrapper[n]}

(***************************************************************************)
(* How far a round is from its end: the parts it has still to come to, in  *)
(* that part the nodes or machines it has still to deal with, and the      *)
(* calls for the one it has in hand.                                       *)
(***************************************************************************)
Stage ==
  CASE pc = "read" -> 7
    [] pc = "check" -> 6
    [] Cleaning -> 5
    [] Prestarting -> 4
    [] Balancing -> 3
    [] Removing("start") -> 2
    [] ShuttingDown -> 1
    [] OTHER -> 0

Jobs ==
  CASE pc = "check" -> Cardinality(unchecked)
    [] Cleaning -> Cardinality(Unknown)
    [] Prestarting -> NumberToStart
    [] Balancing -> Cardinality(Together)
    [] Removing("start") -> IF pc = "remove" THEN 1 ELSE 0
    [] ShuttingDown -> Cardinality(inPool)
    [] OTHER -> 0

Position ==
  CASE pc = "removeDhcp" -> 9
    [] pc \in {"clean", "shutdown", "migrate"} -> 8
    [] pc \in {"remove", "record"} -> 7
    [] pc = "policy" -> 6
    [] pc = "clone" -> 5
    [] pc = "volume" -> 4
    [] pc = "diskEntry" -> 3
    [] pc = "dhcp" -> 2
    [] pc = "start" -> 1
    [] OTHER -> 0

Descends ==
  \/ Stage' < Stage
  \/ Stage' = Stage /\ Jobs' < Jobs
  \/ Stage' = Stage /\ Jobs' = Jobs /\ Position' < Position

(***************************************************************************)
(* What the parts rely on: a machine to be created is missing and not yet  *)
(* in the pool, balancing begins when none is missing, and a machine that  *)
(* is shut down is in the pool.                                            *)
(***************************************************************************)
RoundInv ==
  /\ pc \in Creating => Cardinality(inPool) < Demand /\ vm \notin inPool
  /\ pc \in {"migrate", "record"} => ~ (NumberToStart > 0)
  /\ pc = "remove" /\ caller = "shutdown" => vm \in inPool

LEMMA RoundSizes ==
  ASSUME TypeOK
  PROVE  /\ IsFiniteSet(unchecked) /\ Cardinality(unchecked) \in Nat
         /\ IsFiniteSet(Unknown) /\ Cardinality(Unknown) \in Nat
         /\ IsFiniteSet(Together) /\ Cardinality(Together) \in Nat
         /\ NumberToStart \in Int
         /\ \A n \in Node : IsFiniteSet(wrapper[n]) /\ Load(n) \in Nat
<1>1. IsFiniteSet(unchecked)
  BY NodeAssumption, FS_Subset DEF TypeOK
<1>2. Unknown \subseteq Vm
  BY DEF Unknown, inPool
<1>3. IsFiniteSet(Unknown)
  BY <1>2, VmAssumption, FS_Subset
<1>4. IsFiniteSet(Together)
<2>1. IsFiniteSet(Vm \X Vm)
  BY VmAssumption, FS_Product
<2>2. Together \subseteq Vm \X Vm
  BY DEF Together
<2> QED
  BY <2>1, <2>2, FS_Subset
<1>5. NumberToStart \in Int
  BY PoolSizes, LimitsAssumption DEF NumberToStart
<1>6. ASSUME NEW n \in Node PROVE IsFiniteSet(wrapper[n])
  BY VmAssumption, FS_Subset DEF TypeOK
<1> QED
  BY <1>1, <1>3, <1>4, <1>5, <1>6, FS_CardinalityType DEF Load

\* A machine with each of a set of others, in both orders.
Pairs(v, S) == ({v} \X S) \cup (S \X {v})

LEMMA PairsCount ==
  ASSUME NEW v \in Vm, NEW S \in SUBSET Vm, v \notin S
  PROVE  IsFiniteSet(Pairs(v, S)) /\ Cardinality(Pairs(v, S)) = 2 * Cardinality(S)
<1>1. /\ IsFiniteSet(S) /\ Cardinality(S) \in Nat
      /\ IsFiniteSet({v}) /\ Cardinality({v}) = 1
  BY VmAssumption, FS_Subset, FS_CardinalityType, FS_Singleton
<1>2. /\ IsFiniteSet({v} \X S) /\ Cardinality({v} \X S) = Cardinality({v}) * Cardinality(S)
      /\ IsFiniteSet(S \X {v}) /\ Cardinality(S \X {v}) = Cardinality(S) * Cardinality({v})
  BY <1>1, FS_Product
<1>3. ({v} \X S) \cap (S \X {v}) = {}
  OBVIOUS
<1>4. Cardinality(({v} \X S) \cap (S \X {v})) = 0
  BY <1>3, FS_EmptySet
<1>5. /\ IsFiniteSet(Pairs(v, S))
      /\ Cardinality(Pairs(v, S)) = Cardinality({v} \X S) + Cardinality(S \X {v})
                                      - Cardinality(({v} \X S) \cap (S \X {v}))
  BY <1>2, FS_Union DEF Pairs
<1> QED
  BY <1>1, <1>2, <1>4, <1>5

\* What migrateFirstVm does to the pairs: those with the machines left behind go,
\* those with the fewer machines at the destination come.
LEMMA FewerTogether ==
  ASSUME TypeOK, Apart, NEW source \in Node, NEW dest \in Node, NEW v \in Vm,
         MigrateFirstVm(source, dest, v)
  PROVE  Cardinality(Together') < Cardinality(Together)
<1> DEFINE A == wrapper[source] \ {v}
           B == wrapper[dest]
<1>1. /\ v \in wrapper[source] /\ Load(source) > Load(dest) + Tolerance
      /\ wrapper' = [wrapper EXCEPT ![source] = @ \ {v}, ![dest] = @ \cup {v}]
  BY DEF MigrateFirstVm, Uneven
<1>2. \A n \in Node : IsFiniteSet(wrapper[n]) /\ Load(n) \in Nat /\ wrapper[n] \subseteq Vm
  BY RoundSizes DEF TypeOK
<1>3. source # dest
  BY <1>1, <1>2, LimitsAssumption
<1>4. v \notin B /\ A \in SUBSET Vm /\ B \in SUBSET Vm
  BY <1>1, <1>2, <1>3 DEF Apart
<1>5. Cardinality(A) = Load(source) - 1 /\ Cardinality(B) = Load(dest)
  BY <1>1, <1>2, FS_RemoveElement DEF Load
<1>6. /\ wrapper'[source] = A /\ wrapper'[dest] = B \cup {v}
      /\ \A n \in Node \ {source, dest} : wrapper'[n] = wrapper[n]
  BY <1>1, <1>3 DEF TypeOK
<1>7. \A n \in Node : v \in wrapper[n] => n = source
  BY <1>1 DEF Apart
<1>8. Pairs(v, A) \subseteq Together
  BY <1>1, <1>4 DEF Pairs, Together
<1>9. Together' = (Together \ Pairs(v, A)) \cup Pairs(v, B)
<2>1. ASSUME NEW x \in Vm, NEW y \in Vm, NEW n \in Node, x \in wrapper'[n], y \in wrapper'[n]
      PROVE  <<x, y>> \in (Together \ Pairs(v, A)) \cup Pairs(v, B)
  <3>1. CASE n = dest /\ (x = v \/ y = v) /\ ~ (x = v /\ y = v)
    BY <1>4, <1>6, <2>1, <3>1 DEF Pairs
  <3>2. CASE x = v /\ y = v
    BY <1>1, <3>2 DEF Together, Pairs
  <3>3. CASE x # v /\ y # v
    <4>1. x \in wrapper[n] /\ y \in wrapper[n]
      BY <1>6, <2>1, <3>3
    <4> QED
      BY <2>1, <3>3, <4>1 DEF Together, Pairs
  <3>4. CASE n # dest /\ (x = v \/ y = v)
    BY <1>6, <1>7, <2>1, <3>4
  <3> QED
    BY <3>1, <3>2, <3>3, <3>4
<2>2. ASSUME NEW x \in Vm, NEW y \in Vm, <<x, y>> \in Pairs(v, B)
      PROVE  \E n \in Node : x \in wrapper'[n] /\ y \in wrapper'[n]
  BY <1>6, <2>2 DEF Pairs
<2>3. ASSUME NEW x \in Vm, NEW y \in Vm, NEW n \in Node, x \in wrapper[n], y \in wrapper[n],
             <<x, y>> \notin Pairs(v, A)
      PROVE  \E m \in Node : x \in wrapper'[m] /\ y \in wrapper'[m]
  <3>1. CASE x = v /\ y = v
    BY <1>6, <3>1
  <3>2. CASE x # v /\ y # v
    BY <1>3, <1>6, <2>3, <3>2
  <3>3. CASE (x = v \/ y = v) /\ ~ (x = v /\ y = v)
    <4>1. n = source
      BY <1>7, <2>3, <3>3
    <4> QED
      BY <2>3, <3>3, <4>1 DEF Pairs
  <3> QED
    BY <3>1, <3>2, <3>3
<2>4. Pairs(v, B) \subseteq Vm \X Vm
  BY <1>4 DEF Pairs
<2>5. Together' \subseteq (Together \ Pairs(v, A)) \cup Pairs(v, B)
  BY <2>1 DEF Together
<2>6. Pairs(v, B) \subseteq Together'
  BY <2>2, <2>4 DEF Together
<2>7. Together \ Pairs(v, A) \subseteq Together'
  <3> SUFFICES ASSUME NEW p \in Together, p \notin Pairs(v, A) PROVE p \in Together'
    OBVIOUS
  <3>1. PICK x \in Vm, y \in Vm : p = <<x, y>>
    BY DEF Together
  <3>2. \E n \in Node : x \in wrapper[n] /\ y \in wrapper[n]
    BY <3>1 DEF Together
  <3>3. \E m \in Node : x \in wrapper'[m] /\ y \in wrapper'[m]
    BY <2>3, <3>1, <3>2
  <3> QED
    BY <3>1, <3>3 DEF Together
<2> QED
  BY <2>5, <2>6, <2>7
<1>10. (Together \ Pairs(v, A)) \cap Pairs(v, B) = {}
<2> SUFFICES ASSUME NEW p \in Together, p \in Pairs(v, B) PROVE FALSE
  OBVIOUS
<2>1. PICK n \in Node : p[1] \in wrapper[n] /\ p[2] \in wrapper[n]
  BY DEF Together
<2>2. (p[1] = v /\ p[2] \in B) \/ (p[2] = v /\ p[1] \in B)
  BY DEF Pairs
<2>3. n = source
  BY <1>7, <2>1, <2>2
<2> QED
  BY <1>3, <2>1, <2>2, <2>3 DEF Apart
<1>11. /\ IsFiniteSet(Together) /\ Cardinality(Together) \in Nat
       /\ IsFiniteSet(Pairs(v, A)) /\ Cardinality(Pairs(v, A)) = 2 * Cardinality(A)
       /\ IsFiniteSet(Pairs(v, B)) /\ Cardinality(Pairs(v, B)) = 2 * Cardinality(B)
<2>1. v \notin A
  OBVIOUS
<2> QED
  BY <1>4, <2>1, RoundSizes, PairsCount
<1>12. /\ IsFiniteSet(Together \ Pairs(v, A))
       /\ Cardinality(Together \ Pairs(v, A)) = Cardinality(Together) - Cardinality(Pairs(v, A))
<2>1. Together \cap Pairs(v, A) = Pairs(v, A)
  BY <1>8
<2>2. /\ IsFiniteSet(Together \ Pairs(v, A))
      /\ Cardinality(Together \ Pairs(v, A))
           = Cardinality(Together) - Cardinality(Together \cap Pairs(v, A))
  BY <1>11, FS_Difference
<2> QED
  BY <2>1, <2>2
<1>13. Cardinality(Together')
         = Cardinality(Together \ Pairs(v, A)) + Cardinality(Pairs(v, B))
<2>1. Cardinality((Together \ Pairs(v, A)) \cap Pairs(v, B)) = 0
  BY <1>10, FS_EmptySet
<2>2. Cardinality((Together \ Pairs(v, A)) \cup Pairs(v, B))
        = Cardinality(Together \ Pairs(v, A)) + Cardinality(Pairs(v, B))
          - Cardinality((Together \ Pairs(v, A)) \cap Pairs(v, B))
  BY <1>11, <1>12, FS_Union
<2>3. Cardinality(Together \ Pairs(v, A)) \in Nat /\ Cardinality(Pairs(v, B)) \in Nat
  BY <1>11, <1>12, FS_CardinalityType
<2> HIDE DEF A, B
<2> QED
  BY <1>9, <2>1, <2>2, <2>3
<1> DEFINE s == Load(source)   d == Load(dest)   t == Cardinality(Together)
<1>14. s \in Nat /\ d \in Nat /\ t \in Nat /\ s > d + Tolerance
  BY <1>1, <1>2, <1>11
<1>15. Cardinality(Together') = t - 2 * (s - 1) + 2 * d
  BY <1>5, <1>11, <1>12, <1>13
<1> HIDE DEF s, d, t
<1>16. Cardinality(Together') < t
  BY <1>14, <1>15, LimitsAssumption
<1> QED
  BY <1>16 DEF t

LEMMA InitRoundInv == Init => RoundInv
  BY DEF Init, RoundInv, Creating

LEMMA NextRoundInv == TypeOK /\ PoolInv /\ RoundInv /\ [Next]_vars => RoundInv'
<1> SUFFICES ASSUME TypeOK, PoolInv, RoundInv, [Next]_vars PROVE RoundInv'
  OBVIOUS
<1> USE DEF Creating
<1>1. CASE Reads \/ Removes
             \/ \E n \in Node : \E missed \in SUBSET FoundOn(n) : CheckNode(n, missed)
<2>1. /\ pc' \notin Creating \cup {"migrate", "record"}
      /\ pc' = "remove" => caller' = "clean"
  BY <1>1 DEF Reads, ReadPools, ReadPoolsFails, CheckNodeFails, Checked, CheckNode, Removes,
              RemoveUnknown, Cleaned, RemoveEntry, RemoveEntryFails, RemoveDhcp,
              RemoveDhcpFails, Thrown, Returned, TypeOK
<2> QED
  BY <2>1 DEF RoundInv
<1>2. ASSUME NEW n \in Node, NEW v \in Vm, PreStart(n, v) PROVE RoundInv'
<2>1. /\ pc = "policy" /\ pc' = "clone" /\ NumberToStart > 0 /\ v \in Fresh /\ vm' = v
      /\ UNCHANGED nodeName
  BY <1>2 DEF PreStart, pool
<2>2. inPool' = inPool /\ inPool = Entries /\ v \notin Entries
  BY <2>1 DEF inPool, PoolInv, Tracked, Fresh, Entries
<2>3. Cardinality(inPool) < Demand
  BY <2>1, PoolSizes, LimitsAssumption DEF NumberToStart
<2> QED
  BY <2>1, <2>2, <2>3 DEF RoundInv
<1>3. CASE CreateStep
<2>1. pc \in Creating /\ pc' \in Creating /\ UNCHANGED <<nodeName, vm>>
  BY <1>3 DEF CreateStep, AddEntry, CreateVolume, AddDiskEntry, AddDhcp, InstanceStep, pool, call
<2>2. inPool' = inPool
  BY <2>1 DEF inPool
<2> QED
  BY <2>1, <2>2 DEF RoundInv
<1>4. CASE CreateVolumeFails \/ CloneFails \/ StartVm \/ StartVmFails
<2>1. pc' \in {"policy", "shutdown", "remove"} /\ (pc' = "remove" => caller' = "start")
  BY <1>4 DEF CreateVolumeFails, CloneFails, StartVm, StartVmFails, InstanceStep
<2> QED
  BY <2>1 DEF RoundInv
<1>5. CASE Migrates
<2>1. /\ pc' \in {"policy", "migrate", "record", "shutdown"}
      /\ pc' = "migrate" => ~ (NumberToStart > 0)
      /\ pc' = "record" => pc = "migrate"
      /\ UNCHANGED nodeName
  BY <1>5, RoundSizes DEF Migrates, MigrateFirstVm, MigrateVm, MigrateFails, RecordMigration,
                          PolicyDone, pool
<2>2. NumberToStart' = NumberToStart
  BY <2>1 DEF NumberToStart, inPool
<2> QED
  BY <2>1, <2>2 DEF RoundInv
<1>6. CASE Ends
<2>1. ASSUME NEW v \in Vm, ShutdownVm(v) PROVE RoundInv'
  <3>1. pc' = "remove" /\ v \in inPool /\ vm' = v /\ UNCHANGED nodeName
    BY <2>1 DEF ShutdownVm, pool
  <3> QED
    BY <3>1 DEF RoundInv, inPool
<2>2. CASE ShutdownDone \/ Sleep \/ Crash \/ \E v \in Vm : ShutdownVmFails(v)
  BY <2>2 DEF ShutdownDone, Sleep, Crash, ShutdownVmFails, RoundInv
<2> QED
  BY <1>6, <2>1, <2>2 DEF Ends
<1>7. CASE NodesAct \/ UNCHANGED vars
<2>1. UNCHANGED <<pc, nodeName, vm, caller>>
  BY <1>7 DEF NodesAct, NodeFails, NodeCrashes, NodeReturns, VmStops, vars, pool, call
<2>2. inPool' = inPool /\ NumberToStart' = NumberToStart
  BY <2>1 DEF inPool, NumberToStart
<2> QED
  BY <2>1, <2>2 DEF RoundInv
<1> QED
  BY <1>1, <1>2, <1>3, <1>4, <1>5, <1>6, <1>7, NextCases DEF Creates

LEMMA RanksAreNats ==
  TypeOK /\ RoundInv => Stage \in Nat /\ Jobs \in Nat /\ Position \in Nat
<1> SUFFICES ASSUME TypeOK, RoundInv PROVE Stage \in Nat /\ Jobs \in Nat /\ Position \in Nat
  OBVIOUS
<1>1. Stage \in Nat /\ Position \in Nat
  BY DEF Stage, Position
<1>2. Prestarting => NumberToStart \in Nat
<2>1. pc \in Creating => NumberToStart > 0
  BY PoolSizes, LimitsAssumption DEF RoundInv, NumberToStart
<2> QED
  BY <2>1, RoundSizes DEF Prestarting
<1>3. Jobs \in Nat
  BY <1>2, RoundSizes, PoolSizes, Zenon DEF Jobs
<1> QED
  BY <1>1, <1>3

-----------------------------------------------------------------------------
\* The steps, part by part.

LEMMA ReadsDescend ==
  ASSUME TypeOK, \/ Reads
                 \/ \E n \in Node : \E missed \in SUBSET FoundOn(n) : CheckNode(n, missed)
  PROVE  Descends
<1>1. CASE (\E due \in BOOLEAN : ReadPools(due)) \/ ReadPoolsFails
<2>1. pc = "read" /\ pc' \in {"check", "sleep"}
  BY <1>1 DEF ReadPools, ReadPoolsFails
<2>2. Stage = 7 /\ Stage' < 7
  BY <2>1 DEF Stage, Cleaning, Prestarting, Balancing, Removing, ShuttingDown, Creating
<2> QED
  BY <2>2 DEF Descends
<1>2. ASSUME NEW n \in Node,
             CheckNodeFails(n) \/ \E missed \in SUBSET FoundOn(n) : CheckNode(n, missed)
      PROVE  Descends
<2>1. pc = "check" /\ pc' = "check" /\ n \in unchecked /\ unchecked' = unchecked \ {n}
  BY <1>2 DEF CheckNodeFails, CheckNode
<2>2. Cardinality(unchecked') = Cardinality(unchecked) - 1 /\ Cardinality(unchecked) \in Nat
  BY <2>1, RoundSizes, FS_RemoveElement
<2>3. Stage = 6 /\ Stage' = 6
  BY <2>1 DEF Stage, Cleaning, Prestarting, Balancing, Removing, ShuttingDown, Creating
<2>4. Jobs = Cardinality(unchecked) /\ Jobs' = Cardinality(unchecked')
  BY <2>1 DEF Jobs, Cleaning, Prestarting, Balancing, Removing, ShuttingDown, Creating
<2> QED
  BY <2>2, <2>3, <2>4 DEF Descends
<1>3. CASE Checked
<2>1. pc = "check" /\ pc' \in {"clean", "shutdown"}
  BY <1>3 DEF Checked
<2>2. Stage = 6 /\ Stage' < 6
  BY <2>1 DEF Stage, Cleaning, Prestarting, Balancing, Removing, ShuttingDown, Creating
<2> QED
  BY <2>2 DEF Descends
<1> QED
  BY <1>1, <1>2, <1>3 DEF Reads

\* VmPool::removeVm takes one machine from those that are left.
LEMMA RemoveEntryDescends ==
  ASSUME TypeOK, PoolInv, RoundInv, RemoveEntry
  PROVE  Descends
<1> USE DEF Cleaning, Prestarting, Balancing, Removing, ShuttingDown, Creating
<1>1. /\ pc = "remove" /\ pc' = "removeDhcp" /\ vm \in Vm
      /\ nodeName' = [nodeName EXCEPT ![vm] = NoNode]
      /\ UNCHANGED <<status, caller>>
      /\ caller \in {"clean", "start", "shutdown"}
  BY DEF RemoveEntry, DropDisk, checks, call, TypeOK
<1>2. Stage' = Stage
  BY <1>1 DEF Stage
<1>3. CASE caller = "clean"
<2>1. vm \in Unknown /\ Unknown' = Unknown \ {vm}
  BY <1>1, <1>3 DEF PoolInv, Unknown, inPool, TypeOK
<2>2. Cardinality(Unknown') = Cardinality(Unknown) - 1 /\ Cardinality(Unknown) \in Nat
  BY <2>1, RoundSizes, FS_RemoveElement
<2>3. Jobs = Cardinality(Unknown) /\ Jobs' = Cardinality(Unknown')
  BY <1>1, <1>3 DEF Jobs
<2> QED
  BY <1>2, <2>2, <2>3 DEF Descends
<1>4. CASE caller = "start"
<2>1. Jobs = 1 /\ Jobs' = 0
  BY <1>1, <1>4 DEF Jobs
<2> QED
  BY <1>2, <2>1 DEF Descends
<1>5. CASE caller = "shutdown"
<2>1. vm \in inPool /\ inPool' = inPool \ {vm}
  BY <1>1, <1>5 DEF RoundInv, inPool, TypeOK
<2>2. Cardinality(inPool') = Cardinality(inPool) - 1 /\ Cardinality(inPool) \in Nat
  BY <2>1, PoolSizes, FS_RemoveElement
<2>3. Jobs = Cardinality(inPool) /\ Jobs' = Cardinality(inPool')
  BY <1>1, <1>5 DEF Jobs
<2> QED
  BY <1>2, <2>2, <2>3 DEF Descends
<1> QED
  BY <1>1, <1>3, <1>4, <1>5

LEMMA RemovesDescend ==
  ASSUME TypeOK, PoolInv, RoundInv, Removes
  PROVE  Descends
<1> USE DEF Cleaning, Prestarting, Balancing, Removing, ShuttingDown, Creating
<1>1. ASSUME NEW v \in Vm, RemoveUnknown(v) PROVE Descends
<2>1. pc = "clean" /\ pc' = "remove" /\ caller' = "clean" /\ UNCHANGED <<nodeName, status>>
  BY <1>1 DEF RemoveUnknown, pool, checks
<2>2. Unknown' = Unknown
  BY <2>1 DEF Unknown, inPool
<2>3. Stage = 5 /\ Stage' = 5 /\ Jobs' = Jobs /\ Position = 8 /\ Position' = 7
  BY <2>1, <2>2 DEF Stage, Jobs, Position
<2> QED
  BY <2>3 DEF Descends
<1>2. CASE Cleaned
<2>1. pc = "clean" /\ pc' = "policy"
  BY <1>2 DEF Cleaned
<2>2. Stage = 5 /\ Stage' < 5
  BY <2>1 DEF Stage
<2> QED
  BY <2>2 DEF Descends
<1>3. CASE RemoveEntryFails \/ RemoveDhcpFails
<2>1. /\ pc \in {"remove", "removeDhcp"} /\ caller \in {"clean", "start", "shutdown"}
      /\ pc' = IF caller = "start" THEN "shutdown" ELSE "sleep"
  BY <1>3 DEF RemoveEntryFails, RemoveDhcpFails, Thrown, TypeOK
<2>2. Stage = IF caller = "clean" THEN 5 ELSE IF caller = "start" THEN 2 ELSE 1
  BY <2>1 DEF Stage
<2>3. Stage' = IF caller = "start" THEN 1 ELSE 0
  BY <2>1 DEF Stage
<2> QED
  BY <2>1, <2>2, <2>3 DEF Descends
<1>4. CASE RemoveDhcp
<2>1. /\ pc = "removeDhcp" /\ caller \in {"clean", "start", "shutdown"}
      /\ pc' = IF caller = "start" THEN "shutdown" ELSE caller
      /\ UNCHANGED <<nodeName, status, caller>>
  BY <1>4 DEF RemoveDhcp, Returned, TypeOK, pool, checks, call
<2>2. inPool' = inPool /\ Unknown' = Unknown
  BY <2>1 DEF Unknown, inPool
<2>3. CASE caller = "start"
  <3>1. Stage = 2 /\ Stage' = 1
    BY <2>1, <2>3 DEF Stage
  <3> QED
    BY <3>1 DEF Descends
<2>4. CASE caller \in {"clean", "shutdown"}
  <3>1. Stage' = Stage /\ Jobs' = Jobs /\ Position = 9 /\ Position' = 8
    BY <2>1, <2>2, <2>4 DEF Stage, Jobs, Position
  <3> QED
    BY <3>1 DEF Descends
<2> QED
  BY <2>1, <2>3, <2>4
<1> QED
  BY <1>1, <1>2, <1>3, <1>4, RemoveEntryDescends DEF Removes

LEMMA CreatesDescend ==
  ASSUME TypeOK, RoundInv, Creates
  PROVE  Descends
<1> USE DEF Cleaning, Prestarting, Balancing, Removing, ShuttingDown, Creating
<1>1. ASSUME NEW n \in Node, NEW v \in Vm, PreStart(n, v) PROVE Descends
<2>1. pc = "policy" /\ pc' = "clone" /\ NumberToStart > 0 /\ UNCHANGED nodeName
  BY <1>1 DEF PreStart, pool
<2>2. NumberToStart' = NumberToStart
  BY <2>1 DEF NumberToStart, inPool
<2>3. Stage = 4 /\ Stage' = 4 /\ Jobs' = Jobs /\ Position = 6 /\ Position' = 5
  BY <2>1, <2>2 DEF Stage, Jobs, Position
<2> QED
  BY <2>3 DEF Descends
<1>2. CASE CreateStep
<2>1. /\ \/ pc = "clone" /\ pc' = "volume"
         \/ pc = "volume" /\ pc' = "diskEntry"
         \/ pc = "diskEntry" /\ pc' = "dhcp"
         \/ pc = "dhcp" /\ pc' = "start"
      /\ UNCHANGED nodeName
  BY <1>2 DEF CreateStep, AddEntry, CreateVolume, AddDiskEntry, AddDhcp, InstanceStep, pool
<2>2. NumberToStart' = NumberToStart
  BY <2>1 DEF NumberToStart, inPool
<2>3. Stage = 4 /\ Stage' = 4 /\ Jobs' = Jobs
  BY <2>1, <2>2 DEF Stage, Jobs
<2>4. Position' < Position
  BY <2>1 DEF Position
<2> QED
  BY <2>3, <2>4 DEF Descends
<1>3. CASE CreateVolumeFails \/ CloneFails \/ StartVmFails
<2>1. /\ pc \in Creating
      /\ pc' = "shutdown" \/ (pc' = "remove" /\ caller' = "start")
  BY <1>3 DEF CreateVolumeFails, CloneFails, StartVmFails, InstanceStep
<2>2. Stage = 4 /\ Stage' < 4
  BY <2>1 DEF Stage
<2> QED
  BY <2>2 DEF Descends
<1>4. CASE StartVm
<2>1. /\ pc = "start" /\ pc' = "policy" /\ vm \in Vm /\ node \in Node
      /\ nodeName' = [nodeName EXCEPT ![vm] = node]
  BY <1>4 DEF StartVm, InstanceStep, TypeOK, PolicyPhases
<2>2. inPool' = inPool \cup {vm} /\ vm \notin inPool
  BY <2>1, NodeAssumption DEF inPool, TypeOK, RoundInv
<2>3. Cardinality(inPool') = Cardinality(inPool) + 1
  BY <2>2, PoolSizes, FS_AddElement
<2>4. NumberToStart' = NumberToStart - 1 /\ NumberToStart \in Int
  BY <2>3, PoolSizes, LimitsAssumption DEF NumberToStart
<2>5. Stage = 4 /\ Jobs = NumberToStart
  BY <2>1 DEF Stage, Jobs
<2>6. CASE NumberToStart' > 0
  <3>1. Stage' = 4 /\ Jobs' = NumberToStart'
    BY <2>1, <2>6 DEF Stage, Jobs
  <3> QED
    BY <2>4, <2>5, <3>1 DEF Descends
<2>7. CASE ~ (NumberToStart' > 0)
  <3>1. Stage' = 3
    BY <2>1, <2>7 DEF Stage
  <3> QED
    BY <2>5, <3>1 DEF Descends
<2> QED
  BY <2>6, <2>7
<1> QED
  BY <1>1, <1>2, <1>3, <1>4 DEF Creates

LEMMA MigratesDescend ==
  ASSUME TypeOK, RoundInv, Apart, Migrates
  PROVE  Descends
<1> USE DEF Cleaning, Prestarting, Balancing, Removing, ShuttingDown, Creating
<1>1. NumberToStart \in Int /\ (UNCHANGED nodeName => NumberToStart' = NumberToStart)
  BY RoundSizes DEF NumberToStart, inPool
<1>2. ASSUME NEW source \in Node, NEW dest \in Node, NEW v \in Vm,
             MigrateFirstVm(source, dest, v)
      PROVE  Descends
<2>1. pc = "policy" /\ pc' = "migrate" /\ NumberToStart <= 0
  BY <1>2 DEF MigrateFirstVm
<2>2. /\ Stage = 3 /\ Stage' = 3
      /\ Jobs = Cardinality(Together) /\ Jobs' = Cardinality(Together')
  BY <1>1, <2>1 DEF Stage, Jobs
<2> QED
  BY <1>2, <2>2, FewerTogether DEF Descends
<1>3. CASE MigrateVm \/ MigrateFails \/ RecordMigration
<2>1. /\ \/ pc = "migrate" /\ pc' \in {"record", "policy"}
         \/ pc = "record" /\ pc' = "policy"
      /\ UNCHANGED <<nodeName, wrapper>>
  BY <1>3 DEF MigrateVm, MigrateFails, RecordMigration, pool
<2>2. ~ (NumberToStart > 0) /\ ~ (NumberToStart' > 0) /\ Together' = Together
  BY <1>1, <2>1 DEF RoundInv, Together
<2>3. Stage = 3 /\ Stage' = 3 /\ Jobs' = Jobs
  BY <2>1, <2>2 DEF Stage, Jobs
<2>4. Position' < Position
  BY <2>1 DEF Position
<2> QED
  BY <2>3, <2>4 DEF Descends
<1>4. CASE PolicyDone
<2>1. pc = "policy" /\ pc' = "shutdown" /\ NumberToStart <= 0
  BY <1>4 DEF PolicyDone
<2>2. Stage = 3 /\ Stage' = 1
  BY <1>1, <2>1 DEF Stage
<2> QED
  BY <2>2 DEF Descends
<1> QED
  BY <1>2, <1>3, <1>4 DEF Migrates

LEMMA EndsDescend ==
  ASSUME TypeOK, Ends
  PROVE  Descends \/ pc' = "read"
<1> USE DEF Cleaning, Prestarting, Balancing, Removing, ShuttingDown, Creating
<1>1. ASSUME NEW v \in Vm, ShutdownVm(v) PROVE Descends
<2>1. pc = "shutdown" /\ pc' = "remove" /\ caller' = "shutdown" /\ UNCHANGED nodeName
  BY <1>1 DEF ShutdownVm, pool
<2>2. inPool' = inPool
  BY <2>1 DEF inPool
<2>3. Stage = 1 /\ Stage' = 1 /\ Jobs' = Jobs /\ Position = 8 /\ Position' = 7
  BY <2>1, <2>2 DEF Stage, Jobs, Position
<2> QED
  BY <2>3 DEF Descends
<1>2. CASE ShutdownDone \/ \E v \in Vm : ShutdownVmFails(v)
<2>1. pc = "shutdown" /\ pc' = "sleep"
  BY <1>2 DEF ShutdownDone, ShutdownVmFails
<2>2. Stage = 1 /\ Stage' = 0
  BY <2>1 DEF Stage
<2> QED
  BY <2>2 DEF Descends
<1>3. CASE Sleep \/ Crash
  BY <1>3 DEF Sleep, Crash
<1> QED
  BY <1>1, <1>2, <1>3 DEF Ends

LEMMA NodesKeepRanks ==
  ASSUME NodesAct
  PROVE  UNCHANGED <<Stage, Jobs, Position>>
<1>1. UNCHANGED <<pc, nodeName, wrapper, status, unchecked, caller>>
  BY DEF NodesAct, NodeFails, NodeCrashes, NodeReturns, VmStops, pool, checks, call
<1>2. UNCHANGED <<inPool, Unknown, NumberToStart, Together>>
  BY <1>1 DEF inPool, Unknown, NumberToStart, Together
<1> QED
  BY <1>1, <1>2 DEF Stage, Jobs, Position, Cleaning, Prestarting, Balancing, Removing,
                    ShuttingDown, Creating

-----------------------------------------------------------------------------
\* preStart does not spin.

\* On nodes whose wrappers share no machine there are as many machines as their
\* loads add up to; by the smallest number of nodes for which there are not.
On(S) == {v \in Vm : \E n \in S : v \in wrapper[n]}
TooFew(least) ==
  {k \in Nat : \E S \in SUBSET Node :
     Cardinality(S) = k /\ Cardinality(On(S)) < k * least}

LEMMA LoadsAddUp ==
  ASSUME TypeOK, Apart, NEW least \in Nat, \A n \in Node : Load(n) >= least
  PROVE  Cardinality(Node) * least <= Cardinality(On(Node))
<1>1. ASSUME NEW S \in SUBSET Node
      PROVE  IsFiniteSet(S) /\ Cardinality(S) \in Nat
  BY NodeAssumption, FS_Subset, FS_CardinalityType
<1>2. ASSUME NEW S PROVE IsFiniteSet(On(S)) /\ Cardinality(On(S)) \in Nat
<2>1. On(S) \subseteq Vm
  BY DEF On
<2> QED
  BY <2>1, VmAssumption, FS_Subset, FS_CardinalityType
<1>3. TooFew(least) = {}
<2> SUFFICES ASSUME TooFew(least) # {} PROVE FALSE
  OBVIOUS
<2>1. TooFew(least) \subseteq Nat
  BY DEF TooFew
<2>2. \E k \in TooFew(least) : \A j \in TooFew(least) : ~ (<<j, k>> \in OpToRel(<, Nat))
  BY <2>1, WFMin, NatLessThanWellFounded, Zenon
<2>3. PICK k \in TooFew(least) : \A j \in TooFew(least) : ~ (<<j, k>> \in OpToRel(<, Nat))
  BY <2>2
<2>4. \A j \in TooFew(least) : ~ (j < k)
  BY <2>1, <2>3, Zenon DEF OpToRel
<2>5. k \in Nat /\ \E S \in SUBSET Node : Cardinality(S) = k /\ Cardinality(On(S)) < k * least
  BY DEF TooFew
<2>6. PICK S \in SUBSET Node : Cardinality(S) = k /\ Cardinality(On(S)) < k * least
  BY <2>5
<2>7. k # 0
<3>1. Cardinality(On(S)) \in Nat
  BY <1>2
<3> QED
  BY <2>5, <2>6, <3>1
<2>8. PICK n \in S : TRUE
  BY <1>1, <2>6, <2>7, FS_EmptySet
<2>9. Cardinality(S \ {n}) = k - 1
  BY <1>1, <2>6, <2>8, FS_RemoveElement
<2>10. ~ (Cardinality(On(S \ {n})) < (k - 1) * least)
<3>1. k - 1 \in Nat /\ k - 1 < k
  BY <2>5, <2>7
<3>2. S \ {n} \in SUBSET Node
  OBVIOUS
<3> QED
  BY <2>4, <2>9, <3>1, <3>2 DEF TooFew
<2>11. Cardinality(On(S)) = Cardinality(On(S \ {n})) + Load(n)
<3>1. n \in Node /\ wrapper[n] \in SUBSET Vm
  BY <2>8 DEF TypeOK
<3>2. On(S) = On(S \ {n}) \cup wrapper[n]
  BY <2>8, <3>1 DEF On
<3>3. On(S \ {n}) \cap wrapper[n] = {}
  BY <3>1 DEF On, Apart
<3>4. Cardinality(On(S \ {n}) \cup wrapper[n])
        = Cardinality(On(S \ {n})) + Cardinality(wrapper[n])
          - Cardinality(On(S \ {n}) \cap wrapper[n])
  BY <1>2, <3>1, RoundSizes, FS_Union
<3>5. Cardinality(On(S \ {n}) \cap wrapper[n]) = 0
  BY <3>3, FS_EmptySet
<3>6. Cardinality(On(S \ {n})) \in Nat /\ Load(n) \in Nat
  BY <1>2, <3>1, RoundSizes
<3> QED
  BY <3>2, <3>4, <3>5, <3>6 DEF Load
<2>12. Load(n) >= least /\ Load(n) \in Nat
  BY <2>8, RoundSizes
<2>13. k * least = (k - 1) * least + least /\ (k - 1) * least \in Int /\ k * least \in Int
  BY <2>5
<2> QED
  BY <1>2, <2>6, <2>10, <2>11, <2>12, <2>13
<1>4. Cardinality(Node) \in Nat /\ Cardinality(On(Node)) \in Nat
  BY <1>1, <1>2
<1>5. Cardinality(Node) * least \in Nat
  BY <1>4
<1>6. ~ (Cardinality(On(Node)) < Cardinality(Node) * least)
  BY <1>3, <1>4 DEF TooFew
<1> QED
  BY <1>4, <1>5, <1>6

\* MaxPerNode is rounded up.
LEMMA MaxPerNodeCovers ==
  MaxPerNode \in Nat /\ Demand <= Cardinality(Node) * MaxPerNode
<1> DEFINE nodes == Cardinality(Node)
           quotient == Demand \div nodes
           rest == Demand % nodes
<1>1. nodes \in Nat \ {0} /\ Demand \in Nat
  BY NodeAssumption, LimitsAssumption, FS_CardinalityType, FS_EmptySet
<1> HIDE DEF nodes
<1>2. /\ quotient \in Nat /\ rest \in Nat /\ rest < nodes
      /\ Demand = nodes * quotient + rest
  BY <1>1
<1>3. MaxPerNode = quotient + (IF rest > 0 THEN 1 ELSE 0)
  BY DEF MaxPerNode, nodes
<1> HIDE DEF quotient, rest
<1>4. nodes * (quotient + 1) = nodes * quotient + nodes /\ nodes * quotient \in Nat
  BY <1>1, <1>2
<1>5. CASE rest > 0
  BY <1>1, <1>2, <1>3, <1>4, <1>5 DEF nodes
<1>6. CASE ~ (rest > 0)
  BY <1>1, <1>2, <1>3, <1>6 DEF nodes
<1> QED
  BY <1>5, <1>6

LEMMA StuckOnlyDoubled == TypeOK /\ PoolInv /\ Apart => ~ Stuck
<1> SUFFICES ASSUME TypeOK, PoolInv, Apart, Stuck PROVE FALSE
  OBVIOUS
<1>1. \A n \in Node : Load(n) >= MaxPerNode
  BY RoundSizes, MaxPerNodeCovers DEF Stuck, HasRoom
<1>2. Cardinality(Node) * MaxPerNode <= Cardinality(On(Node))
  BY <1>1, MaxPerNodeCovers, LoadsAddUp
<1>3. On(Node) \subseteq inPool
  BY DEF On, PoolInv, Tracked, Stuck
<1>4. Cardinality(On(Node)) <= Cardinality(inPool) /\ Cardinality(On(Node)) \in Nat
  BY <1>3, PoolSizes, FS_Subset, FS_CardinalityType
<1>5. Cardinality(inPool) < Demand
  BY PoolSizes, LimitsAssumption DEF Stuck, NumberToStart
<1> DEFINE total == Cardinality(Node) * MaxPerNode
<1>6. total \in Nat
  BY MaxPerNodeCovers, NodeAssumption, FS_CardinalityType
<1>7. Demand <= total /\ total <= Cardinality(On(Node))
  BY <1>2, MaxPerNodeCovers
<1> HIDE DEF total
<1> QED
  BY <1>4, <1>5, <1>6, <1>7, PoolSizes, LimitsAssumption

(***************************************************************************)
(* Whatever fails, and when: as long as no machine is in two wrappers, a   *)
(* round comes to its end.  Every step of the broker brings it nearer, by  *)
(* a lexicographic order of natural numbers, but the step that begins a    *)
(* new round; the nodes and the guests never set it back; and preStart     *)
(* never searches for room in vain.  With fairness of the broker's steps   *)
(* rounds follow each other for ever.                                      *)
(***************************************************************************)
THEOREM RoundsEnd ==
  Spec => /\ [](Stage \in Nat /\ Jobs \in Nat /\ Position \in Nat)
          /\ [](Apart => ~ Stuck)
          /\ [][Apart => \/ Descends
                         \/ pc' = "read"
                         \/ NodesAct /\ UNCHANGED <<Stage, Jobs, Position>>]_vars
<1>1. TypeOK /\ RoundInv => Stage \in Nat /\ Jobs \in Nat /\ Position \in Nat
  BY RanksAreNats
<1>2. TypeOK /\ PoolInv => (Apart => ~ Stuck)
  BY StuckOnlyDoubled
<1>3. TypeOK /\ PoolInv /\ RoundInv /\ [Next]_vars =>
        [Apart => \/ Descends
                  \/ pc' = "read"
                  \/ NodesAct /\ UNCHANGED <<Stage, Jobs, Position>>]_vars
  BY NextCases, ReadsDescend, RemovesDescend, CreatesDescend, MigratesDescend, EndsDescend,
     NodesKeepRanks, Zenon
<1> QED
  BY <1>1, <1>2, <1>3, InitTypeOK, NextTypeOK, InitPoolInv, NextPoolInv, InitRoundInv,
     NextRoundInv, PTL DEF Spec

\* While nodes are asked, every machine is in the wrapper of its own node.
HomeInv == pc = "check" => \A v \in inPool : v \in wrapper[nodeName[v]]

LEMMA NextHomeInv == TypeOK /\ HomeInv /\ [Next]_vars => HomeInv'
<1> SUFFICES ASSUME TypeOK, HomeInv, [Next]_vars, pc' = "check" PROVE HomeInv'
  BY DEF HomeInv
<1>1. ASSUME NEW due \in BOOLEAN, ReadPools(due) PROVE HomeInv'
<2>1. nodeName' = entry /\ wrapper' = [n \in Node |-> {v \in Vm : entry[v] = n}]
  BY <1>1 DEF ReadPools
<2> QED
  BY <2>1 DEF HomeInv, inPool, TypeOK
<1>2. ASSUME NEW n \in Node, NEW missed \in SUBSET FoundOn(n), CheckNode(n, missed)
      PROVE  HomeInv'
<2>1. /\ pc = "check" /\ UNCHANGED nodeName
      /\ wrapper' = [wrapper EXCEPT ![n] = @ \cup (FoundOn(n) \ missed)]
  BY <1>2 DEF CheckNode
<2>2. inPool' = inPool /\ \A v \in inPool : nodeName[v] \in Node
  BY <2>1 DEF inPool, TypeOK
<2>3. \A m \in Node : wrapper[m] \subseteq wrapper'[m]
  BY <2>1 DEF TypeOK
<2> QED
  BY <2>1, <2>2, <2>3 DEF HomeInv
<1>3. CASE (\E n \in Node : CheckNodeFails(n)) \/ NodesAct \/ UNCHANGED vars
<2>1. UNCHANGED <<pc, nodeName, wrapper>>
  BY <1>3 DEF CheckNodeFails, NodesAct, NodeFails, NodeCrashes, NodeReturns, VmStops, vars, pool
<2> QED
  BY <2>1 DEF HomeInv, inPool
<1>4. ~ (Removes \/ Creates \/ Migrates \/ Ends \/ ReadPoolsFails \/ Checked)
  BY DEF Removes, RemoveUnknown, Cleaned, RemoveEntry, RemoveEntryFails, RemoveDhcp,
         RemoveDhcpFails, Thrown, Returned, TypeOK, Creates, PreStart, CreateStep, AddEntry,
         CreateVolume, AddDiskEntry, AddDhcp, InstanceStep, CreateVolumeFails, CloneFails,
         StartVm, StartVmFails, Migrates, MigrateFirstVm, MigrateVm, MigrateFails,
         RecordMigration, PolicyDone, Ends, ShutdownVm, ShutdownVmFails, ShutdownDone, Sleep,
         Crash, ReadPoolsFails, Checked
<1> QED
  BY <1>1, <1>2, <1>3, <1>4, NextCases DEF Reads

LEMMA StaysApart ==
  ASSUME TypeOK, SparedInv, PoolInv, RoundInv, HomeInv, Apart, NoneMisplaced, [Next]_vars
  PROVE  Apart'
<1>1. CASE \E due \in BOOLEAN : ReadPools(due)
<2>1. wrapper' = [n \in Node |-> {v \in Vm : entry[v] = n}]
  BY <1>1 DEF ReadPools
<2> QED
  BY <2>1 DEF Apart
<1>2. ASSUME NEW n \in Node, NEW missed \in SUBSET FoundOn(n), CheckNode(n, missed)
      PROVE  Apart'
<2>1. pc = "check" /\ wrapper' = [wrapper EXCEPT ![n] = @ \cup (FoundOn(n) \ missed)]
  BY <1>2 DEF CheckNode
<2>2. ASSUME NEW v \in FoundOn(n) PROVE v \in wrapper[n]
  <3>1. v \in inPool /\ runsOn[v] = n /\ v \in Vm /\ nodeName[v] # NoNode
    BY <2>2 DEF FoundOn, inPool
  <3>2. nodeName[v] = entry[v] /\ v \in wrapper[nodeName[v]]
    BY <2>1, <3>1 DEF SparedInv, HomeInv
  <3>3. v \in Entries /\ runsOn[v] # NoNode
    BY <3>1, <3>2, NodeAssumption DEF Entries
  <3> QED
    BY <3>1, <3>2, <3>3 DEF NoneMisplaced
<2>3. wrapper' = wrapper
  BY <2>1, <2>2 DEF TypeOK
<2> QED
  BY <2>3 DEF Apart
<1>3. CASE Removes
<2>1. \A n \in Node : wrapper'[n] \subseteq wrapper[n]
  BY <1>3 DEF Removes, RemoveUnknown, Cleaned, RemoveEntry, RemoveEntryFails, RemoveDhcp,
              RemoveDhcpFails, DropDisk, pool
<2> QED
  BY <2>1 DEF Apart
<1>4. CASE StartVm
<2>1. /\ pc = "start" /\ node \in Node /\ vm \notin inPool
      /\ wrapper' = [wrapper EXCEPT ![node] = @ \cup {vm}]
  BY <1>4 DEF StartVm, InstanceStep, TypeOK, PolicyPhases, RoundInv, Creating
<2>2. \A n \in Node : vm \notin wrapper[n]
  BY <2>1 DEF PoolInv, Creating
<2> QED
  BY <2>1, <2>2 DEF Apart, TypeOK
<1>5. ASSUME NEW source \in Node, NEW dest \in Node, NEW v \in Vm,
             MigrateFirstVm(source, dest, v)
      PROVE  Apart'
<2>1. /\ v \in wrapper[source]
      /\ wrapper' = [wrapper EXCEPT ![source] = @ \ {v}, ![dest] = @ \cup {v}]
  BY <1>5 DEF MigrateFirstVm
<2>2. \A n \in Node : v \in wrapper'[n] => n = dest
  BY <2>1 DEF Apart, TypeOK
<2>3. \A n \in Node : wrapper'[n] \ {v} \subseteq wrapper[n]
  BY <2>1 DEF TypeOK
<2> QED
  BY <2>2, <2>3 DEF Apart
<1>6. CASE Sleep \/ Crash
<2>1. wrapper' = [n \in Node |-> {}]
  BY <1>6 DEF Sleep, Crash, Cleared
<2> QED
  BY <2>1 DEF Apart
<1>7. CASE \/ ReadPoolsFails \/ Checked \/ \E n \in Node : CheckNodeFails(n)
           \/ \E n \in Node, v \in Vm : PreStart(n, v)
           \/ CreateStep \/ CreateVolumeFails \/ CloneFails \/ StartVmFails
           \/ MigrateVm \/ MigrateFails \/ RecordMigration \/ PolicyDone
           \/ ShutdownDone \/ \E v \in Vm : ShutdownVm(v) \/ ShutdownVmFails(v)
           \/ NodesAct \/ UNCHANGED vars
<2>1. UNCHANGED wrapper
  BY <1>7 DEF ReadPoolsFails, Checked, CheckNodeFails, PreStart, CreateStep, AddEntry,
              CreateVolume, AddDiskEntry, AddDhcp, CreateVolumeFails, CloneFails, StartVmFails,
              MigrateVm, MigrateFails, RecordMigration, PolicyDone, ShutdownDone, ShutdownVm,
              ShutdownVmFails, NodesAct, NodeFails, NodeCrashes, NodeReturns, VmStops, vars, pool
<2> QED
  BY <2>1 DEF Apart
<1> QED
  BY <1>1, <1>2, <1>3, <1>4, <1>5, <1>6, <1>7, NextCases DEF Reads, Creates, Migrates, Ends

(***************************************************************************)
(* What RoundsEnd asks for holds unless LDAP is wrong: wrappers come to    *)
(* share a machine only when one runs on another node than its entry says, *)
(* after a migration that was not recorded.  Settles asks for no more.     *)
(***************************************************************************)
THEOREM OnlyMisplacedDouble == Spec => /\ Apart
                                       /\ [][Apart /\ NoneMisplaced => Apart']_vars
<1>1. Init => Apart /\ HomeInv
  BY DEF Init, Apart, HomeInv
<1>2. TypeOK /\ SparedInv /\ PoolInv /\ RoundInv /\ HomeInv /\ [Next]_vars =>
        [Apart /\ NoneMisplaced => Apart']_vars
  BY StaysApart
<1> QED
  BY <1>1, <1>2, InitTypeOK, NextTypeOK, InitSparedInv, NextSparedInv, InitPoolInv,
     NextPoolInv, InitRoundInv, NextRoundInv, NextHomeInv, PTL DEF Spec
=============================================================================
