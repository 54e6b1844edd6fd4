---------------------------- MODULE EvenlyPolicy ----------------------------
(***************************************************************************)
(* One call of EvenlyPolicy::checkPolicy for one dynamic pool, at the      *)
(* grain of its loops: count the pool's virtual machines, prestart the     *)
(* missing ones, then migrate from the fullest node to the emptiest until  *)
(* they differ by no more than the tolerance.                              *)
(*                                                                         *)
(* A node wrapper (VmPoolNodeWrapper) holds the machines the broker thinks *)
(* are on a node: VmPool::addVm puts a machine into the wrapper of the     *)
(* node LDAP names (sstNode), VirtTools::checkVmsByNode also into the      *)
(* wrapper of the node it was found running on.  The two differ for a      *)
(* `misplaced' machine, whose sstNode was not updated after a migration;   *)
(* such a machine is in two wrappers.                                      *)
(***************************************************************************)
EXTENDS Integers, FiniteSets

CONSTANTS
  Node,        \* the nodes of the pool (Node objects in nodeWrappers)
  Vm,          \* names of virtual machines, used or not
  NoNode,
  PreStarts,   \* values of sstBrokerPreStartNumberOfVirtualMachines
  Minima,      \* values of sstBrokerMinimalNumberOfVirtualMachines
  Tolerance    \* EvenlyPolicy::tolerance

ASSUME NoNodeAssumption == NoNode \notin Node
ASSUME FiniteAssumption == IsFiniteSet(Node) /\ IsFiniteSet(Vm)
\* atoi of an LDAP attribute, or the constructor's -1.
ASSUME LimitsAssumption == PreStarts \subseteq Int /\ Minima \subseteq Int
\* The constructor's 1; setTolerance raises anything smaller to 1.
ASSUME ToleranceAssumption == Tolerance \in Nat /\ Tolerance >= 1

VARIABLES
  pc,            \* "check", "preStart", "migrate"; "done" returns 0,
                 \* "declined" returns -1, "aborted" throws
  nodeName,      \* Vm::nodeName of each machine of the pool, NoNode if not in it
  assigned,      \* the machines with a user (Vm::isAssignedToUser)
  maintenance,   \* the nodes with Node::isMaintenance
  wrapper,       \* VmPoolNodeWrapper::vms
  preStartNumber, minimalNumber,
  numberVms, numberVmsToStart, maxVmPerNode,
  current,       \* the node the for loop of preStart is at
  unvisited,     \* the nodes that loop has still to come to
  misplaced,     \* constant during a call: machines in two wrappers
  started,       \* history: machines created by this call
  migrated,      \* history: machines migrated by this call
  received       \* history: nodes a machine was migrated to by this call

counts == <<numberVms, numberVmsToStart, maxVmPerNode>>
limits == <<preStartNumber, minimalNumber>>
history == <<started, migrated, received>>
input == <<assigned, maintenance, misplaced, limits>>
vars == <<pc, nodeName, wrapper, counts, current, unvisited, history, input>>

vms == {v \in Vm : nodeName[v] # NoNode}          \* VmPool::vms
Load(n) == Cardinality(wrapper[n])                \* getNumberVms()

\* Mutant of Active: the maintenance flag is ignored.
ActiveOrNot == Node

\* EvenlyPolicy::nodeWrappers: the nodes not in maintenance.
Active == Node \ maintenance

\* Running machines of the pool.  When the policy is called every machine of
\* the pool is running: the others have been removed (checkVmsPerNode).
Unassigned == vms \ assigned

\* std::max
MaxOf(a, b) == IF a < b THEN b ELSE a

\* Mutant of NumberToStart: machines with a user pass for prestarted ones.
NumberToStartOfAny ==
  MaxOf(preStartNumber - Cardinality(vms), minimalNumber - Cardinality(vms))

NumberToStart ==
  MaxOf(preStartNumber - Cardinality(Unassigned), minimalNumber - Cardinality(vms))

\* Mutant of MaxPerNode: the remainder is forgotten.
MaxPerNodeRoundedDown(total) == total \div Cardinality(Active)

\* Integer division, one more when there is a remainder.
MaxPerNode(total) ==
  LET nodes == Cardinality(Active)
  IN  (total \div nodes) + (IF total % nodes > 0 THEN 1 ELSE 0)

-----------------------------------------------------------------------------

TypeOK ==
  /\ pc \in {"check", "preStart", "migrate", "done", "declined", "aborted"}
  /\ nodeName \in [Vm -> Node \cup {NoNode}]
  /\ assigned \subseteq vms
  /\ maintenance \subseteq Node
  /\ wrapper \in [Node -> SUBSET vms]
  /\ preStartNumber \in PreStarts /\ minimalNumber \in Minima
  /\ numberVms \in Nat /\ numberVmsToStart \in Int /\ maxVmPerNode \in Nat
  /\ current \in Node \cup {NoNode}
  /\ unvisited \subseteq Node
  /\ misplaced \subseteq vms
  /\ started \subseteq vms /\ migrated \subseteq vms /\ received \subseteq Node

\* The pool as readVmsByPool and checkVmsPerNode leave it.
Init ==
  /\ pc = "check"
  /\ nodeName \in [Vm -> Node \cup {NoNode}]
  /\ assigned \in SUBSET vms
  /\ maintenance \in SUBSET Node
  /\ misplaced \in SUBSET vms
  /\ \E found \in [misplaced -> Node] :
       /\ \A v \in misplaced : found[v] # nodeName[v]
       /\ wrapper = [n \in Node |-> {v \in vms : nodeName[v] = n}
                                      \cup {v \in misplaced : found[v] = n}]
  /\ preStartNumber \in PreStarts /\ minimalNumber \in Minima
  /\ numberVms = 0 /\ numberVmsToStart = 0 /\ maxVmPerNode = 0
  /\ current = NoNode /\ unvisited = {}
  /\ started = {} /\ migrated = {} /\ received = {}

\* checkPolicy up to the call of preStart.
CheckPolicy ==
  /\ pc = "check"
  /\ IF Active = {}
     THEN /\ pc' = "declined"
          /\ UNCHANGED <<counts, unvisited>>
     ELSE /\ pc' = "preStart"
          /\ numberVmsToStart' = NumberToStart
          /\ IF 0 < NumberToStart
             THEN /\ numberVms' = Cardinality(vms) + NumberToStart
                  /\ maxVmPerNode' = MaxPerNode(Cardinality(vms) + NumberToStart)
             ELSE /\ numberVms' = Cardinality(vms)
                  /\ UNCHANGED maxVmPerNode
          /\ unvisited' = Active
  /\ UNCHANGED <<nodeName, wrapper, current, history, input>>

\* preStart's `for' comes to its next node.  The vector was sorted by load
\* (ties in any order) and a node the loop has not come to yet is as it was.
NextNode(n) ==
  /\ pc = "preStart"
  /\ 0 < numberVmsToStart
  /\ current = NoNode
  /\ n \in unvisited
  /\ \A m \in unvisited : Load(n) <= Load(m)
  /\ current' = n
  /\ unvisited' = unvisited \ {n}
  /\ UNCHANGED <<pc, nodeName, wrapper, counts, history, input>>

\* preStart's outer `while' starts the `for' anew.
NextPass ==
  /\ pc = "preStart"
  /\ 0 < numberVmsToStart
  /\ current = NoNode
  /\ unvisited = {}
  /\ unvisited' = Active
  /\ UNCHANGED <<pc, nodeName, wrapper, counts, current, history, input>>

\* Mutant of HasRoom: an off-by-one in the comparison with maxVmPerNode.
HasRoomUpTo(n) == Load(n) + 1 < maxVmPerNode

HasRoom(n) == Load(n) < maxVmPerNode

\* Mutant of Recorded: addVm forgets the map VmPool::vms.
NotRecorded(v) == [nodeName EXCEPT ![v] = @]

\* A machine enters VmPool::vms with the node it was created on.
Recorded(v) == [nodeName EXCEPT ![v] = current]

\* createInstance and VmPool::addVm: a machine with a new UUID.
StartVm(v) ==
  /\ pc = "preStart"
  /\ 0 < numberVmsToStart
  /\ current # NoNode
  /\ HasRoom(current)
  /\ v \notin vms
  /\ nodeName' = Recorded(v)
  /\ wrapper' = [wrapper EXCEPT ![current] = @ \cup {v}]
  /\ numberVmsToStart' = numberVmsToStart - 1
  /\ started' = started \cup {v}
  /\ UNCHANGED <<pc, numberVms, maxVmPerNode, current, unvisited,
                 migrated, received, input>>

\* createInstance throws; nothing in checkPolicy catches it.
StartVmThrows ==
  /\ pc = "preStart"
  /\ 0 < numberVmsToStart
  /\ current # NoNode
  /\ HasRoom(current)
  /\ pc' = "aborted"
  /\ UNCHANGED <<nodeName, wrapper, counts, current, unvisited, history, input>>

\* The inner `while' ends for this node.
LeaveNode ==
  /\ pc = "preStart"
  /\ current # NoNode
  /\ ~ (HasRoom(current) /\ 0 < numberVmsToStart)
  /\ current' = NoNode
  /\ UNCHANGED <<pc, nodeName, wrapper, counts, unvisited, history, input>>

\* preStart returns true; with fewer than two machines there is nothing to balance.
PreStarted ==
  /\ pc = "preStart"
  /\ numberVmsToStart <= 0
  /\ current = NoNode
  /\ pc' = IF Cardinality(vms) < 2 THEN "declined" ELSE "migrate"
  /\ unvisited' = {}
  /\ UNCHANGED <<nodeName, wrapper, counts, current, history, input>>

\* Mutant of Uneven: the tolerance is left out.
UnevenAtAll(source, dest) == Load(source) > Load(dest)
\* Mutant of Uneven: an off-by-one in the tolerance.
UnevenByMore(source, dest) == Load(source) > Load(dest) + Tolerance + 1

Uneven(source, dest) == Load(source) > Load(dest) + Tolerance

\* nodeWrappers.back() and nodeWrappers.front() after the sort.
Fullest(n) == n \in Active /\ \A m \in Active : Load(m) <= Load(n)
Emptiest(n) == n \in Active /\ \A m \in Active : Load(n) <= Load(m)

\* Mutant of Moved: the machine is not taken out of the source's wrapper.
Copied(v, source, dest) == [wrapper EXCEPT ![dest] = @ \cup {v}]

\* The wrappers after VmPoolNodeWrapper::migrateFirstVm, whether Vm::migrate
\* worked or not: it swallows every exception.
Moved(v, source, dest) ==
  [wrapper EXCEPT ![source] = @ \ {v}, ![dest] = @ \cup {v}]

\* The `first' machine of a std::set of pointers can be any.
MigrateFirstVm(source, dest, v) ==
  /\ pc = "migrate"
  /\ Fullest(source) /\ Emptiest(dest)
  /\ Uneven(source, dest)
  /\ v \in wrapper[source]
  /\ wrapper' = Moved(v, source, dest)
  /\ migrated' = migrated \cup {v}
  /\ received' = received \cup {dest}
  /\ UNCHANGED <<pc, nodeName, counts, current, unvisited, started, input>>

LeaveLoop ==
  /\ pc = "migrate"
  /\ \E source, dest \in Node :
       Fullest(source) /\ Emptiest(dest) /\ ~ Uneven(source, dest)
  /\ pc' = "done"
  /\ UNCHANGED <<nodeName, wrapper, counts, current, unvisited, history, input>>

\* The call has returned or thrown.
Returned == pc \in {"done", "declined", "aborted"}
Finished == Returned /\ UNCHANGED vars

Next ==
  \/ CheckPolicy
  \/ \E n \in Node : NextNode(n)
  \/ NextPass
  \/ \E v \in Vm : StartVm(v)
  \/ StartVmThrows
  \/ LeaveNode
  \/ PreStarted
  \/ \E source, dest \in Node, v \in Vm : MigrateFirstVm(source, dest, v)
  \/ LeaveLoop
  \/ Finished

\* One thread that never blocks for ever: the calls to LDAP and libvirt return
\* or throw.
Spec == Init /\ [][Next]_vars /\ WF_vars(Next)

-----------------------------------------------------------------------------

(***************************************************************************)
(* Every machine of the pool is in the wrapper of exactly one node between *)
(* any two steps (a misplaced one: in at least one), whatever is started   *)
(* or migrated.  A machine that fell out would be neither counted nor      *)
(* moved again, one that was doubled would be counted twice.               *)
(***************************************************************************)
EachInOneWrapper ==
  /\ \A v \in vms : \E n \in Node : v \in wrapper[n]
  /\ \A v \in vms \ misplaced : \A m, n \in Node :
       v \in wrapper[m] /\ v \in wrapper[n] => m = n

(***************************************************************************)
(* Unless machines are misplaced, the for loop of preStart over the sorted *)
(* nodes is run once only: when it has come to every node, nothing is left *)
(* to start, so `while (0 < numberVmsToStart)' cannot spin.  This is what  *)
(* the rounding in maxVmPerNode is for.                                    *)
(***************************************************************************)
OnePassIsEnough ==
  pc = "preStart" /\ misplaced = {} /\ unvisited = {} /\ current = NoNode
    => numberVmsToStart <= 0

(***************************************************************************)
(* Once prestarting is over the pool has what its policy asks for, and, if *)
(* anything was started, not one machine more: one of the two limits is    *)
(* met exactly.                                                            *)
(***************************************************************************)
DemandMetExactly ==
  pc \in {"migrate", "done"} =>
    /\ Cardinality(Unassigned) >= preStartNumber
    /\ Cardinality(vms) >= minimalNumber
    /\ started # {} => \/ Cardinality(Unassigned) = preStartNumber
                      \/ Cardinality(vms) = minimalNumber

(***************************************************************************)
(* No node is both relieved and loaded by one call: a node that has        *)
(* received a machine never becomes the fullest one again while the loop   *)
(* runs, so machines are not carried around in circles.                    *)
(***************************************************************************)
NeverSourceAfterDest ==
  [][\A n \in received : wrapper[n] \subseteq wrapper'[n]]_vars

(***************************************************************************)
(* A running machine is live-migrated at most once per call (unless        *)
(* misplaced): once moved, it stays where it is.                           *)
(***************************************************************************)
MigratedAtMostOnce ==
  [][\A v \in migrated \ misplaced : \A n \in Node :
       v \in wrapper[n] <=> v \in wrapper'[n]]_vars

(***************************************************************************)
(* A node in maintenance is left alone: nothing is started on it, nothing  *)
(* migrated to it, and nothing migrated away either.                       *)
(***************************************************************************)
MaintenanceUntouched ==
  [][\A n \in maintenance : wrapper'[n] = wrapper[n]]_vars

(***************************************************************************)
(* When the call returns normally, active nodes differ by no more than the *)
(* tolerance (evenlyPolicy.cpp:168).                                       *)
(***************************************************************************)
BalancedWhenDone ==
  pc = "done" => \A m, n \in Active : Load(m) <= Load(n) + Tolerance

(***************************************************************************)
(* checkPolicy always returns or throws, unless machines are misplaced.    *)
(***************************************************************************)
Terminates == (misplaced = {}) ~> Returned

(***************************************************************************)
(* "create missing prestarted vms on that nodes with less than the average *)
(* number of vms" (evenlyPolicy.cpp:192): without the condition on         *)
(* misplaced machines, preStart gets to the end of that.                   *)
(***************************************************************************)
MissingVmsCreated == (pc = "preStart") ~> (pc # "preStart")
=============================================================================
