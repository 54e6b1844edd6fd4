------------------------- MODULE EvenlyPolicyProofs -------------------------
(***************************************************************************)
(* Theorems about EvenlyPolicy, for any pool, limits and tolerance.        *)
(***************************************************************************)
EXTENDS EvenlyPolicy, FiniteSetTheorems, WellFoundedInduction, TLAPS

\* The size of a set of machines is a number, and grows by one with a machine.
LEMMA SizeOfMachines ==
  ASSUME NEW S \in SUBSET Vm
  PROVE  IsFiniteSet(S) /\ Cardinality(S) \in Nat
BY FiniteAssumption, FS_Subset, FS_CardinalityType

LEMMA OneMachineMore ==
  ASSUME NEW S \in SUBSET Vm, NEW v \in Vm, v \notin S
  PROVE  Cardinality(S \cup {v}) = Cardinality(S) + 1
BY SizeOfMachines, FS_AddElement

LEMMA OneMachineLess ==
  ASSUME NEW S \in SUBSET Vm, NEW v \in S
  PROVE  Cardinality(S \ {v}) = Cardinality(S) - 1
BY SizeOfMachines, FS_RemoveElement

\* There are active nodes to divide by.
LEMMA ActiveNodes ==
  ASSUME maintenance \subseteq Node, Active # {}
  PROVE  Cardinality(Active) \in Nat \ {0}
<1>1. IsFiniteSet(Active)
  BY FiniteAssumption, FS_Subset DEF Active
<1>2. QED
  BY <1>1, FS_CardinalityType, FS_EmptySet

LEMMA MaxPerNodeIsNat ==
  ASSUME maintenance \subseteq Node, Active # {}, NEW total \in Nat
  PROVE  MaxPerNode(total) \in Nat
<1>1. Cardinality(Active) \in Nat \ {0}
  BY ActiveNodes
<1>2. total \div Cardinality(Active) \in Nat
  BY <1>1
<1>3. QED
  BY <1>2 DEF MaxPerNode

-----------------------------------------------------------------------------

LEMMA InitTypeOK == Init => TypeOK
<1>1. SUFFICES ASSUME Init PROVE TypeOK
  OBVIOUS
<1>2. PICK found \in [misplaced -> Node] :
        wrapper = [n \in Node |-> {v \in vms : nodeName[v] = n}
                                    \cup {v \in misplaced : found[v] = n}]
  BY <1>1 DEF Init
<1>3. wrapper \in [Node -> SUBSET vms]
  BY <1>1, <1>2 DEF Init
<1>4. QED
  BY <1>1, <1>3 DEF Init, TypeOK, vms

LEMMA CheckPolicyTypeOK == TypeOK /\ CheckPolicy => TypeOK'
<1>1. SUFFICES ASSUME TypeOK, CheckPolicy PROVE TypeOK'
  OBVIOUS
<1>2. vms' = vms
  BY <1>1 DEF CheckPolicy, vms
<1>3. Cardinality(vms) \in Nat /\ Cardinality(Unassigned) \in Nat
  BY SizeOfMachines DEF vms, Unassigned
<1>4. NumberToStart \in Int
  BY <1>1, <1>3, LimitsAssumption DEF NumberToStart, MaxOf, TypeOK
<1>5. CASE Active = {}
  BY <1>1, <1>2, <1>5 DEF CheckPolicy, TypeOK, input, limits, counts, history, Active
<1>6. CASE Active # {} /\ 0 < NumberToStart
  <2>1. Cardinality(vms) + NumberToStart \in Nat
    BY <1>3, <1>4, <1>6
  <2>2. MaxPerNode(Cardinality(vms) + NumberToStart) \in Nat
    BY <1>1, <1>6, <2>1, MaxPerNodeIsNat DEF TypeOK
  <2>3. numberVms' \in Nat /\ maxVmPerNode' \in Nat /\ numberVmsToStart' \in Int
    BY <1>1, <1>4, <1>6, <2>1, <2>2 DEF CheckPolicy
  <2>4. pc' = "preStart" /\ unvisited' \subseteq Node
    BY <1>1, <1>6 DEF CheckPolicy, Active
  <2>5. QED
    BY <1>1, <1>2, <2>3, <2>4 DEF CheckPolicy, TypeOK, input, limits, history
<1>7. CASE Active # {} /\ ~ (0 < NumberToStart)
  <2>1. numberVms' \in Nat /\ maxVmPerNode' \in Nat /\ numberVmsToStart' \in Int
    BY <1>1, <1>3, <1>4, <1>7 DEF CheckPolicy, TypeOK
  <2>2. pc' = "preStart" /\ unvisited' \subseteq Node
    BY <1>1, <1>7 DEF CheckPolicy, Active
  <2>3. QED
    BY <1>1, <1>2, <2>1, <2>2 DEF CheckPolicy, TypeOK, input, limits, history
<1>8. QED
  BY <1>5, <1>6, <1>7

LEMMA StartVmTypeOK ==
  ASSUME TypeOK, NEW v \in Vm, StartVm(v)
  PROVE  TypeOK' /\ vms' = vms \cup {v} /\ v \notin vms
<1>1. current \in Node /\ v \notin vms
  BY DEF StartVm, TypeOK
<1>2. vms' = vms \cup {v}
  BY <1>1, NoNodeAssumption DEF StartVm, Recorded, TypeOK, vms
<1>3. nodeName' \in [Vm -> Node \cup {NoNode}]
  BY <1>1 DEF StartVm, Recorded, TypeOK
<1>4. wrapper' \in [Node -> SUBSET vms']
  BY <1>1, <1>2 DEF StartVm, TypeOK
<1>5. QED
  BY <1>1, <1>2, <1>3, <1>4 DEF StartVm, TypeOK, input, limits

LEMMA MigrateTypeOK ==
  ASSUME TypeOK, NEW source \in Node, NEW dest \in Node, NEW v \in Vm,
         MigrateFirstVm(source, dest, v)
  PROVE  TypeOK' /\ vms' = vms /\ v \in vms
<1>1. vms' = vms
  BY DEF MigrateFirstVm, vms
<1>2. v \in vms
  BY DEF MigrateFirstVm, TypeOK
<1>3. wrapper' \in [Node -> SUBSET vms']
  BY <1>1, <1>2 DEF MigrateFirstVm, Moved, TypeOK
<1>4. QED
  BY <1>1, <1>2, <1>3 DEF MigrateFirstVm, TypeOK, input, limits, counts

\* The steps that leave the pool and the wrappers alone.
Bookkeeping ==
  \/ \E n \in Node : NextNode(n)
  \/ NextPass
  \/ StartVmThrows
  \/ LeaveNode
  \/ PreStarted
  \/ LeaveLoop
  \/ Finished

LEMMA BookkeepingTypeOK == TypeOK /\ Bookkeeping => TypeOK' /\ vms' = vms
<1>1. SUFFICES ASSUME TypeOK, Bookkeeping PROVE TypeOK' /\ vms' = vms
  OBVIOUS
<1>2. vms' = vms
  BY <1>1 DEF Bookkeeping, NextNode, NextPass, StartVmThrows, LeaveNode, PreStarted,
              LeaveLoop, Finished, vars, vms
<1>3. wrapper' = wrapper
  BY <1>1 DEF Bookkeeping, NextNode, NextPass, StartVmThrows, LeaveNode, PreStarted,
              LeaveLoop, Finished, vars
<1>4. QED
  BY <1>1, <1>2, <1>3
  DEF Bookkeeping, NextNode, NextPass, StartVmThrows, LeaveNode, PreStarted, LeaveLoop,
      Finished, vars, TypeOK, input, limits, counts, history, Active

\* Next, split the way every proof below splits it.
LEMMA NextCases ==
  [Next]_vars =>
    \/ CheckPolicy
    \/ \E v \in Vm : StartVm(v)
    \/ \E source, dest \in Node, v \in Vm : MigrateFirstVm(source, dest, v)
    \/ Bookkeeping
    \/ UNCHANGED vars
BY DEF Next, Bookkeeping

LEMMA StutterTypeOK == TypeOK /\ UNCHANGED vars => TypeOK' /\ vms' = vms
BY DEF TypeOK, vars, vms, input, limits, counts, history

LEMMA NextTypeOK == TypeOK /\ [Next]_vars => TypeOK'
BY NextCases, CheckPolicyTypeOK, StartVmTypeOK, MigrateTypeOK, BookkeepingTypeOK,
   StutterTypeOK

(***************************************************************************)
(* Type correctness; in particular every machine in a wrapper is in the    *)
(* pool's map, which is what VmPool::removeVm relies on.                   *)
(***************************************************************************)
THEOREM TypeCorrect == Spec => []TypeOK
BY InitTypeOK, NextTypeOK, PTL DEF Spec
-----------------------------------------------------------------------------

LEMMA InitEachInOneWrapper == Init => EachInOneWrapper
<1>1. SUFFICES ASSUME Init PROVE EachInOneWrapper
  OBVIOUS
<1>2. PICK found \in [misplaced -> Node] :
        wrapper = [n \in Node |-> {v \in vms : nodeName[v] = n}
                                    \cup {v \in misplaced : found[v] = n}]
  BY <1>1 DEF Init
<1>3. \A v \in vms : nodeName[v] \in Node /\ v \in wrapper[nodeName[v]]
  BY <1>1, <1>2 DEF Init, vms
<1>4. \A v \in vms \ misplaced : \A n \in Node : v \in wrapper[n] => n = nodeName[v]
  BY <1>2
<1>5. QED
  BY <1>3, <1>4 DEF EachInOneWrapper

LEMMA NextEachInOneWrapper ==
  TypeOK /\ EachInOneWrapper /\ [Next]_vars => EachInOneWrapper'
<1>1. SUFFICES ASSUME TypeOK, EachInOneWrapper, [Next]_vars
               PROVE  EachInOneWrapper'
  OBVIOUS
<1>2. CASE CheckPolicy
  BY <1>1, <1>2 DEF CheckPolicy, EachInOneWrapper, input, vms
<1>3. ASSUME NEW v \in Vm, StartVm(v) PROVE EachInOneWrapper'
  <2>1. /\ vms' = vms \cup {v} /\ v \notin vms
        /\ misplaced' = misplaced /\ v \notin misplaced
        /\ current \in Node
        /\ wrapper' = [wrapper EXCEPT ![current] = @ \cup {v}]
    BY <1>1, <1>3, StartVmTypeOK DEF StartVm, TypeOK, input
  <2>2. \A n \in Node : v \notin wrapper[n]
    BY <1>1, <2>1 DEF TypeOK
  <2>3. \A u \in vms : \A n \in Node : u \in wrapper'[n] <=> u \in wrapper[n]
    BY <1>1, <2>1 DEF TypeOK
  <2>4. \A n \in Node : v \in wrapper'[n] <=> n = current
    BY <1>1, <2>1, <2>2 DEF TypeOK
  <2>5. QED
    BY <1>1, <2>1, <2>3, <2>4 DEF EachInOneWrapper
<1>4. ASSUME NEW source \in Node, NEW dest \in Node, NEW v \in Vm,
             MigrateFirstVm(source, dest, v)
      PROVE  EachInOneWrapper'
  <2>1. /\ vms' = vms /\ v \in vms /\ misplaced' = misplaced
        /\ v \in wrapper[source]
        /\ wrapper' = Moved(v, source, dest)
    BY <1>1, <1>4, MigrateTypeOK DEF MigrateFirstVm, input
  <2>2. \A u \in vms \ {v} : \A n \in Node : u \in wrapper'[n] <=> u \in wrapper[n]
    BY <1>1, <2>1 DEF TypeOK, Moved
  <2>3. v \in wrapper'[dest]
    BY <1>1, <2>1 DEF TypeOK, Moved
  <2>4. ASSUME v \notin misplaced, NEW n \in Node, v \in wrapper'[n] PROVE n = dest
    <3>1. n # source => v \notin wrapper[n]
      BY <1>1, <2>1, <2>4 DEF EachInOneWrapper
    <3>2. QED
      BY <1>1, <2>1, <2>4, <3>1 DEF TypeOK, Moved
  <2>5. QED
    BY <1>1, <2>1, <2>2, <2>3, <2>4 DEF EachInOneWrapper
<1>5. CASE Bookkeeping
  <2>1. wrapper' = wrapper /\ misplaced' = misplaced
    BY <1>5 DEF Bookkeeping, NextNode, NextPass, StartVmThrows, LeaveNode, PreStarted,
                LeaveLoop, Finished, vars, input
  <2>2. QED
    BY <1>1, <1>5, <2>1, BookkeepingTypeOK DEF EachInOneWrapper
<1>6. CASE UNCHANGED vars
  BY <1>1, <1>6 DEF EachInOneWrapper, vms, vars, input
<1>7. QED
  BY <1>1, <1>2, <1>3, <1>4, <1>5, <1>6, NextCases

(***************************************************************************)
(* No machine falls out of the wrappers and none is doubled.               *)
(***************************************************************************)
THEOREM MachinesConserved == Spec => []EachInOneWrapper
BY TypeCorrect, InitEachInOneWrapper, NextEachInOneWrapper, PTL DEF Spec

-----------------------------------------------------------------------------

(***************************************************************************)
(* The invariant behind the migration properties.  A node that has         *)
(* received a machine stays within one of every active node: it was the    *)
(* emptiest, and the fullest only falls while the emptiest only rises.     *)
(***************************************************************************)
OnlyActive == current \in Active \cup {NoNode} /\ unvisited \subseteq Active

NothingMovedYet ==
  pc \in {"check", "preStart"} => received = {} /\ migrated = {}

ReceiversStayLow ==
  \A r \in received : r \in Active /\ \A n \in Active : Load(r) <= Load(n) + 1

MovedToReceivers ==
  \A v \in migrated \ misplaced : \A n \in Node : v \in wrapper[n] => n \in received

MigrationInv ==
  /\ TypeOK
  /\ EachInOneWrapper
  /\ OnlyActive
  /\ NothingMovedYet
  /\ ReceiversStayLow
  /\ MovedToReceivers

LEMMA InitMigrationInv == Init => MigrationInv
BY InitTypeOK, InitEachInOneWrapper
DEF Init, MigrationInv, OnlyActive, NothingMovedYet, ReceiversStayLow, MovedToReceivers

\* What a migration does to the loads.
LEMMA LoadsAfterMigration ==
  ASSUME MigrationInv, NEW source \in Node, NEW dest \in Node, NEW v \in Vm,
         MigrateFirstVm(source, dest, v)
  PROVE  /\ \A n \in Node : Load(n) \in Nat
         /\ source \in Active /\ dest \in Active
         /\ Active' = Active
         /\ Load(source) > Load(dest) + 1
         /\ \A n \in Active : Load(dest) <= Load(n)
         /\ Load(source)' = Load(source) - 1
         /\ Load(dest)' \in {Load(dest), Load(dest) + 1}
         /\ \A n \in Node \ {source, dest} : wrapper'[n] = wrapper[n] /\ Load(n)' = Load(n)
<1>1. /\ TypeOK /\ wrapper' = Moved(v, source, dest) /\ v \in wrapper[source]
      /\ Fullest(source) /\ Emptiest(dest) /\ Uneven(source, dest)
      /\ maintenance' = maintenance
  BY DEF MigrationInv, MigrateFirstVm, input
<1>2. \A n \in Node : wrapper[n] \in SUBSET Vm /\ Load(n) \in Nat
  BY <1>1, SizeOfMachines DEF TypeOK, Load, vms
<1>3. /\ source \in Active /\ dest \in Active /\ Active' = Active
      /\ \A n \in Active : Load(dest) <= Load(n)
      /\ Load(source) > Load(dest) + 1
  BY <1>1, <1>2, ToleranceAssumption DEF Fullest, Emptiest, Uneven, Active
<1>4. source # dest
  BY <1>2, <1>3
<1>5. wrapper'[source] = wrapper[source] \ {v} /\ wrapper'[dest] = wrapper[dest] \cup {v}
  BY <1>1, <1>4 DEF Moved, TypeOK
<1>6. Load(source)' = Load(source) - 1
  BY <1>1, <1>2, <1>5, OneMachineLess DEF Load
<1>7. Load(dest)' \in {Load(dest), Load(dest) + 1}
  <2>1. CASE v \in wrapper[dest]
    <3>1. wrapper'[dest] = wrapper[dest]
      BY <1>5, <2>1
    <3>2. QED
      BY <3>1 DEF Load
  <2>2. CASE v \notin wrapper[dest]
    BY <1>2, <1>5, <2>2, OneMachineMore DEF Load
  <2>3. QED
    BY <2>1, <2>2
<1>8. \A n \in Node \ {source, dest} : wrapper'[n] = wrapper[n] /\ Load(n)' = Load(n)
  BY <1>1 DEF Moved, TypeOK, Load
<1>9. QED
  BY <1>2, <1>3, <1>6, <1>7, <1>8

LEMMA MigrateMigrationInv ==
  ASSUME MigrationInv, NEW source \in Node, NEW dest \in Node, NEW v \in Vm,
         MigrateFirstVm(source, dest, v)
  PROVE  source \notin received /\ MigrationInv'
<1>1. /\ \A n \in Node : Load(n) \in Nat
      /\ source \in Active /\ dest \in Active
      /\ Active' = Active
      /\ Load(source) > Load(dest) + 1
      /\ \A n \in Active : Load(dest) <= Load(n)
      /\ Load(source)' = Load(source) - 1
      /\ Load(dest)' \in {Load(dest), Load(dest) + 1}
      /\ \A n \in Node \ {source, dest} : wrapper'[n] = wrapper[n] /\ Load(n)' = Load(n)
  BY LoadsAfterMigration
<1>2. /\ TypeOK /\ EachInOneWrapper /\ OnlyActive /\ ReceiversStayLow /\ MovedToReceivers
      /\ Active \subseteq Node
  BY DEF MigrationInv, Active
<1>3. /\ received' = received \cup {dest} /\ migrated' = migrated \cup {v}
      /\ misplaced' = misplaced /\ v \in wrapper[source] /\ pc' = "migrate"
      /\ current' = current /\ unvisited' = unvisited
      /\ wrapper' = Moved(v, source, dest)
  BY DEF MigrateFirstVm, input
<1>4. source \notin received
  BY <1>1, <1>2 DEF ReceiversStayLow
<1>5. TypeOK' /\ EachInOneWrapper'
  BY <1>2, MigrateTypeOK, NextEachInOneWrapper DEF Next
<1>6. OnlyActive' /\ NothingMovedYet'
  BY <1>1, <1>2, <1>3 DEF OnlyActive, NothingMovedYet
<1>7. ReceiversStayLow'
  <2>1. SUFFICES ASSUME NEW r \in received', NEW n \in Active
                 PROVE  r \in Active /\ Load(r)' <= Load(n)' + 1
    BY <1>1 DEF ReceiversStayLow
  <2>2. r \in Active
    BY <1>1, <1>2, <1>3 DEF ReceiversStayLow
  <2>3. Load(dest) <= Load(n)' /\ Load(n)' \in Nat
    BY <1>1, <1>2
  <2>4. Load(r)' <= Load(dest) + 1 /\ Load(r)' \in Nat
    <3>1. CASE r = dest
      BY <1>1, <1>2, <3>1
    <3>2. CASE r # dest
      <4>1. r \in received /\ r # source
        BY <1>3, <1>4, <3>2
      <4>2. QED
        BY <1>1, <1>2, <2>2, <3>2, <4>1 DEF ReceiversStayLow
    <3>3. QED
      BY <3>1, <3>2
  <2>5. QED
    BY <1>1, <1>2, <2>2, <2>3, <2>4
<1>8. MovedToReceivers'
  <2>1. SUFFICES ASSUME NEW u \in migrated' \ misplaced, NEW n \in Node, u \in wrapper'[n]
                 PROVE  n \in received'
    BY <1>3 DEF MovedToReceivers
  <2>2. CASE u = v
    <3>1. v \in vms \ misplaced
      BY <1>2, <1>3, <2>1, <2>2 DEF TypeOK
    <3>2. n = dest
      <4>1. n # source => v \notin wrapper[n]
        BY <1>2, <1>3, <3>1 DEF EachInOneWrapper
      <4>2. QED
        BY <1>2, <1>3, <2>1, <2>2, <4>1 DEF TypeOK, Moved
    <3>3. QED
      BY <1>3, <3>2
  <2>3. CASE u # v
    <3>1. u \in wrapper[n] /\ u \in migrated
      BY <1>2, <1>3, <2>1, <2>3 DEF TypeOK, Moved
    <3>2. QED
      BY <1>2, <1>3, <2>1, <3>1 DEF MovedToReceivers
  <2>4. QED
    BY <2>2, <2>3
<1>9. QED
  BY <1>4, <1>5, <1>6, <1>7, <1>8 DEF MigrationInv

LEMMA NextMigrationInv == MigrationInv /\ [Next]_vars => MigrationInv'
<1>1. SUFFICES ASSUME MigrationInv, [Next]_vars PROVE MigrationInv'
  OBVIOUS
<1>2. TypeOK' /\ EachInOneWrapper'
  BY <1>1, NextTypeOK, NextEachInOneWrapper DEF MigrationInv
<1>3. CASE CheckPolicy
  <2>1. OnlyActive'
    BY <1>1, <1>3 DEF MigrationInv, OnlyActive, CheckPolicy, Active, input
  <2>2. received = {} /\ migrated = {} /\ received' = {} /\ migrated' = {}
    BY <1>1, <1>3 DEF MigrationInv, NothingMovedYet, CheckPolicy, history
  <2>3. QED
    BY <1>2, <2>1, <2>2 DEF MigrationInv, NothingMovedYet, ReceiversStayLow, MovedToReceivers
<1>4. ASSUME NEW v \in Vm, StartVm(v) PROVE MigrationInv'
  <2>1. OnlyActive'
    BY <1>1, <1>4 DEF MigrationInv, OnlyActive, StartVm, Active, input
  <2>2. received = {} /\ migrated = {} /\ received' = {} /\ migrated' = {}
    BY <1>1, <1>4 DEF MigrationInv, NothingMovedYet, StartVm
  <2>3. QED
    BY <1>2, <2>1, <2>2 DEF MigrationInv, NothingMovedYet, ReceiversStayLow, MovedToReceivers
<1>5. ASSUME NEW source \in Node, NEW dest \in Node, NEW v \in Vm,
             MigrateFirstVm(source, dest, v)
      PROVE  MigrationInv'
  BY <1>1, <1>5, MigrateMigrationInv
<1>6. CASE Bookkeeping \/ UNCHANGED vars
  <2>1. /\ wrapper' = wrapper /\ history' = history /\ misplaced' = misplaced
        /\ maintenance' = maintenance
        /\ pc' \in {"check", "preStart"} => pc = pc'
    BY <1>1, <1>6
    DEF MigrationInv, TypeOK, Bookkeeping, NextNode, NextPass, StartVmThrows, LeaveNode,
        PreStarted, LeaveLoop, Finished, vars, input
  <2>2. OnlyActive'
    BY <1>1, <1>6
    DEF MigrationInv, OnlyActive, Active, Bookkeeping, NextNode, NextPass, StartVmThrows,
        LeaveNode, PreStarted, LeaveLoop, Finished, vars, input
  <2>3. Active' = Active /\ \A n : Load(n)' = Load(n)
    BY <2>1 DEF Active, Load
  <2>4. ReceiversStayLow' /\ MovedToReceivers' /\ NothingMovedYet'
    BY <1>1, <2>1, <2>3
    DEF MigrationInv, ReceiversStayLow, MovedToReceivers, NothingMovedYet, history
  <2>5. QED
    BY <1>2, <2>2, <2>4 DEF MigrationInv
<1>7. QED
  BY <1>1, <1>3, <1>4, <1>5, <1>6, NextCases

THEOREM MigrationInvariant == Spec => []MigrationInv
BY InitMigrationInv, NextMigrationInv, PTL DEF Spec

(***************************************************************************)
(* A node that has received a machine gives none away in the same call.    *)
(***************************************************************************)
THEOREM NeverSource == Spec => NeverSourceAfterDest
<1> DEFINE Kept == \A n \in received : wrapper[n] \subseteq wrapper'[n]
<1>1. MigrationInv /\ [Next]_vars => [Kept]_vars
  <2>1. SUFFICES ASSUME MigrationInv, [Next]_vars PROVE Kept
    OBVIOUS
  <2>2. TypeOK
    BY <2>1 DEF MigrationInv
  <2>3. ASSUME NEW v \in Vm, StartVm(v) PROVE Kept
    BY <2>2, <2>3 DEF StartVm, TypeOK
  <2>4. ASSUME NEW source \in Node, NEW dest \in Node, NEW v \in Vm,
               MigrateFirstVm(source, dest, v)
        PROVE  Kept
    <3>1. source \notin received
      BY <2>1, <2>4, MigrateMigrationInv
    <3>2. QED
      BY <2>2, <2>4, <3>1 DEF MigrateFirstVm, Moved, TypeOK
  <2>5. CASE CheckPolicy \/ Bookkeeping \/ UNCHANGED vars
    BY <2>5 DEF CheckPolicy, Bookkeeping, NextNode, NextPass, StartVmThrows, LeaveNode,
                PreStarted, LeaveLoop, Finished, vars
  <2>6. QED
    BY <2>1, <2>3, <2>4, <2>5, NextCases
<1>2. QED
  BY <1>1, MigrationInvariant, PTL DEF Spec, NeverSourceAfterDest

(***************************************************************************)
(* A machine that has been migrated is not moved again in the same call.   *)
(***************************************************************************)
THEOREM MigratedOnce == Spec => MigratedAtMostOnce
<1> DEFINE Stays == \A v \in migrated \ misplaced : \A n \in Node :
                      v \in wrapper[n] <=> v \in wrapper'[n]
<1>1. MigrationInv /\ [Next]_vars => [Stays]_vars
  <2>1. SUFFICES ASSUME MigrationInv, [Next]_vars PROVE Stays
    OBVIOUS
  <2>2. TypeOK /\ MovedToReceivers
    BY <2>1 DEF MigrationInv
  <2>3. ASSUME NEW v \in Vm, StartVm(v) PROVE Stays
    <3>1. v \notin migrated
      BY <2>2, <2>3, StartVmTypeOK DEF TypeOK
    <3>2. QED
      BY <2>2, <2>3, <3>1 DEF StartVm, TypeOK
  <2>4. ASSUME NEW source \in Node, NEW dest \in Node, NEW v \in Vm,
               MigrateFirstVm(source, dest, v)
        PROVE  Stays
    <3>1. source \notin received
      BY <2>1, <2>4, MigrateMigrationInv
    <3>2. v \notin migrated \ misplaced
      BY <2>2, <2>4, <3>1 DEF MovedToReceivers, MigrateFirstVm
    <3>3. QED
      BY <2>2, <2>4, <3>2 DEF MigrateFirstVm, Moved, TypeOK
  <2>5. CASE CheckPolicy \/ Bookkeeping \/ UNCHANGED vars
    BY <2>5 DEF CheckPolicy, Bookkeeping, NextNode, NextPass, StartVmThrows, LeaveNode,
                PreStarted, LeaveLoop, Finished, vars
  <2>6. QED
    BY <2>1, <2>3, <2>4, <2>5, NextCases
<1>2. QED
  BY <1>1, MigrationInvariant, PTL DEF Spec, MigratedAtMostOnce

(***************************************************************************)
(* Nodes in maintenance neither get machines nor lose them.                *)
(***************************************************************************)
THEOREM MaintenanceLeftAlone == Spec => MaintenanceUntouched
<1> DEFINE Same == \A n \in maintenance : wrapper'[n] = wrapper[n]
<1>1. MigrationInv /\ [Next]_vars => [Same]_vars
  <2>1. SUFFICES ASSUME MigrationInv, [Next]_vars PROVE Same
    OBVIOUS
  <2>2. TypeOK /\ OnlyActive
    BY <2>1 DEF MigrationInv
  <2>3. ASSUME NEW v \in Vm, StartVm(v) PROVE Same
    BY <2>2, <2>3, NoNodeAssumption DEF StartVm, TypeOK, OnlyActive, Active
  <2>4. ASSUME NEW source \in Node, NEW dest \in Node, NEW v \in Vm,
               MigrateFirstVm(source, dest, v)
        PROVE  Same
    BY <2>2, <2>4 DEF MigrateFirstVm, Moved, Fullest, Emptiest, Active, TypeOK
  <2>5. CASE CheckPolicy \/ Bookkeeping \/ UNCHANGED vars
    BY <2>5 DEF CheckPolicy, Bookkeeping, NextNode, NextPass, StartVmThrows, LeaveNode,
                PreStarted, LeaveLoop, Finished, vars
  <2>6. QED
    BY <2>1, <2>3, <2>4, <2>5, NextCases
<1>2. QED
  BY <1>1, MigrationInvariant, PTL DEF Spec, MaintenanceUntouched

(***************************************************************************)
(* A normal return leaves the active nodes within the tolerance.           *)
(***************************************************************************)
THEOREM Balanced == Spec => []BalancedWhenDone
<1>1. Init => BalancedWhenDone
  BY DEF Init, BalancedWhenDone
<1>2. TypeOK /\ BalancedWhenDone /\ [Next]_vars => BalancedWhenDone'
  <2>1. SUFFICES ASSUME TypeOK, BalancedWhenDone, [Next]_vars, pc' = "done"
                 PROVE  \A m, n \in Active' : Load(m)' <= Load(n)' + Tolerance
    BY DEF BalancedWhenDone
  <2>2. CASE LeaveLoop
    <3>1. wrapper' = wrapper /\ maintenance' = maintenance
      BY <2>2 DEF LeaveLoop, input
    <3>2. PICK source \in Node, dest \in Node :
            Fullest(source) /\ Emptiest(dest) /\ ~ Uneven(source, dest)
      BY <2>2 DEF LeaveLoop
    <3>3. \A n \in Node : Load(n) \in Nat
      BY <2>1, SizeOfMachines DEF TypeOK, Load, vms
    <3>4. \A m, n \in Active : Load(m) <= Load(n) + Tolerance
      BY <3>2, <3>3, ToleranceAssumption DEF Fullest, Emptiest, Uneven, Active
    <3>5. QED
      BY <3>1, <3>4 DEF Active, Load
  <2>3. CASE Finished \/ UNCHANGED vars
    <3>1. pc = "done" /\ wrapper' = wrapper /\ maintenance' = maintenance
      BY <2>1, <2>3 DEF Finished, vars, input
    <3>2. QED
      BY <2>1, <3>1 DEF BalancedWhenDone, Active, Load
  <2>4. QED
    BY <2>1, <2>2, <2>3 DEF Next, CheckPolicy, NextNode, NextPass, StartVm, StartVmThrows,
       LeaveNode, PreStarted, MigrateFirstVm
<1>3. QED
  BY <1>1, <1>2, TypeCorrect, PTL DEF Spec

-----------------------------------------------------------------------------

(***************************************************************************)
(* What is there and what is still to be started make up the demand, in    *)
(* one of the two limits exactly, all the time machines are started.       *)
(***************************************************************************)
DemandAccounted ==
  pc \in {"preStart", "migrate", "done"} =>
    /\ Cardinality(Unassigned) + numberVmsToStart >= preStartNumber
    /\ Cardinality(vms) + numberVmsToStart >= minimalNumber
    /\ \/ Cardinality(Unassigned) + numberVmsToStart = preStartNumber
       \/ Cardinality(vms) + numberVmsToStart = minimalNumber
    /\ started # {} => numberVmsToStart >= 0

NothingLeftToStart ==
  pc \in {"migrate", "done"} => numberVmsToStart <= 0

DemandInv ==
  /\ pc = "check" => started = {}
  /\ DemandAccounted
  /\ NothingLeftToStart

LEMMA NextDemandInv == TypeOK /\ DemandInv /\ [Next]_vars => DemandInv'
<1>1. SUFFICES ASSUME TypeOK, DemandInv, [Next]_vars PROVE DemandInv'
  OBVIOUS
<1>2. Cardinality(vms) \in Nat /\ Cardinality(Unassigned) \in Nat
  BY SizeOfMachines DEF vms, Unassigned
<1>3. numberVmsToStart \in Int /\ preStartNumber \in Int /\ minimalNumber \in Int
  BY <1>1, LimitsAssumption DEF TypeOK
<1>4. CASE CheckPolicy
  <2>1. vms' = vms /\ Unassigned' = Unassigned /\ started' = {}
        /\ preStartNumber' = preStartNumber /\ minimalNumber' = minimalNumber
    BY <1>1, <1>4 DEF CheckPolicy, vms, Unassigned, DemandInv, history, input, limits
  <2>2. CASE Active = {}
    BY <1>4, <2>1, <2>2 DEF CheckPolicy, DemandInv, DemandAccounted, NothingLeftToStart
  <2>3. CASE Active # {}
    <3>1. pc' = "preStart" /\ numberVmsToStart' = NumberToStart
      BY <1>4, <2>3 DEF CheckPolicy
    <3>2. /\ NumberToStart >= preStartNumber - Cardinality(Unassigned)
          /\ NumberToStart >= minimalNumber - Cardinality(vms)
          /\ \/ NumberToStart = preStartNumber - Cardinality(Unassigned)
             \/ NumberToStart = minimalNumber - Cardinality(vms)
      BY <1>2, <1>3 DEF NumberToStart, MaxOf
    <3>3. QED
      BY <1>2, <1>3, <2>1, <3>1, <3>2 DEF DemandInv, DemandAccounted, NothingLeftToStart
  <2>4. QED
    BY <2>2, <2>3
<1>5. ASSUME NEW v \in Vm, StartVm(v) PROVE DemandInv'
  <2>1. vms' = vms \cup {v} /\ v \notin vms /\ v \notin assigned /\ assigned' = assigned
    BY <1>1, <1>5, StartVmTypeOK DEF StartVm, TypeOK, input
  <2>2. Unassigned' = Unassigned \cup {v} /\ v \notin Unassigned
    BY <2>1 DEF Unassigned
  <2>3. /\ Cardinality(vms') = Cardinality(vms) + 1
        /\ Cardinality(Unassigned') = Cardinality(Unassigned) + 1
    BY <2>1, <2>2, OneMachineMore DEF vms, Unassigned
  <2>4. /\ pc = "preStart" /\ pc' = "preStart" /\ 0 < numberVmsToStart
        /\ numberVmsToStart' = numberVmsToStart - 1
        /\ preStartNumber' = preStartNumber /\ minimalNumber' = minimalNumber
    BY <1>5 DEF StartVm, input, limits
  <2>5. QED
    BY <1>1, <1>2, <1>3, <2>3, <2>4 DEF DemandInv, DemandAccounted, NothingLeftToStart
<1>6. ASSUME NEW source \in Node, NEW dest \in Node, NEW v \in Vm,
             MigrateFirstVm(source, dest, v)
      PROVE  DemandInv'
  <2>1. /\ vms' = vms /\ Unassigned' = Unassigned /\ started' = started /\ pc' = pc
        /\ numberVmsToStart' = numberVmsToStart
        /\ preStartNumber' = preStartNumber /\ minimalNumber' = minimalNumber
    BY <1>6 DEF MigrateFirstVm, vms, Unassigned, counts, input, limits
  <2>2. QED
    BY <1>1, <2>1 DEF DemandInv, DemandAccounted, NothingLeftToStart
<1>7. CASE Bookkeeping \/ UNCHANGED vars
  <2>1. /\ vms' = vms /\ Unassigned' = Unassigned /\ started' = started
        /\ numberVmsToStart' = numberVmsToStart
        /\ preStartNumber' = preStartNumber /\ minimalNumber' = minimalNumber
    BY <1>7
    DEF Bookkeeping, NextNode, NextPass, StartVmThrows, LeaveNode, PreStarted, LeaveLoop,
        Finished, vars, vms, Unassigned, counts, history, input, limits
  <2>2. /\ pc' = "check" => pc = "check"
        /\ pc' \in {"preStart", "migrate", "done"} => pc \in {"preStart", "migrate", "done"}
        /\ pc' \in {"migrate", "done"} =>
             pc \in {"migrate", "done"} \/ numberVmsToStart <= 0
    BY <1>7
    DEF Bookkeeping, NextNode, NextPass, StartVmThrows, LeaveNode, PreStarted, LeaveLoop,
        Finished, vars
  <2>3. QED
    BY <1>1, <2>1, <2>2 DEF DemandInv, DemandAccounted, NothingLeftToStart
<1>8. QED
  BY <1>1, <1>4, <1>5, <1>6, <1>7, NextCases

(***************************************************************************)
(* Prestarting meets the demand and does not exceed it.                    *)
(***************************************************************************)
THEOREM DemandMet == Spec => []DemandMetExactly
<1>1. Init => DemandInv
  BY DEF Init, DemandInv, DemandAccounted, NothingLeftToStart
<1>2. TypeOK /\ DemandInv => DemandMetExactly
  <2>1. SUFFICES ASSUME TypeOK, DemandInv, pc \in {"migrate", "done"}
                 PROVE  DemandMetExactly
    BY DEF DemandMetExactly
  <2>2. Cardinality(vms) \in Nat /\ Cardinality(Unassigned) \in Nat
    BY SizeOfMachines DEF vms, Unassigned
  <2>3. numberVmsToStart \in Int /\ preStartNumber \in Int /\ minimalNumber \in Int
    BY <2>1, LimitsAssumption DEF TypeOK
  <2>4. QED
    BY <2>1, <2>2, <2>3
    DEF DemandInv, DemandAccounted, NothingLeftToStart, DemandMetExactly
<1>3. QED
  BY <1>1, <1>2, NextDemandInv, TypeCorrect, PTL DEF Spec

-----------------------------------------------------------------------------
\* One pass over the nodes is enough.

\* What maxVmPerNode is rounded up for: as many machines on every node make
\* the total at least.
LEMMA MaxPerNodeCovers ==
  ASSUME maintenance \subseteq Node, Active # {}, NEW total \in Nat
  PROVE  total <= Cardinality(Active) * MaxPerNode(total)
<1> DEFINE nodes == Cardinality(Active)
           quotient == total \div nodes
           rest == total % nodes
<1>1. nodes \in Nat \ {0}
  BY ActiveNodes
<1> HIDE DEF nodes
<1>2. /\ quotient \in Nat /\ rest \in Nat /\ rest < nodes
      /\ total = nodes * quotient + rest
  BY <1>1
<1>3. MaxPerNode(total) = quotient + (IF rest > 0 THEN 1 ELSE 0)
  BY DEF MaxPerNode, nodes
<1> HIDE DEF quotient, rest
<1>4. CASE rest > 0
<2>1. nodes * (quotient + 1) = nodes * quotient + nodes
  BY <1>1, <1>2
<2>2. nodes * quotient \in Nat
  BY <1>1, <1>2
<2> QED
  BY <1>1, <1>2, <1>3, <1>4, <2>1, <2>2 DEF nodes
<1>5. CASE ~ (rest > 0)
  BY <1>1, <1>2, <1>3, <1>5 DEF nodes
<1> QED
  BY <1>4, <1>5

\* On nodes that share no machine there are as many machines as their loads
\* add up to; by the smallest number of nodes for which there are not.
On(S) == {v \in Vm : \E n \in S : v \in wrapper[n]}
TooFew(least) ==
  {k \in Nat : \E S \in SUBSET Active :
     Cardinality(S) = k /\ Cardinality(On(S)) < k * least}

LEMMA LoadsAddUp ==
  ASSUME TypeOK, EachInOneWrapper, misplaced = {},
         NEW least \in Nat, \A n \in Active : Load(n) >= least
  PROVE  Cardinality(Active) * least <= Cardinality(vms)
<1>1. ASSUME NEW S \in SUBSET Active
      PROVE  IsFiniteSet(S) /\ Cardinality(S) \in Nat
  BY FiniteAssumption, FS_Subset, FS_CardinalityType DEF Active
<1>2. ASSUME NEW S PROVE IsFiniteSet(On(S)) /\ Cardinality(On(S)) \in Nat
  BY SizeOfMachines DEF On
<1>3. TooFew(least) = {}
<2> SUFFICES ASSUME TooFew(least) # {} PROVE FALSE
  OBVIOUS
<2>1. TooFew(least) \subseteq Nat
  BY DEF TooFew
<2>2. \E k \in TooFew(least) : \A j \in TooFew(least) : ~ (<<j, k>> \in OpToRel(<, Nat))
  BY <2>1, WFMin, NatLessThanWellFounded, Zenon
<2>3. PICK k \in TooFew(least) : \A j \in TooFew(least) : ~ (<<j, k>> \in OpToRel(<, Nat))
  BY <2>2
<2>4. \A j \in TooFew(least) : ~ (j < k)
  BY <2>1, <2>3, Zenon DEF OpToRel
<2>5. k \in Nat /\ \E S \in SUBSET Active : Cardinality(S) = k /\ Cardinality(On(S)) < k * least
  BY DEF TooFew
<2>6. PICK S \in SUBSET Active : Cardinality(S) = k /\ Cardinality(On(S)) < k * least
  BY <2>5
<2>7. k # 0
<3>1. Cardinality(On(S)) \in Nat
  BY <1>2
<3> QED
  BY <2>5, <2>6, <3>1
<2>8. PICK n \in S : TRUE
  BY <1>1, <2>6, <2>7, FS_EmptySet
<2>9. Cardinality(S \ {n}) = k - 1
  BY <1>1, <2>6, <2>8, FS_RemoveElement
<2>10. ~ (Cardinality(On(S \ {n})) < (k - 1) * least)
<3>1. k - 1 \in Nat /\ k - 1 < k
  BY <2>5, <2>7
<3>2. S \ {n} \in SUBSET Active
  OBVIOUS
<3> QED
  BY <2>4, <2>9, <3>1, <3>2 DEF TooFew
<2>11. Cardinality(On(S)) = Cardinality(On(S \ {n})) + Load(n)
<3>1. n \in Node /\ wrapper[n] \in SUBSET Vm /\ S \subseteq Node
  BY <2>8 DEF Active, TypeOK, vms
<3>2. On(S) = On(S \ {n}) \cup wrapper[n]
  BY <2>8, <3>1 DEF On
<3>3. On(S \ {n}) \cap wrapper[n] = {}
<4> SUFFICES ASSUME NEW v \in On(S \ {n}), v \in wrapper[n] PROVE FALSE
  OBVIOUS
<4>1. PICK m \in S \ {n} : v \in wrapper[m]
  BY DEF On
<4>2. v \in vms \ misplaced /\ m \in Node
  BY <3>1, <4>1 DEF TypeOK
<4> QED
  BY <3>1, <4>1, <4>2 DEF EachInOneWrapper
<3>4. Cardinality(On(S \ {n}) \cup wrapper[n])
        = Cardinality(On(S \ {n})) + Cardinality(wrapper[n])
          - Cardinality(On(S \ {n}) \cap wrapper[n])
  BY <1>2, <3>1, SizeOfMachines, FS_Union
<3>5. Cardinality(On(S \ {n}) \cap wrapper[n]) = 0
  BY <3>3, FS_EmptySet
<3>6. Cardinality(On(S \ {n})) \in Nat /\ Cardinality(wrapper[n]) \in Nat
  BY <1>2, <3>1, SizeOfMachines
<3> QED
  BY <3>2, <3>4, <3>5, <3>6 DEF Load
<2>12. Load(n) >= least /\ Load(n) \in Nat
  BY <2>8, SizeOfMachines DEF Active, TypeOK, Load, vms
<2>13. k * least = (k - 1) * least + least /\ (k - 1) * least \in Int /\ k * least \in Int
  BY <2>5
<2> QED
  BY <1>2, <2>6, <2>10, <2>11, <2>12, <2>13
<1>4. Cardinality(Active) * least <= Cardinality(On(Active))
<2>1. Cardinality(Active) \in Nat /\ Cardinality(On(Active)) \in Nat
  BY <1>1, <1>2
<2>2. Cardinality(Active) * least \in Nat
  BY <2>1
<2>3. ~ (Cardinality(On(Active)) < Cardinality(Active) * least)
  BY <1>3, <2>1 DEF TooFew
<2> QED
  BY <2>1, <2>2, <2>3
<1>5. On(Active) \subseteq vms /\ IsFiniteSet(vms)
  BY SizeOfMachines DEF On, Active, TypeOK, vms
<1>6. Cardinality(On(Active)) <= Cardinality(vms) /\ Cardinality(vms) \in Nat
  BY <1>5, FS_Subset, FS_CardinalityType
<1>7. Cardinality(Active) * least \in Nat /\ Cardinality(On(Active)) \in Nat
  BY <1>1, <1>2
<1> QED
  BY <1>4, <1>6, <1>7

(***************************************************************************)
(* A node the loop has left has all the machines that maxVmPerNode gives   *)
(* it, as long as there is something to start.                             *)
(***************************************************************************)
PassInv ==
  pc = "preStart" /\ 0 < numberVmsToStart =>
    /\ Active # {} /\ unvisited \subseteq Active
    /\ maxVmPerNode = MaxPerNode(Cardinality(vms) + numberVmsToStart)
    /\ \A n \in Active \ (unvisited \cup {current}) : Load(n) >= maxVmPerNode

LEMMA StartVmPassInv ==
  ASSUME TypeOK, PassInv, NEW v \in Vm, StartVm(v)
  PROVE  PassInv'
<1>1. /\ pc = "preStart" /\ 0 < numberVmsToStart /\ current \in Node
      /\ wrapper' = [wrapper EXCEPT ![current] = @ \cup {v}]
      /\ numberVmsToStart' = numberVmsToStart - 1
      /\ UNCHANGED <<maxVmPerNode, current, unvisited, maintenance>>
  BY DEF StartVm, TypeOK, input
<1>2. Active' = Active
  BY <1>1 DEF Active
<1>3. Cardinality(vms') = Cardinality(vms) + 1 /\ Cardinality(vms) \in Nat
<2>1. vms' = vms \cup {v} /\ v \notin vms
  BY StartVmTypeOK DEF StartVm
<2> QED
  BY <2>1, OneMachineMore, SizeOfMachines DEF vms
<1>4. Cardinality(vms') + numberVmsToStart' = Cardinality(vms) + numberVmsToStart
  BY <1>1, <1>3 DEF TypeOK
<1>5. maxVmPerNode' = MaxPerNode(Cardinality(vms) + numberVmsToStart)'
  BY <1>1, <1>2, <1>4 DEF PassInv, MaxPerNode
<1>6. ASSUME NEW n \in Active \ (unvisited \cup {current}) PROVE Load(n)' >= maxVmPerNode'
  BY <1>1, <1>6 DEF PassInv, Load, Active, TypeOK
<1> QED
  BY <1>1, <1>2, <1>5, <1>6 DEF PassInv

LEMMA NextPassInv == TypeOK /\ PassInv /\ [Next]_vars => PassInv'
<1> SUFFICES ASSUME TypeOK, PassInv, [Next]_vars PROVE PassInv'
  OBVIOUS
<1>1. CASE CheckPolicy
<2>1. vms' = vms /\ Active' = Active
  BY <1>1 DEF CheckPolicy, vms, Active, input
<2>2. CASE Active = {} \/ ~ (0 < NumberToStart)
  BY <1>1, <2>2 DEF CheckPolicy, PassInv
<2>3. CASE Active # {} /\ 0 < NumberToStart
<3>1. unvisited' = Active /\ numberVmsToStart' = NumberToStart
      /\ maxVmPerNode' = MaxPerNode(Cardinality(vms) + NumberToStart)
  BY <1>1, <2>3 DEF CheckPolicy
<3> QED
  BY <2>1, <2>3, <3>1 DEF PassInv, MaxPerNode
<2> QED
  BY <2>2, <2>3
<1>2. ASSUME NEW v \in Vm, StartVm(v) PROVE PassInv'
  BY <1>2, StartVmPassInv
<1>3. CASE \E n \in Node : NextNode(n)
<2>1. PICK n \in Node : NextNode(n)
  BY <1>3
<2>2. /\ pc = "preStart" /\ 0 < numberVmsToStart /\ current = NoNode /\ n \in unvisited
      /\ current' = n /\ unvisited' = unvisited \ {n}
      /\ UNCHANGED <<nodeName, wrapper, numberVmsToStart, maxVmPerNode, maintenance>>
  BY <2>1 DEF NextNode, counts, input
<2> QED
  BY <2>2, NoNodeAssumption DEF PassInv, vms, Active, Load, MaxPerNode
<1>4. CASE NextPass
  BY <1>4 DEF NextPass, PassInv, vms, Active, Load, MaxPerNode, counts, input
<1>5. CASE LeaveNode
<2>1. /\ pc = "preStart" /\ current # NoNode /\ ~ (HasRoom(current) /\ 0 < numberVmsToStart)
      /\ current' = NoNode
      /\ UNCHANGED <<nodeName, wrapper, numberVmsToStart, maxVmPerNode, unvisited, maintenance>>
  BY <1>5 DEF LeaveNode, counts, input
<2>2. Load(current) \in Nat
  BY <2>1, SizeOfMachines DEF TypeOK, Load, vms
<2>3. 0 < numberVmsToStart => Load(current) >= maxVmPerNode
  BY <2>1, <2>2 DEF HasRoom, TypeOK
<2> QED
  BY <2>1, <2>3 DEF PassInv, vms, Active, Load, MaxPerNode
<1>6. CASE UNCHANGED vars
  BY <1>6 DEF PassInv, vars, vms, Active, Load, MaxPerNode, counts, input
<1>7. CASE \/ StartVmThrows \/ PreStarted \/ LeaveLoop \/ Finished
           \/ \E source, dest \in Node, v \in Vm : MigrateFirstVm(source, dest, v)
<2>1. pc' # "preStart"
  BY <1>7 DEF StartVmThrows, PreStarted, LeaveLoop, Finished, Returned, MigrateFirstVm, vars
<2> QED
  BY <2>1 DEF PassInv
<1> QED
  BY <1>1, <1>2, <1>3, <1>4, <1>5, <1>6, <1>7 DEF Next

(***************************************************************************)
(* OnePassIsEnough of EvenlyPolicy: with any number of nodes, machines and *)
(* limits, when the loop has come to all nodes nothing is left to start,   *)
(* or every node would have its share of a total that is not reached.      *)
(***************************************************************************)
THEOREM OnePass == Spec => []OnePassIsEnough
<1>1. Init => PassInv
  BY DEF Init, PassInv
<1>2. TypeOK /\ EachInOneWrapper /\ PassInv => OnePassIsEnough
<2> SUFFICES ASSUME TypeOK, EachInOneWrapper, PassInv, pc = "preStart", misplaced = {},
                    unvisited = {}, current = NoNode, 0 < numberVmsToStart
             PROVE  FALSE
  BY DEF OnePassIsEnough, TypeOK
<2> DEFINE total == Cardinality(vms) + numberVmsToStart
<2>1. Cardinality(vms) \in Nat /\ numberVmsToStart \in Int
  BY SizeOfMachines DEF TypeOK, vms
<2>2. total \in Nat /\ Cardinality(vms) < total
  BY <2>1
<2> HIDE DEF total
<2>3. maintenance \subseteq Node /\ Active # {} /\ maxVmPerNode = MaxPerNode(total)
      /\ maxVmPerNode \in Nat
  BY DEF PassInv, TypeOK, total
<2>4. \A n \in Active : Load(n) >= maxVmPerNode
  BY NoNodeAssumption DEF PassInv, Active
<2>5. Cardinality(Active) * maxVmPerNode <= Cardinality(vms)
  BY <2>3, <2>4, LoadsAddUp
<2>6. total <= Cardinality(Active) * maxVmPerNode
  BY <2>2, <2>3, MaxPerNodeCovers
<2>7. Cardinality(Active) * maxVmPerNode \in Nat
  BY <2>3, ActiveNodes
<2> QED
  BY <2>1, <2>2, <2>5, <2>6, <2>7
<1> QED
  BY <1>1, <1>2, TypeCorrect, MachinesConserved, NextPassInv, PTL DEF Spec

-----------------------------------------------------------------------------
\* The call ends: a bound on the steps it still takes.

(***************************************************************************)
(* preStart comes to each node once and starts each missing machine once;  *)
(* the balancing loop moves each machine once.                             *)
(***************************************************************************)
StepsLeft ==
  CASE pc = "check" ->
         Cardinality(Vm) + 2 * Cardinality(Active) + MaxOf(0, NumberToStart) + 4
    [] pc = "preStart" ->
         Cardinality(Vm) + 2 * Cardinality(unvisited) + (IF current = NoNode THEN 0 ELSE 1)
           + MaxOf(0, numberVmsToStart) + 2
    [] pc = "migrate" -> Cardinality(Vm \ migrated) + 1
    [] OTHER -> 0

\* The numbers StepsLeft is made of.
LEMMA StepsLeftIsNat ==
  ASSUME TypeOK
  PROVE  /\ Cardinality(Vm) \in Nat
         /\ Cardinality(Active) \in Nat /\ Cardinality(unvisited) \in Nat
         /\ NumberToStart \in Int /\ numberVmsToStart \in Int
         /\ Cardinality(Vm \ migrated) \in Nat
         /\ Cardinality(Vm \ migrated) <= Cardinality(Vm)
         /\ StepsLeft \in Nat
<1>1. Cardinality(Vm) \in Nat /\ Cardinality(Vm \ migrated) \in Nat
  BY SizeOfMachines
<1>2. Cardinality(Active) \in Nat /\ Cardinality(unvisited) \in Nat
  BY FiniteAssumption, FS_Subset, FS_CardinalityType DEF Active, TypeOK
<1>3. NumberToStart \in Int
  BY SizeOfMachines, LimitsAssumption DEF NumberToStart, MaxOf, Unassigned, vms, TypeOK
<1>4. numberVmsToStart \in Int
  BY DEF TypeOK
<1>5. Cardinality(Vm \ migrated) <= Cardinality(Vm)
  BY FiniteAssumption, FS_Subset
<1> DEFINE m == Cardinality(Vm)   r == Cardinality(Vm \ migrated)
           a == Cardinality(Active)   u == Cardinality(unvisited)
           p == NumberToStart   q == numberVmsToStart
<1>6. StepsLeft \in Nat
<2>1. StepsLeft = CASE pc = "check" -> m + 2 * a + MaxOf(0, p) + 4
                    [] pc = "preStart" ->
                         m + 2 * u + (IF current = NoNode THEN 0 ELSE 1) + MaxOf(0, q) + 2
                    [] pc = "migrate" -> r + 1
                    [] OTHER -> 0
  BY DEF StepsLeft
<2> HIDE DEF m, r, a, u, p, q
<2>2. m \in Nat /\ r \in Nat /\ a \in Nat /\ u \in Nat /\ p \in Int /\ q \in Int
  BY <1>1, <1>2, <1>3, <1>4 DEF m, r, a, u, p, q
<2> QED
  BY <2>1, <2>2 DEF MaxOf
<1> QED
  BY <1>1, <1>2, <1>3, <1>4, <1>5, <1>6

LEMMA CheckPolicyDescends ==
  ASSUME TypeOK, CheckPolicy, TypeOK'  PROVE StepsLeft' < StepsLeft
<1>1. pc = "check" /\ pc' \in {"declined", "preStart"}
  BY DEF CheckPolicy
<1> DEFINE m == Cardinality(Vm)   a == Cardinality(Active)   p == NumberToStart
<1>2. StepsLeft = m + 2 * a + MaxOf(0, p) + 4
  BY <1>1 DEF StepsLeft
<1>3. pc' = "declined" => StepsLeft' = 0
  BY DEF StepsLeft
<1>4. pc' = "preStart" =>
        StepsLeft' = m + 2 * a + (IF current' = NoNode THEN 0 ELSE 1) + MaxOf(0, p) + 2
  BY <1>1 DEF StepsLeft, CheckPolicy
<1>6. m \in Nat /\ a \in Nat /\ p \in Int
  BY StepsLeftIsNat
<1> HIDE DEF m, a, p
<1>7. CASE pc' = "declined"
  BY <1>2, <1>3, <1>6, <1>7 DEF MaxOf
<1>8. CASE pc' = "preStart"
  BY <1>2, <1>4, <1>6, <1>8 DEF MaxOf
<1> QED
  BY <1>1, <1>7, <1>8

LEMMA PreStartDescends ==
  ASSUME TypeOK, TypeOK', OnePassIsEnough, OnlyActive, misplaced = {},
         \/ \E n \in Node : NextNode(n)
         \/ NextPass \/ StartVmThrows \/ LeaveNode \/ PreStarted
         \/ \E v \in Vm : StartVm(v)
  PROVE  StepsLeft' < StepsLeft
<1> DEFINE m == Cardinality(Vm)   u == Cardinality(unvisited)   q == numberVmsToStart
           c == IF current = NoNode THEN 0 ELSE 1
           r == Cardinality(Vm \ migrated)
<1>1. pc = "preStart"
  BY DEF NextNode, NextPass, StartVmThrows, LeaveNode, PreStarted, StartVm
<1>2. StepsLeft = m + 2 * u + c + MaxOf(0, q) + 2
  BY <1>1 DEF StepsLeft
<1>3. /\ pc' = "preStart" => StepsLeft' = m + 2 * u' + c' + MaxOf(0, q') + 2
      /\ pc' = "migrate" => StepsLeft' = r' + 1
      /\ pc' \in {"aborted", "declined"} => StepsLeft' = 0
  BY DEF StepsLeft
<1>4. m \in Nat /\ u \in Nat /\ u' \in Nat /\ q \in Int /\ q' \in Int /\ r' \in Nat /\ r' <= m
<2>1. u \in Nat /\ q \in Int
  BY StepsLeftIsNat
<2>2. u' \in Nat /\ q' \in Int
  BY FiniteAssumption, FS_Subset, FS_CardinalityType DEF TypeOK
<2>3. m \in Nat /\ r' \in Nat /\ r' <= m
  BY FiniteAssumption, FS_Subset, FS_CardinalityType
<2> QED
  BY <2>1, <2>2, <2>3
<1>5. c \in {0, 1} /\ c' \in {0, 1}
  OBVIOUS
<1>6. CASE \E n \in Node : NextNode(n)
<2>1. PICK n \in Node : NextNode(n)
  BY <1>6
<2>2. pc' = pc /\ q' = q /\ current = NoNode /\ current' = n /\ n \in unvisited
      /\ unvisited' = unvisited \ {n}
  BY <2>1 DEF NextNode, counts
<2>3. u' = u - 1
<3>1. IsFiniteSet(unvisited)
  BY FiniteAssumption, FS_Subset DEF TypeOK
<3> QED
  BY <2>2, <3>1, FS_RemoveElement
<2>4. c = 0 /\ c' = 1
  BY <2>2, NoNodeAssumption
<2> HIDE DEF m, u, q, c
<2> QED
  BY <1>1, <1>2, <1>3, <1>4, <2>2, <2>3, <2>4 DEF MaxOf
<1>7. ~ NextPass
  BY DEF NextPass, OnePassIsEnough, TypeOK
<1>8. CASE LeaveNode
<2>1. pc' = pc /\ q' = q /\ u' = u /\ c = 1 /\ c' = 0
  BY <1>8 DEF LeaveNode, counts
<2> HIDE DEF m, u, q, c
<2> QED
  BY <1>1, <1>2, <1>3, <1>4, <2>1 DEF MaxOf
<1>9. CASE \E v \in Vm : StartVm(v)
<2>1. pc' = pc /\ u' = u /\ c' = c /\ 0 < q /\ q' = q - 1
  BY <1>9 DEF StartVm
<2> HIDE DEF m, u, q, c
<2> QED
  BY <1>1, <1>2, <1>3, <1>4, <1>5, <2>1 DEF MaxOf
<1>10. CASE StartVmThrows \/ PreStarted
<2>1. pc' \in {"aborted", "declined", "migrate"}
  BY <1>10 DEF StartVmThrows, PreStarted
<2> HIDE DEF m, u, q, c, r
<2> QED
  BY <1>2, <1>3, <1>4, <1>5, <2>1 DEF MaxOf
<1> QED
  BY <1>6, <1>7, <1>8, <1>9, <1>10

LEMMA MigrateDescends ==
  ASSUME MigrationInv, misplaced = {}, NEW source \in Node, NEW dest \in Node, NEW v \in Vm,
         MigrateFirstVm(source, dest, v)
  PROVE  StepsLeft' < StepsLeft
<1>1. pc = "migrate" /\ pc' = "migrate" /\ v \in wrapper[source] /\ migrated' = migrated \cup {v}
  BY DEF MigrateFirstVm
<1>2. source \notin received
  BY MigrateMigrationInv
<1>3. v \notin migrated
  BY <1>1, <1>2 DEF MigrationInv, MovedToReceivers
<1>4. Vm \ migrated' = (Vm \ migrated) \ {v}
  BY <1>1
<1>5. Cardinality(Vm \ migrated') = Cardinality(Vm \ migrated) - 1
  BY <1>3, <1>4, OneMachineLess
<1>6. Cardinality(Vm \ migrated) \in Nat
  BY SizeOfMachines
<1> QED
  BY <1>1, <1>5, <1>6 DEF StepsLeft

(***************************************************************************)
(* What stands behind Terminates: unless machines are misplaced, every     *)
(* step of a call brings its end nearer, so that it takes at most          *)
(* StepsLeft of them, whatever the pool and the limits.                    *)
(***************************************************************************)
THEOREM CallsDescend ==
  Spec => [](StepsLeft \in Nat) /\ [][misplaced = {} => StepsLeft' < StepsLeft]_vars
<1>1. TypeOK => StepsLeft \in Nat
  BY StepsLeftIsNat
<1>2. ASSUME MigrationInv, OnePassIsEnough, [Next]_vars
      PROVE  [misplaced = {} => StepsLeft' < StepsLeft]_vars
<2> SUFFICES ASSUME misplaced = {}, Next, ~ UNCHANGED vars  PROVE StepsLeft' < StepsLeft
  BY <1>2
<2>1. TypeOK /\ TypeOK' /\ OnlyActive
  BY <1>2, NextTypeOK DEF MigrationInv
<2>2. CASE CheckPolicy
  BY <2>1, <2>2, CheckPolicyDescends
<2>3. CASE \/ \E n \in Node : NextNode(n)
           \/ NextPass \/ StartVmThrows \/ LeaveNode \/ PreStarted
           \/ \E v \in Vm : StartVm(v)
  BY <1>2, <2>1, <2>3, PreStartDescends
<2>4. CASE \E source, dest \in Node, v \in Vm : MigrateFirstVm(source, dest, v)
  BY <1>2, <2>4, MigrateDescends
<2>5. CASE LeaveLoop
<3>1. pc = "migrate" /\ pc' = "done"
  BY <2>5 DEF LeaveLoop
<3>2. Cardinality(Vm \ migrated) \in Nat
  BY SizeOfMachines
<3> QED
  BY <3>1, <3>2 DEF StepsLeft
<2>6. ~ Finished
  BY DEF Finished
<2> QED
  BY <2>2, <2>3, <2>4, <2>5, <2>6 DEF Next
<1> QED
  BY <1>1, <1>2, TypeCorrect, MigrationInvariant, OnePass, PTL DEF Spec
=============================================================================
