--------------------------- MODULE MCEvenlyPolicy ---------------------------
(***************************************************************************)
(* EvenlyPolicy for TLC.  Nodes and machines are numbers, and the initial  *)
(* pools are those of Init up to a renaming: at most MaxPool machines, in  *)
(* the order of their nodes, at most one of them misplaced.  Vm has room   *)
(* for every machine the limits can make the policy start.                 *)
(***************************************************************************)
EXTENDS EvenlyPolicy, FiniteSetsExt

CONSTANTS MaxPool, MaxMaintenance

MCInit ==
  /\ \E size \in 0..MaxPool : \E at \in [1..size -> Node] :
       /\ \A v \in 1..(size - 1) : at[v] <= at[v + 1]
       /\ nodeName = [v \in Vm |-> IF v <= size THEN at[v] ELSE NoNode]
  /\ assigned \in {1..k : k \in 0..Cardinality(vms)}
  /\ maintenance \in UNION {kSubset(k, Node) : k \in 0..MaxMaintenance}
  /\ misplaced \in {{}} \cup {{v} : v \in vms}
  /\ Init

MCSpec == MCInit /\ [][Next]_vars /\ WF_vars(Next)
=============================================================================
