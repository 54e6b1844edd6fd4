------------------------- MODULE PoolRoundsProofs --------------------------
(***************************************************************************)
(* What holds of a pool from round to round for every number of machines,  *)
(* every demand and every interval.                                        *)
(*                                                                         *)
(* The argument for StartsSpaced: the countdown is wound up to interval by *)
(* a start, loses a Cycle in a round at most, and every round adds a Cycle *)
(* to the time since that start.  What is left of it says how long ago the *)
(* start was at least; the round in which it reaches 0 has still to pass   *)
(* before the next start.                                                  *)
(***************************************************************************)
EXTENDS PoolRounds, TLAPS

\* The process alone has removed machines and read all there was to read.
Undisturbed == cause = {} /\ goldenImage = "present"

Read == {"machines", "check", "policy", "shutdown", "cleanup"}
Handling == {"check", "policy", "shutdown"}

Alive == Undisturbed =>
  /\ pc # "undefined"
  /\ pc \in {"range"} \cup Read => golden = "live"
  /\ pc \in Read => range = "live"
  /\ \A v \in Vm : vms[v] # "none" => v \in entries
  /\ pc \in Handling => ~Dangling

Removed == pc \in Handling => \A v \in Vm : vms[v] = "freed" => v \notin entries

\* What is left of the countdown, and how long ago the last start was at least.
Left == IF nextStart > 0 THEN nextStart ELSE 0
Counting == {"policy object", "golden image", "range", "machines", "check", "policy"}
Bonus == IF pc \in Counting THEN Cycle ELSE 0
Owed == IF forgot THEN Cycle ELSE 0
Elapsed == interval - Left + Bonus - Owed

Late == pc # "undefined" => since = Interval \/ since >= Elapsed

Known == (~known => forgot) /\ (pc \in Handling => known)

-----------------------------------------------------------------------------
\* Type correctness.

LEMMA IntervalBounds == interval \in Nat /\ interval >= 1 /\ interval >= Interval - Cycle
  BY IntervalAssumption, SMT DEF interval

LEMMA EventStep == TypeOK /\ Event => events' \in 0..MaxEvents
<1> SUFFICES ASSUME TypeOK, Event PROVE events' \in 0..MaxEvents
  OBVIOUS
<1>1. events \in 0..MaxEvents
  BY DEF TypeOK
<1>2. events < MaxEvents /\ events' = events + 1
  BY DEF Event
<1> QED  BY <1>1, <1>2, DemandAssumption, SMT

LEMMA CountdownStep ==
  TypeOK => /\ interval \in ((1 - Cycle)..interval) \cup {-1}
            /\ nextStart > 0 => nextStart - Cycle \in ((1 - Cycle)..interval) \cup {-1}
<1> SUFFICES ASSUME TypeOK
             PROVE  /\ interval \in ((1 - Cycle)..interval) \cup {-1}
                    /\ nextStart > 0 => nextStart - Cycle \in ((1 - Cycle)..interval) \cup {-1}
  OBVIOUS
<1>1. nextStart \in ((1 - Cycle)..interval) \cup {-1}
  BY DEF TypeOK
<1> QED  BY <1>1, IntervalBounds, IntervalAssumption, SMT

LEMMA SinceStep ==
  TypeOK => /\ 0 \in 0..Interval
            /\ (IF since + Cycle < Interval THEN since + Cycle ELSE Interval) \in 0..Interval
<1> SUFFICES ASSUME TypeOK
             PROVE  /\ 0 \in 0..Interval
                    /\ (IF since + Cycle < Interval THEN since + Cycle ELSE Interval) \in 0..Interval
  OBVIOUS
<1>1. since \in 0..Interval
  BY DEF TypeOK
<1> QED  BY <1>1, IntervalAssumption, SMT

LEMMA TypeStep == TypeOK /\ [Next]_vars => TypeOK'
<1> SUFFICES ASSUME TypeOK, [Next]_vars PROVE TypeOK'
  OBVIOUS
<1> USE EventStep DEF TypeOK, Steps, Pointers
<1>1. CASE ReadPolicy
  BY <1>1, CountdownStep, SinceStep DEF ReadPolicy, Goto, ldap, pool, history
<1>2. CASE ReadGolden
  BY <1>2, CountdownStep, SinceStep DEF ReadGolden, Goto, ldap, pool, history
<1>3. CASE ReadRange
  BY <1>3, CountdownStep, SinceStep DEF ReadRange, Goto, ldap, pool, history
<1>4. CASE ReadMachines
  BY <1>4, CountdownStep, SinceStep DEF ReadMachines, Undefined, Goto, ldap,
     pool, history
<1>5. CASE Check
  BY <1>5, CountdownStep, SinceStep DEF Check, Goto, ldap, pool, history
<1>6. CASE PolicyUndefined
  BY <1>6, CountdownStep, SinceStep DEF PolicyUndefined, Undefined, Goto, ldap,
     pool, history
<1>7. CASE PolicyEnough
  BY <1>7, CountdownStep, SinceStep DEF PolicyEnough, Goto, ldap, pool, history
<1>8. CASE CountDown
  BY <1>8, CountdownStep, SinceStep DEF CountDown, Goto, ldap, pool, history
<1>9. CASE StartUndefined
  BY <1>9, CountdownStep, SinceStep DEF StartUndefined, Undefined, Goto, ldap,
     pool, history
<1>10. CASE Shutdown
  BY <1>10, CountdownStep, SinceStep DEF Shutdown, Undefined, Goto, ldap, pool,
     history
<1>11. CASE Cleanup
  BY <1>11, CountdownStep, SinceStep DEF Cleanup, Undefined, Goto, ldap, pool,
     history
<1>12. CASE ShutdownIsDue
  BY ZenonT(60), <1>12, CountdownStep, SinceStep DEF ShutdownIsDue, ldap, pool, history
<1>13. CASE ReadFails
  BY ZenonT(60), <1>13, CountdownStep, SinceStep DEF ReadFails, ldap, pool, history
<1>14. CASE CheckFails
  BY ZenonT(60), <1>14, CountdownStep, SinceStep DEF CheckFails, ldap, pool, history
<1>15. CASE StartFails
  BY ZenonT(60), <1>15, CountdownStep, SinceStep DEF StartFails, ldap, pool, history
<1>16. CASE Restart
  BY ZenonT(60), <1>16, CountdownStep, SinceStep DEF Restart, NewProcess, ldap, pool, history
<1>17. ASSUME NEW v \in Vm, Starts(v) PROVE TypeOK'
  BY ZenonT(60), <1>17, CountdownStep, SinceStep DEF Starts, Goto, ldap, pool, history
<1>18. ASSUME NEW v \in Vm, UserTakes(v) PROVE TypeOK'
  BY ZenonT(60), <1>18 DEF UserTakes, ldap, pool, history
<1>19. ASSUME NEW v \in Vm, GuestStops(v) PROVE TypeOK'
  BY ZenonT(60), <1>19 DEF GuestStops, ldap, pool, history
<1>20. ASSUME NEW v \in Vm, MachineRemoved(v) PROVE TypeOK'
  BY ZenonT(60), <1>20 DEF MachineRemoved, ldap, pool, history
<1>21. ASSUME NEW g \in {"present", "gone", "unset"}, GoldenChanges(g) PROVE TypeOK'
  BY ZenonT(60), <1>21, CountdownStep, SinceStep DEF GoldenChanges, ldap, pool, history
<1>22. CASE UNCHANGED vars
  BY ZenonT(60), <1>22, CountdownStep, SinceStep DEF vars, ldap, pool, history
<1> QED
  BY <1>1, <1>2, <1>3, <1>4, <1>5, <1>6, <1>7, <1>8, <1>9, <1>10, <1>11, <1>12,
     <1>13, <1>14, <1>15, <1>16, <1>17, <1>18, <1>19, <1>20, <1>21,
     <1>22 DEF Next, Broker, World

\* TypeOK of PoolRounds.
THEOREM TypeCorrect == Spec => []TypeOK
<1>1. Init => TypeOK
  <2>1. /\ interval \in ((1 - Cycle)..interval) \cup {-1}
        /\ Interval \in 0..Interval /\ 0 \in 0..MaxEvents
    BY IntervalBounds, IntervalAssumption, DemandAssumption, SMT
  <2> QED  BY <2>1 DEF Init, TypeOK, Steps, Pointers
<1>2. TypeOK /\ [Next]_vars => TypeOK'
  BY TypeStep
<1> QED  BY <1>1, <1>2, PTL DEF Spec

-----------------------------------------------------------------------------
\* Pointers.

LEMMA AliveStep == TypeOK /\ Alive /\ [Next]_vars => Alive'
<1> SUFFICES ASSUME TypeOK, Alive, [Next]_vars PROVE Alive'
  OBVIOUS
<1> USE DEF Alive, Undisturbed, Read, Handling, Dangling
<1>a. vms \in [Vm -> {"none", "read", "created", "freed"}]
  BY DEF TypeOK
<1>1. CASE ReadPolicy
  BY <1>1, <1>a DEF ReadPolicy, Goto, ldap, pool, history
<1>2. CASE ReadGolden
  BY <1>2, <1>a DEF ReadGolden, Goto, ldap, pool, history
<1>3. CASE ReadRange
  BY <1>3, <1>a DEF ReadRange, Goto, ldap, pool, history
<1>4. CASE ReadMachines
  BY <1>4, <1>a DEF ReadMachines, Undefined, Goto, ldap, pool, history
<1>5. CASE Check
  BY <1>5, <1>a DEF Check, Goto, ldap, pool, history
<1>6. CASE PolicyUndefined
  BY <1>6, <1>a DEF PolicyUndefined, Undefined, Goto, ldap, pool, history
<1>7. CASE PolicyEnough
  BY <1>7, <1>a DEF PolicyEnough, Goto, ldap, pool, history
<1>8. CASE CountDown
  BY <1>8, <1>a DEF CountDown, Goto, ldap, pool, history
<1>9. CASE StartUndefined
  BY <1>9, <1>a DEF StartUndefined, Undefined, Goto, StartDue, ldap, pool, history
<1>10. CASE Shutdown
  BY <1>10, <1>a DEF Shutdown, Undefined, Goto, ldap, pool, history
<1>11. CASE Cleanup
  BY <1>11, <1>a DEF Cleanup, Undefined, Goto, ldap, pool, history
<1>12. CASE ShutdownIsDue
  BY <1>12, <1>a DEF ShutdownIsDue, ldap, pool, history
<1>13. CASE ReadFails
  BY <1>13, <1>a DEF ReadFails, ldap, pool, history
<1>14. CASE CheckFails
  BY <1>14, <1>a DEF CheckFails, ldap, pool, history
<1>15. CASE StartFails
  BY <1>15, <1>a DEF StartFails, StartDue, ldap, pool, history
<1>16. CASE Restart
  BY <1>16, <1>a DEF Restart, NewProcess, ldap, pool, history
<1>17. ASSUME NEW v \in Vm, Starts(v) PROVE Alive'
  BY <1>17, <1>a DEF Starts, Goto, StartDue, ldap, pool, history
<1>18. ASSUME NEW v \in Vm, UserTakes(v) PROVE Alive'
  BY <1>18, <1>a DEF UserTakes, ldap, pool, history
<1>19. ASSUME NEW v \in Vm, GuestStops(v) PROVE Alive'
  BY <1>19, <1>a DEF GuestStops, ldap, pool, history
<1>20. ASSUME NEW v \in Vm, MachineRemoved(v) PROVE Alive'
  BY <1>20, <1>a DEF MachineRemoved, ldap, pool, history
<1>21. ASSUME NEW g \in {"present", "gone", "unset"}, GoldenChanges(g) PROVE Alive'
  BY <1>21, <1>a DEF GoldenChanges, ldap, pool, history
<1>22. CASE UNCHANGED vars
  BY <1>22, <1>a DEF vars, ldap, pool, history
<1> QED
  BY <1>1, <1>2, <1>3, <1>4, <1>5, <1>6, <1>7, <1>8, <1>9, <1>10, <1>11, <1>12,
     <1>13, <1>14, <1>15, <1>16, <1>17, <1>18, <1>19, <1>20, <1>21,
     <1>22 DEF Next, Broker, World

\* PointersAlive of PoolRounds: a process that alone removes machines and reads
\* all it needs never meets a pointer of an earlier round.
THEOREM NothingDangles == Spec => []PointersAlive
<1>1. Init => Alive
  BY DEF Init, Alive, Undisturbed, Read, Handling
<1>2. TypeOK /\ Alive /\ [Next]_vars => Alive'
  BY AliveStep
<1>3. Alive => PointersAlive
  BY DEF Alive, Undisturbed, PointersAlive
<1> QED  BY <1>1, <1>2, <1>3, TypeCorrect, PTL DEF Spec

LEMMA RemovedStep == TypeOK /\ Removed /\ [Next]_vars => Removed'
<1> SUFFICES ASSUME TypeOK, Removed, [Next]_vars PROVE Removed'
  OBVIOUS
<1> USE DEF Removed, Handling
<1>a. vms \in [Vm -> {"none", "read", "created", "freed"}]
  BY DEF TypeOK
<1>1. CASE ReadPolicy
  BY <1>1, <1>a DEF ReadPolicy, Goto, ldap, pool, history
<1>2. CASE ReadGolden
  BY <1>2, <1>a DEF ReadGolden, Goto, ldap, pool, history
<1>3. CASE ReadRange
  BY <1>3, <1>a DEF ReadRange, Goto, ldap, pool, history
<1>4. CASE ReadMachines
  BY <1>4, <1>a DEF ReadMachines, Undefined, Goto, ldap, pool, history
<1>5. CASE Check
  BY <1>5, <1>a DEF Check, Goto, ldap, pool, history
<1>6. CASE PolicyUndefined
  BY <1>6, <1>a DEF PolicyUndefined, Undefined, Goto, ldap, pool, history
<1>7. CASE PolicyEnough
  BY <1>7, <1>a DEF PolicyEnough, Goto, ldap, pool, history
<1>8. CASE CountDown
  BY <1>8, <1>a DEF CountDown, Goto, ldap, pool, history
<1>9. CASE StartUndefined
  BY <1>9, <1>a DEF StartUndefined, Undefined, Goto, StartDue, ldap, pool, history
<1>10. CASE Shutdown
  BY <1>10, <1>a DEF Shutdown, Undefined, Goto, ldap, pool, history
<1>11. CASE Cleanup
  BY <1>11, <1>a DEF Cleanup, Undefined, Goto, ldap, pool, history
<1>12. CASE ShutdownIsDue
  BY <1>12, <1>a DEF ShutdownIsDue, ldap, pool, history
<1>13. CASE ReadFails
  BY <1>13, <1>a DEF ReadFails, ldap, pool, history
<1>14. CASE CheckFails
  BY <1>14, <1>a DEF CheckFails, ldap, pool, history
<1>15. CASE StartFails
  BY <1>15, <1>a DEF StartFails, StartDue, ldap, pool, history
<1>16. CASE Restart
  BY <1>16, <1>a DEF Restart, NewProcess, ldap, pool, history
<1>17. ASSUME NEW v \in Vm, Starts(v) PROVE Removed'
  BY <1>17, <1>a DEF Starts, Goto, StartDue, ldap, pool, history
<1>18. ASSUME NEW v \in Vm, UserTakes(v) PROVE Removed'
  BY <1>18, <1>a DEF UserTakes, ldap, pool, history
<1>19. ASSUME NEW v \in Vm, GuestStops(v) PROVE Removed'
  BY <1>19, <1>a DEF GuestStops, ldap, pool, history
<1>20. ASSUME NEW v \in Vm, MachineRemoved(v) PROVE Removed'
  BY <1>20, <1>a DEF MachineRemoved, ldap, pool, history
<1>21. ASSUME NEW g \in {"present", "gone", "unset"}, GoldenChanges(g) PROVE Removed'
  BY <1>21, <1>a DEF GoldenChanges, ldap, pool, history
<1>22. CASE UNCHANGED vars
  BY <1>22, <1>a DEF vars, ldap, pool, history
<1> QED
  BY <1>1, <1>2, <1>3, <1>4, <1>5, <1>6, <1>7, <1>8, <1>9, <1>10, <1>11, <1>12,
     <1>13, <1>14, <1>15, <1>16, <1>17, <1>18, <1>19, <1>20, <1>21,
     <1>22 DEF Next, Broker, World

\* OnlyRemovedDangle of PoolRounds.
THEOREM RemovedDangle == Spec => []OnlyRemovedDangle
<1>1. Init => Removed
  BY DEF Init, Removed, Handling
<1>2. TypeOK /\ Removed /\ [Next]_vars => Removed'
  BY RemovedStep
<1>3. Removed => OnlyRemovedDangle
  BY DEF Removed, Handling, OnlyRemovedDangle
<1> QED  BY <1>1, <1>2, <1>3, TypeCorrect, PTL DEF Spec

-----------------------------------------------------------------------------
\* The countdown.

\* A broker that has not forgotten the last start still has the pool.
LEMMA KnownStep == TypeOK /\ Known /\ [Next]_vars => Known'
<1> SUFFICES ASSUME TypeOK, Known, [Next]_vars PROVE Known'
  OBVIOUS
<1> USE DEF Known, Handling
<1>1. CASE ReadPolicy
  BY <1>1 DEF ReadPolicy, Goto, ldap, pool, history
<1>2. CASE ReadGolden
  BY <1>2 DEF ReadGolden, Goto, ldap, pool, history
<1>3. CASE ReadRange
  BY <1>3 DEF ReadRange, Goto, ldap, pool, history
<1>4. CASE ReadMachines
  BY <1>4 DEF ReadMachines, Undefined, Goto, ldap, pool, history
<1>5. CASE Check
  BY <1>5 DEF Check, Goto, ldap, pool, history
<1>6. CASE PolicyUndefined
  BY <1>6 DEF PolicyUndefined, Undefined, Goto, ldap, pool, history
<1>7. CASE PolicyEnough
  BY <1>7 DEF PolicyEnough, Goto, ldap, pool, history
<1>8. CASE CountDown
  BY <1>8 DEF CountDown, Goto, ldap, pool, history
<1>9. CASE StartUndefined
  BY <1>9 DEF StartUndefined, Undefined, Goto, StartDue, ldap, pool, history
<1>10. CASE Shutdown
  BY <1>10 DEF Shutdown, Undefined, Goto, ldap, pool, history
<1>11. CASE Cleanup
  BY <1>11 DEF Cleanup, Undefined, Goto, ldap, pool, history
<1>12. CASE ShutdownIsDue
  BY <1>12 DEF ShutdownIsDue, ldap, pool, history
<1>13. CASE ReadFails
  BY <1>13 DEF ReadFails, ldap, pool, history
<1>14. CASE CheckFails
  BY <1>14 DEF CheckFails, ldap, pool, history
<1>15. CASE StartFails
  BY <1>15 DEF StartFails, StartDue, ldap, pool, history
<1>16. CASE Restart
  BY <1>16 DEF Restart, NewProcess, ldap, pool, history
<1>17. ASSUME NEW v \in Vm, Starts(v) PROVE Known'
  BY <1>17 DEF Starts, Goto, StartDue, ldap, pool, history
<1>18. ASSUME NEW v \in Vm, UserTakes(v) PROVE Known'
  BY <1>18 DEF UserTakes, ldap, pool, history
<1>19. ASSUME NEW v \in Vm, GuestStops(v) PROVE Known'
  BY <1>19 DEF GuestStops, ldap, pool, history
<1>20. ASSUME NEW v \in Vm, MachineRemoved(v) PROVE Known'
  BY <1>20 DEF MachineRemoved, ldap, pool, history
<1>21. ASSUME NEW g \in {"present", "gone", "unset"}, GoldenChanges(g) PROVE Known'
  BY <1>21 DEF GoldenChanges, ldap, pool, history
<1>22. CASE UNCHANGED vars
  BY <1>22 DEF vars, ldap, pool, history
<1> QED
  BY <1>1, <1>2, <1>3, <1>4, <1>5, <1>6, <1>7, <1>8, <1>9, <1>10, <1>11, <1>12,
     <1>13, <1>14, <1>15, <1>16, <1>17, <1>18, <1>19, <1>20, <1>21,
     <1>22 DEF Next, Broker, World

LEMMA NextStartInt == TypeOK => nextStart \in Int /\ nextStart <= interval
<1> SUFFICES ASSUME nextStart \in ((1 - Cycle)..interval) \cup {-1}
             PROVE  nextStart \in Int /\ nextStart <= interval
  BY DEF TypeOK
<1> QED  BY IntervalBounds, IntervalAssumption, SMT

LEMMA Terms ==
  TypeOK => /\ since \in Int /\ since >= 0 /\ since <= Interval
            /\ interval \in Int /\ Left \in Int /\ Bonus \in Int /\ Owed \in Int
            /\ Bonus \in {0, Cycle} /\ Owed \in {0, Cycle}
<1> SUFFICES ASSUME TypeOK
             PROVE  /\ since \in Int /\ since >= 0 /\ since <= Interval
                    /\ interval \in Int /\ Left \in Int /\ Bonus \in Int /\ Owed \in Int
                    /\ Bonus \in {0, Cycle} /\ Owed \in {0, Cycle}
  OBVIOUS
<1>1. since \in 0..Interval
  BY DEF TypeOK
<1>2. since \in Int /\ since >= 0 /\ since <= Interval
  BY <1>1, IntervalAssumption, SMT
<1>3. Left \in Int
  BY NextStartInt, SMT DEF Left
<1>4. Bonus \in {0, Cycle} /\ Owed \in {0, Cycle}
  BY DEF Bonus, Owed
<1>5. Bonus \in Int /\ Owed \in Int
  BY <1>4, IntervalAssumption, SMT
<1> QED  BY <1>2, <1>3, <1>4, <1>5, IntervalBounds

\* Steps that leave countdown and time alone only pass the policy, or nothing.
LEMMA Keep ==
  ASSUME TypeOK, Late, UNCHANGED <<nextStart, since, forgot>>,
         pc = "undefined" => pc' = "undefined",
         pc' \in Counting => pc \in Counting
  PROVE  Late'
<1>1. CASE pc' = "undefined"
  BY <1>1 DEF Late
<1>2. CASE pc' # "undefined"
  <2>1. Left' = Left /\ Owed' = Owed /\ (Bonus' = Bonus \/ Bonus' = 0)
    BY DEF Left, Owed, Bonus
  <2>2. since = Interval \/ since >= interval - Left + Bonus - Owed
    BY <1>2 DEF Late, Elapsed
  <2>3. since' = Interval \/ since' >= interval - Left' + Bonus' - Owed'
    BY <2>1, <2>2, Terms, IntervalAssumption, SMT
  <2> QED  BY <2>3 DEF Late, Elapsed
<1> QED  BY <1>1, <1>2

\* A broker that has forgotten the last start begins to count in any case.
LEMMA Anew ==
  ASSUME TypeOK, nextStart' = interval, since' = since, forgot' = TRUE, pc' \in Counting
  PROVE  Late'
<1>1. Left' = interval /\ Owed' = Cycle /\ Bonus' = Cycle
  BY IntervalBounds DEF Left, Owed, Bonus
<1>2. since' >= interval - Left' + Bonus' - Owed'
  BY <1>1, Terms, IntervalAssumption, SMT
<1> QED  BY <1>2 DEF Late, Elapsed

LEMMA LateStep == TypeOK /\ Known /\ Late /\ [Next]_vars => Late'
<1> SUFFICES ASSUME TypeOK, Known, Late, [Next]_vars PROVE Late'
  OBVIOUS
<1>1. CASE ReadPolicy
  <2>1. pc = "policy object" /\ pc' = "golden image" /\ UNCHANGED <<since, forgot>>
    BY <1>1 DEF ReadPolicy, Goto, history
  <2>2. CASE known
    <3>1. nextStart' = IF nextStart < 1 THEN -1 ELSE nextStart
      BY <1>1, <2>2 DEF ReadPolicy
    <3>2. Left' = Left
      BY <3>1, NextStartInt, SMT DEF Left
    <3>3. Owed' = Owed /\ Bonus' = Bonus
      BY <2>1 DEF Owed, Bonus, Counting
    <3> QED  BY <2>1, <3>2, <3>3 DEF Late, Elapsed
  <2>3. CASE ~known
    BY <1>1, <2>1, <2>3, Anew DEF ReadPolicy, Known, Counting
  <2> QED  BY <2>2, <2>3
<1>2. CASE ReadGolden
  BY <1>2, Keep DEF ReadGolden, Goto, Counting, history
<1>3. CASE ReadRange
  BY <1>3, Keep DEF ReadRange, Goto, Counting, history
<1>4. CASE ReadMachines
  BY <1>4, Keep DEF ReadMachines, Undefined, Goto, Counting, history
<1>5. CASE Check
  BY <1>5, Keep DEF Check, Goto, Counting, history
<1>6. CASE PolicyUndefined
  BY <1>6, Keep DEF PolicyUndefined, Undefined, Goto, Counting, history
<1>7. CASE PolicyEnough
  BY <1>7, Keep DEF PolicyEnough, Goto, Counting, history
<1>8. CASE CountDown
  <2>1. /\ pc = "policy" /\ pc' = "shutdown" /\ UNCHANGED <<since, forgot>>
        /\ nextStart > 0 /\ nextStart' = nextStart - Cycle
    BY <1>8 DEF CountDown, Goto, history
  <2>2. Owed' = Owed /\ Bonus = Cycle /\ Bonus' = 0
    BY <2>1 DEF Owed, Bonus, Counting
  <2>3. Left' >= Left - Cycle /\ Left' \in Int
    BY <2>1, NextStartInt, IntervalAssumption, SMT DEF Left
  <2>4. since = Interval \/ since >= interval - Left + Bonus - Owed
    BY <2>1 DEF Late, Elapsed
  <2>5. since' = Interval \/ since' >= interval - Left' + Bonus' - Owed'
    BY <2>1, <2>2, <2>3, <2>4, Terms, IntervalAssumption, SMT
  <2> QED  BY <2>5 DEF Late, Elapsed
<1>9. CASE StartUndefined
  BY <1>9, Keep DEF StartUndefined, Undefined, Goto, StartDue, Counting, history
<1>10. CASE Shutdown
  BY <1>10, Keep DEF Shutdown, Undefined, Goto, Counting, history
<1>11. CASE Cleanup
  <2>1. CASE pc' = "undefined"
    BY <2>1 DEF Late
  <2>2. CASE pc' # "undefined"
    <3>1. /\ pc = "cleanup" /\ pc' = "policy object" /\ UNCHANGED <<nextStart, forgot>>
          /\ since' = IF since + Cycle < Interval THEN since + Cycle ELSE Interval
      BY <1>11, <2>2 DEF Cleanup, Undefined, Goto
    <3>2. Left' = Left /\ Owed' = Owed /\ Bonus = 0 /\ Bonus' = Cycle
      BY <3>1 DEF Left, Owed, Bonus, Counting
    <3>3. since = Interval \/ since >= interval - Left + Bonus - Owed
      BY <3>1 DEF Late, Elapsed
    <3>4. CASE since + Cycle < Interval
      <4>1. since' = since + Cycle
        BY <3>1, <3>4
      <4>2. since # Interval
        BY <3>4, Terms, IntervalAssumption, SMT
      <4>3. since' >= interval - Left' + Bonus' - Owed'
        BY <3>2, <3>3, <4>1, <4>2, Terms, IntervalAssumption, SMT
      <4> QED  BY <4>3 DEF Late, Elapsed
    <3>5. CASE ~(since + Cycle < Interval)
      BY <3>1, <3>5 DEF Late
    <3> QED  BY <3>4, <3>5
  <2> QED  BY <2>1, <2>2
<1>12. CASE ShutdownIsDue
  BY <1>12, Keep DEF ShutdownIsDue, Counting, history
<1>13. CASE ReadFails
  BY <1>13, Keep DEF ReadFails, Counting, history
<1>14. CASE CheckFails
  BY <1>14, Keep DEF CheckFails, Counting, history
<1>15. CASE StartFails
  BY <1>15, Keep DEF StartFails, StartDue, Counting, history
<1>16. CASE Restart
  BY <1>16, Anew DEF Restart, NewProcess, Counting
<1>17. ASSUME NEW v \in Vm, Starts(v) PROVE Late'
  <2>1. pc' = "shutdown" /\ nextStart' = interval /\ since' = 0 /\ forgot' = FALSE
    BY <1>17 DEF Starts, Goto
  <2>2. Left' = interval /\ Bonus' = 0 /\ Owed' = 0
    BY <2>1, IntervalBounds DEF Left, Bonus, Owed, Counting
  <2>3. since' >= interval - Left' + Bonus' - Owed'
    BY <2>1, <2>2, IntervalBounds, SMT
  <2> QED  BY <2>3 DEF Late, Elapsed
<1>18. ASSUME NEW v \in Vm, UserTakes(v) PROVE Late'
  BY <1>18, Keep DEF UserTakes, Counting, history
<1>19. ASSUME NEW v \in Vm, GuestStops(v) PROVE Late'
  BY <1>19, Keep DEF GuestStops, Counting, history
<1>20. ASSUME NEW v \in Vm, MachineRemoved(v) PROVE Late'
  BY <1>20, Keep DEF MachineRemoved, Counting, history
<1>21. ASSUME NEW g \in {"present", "gone", "unset"}, GoldenChanges(g) PROVE Late'
  BY <1>21, Keep DEF GoldenChanges, Counting, history
<1>22. CASE UNCHANGED vars
  BY <1>22, Keep DEF vars, history
<1> QED
  BY <1>1, <1>2, <1>3, <1>4, <1>5, <1>6, <1>7, <1>8, <1>9, <1>10, <1>11, <1>12,
     <1>13, <1>14, <1>15, <1>16, <1>17, <1>18, <1>19, <1>20, <1>21,
     <1>22 DEF Next, Broker, World

\* Each step of the pool is one of Pacing's, or none.
LEMMA PacedStep ==
  TypeOK /\ Late /\ [Next]_vars =>
    [Paced!Start \/ Paced!Wait \/ Paced!Forget]_<<since, forgot>>
<1> SUFFICES ASSUME TypeOK, Late, [Next]_vars,
                    ~ UNCHANGED <<since, forgot>>
             PROVE  Paced!Start \/ Paced!Wait \/ Paced!Forget
  OBVIOUS
<1>1. ASSUME NEW v \in Vm, Starts(v) PROVE Paced!Start
  <2>1. since' = 0 /\ forgot' = FALSE /\ pc = "policy" /\ nextStart <= 0
    BY <1>1 DEF Starts, StartDue
  <2>2. since = Interval \/ since >= interval - Left + Bonus - Owed
    BY <2>1 DEF Late, Elapsed
  <2>3. Left = 0 /\ Bonus = Cycle
    BY <2>1, NextStartInt, SMT DEF Left, Bonus, Counting
  <2>4. since >= Interval - Owed
    BY <2>2, <2>3, Terms, IntervalBounds, IntervalAssumption, SMT
  <2>5. Paced!Gap = Interval - Owed
    <3>1. Interval - 0 = Interval
      BY IntervalAssumption, SMT
    <3> QED  BY <3>1 DEF Paced!Gap, Owed
  <2> QED  BY <2>1, <2>4, <2>5 DEF Paced!Start
<1>2. CASE Cleanup
  <2>1. since' = (IF since + Cycle < Interval THEN since + Cycle ELSE Interval) /\ forgot' = forgot
    BY <1>2 DEF Cleanup, Undefined, history
  <2>2. since' >= since
    BY <2>1, Terms, IntervalAssumption, SMT
  <2> QED  BY <2>1, <2>2 DEF Paced!Wait
<1>3. CASE Restart
  BY <1>3 DEF Restart, NewProcess, Paced!Forget
<1>4. CASE ReadPolicy \/ ReadGolden \/ ReadRange \/ ReadMachines \/ Check \/ PolicyUndefined
           \/ PolicyEnough \/ CountDown \/ StartUndefined \/ Shutdown
  BY <1>4 DEF ReadPolicy, ReadGolden, ReadRange, ReadMachines, Check,
     PolicyUndefined,
              PolicyEnough, CountDown, StartUndefined, Shutdown, Undefined, history
<1>5. CASE ShutdownIsDue \/ ReadFails \/ CheckFails \/ StartFails
           \/ (\E v \in Vm : UserTakes(v) \/ GuestStops(v) \/ MachineRemoved(v))
           \/ (\E g \in {"present", "gone", "unset"} : GoldenChanges(g))
  BY <1>5 DEF ShutdownIsDue, ReadFails, CheckFails, StartFails, UserTakes,
     GuestStops,
              MachineRemoved, GoldenChanges, history
<1>6. CASE UNCHANGED vars
  BY <1>6 DEF vars, history
<1> QED  BY <1>1, <1>2, <1>3, <1>4, <1>5, <1>6 DEF Next, Broker, World

\* StartsSpaced of PoolRounds: rounds, countdown and the handing over from one
\* policy object to the next implement Pacing.
THEOREM PoolRoundsArePaced == Spec => StartsSpaced
<1>1. Init => Known /\ Late /\ Paced!PacingInit
  BY DEF Init, Known, Late, Handling, Paced!PacingInit
<1> QED
  BY <1>1, TypeCorrect, KnownStep, LateStep, PacedStep, PTL
     DEF Spec, StartsSpaced, Paced!PacingSpec
-----------------------------------------------------------------------------
\* What is missing comes nearer with every round.

\* A pool that gets as far as its check has a golden image, if a freed one.
HasGolden == pc \in Handling => golden # "null"

LEMMA GoldenStep == HasGolden /\ [Next]_vars => HasGolden'
<1> SUFFICES ASSUME HasGolden, [Next]_vars PROVE HasGolden'
  OBVIOUS
<1>1. CASE ReadMachines
  BY <1>1 DEF HasGolden, Handling, ReadMachines, Undefined, Goto, pool
<1>2. CASE ReadPolicy \/ ReadGolden \/ ReadRange \/ Cleanup \/ ReadFails \/ Restart
  BY <1>2 DEF HasGolden, Handling, ReadPolicy, ReadGolden, ReadRange, Cleanup, ReadFails,
              Restart, NewProcess, Undefined, Goto
<1>3. CASE Check \/ PolicyUndefined \/ PolicyEnough \/ CountDown \/ StartUndefined \/ Shutdown
  BY <1>3 DEF HasGolden, Handling, Check, PolicyUndefined, PolicyEnough, CountDown,
              StartUndefined, StartDue, Shutdown, Undefined, Goto, pool
<1>4. CASE \/ ShutdownIsDue \/ CheckFails \/ StartFails \/ UNCHANGED vars
           \/ \E v \in Vm : Starts(v)
  BY <1>4 DEF HasGolden, Handling, ShutdownIsDue, CheckFails, StartFails, StartDue, Starts,
              Goto, vars, pool
<1>5. CASE \/ \E v \in Vm : UserTakes(v) \/ GuestStops(v) \/ MachineRemoved(v)
           \/ \E g \in {"present", "gone", "unset"} : GoldenChanges(g)
  BY <1>5 DEF HasGolden, UserTakes, GuestStops, MachineRemoved, GoldenChanges, pool
<1> QED
  BY <1>1, <1>2, <1>3, <1>4, <1>5 DEF Next, Broker, World

\* What raises the countdown.
LEMMA LeftStep ==
  ASSUME TypeOK, [Next]_vars
  PROVE  Left' <= Left \/ ~known' \/ \E v \in Vm : Starts(v)
<1>1. CASE UNCHANGED nextStart
  BY <1>1, Terms DEF Left
<1>2. CASE ReadPolicy
  <2>1. CASE known
    <3>1. nextStart' = IF nextStart < 1 THEN -1 ELSE nextStart
      BY <1>2, <2>1 DEF ReadPolicy
    <3> QED
      BY <3>1, NextStartInt DEF Left
  <2> QED
    BY <1>2, <2>1 DEF ReadPolicy
<1>3. CASE CountDown
  <2>1. nextStart > 0 /\ nextStart' = nextStart - Cycle
    BY <1>3 DEF CountDown
  <2> QED
    BY <2>1, NextStartInt, IntervalAssumption DEF Left
<1>4. CASE Restart
  BY <1>4 DEF Restart, NewProcess
<1>5. CASE \/ ReadGolden \/ ReadRange \/ ReadMachines \/ Check \/ PolicyUndefined
           \/ PolicyEnough \/ StartUndefined \/ Shutdown \/ Cleanup
  BY <1>1, <1>5
     DEF ReadGolden, ReadRange, ReadMachines, Check, PolicyUndefined, PolicyEnough,
         StartUndefined, Shutdown, Cleanup, Undefined, Goto
<1>6. CASE \/ ShutdownIsDue \/ ReadFails \/ CheckFails \/ StartFails \/ UNCHANGED vars
           \/ \E v \in Vm : UserTakes(v) \/ GuestStops(v) \/ MachineRemoved(v)
           \/ \E g \in {"present", "gone", "unset"} : GoldenChanges(g)
  BY <1>1, <1>6
     DEF ShutdownIsDue, ReadFails, CheckFails, StartFails, vars, UserTakes, GuestStops,
         MachineRemoved, GoldenChanges
<1> QED
  BY <1>2, <1>3, <1>4, <1>5, <1>6 DEF Next, Broker, World

\* What the policy does for a pool that lacks machines.
LEMMA PolicyStep ==
  ASSUME TypeOK, [Next]_vars, pc = "policy", pc' = "shutdown", ~(numberVmsToStart <= 0)
  PROVE  Left' < Left \/ (Left = 0 /\ (StartFails \/ \E v \in Vm : Starts(v)))
<1>1. CASE CountDown
  <2>1. nextStart > 0 /\ nextStart' = nextStart - Cycle
    BY <1>1 DEF CountDown
  <2> QED
    BY <2>1, NextStartInt, IntervalAssumption DEF Left
<1>2. CASE StartFails \/ \E v \in Vm : Starts(v)
  <2>1. nextStart <= 0
    BY <1>2 DEF StartFails, Starts, StartDue
  <2> QED
    BY <1>2, <2>1, NextStartInt DEF Left
<1>3. ~ PolicyEnough
  BY DEF PolicyEnough
<1>4. \/ ReadPolicy \/ ReadGolden \/ ReadRange \/ ReadMachines \/ Check \/ PolicyUndefined
      \/ StartUndefined \/ Shutdown \/ Cleanup \/ ShutdownIsDue \/ ReadFails \/ CheckFails
      \/ Restart \/ UNCHANGED vars
      \/ \E v \in Vm : UserTakes(v) \/ GuestStops(v) \/ MachineRemoved(v)
      \/ \E g \in {"present", "gone", "unset"} : GoldenChanges(g)
      => FALSE
  BY DEF ReadPolicy, ReadGolden, ReadRange, ReadMachines, Check, PolicyUndefined,
         StartUndefined, Shutdown, Cleanup, ShutdownIsDue, ReadFails, CheckFails, Restart,
         NewProcess, vars, UserTakes, GuestStops, MachineRemoved, GoldenChanges, Undefined, Goto
<1> QED
  BY <1>1, <1>2, <1>3, <1>4 DEF Next, Broker, World

(***************************************************************************)
(* The safety half of MissingStarted.  As long as the process has the pool *)
(* nothing but a start raises what is left of the countdown, a new policy  *)
(* object in every round notwithstanding; a round that finds machines      *)
(* missing lowers it or, when nothing is left, comes to createInstance,    *)
(* and then there is a golden image to make the machine of.                *)
(***************************************************************************)
THEOREM MissingComesNearer ==
  Spec => /\ [](StartDue => golden # "null")
          /\ [][/\ Left' <= Left \/ ~known' \/ \E v \in Vm : Starts(v)
                /\ pc = "policy" /\ pc' = "shutdown" /\ ~(numberVmsToStart <= 0) =>
                     Left' < Left \/ (Left = 0 /\ (StartFails \/ \E v \in Vm : Starts(v)))]_vars
<1>1. Init => HasGolden
  BY DEF Init, HasGolden, Handling
<1>2. HasGolden => (StartDue => golden # "null")
  BY DEF HasGolden, StartDue, Handling
<1>3. TypeOK /\ [Next]_vars =>
        [/\ Left' <= Left \/ ~known' \/ \E v \in Vm : Starts(v)
         /\ pc = "policy" /\ pc' = "shutdown" /\ ~(numberVmsToStart <= 0) =>
              Left' < Left \/ (Left = 0 /\ (StartFails \/ \E v \in Vm : Starts(v)))]_vars
  BY LeftStep, PolicyStep
<1> QED
  BY <1>1, <1>2, <1>3, GoldenStep, TypeCorrect, PTL DEF Spec
=============================================================================
