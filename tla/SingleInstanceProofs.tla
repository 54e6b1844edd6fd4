------------------------ MODULE SingleInstanceProofs ------------------------
(***************************************************************************)
(* Proofs about SingleInstance for any number of processes: the lock never *)
(* outlives its owner, and two copies run only after a race at an exit.    *)
(***************************************************************************)
EXTENDS SingleInstance, TLAPS

(***************************************************************************)
(* Processes that work have a file open and its lock; a lock has an owner  *)
(* with that file open; and without a race whatever is open is the file    *)
(* with the name.                                                          *)
(***************************************************************************)
OpenWhileWorking ==
  \A p \in Proc : lfp[p] = NoInode <=> pc[p] \in {"start", "closed"}
RunningHoldsLock == \A p \in Running : lockOwner[lfp[p]] = p
OneFile == ~ raced => \A p \in Proc : lfp[p] # NoInode => lfp[p] = lockFile
LockInv == OpenWhileWorking /\ RunningHoldsLock /\ NoStaleLock /\ OneFile

LEMMA InitTypeOK == Init => TypeOK
<1> SUFFICES ASSUME Init PROVE TypeOK
  OBVIOUS
<1>1. raced \in BOOLEAN
  BY Zenon DEF Init
<1>2. /\ pc \in [Proc -> {"start", "opened", "running", "unlocked", "closed"}]
      /\ lfp \in [Proc -> Inode \cup {NoInode}]
      /\ lockFile \in Inode \cup {NoInode}
      /\ lockOwner \in [Inode -> Proc \cup {NoProc}]
  BY DEF Init
<1> QED
  BY <1>1, <1>2, Zenon DEF TypeOK

LEMMA NextTypeOK == TypeOK /\ [Next]_vars => TypeOK'
<1> SUFFICES ASSUME TypeOK, [Next]_vars PROVE TypeOK'
  OBVIOUS
<1>1. ASSUME NEW p \in Proc, Open(p) PROVE TypeOK'
  BY <1>1 DEF TypeOK, Open, Unused
<1>2. ASSUME NEW p \in Proc, Lock(p) PROVE TypeOK'
  BY <1>2 DEF TypeOK, Lock
<1>3. ASSUME NEW p \in Proc, Leave(p) PROVE TypeOK'
  BY <1>3 DEF TypeOK, Leave, Released
<1>4. ASSUME NEW p \in Proc, Unlock(p) PROVE TypeOK'
  BY <1>4 DEF TypeOK, Unlock, Released
<1>5. ASSUME NEW p \in Proc, Close(p) PROVE TypeOK'
  BY <1>5 DEF TypeOK, Close, Released
<1>6. ASSUME NEW p \in Proc, Remove(p) PROVE TypeOK'
<2>1. raced' \in BOOLEAN
  BY <1>6, Zenon DEF TypeOK, Remove
<2>2. /\ pc' \in [Proc -> {"start", "opened", "running", "unlocked", "closed"}]
      /\ lfp' \in [Proc -> Inode \cup {NoInode}]
      /\ lockFile' \in Inode \cup {NoInode}
      /\ lockOwner' \in [Inode -> Proc \cup {NoProc}]
  BY <1>6 DEF TypeOK, Remove
<2> QED
  BY <2>1, <2>2, Zenon DEF TypeOK
<1>7. CASE UNCHANGED vars
  BY <1>7 DEF TypeOK, vars
<1> QED
  BY <1>1, <1>2, <1>3, <1>4, <1>5, <1>6, <1>7 DEF Next, CannotLock, Crash

LEMMA InitLockInv == Init => LockInv
  BY NoInodeAssumption
     DEF Init, LockInv, OpenWhileWorking, RunningHoldsLock, NoStaleLock, OneFile, Running

LEMMA OpenLockInv ==
  ASSUME TypeOK, LockInv, NEW p \in Proc, Open(p)
  PROVE  LockInv'
<1> USE DEF LockInv, TypeOK
<1>1. /\ pc[p] = "start" /\ pc' = [pc EXCEPT ![p] = "opened"]
      /\ lockFile' \in Inode /\ lockFile' # NoInode
      /\ lockFile = NoInode \/ lockFile' = lockFile
      /\ lfp' = [lfp EXCEPT ![p] = lockFile'] /\ lockOwner' = lockOwner
  BY NoInodeAssumption DEF Open, Unused
<1>2. Running' = Running /\ p \notin Running
  BY <1>1 DEF Running
<1>3. OpenWhileWorking'
  BY <1>1 DEF OpenWhileWorking
<1>4. RunningHoldsLock'
  BY <1>1, <1>2 DEF RunningHoldsLock, Running
<1>5. NoStaleLock'
  BY <1>1, <1>2 DEF NoStaleLock
<1>6. OneFile'
  BY <1>1 DEF OneFile, Open
<1> QED
  BY <1>3, <1>4, <1>5, <1>6

LEMMA LockLockInv ==
  ASSUME TypeOK, LockInv, NEW p \in Proc, Lock(p)
  PROVE  LockInv'
<1> USE DEF LockInv, TypeOK
<1>1. /\ pc[p] = "opened" /\ pc' = [pc EXCEPT ![p] = "running"]
      /\ lockOwner[lfp[p]] = NoProc /\ lockOwner' = [lockOwner EXCEPT ![lfp[p]] = p]
      /\ UNCHANGED <<lfp, lockFile, raced>>
  BY DEF Lock, Free
<1>2. lfp[p] \in Inode /\ lfp[p] # NoInode
  BY <1>1 DEF OpenWhileWorking
<1>3. Running' = Running \cup {p}
  BY <1>1 DEF Running
<1>4. OpenWhileWorking'
  BY <1>1 DEF OpenWhileWorking
<1>5. \A q \in Running : lfp[q] # lfp[p]
  BY <1>1, NoProcAssumption DEF RunningHoldsLock, Running
<1>6. RunningHoldsLock'
  <2> SUFFICES ASSUME NEW q \in Running' PROVE lockOwner'[lfp'[q]] = q
    BY DEF RunningHoldsLock
  <2>1. CASE q = p
    BY <1>1, <1>2, <2>1
  <2>2. CASE q # p
    <3>1. q \in Running /\ q \in Proc
      BY <1>3, <2>2 DEF Running
    <3>2. lfp[q] \in Inode
      BY <3>1 DEF OpenWhileWorking, Running
    <3> QED
      BY <1>1, <1>2, <1>5, <3>1, <3>2 DEF RunningHoldsLock
  <2> QED
    BY <2>1, <2>2
<1>7. NoStaleLock'
  BY <1>1, <1>2, <1>3 DEF NoStaleLock
<1>8. OneFile'
  BY <1>1 DEF OneFile
<1> QED
  BY <1>4, <1>6, <1>7, <1>8

\* A process that unlocks keeps its lock or loses it.
LEMMA UnlockLockInv ==
  ASSUME TypeOK, LockInv, NEW p \in Proc, Unlock(p)
  PROVE  LockInv'
<1> USE DEF LockInv, TypeOK
<1>1. /\ pc[p] = "running" /\ pc' = [pc EXCEPT ![p] = "unlocked"]
      /\ UNCHANGED <<lfp, lockFile, raced>>
      /\ \A i \in Inode : lockOwner'[i] = lockOwner[i] \/ (lockOwner[i] = p /\ lockOwner'[i] = NoProc)
  BY DEF Unlock, Released
<1>2. Running' = Running \ {p}
  BY <1>1 DEF Running
<1>3. OpenWhileWorking'
  BY <1>1 DEF OpenWhileWorking
<1>4. RunningHoldsLock'
  <2> SUFFICES ASSUME NEW q \in Running' PROVE lockOwner'[lfp'[q]] = q
    BY DEF RunningHoldsLock
  <2>1. q \in Running /\ q # p /\ q \in Proc
    BY <1>2 DEF Running
  <2>2. lfp[q] \in Inode
    BY <2>1 DEF OpenWhileWorking, Running
  <2> QED
    BY <1>1, <2>1, <2>2 DEF RunningHoldsLock
<1>5. NoStaleLock'
  BY <1>1 DEF NoStaleLock
<1>6. OneFile'
  BY <1>1 DEF OneFile
<1> QED
  BY <1>3, <1>4, <1>5, <1>6

\* A process that closes its file or ends has no lock any more.
LEMMA LetGoLockInv ==
  ASSUME TypeOK, LockInv, NEW p \in Proc, Leave(p) \/ Close(p)
  PROVE  LockInv'
<1> USE DEF LockInv, TypeOK
<1>1. /\ pc' \in [Proc -> {"start", "opened", "running", "unlocked", "closed"}]
      /\ \A q \in Proc \ {p} : pc'[q] = pc[q] /\ lfp'[q] = lfp[q]
      /\ pc'[p] \in {"start", "closed"} /\ lfp'[p] = NoInode
      /\ UNCHANGED <<lockFile, raced>>
      /\ \A i \in Inode : lockOwner'[i] = IF lockOwner[i] = p THEN NoProc ELSE lockOwner[i]
  BY DEF Leave, Close, Released
<1>2. Running' = Running \ {p}
  BY <1>1 DEF Running
<1>3. OpenWhileWorking'
  BY <1>1 DEF OpenWhileWorking
<1>4. RunningHoldsLock'
  <2> SUFFICES ASSUME NEW q \in Running' PROVE lockOwner'[lfp'[q]] = q
    BY DEF RunningHoldsLock
  <2>1. q \in Running /\ q # p /\ q \in Proc
    BY <1>2 DEF Running
  <2>2. lfp[q] \in Inode
    BY <2>1 DEF OpenWhileWorking, Running
  <2> QED
    BY <1>1, <2>1, <2>2 DEF RunningHoldsLock
<1>5. NoStaleLock'
  BY <1>1 DEF NoStaleLock
<1>6. OneFile'
  BY <1>1 DEF OneFile
<1> QED
  BY <1>3, <1>4, <1>5, <1>6

LEMMA RemoveLockInv ==
  ASSUME TypeOK, LockInv, NEW p \in Proc, Remove(p)
  PROVE  LockInv'
<1> USE DEF LockInv, TypeOK
<1>1. /\ pc[p] = "closed" /\ pc' = [pc EXCEPT ![p] = "start"] /\ lfp[p] = NoInode
      /\ lfp' = lfp /\ lockOwner' = lockOwner
      /\ ~ raced' => ~ raced /\ \A q \in Proc \ {p} : lfp[q] = NoInode
  BY DEF Remove, OpenWhileWorking
<1>2. Running' = Running
  BY <1>1 DEF Running
<1>3. OpenWhileWorking'
  BY <1>1 DEF OpenWhileWorking
<1>4. RunningHoldsLock'
  BY <1>1, <1>2 DEF RunningHoldsLock
<1>5. NoStaleLock'
  BY <1>1, NoProcAssumption DEF NoStaleLock
<1>6. OneFile'
  BY <1>1 DEF OneFile
<1> QED
  BY <1>3, <1>4, <1>5, <1>6

LEMMA NextLockInv == TypeOK /\ LockInv /\ [Next]_vars => LockInv'
<1>1. TypeOK /\ LockInv /\ UNCHANGED vars => LockInv'
  BY DEF LockInv, OpenWhileWorking, RunningHoldsLock, NoStaleLock, OneFile, Running, vars
<1> QED
  BY <1>1, OpenLockInv, LockLockInv, UnlockLockInv, LetGoLockInv, RemoveLockInv
     DEF Next, CannotLock, Crash

(***************************************************************************)
(* Every variable has its type, for any number of processes.               *)
(***************************************************************************)
THEOREM TypeCorrect == Spec => []TypeOK
  BY InitTypeOK, NextTypeOK, PTL DEF Spec

(***************************************************************************)
(* A lock never outlives the process that took it, nor its file's closing, *)
(* though unlocking leaves the bytes of the pid locked.                    *)
(***************************************************************************)
THEOREM LocksHaveOwners == Spec => []NoStaleLock
  BY InitTypeOK, NextTypeOK, InitLockInv, NextLockInv, PTL DEF Spec, LockInv

(***************************************************************************)
(* Two copies run only if an exiting process has removed the name of the   *)
(* lock file from under another that had it open.                          *)
(***************************************************************************)
THEOREM TwoCopiesNeedRace == Spec => []SingleCopyUnlessRaced
<1>1. TypeOK /\ LockInv => SingleCopyUnlessRaced
  BY DEF TypeOK, LockInv, OpenWhileWorking, RunningHoldsLock, OneFile, Running,
         SingleCopyUnlessRaced
<1> QED
  BY <1>1, InitTypeOK, NextTypeOK, InitLockInv, NextLockInv, PTL DEF Spec
=============================================================================
