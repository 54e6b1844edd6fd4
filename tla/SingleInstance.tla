--------------------------- MODULE SingleInstance ---------------------------
(***************************************************************************)
(* How fc-brokerd keeps a second copy of itself from running: the lock     *)
(* file of main().  A process opens (and if need be creates) the file,     *)
(* takes a record lock on what it opened, works, and on its way out        *)
(* unlocks, closes and removes the file NAME.  Names and inodes are kept   *)
(* apart because the last step acts on whatever file has the name then.    *)
(* A lock counts as held while any byte of it is: all ask for the whole.   *)
(***************************************************************************)
EXTENDS Naturals, FiniteSets

CONSTANTS
  Proc,      \* the processes that are started as fc-brokerd
  Inode,     \* files that can bear the name; a released one can be reused
  NoProc,
  NoInode

ASSUME NoProcAssumption == NoProc \notin Proc
ASSUME NoInodeAssumption == NoInode \notin Inode
\* Enough inodes for every process to hold one while a new one is created.
ASSUME InodeAssumption == /\ IsFiniteSet(Proc)
                          /\ IsFiniteSet(Inode)
                          /\ Cardinality(Inode) > Cardinality(Proc)

VARIABLES
  pc,         \* where each process is in main()
  lfp,        \* the file each process has open
  lockFile,   \* the inode that bears the name DAEMON_LOCK_FILE
  lockOwner,  \* the process that holds a record lock on each inode
  raced       \* history: a name was removed while another process had a file open

vars == <<pc, lfp, lockFile, lockOwner, raced>>

Running == {p \in Proc : pc[p] = "running"}

TypeOK ==
  /\ pc \in [Proc -> {"start", "opened", "running", "unlocked", "closed"}]
  /\ lfp \in [Proc -> Inode \cup {NoInode}]
  /\ lockFile \in Inode \cup {NoInode}
  /\ lockOwner \in [Inode -> Proc \cup {NoProc}]
  /\ raced \in BOOLEAN

Init ==
  /\ pc = [p \in Proc |-> "start"]
  /\ lfp = [p \in Proc |-> NoInode]
  /\ lockFile = NoInode
  /\ lockOwner = [i \in Inode |-> NoProc]
  /\ raced = FALSE

\* An inode nobody names or holds: what open(O_CREAT) can create.
Unused == Inode \ ({lockFile} \cup {lfp[p] : p \in Proc})

\* Mutants of Released: the wrong sentinel; a lock that outlives its process,
\* as the mere presence of a pid file would.
ReleasedToNoInode(p) ==
  [i \in Inode |-> IF lockOwner[i] = p THEN NoInode ELSE lockOwner[i]]
ReleasedNever(p) == [i \in Inode |-> lockOwner[i]]

\* The process has no lock any more: it has closed the file or has ended.
Released(p) == [i \in Inode |-> IF lockOwner[i] = p THEN NoProc ELSE lockOwner[i]]

\* open(DAEMON_LOCK_FILE, O_RDWR | O_CREAT)
Open(p) ==
  /\ pc[p] = "start"
  /\ \/ lockFile # NoInode /\ UNCHANGED lockFile
     \/ lockFile = NoInode /\ lockFile' \in Unused
  /\ lfp' = [lfp EXCEPT ![p] = lockFile']
  /\ pc' = [pc EXCEPT ![p] = "opened"]
  /\ UNCHANGED <<lockOwner, raced>>

\* Mutant of Free: the result of lockf is not looked at.
FreeOrNot(i) == i \in Inode

\* The record lock of a file can be had.
Free(i) == lockOwner[i] = NoProc

\* lockf(lfp, F_TLOCK, 0) succeeds.
Lock(p) ==
  /\ pc[p] = "opened"
  /\ Free(lfp[p])
  /\ lockOwner' = [lockOwner EXCEPT ![lfp[p]] = p]
  /\ pc' = [pc EXCEPT ![p] = "running"]
  /\ UNCHANGED <<lfp, lockFile, raced>>

\* The process is gone: its files are closed, its locks dropped, the name
\* stays.  pc "start" stands for the next time somebody starts it.
Leave(p) ==
  /\ pc' = [pc EXCEPT ![p] = "start"]
  /\ lfp' = [lfp EXCEPT ![p] = NoInode]
  /\ lockOwner' = Released(p)
  /\ UNCHANGED <<lockFile, raced>>

\* lockf fails: exit(EXIT_FAILURE).
CannotLock(p) ==
  /\ pc[p] = "opened"
  /\ ~ Free(lfp[p])
  /\ Leave(p)

\* A crash or SIGTERM (which has no handler), or the early exits of main()
\* after the lock: signal set-up or the first LDAP bind fails.
Crash(p) ==
  /\ pc[p] # "start"
  /\ Leave(p)

\* The main loop is left; lockf(lfp, F_ULOCK, 0) unlocks what is behind the
\* file's offset.  That is not the pid, which stays locked, unless the pid
\* could not be written: nobody looks at the result of write().
Unlock(p) ==
  /\ pc[p] = "running"
  /\ \/ UNCHANGED lockOwner
     \/ lockOwner' = Released(p)
  /\ pc' = [pc EXCEPT ![p] = "unlocked"]
  /\ UNCHANGED <<lfp, lockFile, raced>>

\* close(lfp) drops what is left of the lock.
Close(p) ==
  /\ pc[p] = "unlocked"
  /\ lfp' = [lfp EXCEPT ![p] = NoInode]
  /\ lockOwner' = Released(p)
  /\ pc' = [pc EXCEPT ![p] = "closed"]
  /\ UNCHANGED <<lockFile, raced>>

\* remove(DAEMON_LOCK_FILE), then exit: the name goes, whoever has the file open.
Remove(p) ==
  /\ pc[p] = "closed"
  /\ lockFile' = NoInode
  /\ raced' = (raced \/ \E q \in Proc \ {p} : lfp[q] # NoInode)
  /\ pc' = [pc EXCEPT ![p] = "start"]
  /\ UNCHANGED <<lfp, lockOwner>>

Next ==
  \E p \in Proc :
    \/ Open(p)
    \/ Lock(p)
    \/ CannotLock(p)
    \/ Crash(p)
    \/ Unlock(p)
    \/ Close(p)
    \/ Remove(p)

Spec == Init /\ [][Next]_vars

-----------------------------------------------------------------------------

(***************************************************************************)
(* A lock never outlives its owner: whoever holds any of the lock of a     *)
(* file is a process that works, or is between unlocking and closing, and  *)
(* has that very file open.  So after a crash, or after an orderly exit    *)
(* stopped half way, the next start can take the lock although the file is *)
(* still there.                                                            *)
(***************************************************************************)
NoStaleLock ==
  \A i \in Inode :
    lockOwner[i] # NoProc => /\ pc[lockOwner[i]] \in {"running", "unlocked"}
                             /\ lfp[lockOwner[i]] = i

(***************************************************************************)
(* "Running a Single Copy" (main.cpp:191) holds as long as no exiting      *)
(* process has removed the name from under a process that already had the  *)
(* file open: that is the only way to two copies.                          *)
(***************************************************************************)
SingleCopyUnlessRaced ==
  ~ raced => \A p, q \in Running : p = q

(***************************************************************************)
(* What the comments at main.cpp:191 and 202 say, without the condition:   *)
(* "Running a Single Copy", "only first instance continues".               *)
(***************************************************************************)
SingleCopy == \A p, q \in Running : p = q
=============================================================================
