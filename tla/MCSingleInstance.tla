-------------------------- MODULE MCSingleInstance --------------------------
\* SingleInstance for TLC: processes and inodes are interchangeable.
EXTENDS SingleInstance, TLC

Symmetry == Permutations(Proc) \cup Permutations(Inode)
=============================================================================
