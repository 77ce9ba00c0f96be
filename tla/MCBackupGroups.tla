--------------------------- MODULE MCBackupGroups ---------------------------
EXTENDS BackupGroups, TLC

Symmetry == Permutations(Volume) \cup Permutations(Group) \cup Permutations(Job) \cup Permutations(Thread)
=============================================================================
