---------------------------- MODULE MCScheduling ----------------------------
EXTENDS Scheduling, TLC

\* Jobs and volumes are interchangeable.
Symmetry == Permutations(Job) \cup Permutations(Volume)
=============================================================================
