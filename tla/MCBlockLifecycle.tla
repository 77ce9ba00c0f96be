-------------------------- MODULE MCBlockLifecycle --------------------------
(* Instances of BlockLifecycle for TLC.                                    *)
EXTENDS BlockLifecycle, TLC

\* Versions and contents are interchangeable.
VersionSymmetry == Permutations(Version) \cup Permutations(Content)
=============================================================================
