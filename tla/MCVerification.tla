--------------------------- MODULE MCVerification ---------------------------
(* Verification with interchangeable versions.                             *)
EXTENDS Verification, TLC

Symmetry == Permutations(Version)

=============================================================================
