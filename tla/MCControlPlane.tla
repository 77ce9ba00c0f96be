--------------------------- MODULE MCControlPlane ---------------------------
EXTENDS ControlPlane, TLC

Symmetry == Permutations(Node) \cup Permutations(Request) \cup Permutations(Version)
=============================================================================
