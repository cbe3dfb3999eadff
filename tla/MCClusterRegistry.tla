------------------------- MODULE MCClusterRegistry -------------------------
(* The instances of ClusterRegistry that TLC checks.                       *)
EXTENDS ClusterRegistry, TLC

\* Managers are interchangeable, and so are workers.
Symmetric == Permutations(Mgrs) \cup Permutations(Workers)
=============================================================================
