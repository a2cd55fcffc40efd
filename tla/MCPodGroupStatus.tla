-------------------------- MODULE MCPodGroupStatus --------------------------
(* Instances of PodGroupStatus for TLC. *)
EXTENDS PodGroupStatus, TLC

CONSTANTS p1, p2, p3, f1
Symmetry == Permutations(Pods)

=============================================================================
