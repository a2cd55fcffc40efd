--------------------------- MODULE MCCoscheduling ---------------------------
(* Instances of Coscheduling for TLC. *)
EXTENDS Coscheduling, TLC

CONSTANTS a1, a2, a3, b1, b2, s, A, B

\* Pods a* are labelled with group A, b* with group B, the others with none.
MCLabel == [p \in Pods |-> IF p \in {a1, a2, a3} THEN A
                           ELSE IF p \in {b1, b2} THEN B ELSE NoGroup]
Two     == [g \in Groups |-> 2]
Three   == [g \in Groups |-> 3]
Unequal == [g \in Groups |-> IF g = A THEN 3 ELSE 2]
NoMinResources == [g \in Groups |-> 0]
Symmetry == Permutations({a1, a2, a3})

=============================================================================
