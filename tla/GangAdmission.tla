---------------------------- MODULE GangAdmission ----------------------------
(***************************************************************************)
(* What coscheduling promises, without queues, cycles and locks: a group   *)
(* is admitted to binding as a whole.  Nobody of the group is admitted, or *)
(* at least minMember of its pods are, and those are admitted in one step; *)
(* later pods of the group join one by one; an admission is never revoked. *)
(***************************************************************************)
EXTENDS Integers, FiniteSets

CONSTANTS Pods, Groups, Label, MinMember

VARIABLE admitted   \* admitted[g]: pods of group g that may be bound

Members(g) == {p \in Pods : Label[p] = g}

Init == admitted = [g \in Groups |-> {}]

\* The gang is complete: all that hold a node go together.
Admit(g, S) ==
    /\ admitted[g] = {}
    /\ S \subseteq Members(g) /\ Cardinality(S) >= MinMember[g]
    /\ admitted' = [admitted EXCEPT ![g] = S]

\* A pod of a group that was admitted before.
Join(g, p) ==
    /\ admitted[g] # {}
    /\ p \in Members(g)
    /\ admitted' = [admitted EXCEPT ![g] = @ \cup {p}]

Next ==
    \E g \in Groups : \/ \E S \in SUBSET Members(g) : Admit(g, S)
                      \/ \E p \in Members(g) : Join(g, p)

Spec == Init /\ [][Next]_admitted

=============================================================================
