---------------------------- MODULE MCPreemption ----------------------------
(* Instances of Preemption for TLC: one node, two namespaces. *)
EXTENDS Preemption, FiniteSetsExt

CONSTANTS a1, a2, b1, b2, b3, A, B, pdb, Room

MCNs         == [p \in Pods |-> IF p \in {a1, a2} THEN A ELSE B]
MCReq        == [p \in Pods |-> IF p \in {a1, b1} THEN 2 ELSE 1]
MCPriority   == [p \in Pods |-> IF p \in {a1, b1, b2} THEN 0 ELSE 1]
MCImportance == [p \in Pods |-> CASE p = b1 -> 1 [] p = a1 -> 2 [] p = b2 -> 3
                                  [] p = b3 -> 4 [] OTHER -> 5]
MCTotal      == [S \in SUBSET Pods |-> MapThenSumSet(LAMBDA p : MCReq[p], S)]
MCPreemptor  == [ns |-> A, priority |-> 1, request |-> 1]
MCFits       == [S \in SUBSET Pods |-> MCTotal[S] + MCPreemptor.request <= Room]
MCGuarded    == [b \in Budgets |-> {b1, b3, a1}]
MCAllowed    == [b \in Budgets |-> 1]
MCSpecs      == {[min |-> 1, max |-> 3], [min |-> 3, max |-> 4]}
MCSumMin     == [q \in Quotas |-> MapThenSumSet(LAMBDA n : q[n].min,
                                               {n \in Namespaces : q[n] # NoQuota})]

=============================================================================
