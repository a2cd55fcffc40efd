------------------------ MODULE MCCapacityScheduling ------------------------
(* Instances of CapacityScheduling for TLC. *)
EXTENDS CapacityScheduling, FiniteSetsExt

CONSTANTS a1, a2, b1, b2, A, B

MCNs    == [p \in Pods |-> IF p \in {a1, a2} THEN A ELSE B]
MCReq   == [p \in Pods |-> IF p \in {a1, b1} THEN 1 ELSE 2]
MCTotal == [S \in SUBSET Pods |-> MapThenSumSet(LAMBDA p : MCReq[p], S)]

Small   == [min |-> 1, max |-> 2]
Large   == [min |-> 2, max |-> 3]
MCSpecs == {Small, Large}
MCInit  == [n \in Namespaces |-> Large]

=============================================================================
