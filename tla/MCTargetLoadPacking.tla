------------------------ MODULE MCTargetLoadPacking -------------------------
(* Instances of TargetLoadPacking for TLC. *)
EXTENDS TargetLoadPacking

CONSTANTS p1, p2, p3, n1, n2

Limited    == [limit |-> 3, request |-> 1]
Requesting == [limit |-> None, request |-> 1]
BestEffort == [limit |-> None, request |-> None]

\* Pods with one and with two containers, with and without overhead.
MCPodSpec ==
    [p \in Pods |->
        CASE p = p1 -> [containers |-> <<Limited>>, overhead |-> 0]
          [] p = p2 -> [containers |-> <<Requesting, BestEffort>>, overhead |-> 0]
          [] OTHER  -> [containers |-> <<BestEffort>>, overhead |-> 1]]

OneAndAHalf == [num |-> 3, den |-> 2]
Ten         == [n \in Nodes |-> 10]

=============================================================================
