-------------------------- MODULE MCQuotaPreemption --------------------------
(* Instances of QuotaPreemption for TLC. *)
EXTENDS QuotaPreemption, PodRequests, FiniteSetsExt

CONSTANTS a1, a2, b1, b2, A, B, n1, n2

MCNs    == [p \in Pods |-> IF p \in {a1, a2} THEN A ELSE B]
\* One container of 1; or two containers, a wide init container, an overhead.
MCPod   == [p \in Pods |-> IF p \in {a1, b1} THEN PodTemplate(<<1>>, <<>>, 0)
                           ELSE PodTemplate(<<0, 1>>, <<1, 0>>, 1)]
MCReq   == [p \in Pods |-> ComputePodResourceRequest(MCPod[p])]
MCTotal == [S \in SUBSET Pods |-> MapThenSumSet(LAMBDA p : MCReq[p], S)]

Small   == [min |-> 1, max |-> 2]
Large   == [min |-> 2, max |-> 2]
MCSpecs == {Small, Large}
MCInit  == [n \in Namespaces |-> Small]

MCPriority   == [p \in Pods |-> IF p \in {a2} THEN 1 ELSE 0]
MCImportance == [p \in Pods |-> CASE p = a1 -> 1 [] p = b1 -> 2 [] p = b2 -> 3 [] OTHER -> 4]
MCRoom       == [n \in Nodes |-> IF n = n1 THEN 2 ELSE 1]

=============================================================================
