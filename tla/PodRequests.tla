----------------------------- MODULE PodRequests -----------------------------
(***************************************************************************)
(* What a pod requests of one resource.  computePodResourceRequest of the  *)
(* CapacityScheduling plugin (pkg/capacityscheduling) and                  *)
(* calculatePodResourceRequest of the scorers (pkg/noderesources) go       *)
(* through its containers in the same way.                                 *)
(***************************************************************************)
EXTENDS Integers, Sequences, SequencesExt

\* A pod template: requests of its containers and of its init containers, one
\* after the other, and the overhead of its runtime class (0 for nil).
PodTemplate(containers, initContainers, overhead) ==
    [containers |-> containers, initContainers |-> initContainers, overhead |-> overhead]

PodTemplates == [containers : Seq(Int), initContainers : Seq(Int), overhead : Int]

\* Containers run together, init containers one at a time and before them; the
\* overhead is added with the feature gate PodOverhead, which is on by default.
ComputePodResourceRequest(pod) ==
    LET together == SumFunction(pod.containers)
        widest   == Max({together} \cup Range(pod.initContainers))
    IN  widest + pod.overhead

=============================================================================
