------------------------- MODULE MCSchedulerProcess -------------------------
(* An instance of SchedulerProcess for TLC. *)
EXTENDS SchedulerProcess

CONSTANTS n1, n2, n3, g1, g2, p1, p2, p3, p4, p5

MiB == 1048576

\* Each field left out, zero, negative and set, a few at a time.
Given(S) == {Nil} \cup {Pointer(x) : x \in S}
ProviderOf(t) == [type |-> t, address |-> Nil, token |-> Pointer("secret")]
ProviderTypes == {"", "Prometheus", "unknown"}
Resource(r, w) == [name |-> r, weight |-> w]

MCRawArgs == [c \in Configured |-> Undecoded \cup
    LET v == Empty(c)
    IN  CASE c = "Coscheduling" ->
                {[v EXCEPT !.permit = x, !.denied = y, !.kubeMaster = z] :
                    x \in Given({0, 10}), y \in Given({0}), z \in Given({"", "url"})}
          [] c = "CapacityScheduling" ->
                {[v EXCEPT !.kubeConfig = x] : x \in Given({"", "path"})}
          [] c = "NodeResourcesAllocatable" ->
                {[v EXCEPT !.resources = x, !.mode = y] :
                    x \in {<<>>, <<Resource("cpu", 0)>>,
                           <<Resource("cpu", 2), Resource("memory", 1)>>,
                           <<Resource("memory", 1), Resource("cpu", 3), Resource("memory", 5)>>,
                           <<Resource("cpu", 8388608), Resource("gpu", 1)>>},
                    y \in {"", "Least", "Most", "other"}}
          [] c = "TargetLoadPacking" ->
                {[v EXCEPT !.provider = ProviderOf(t), !.watcher = w] :
                    t \in ProviderTypes, w \in Given({"", "url"})}
                \cup {[v EXCEPT !.target = x, !.multiplier = y, !.requests = z] :
                    x \in Given({-1, 0, 60}), y \in Given({"", "2"}), z \in Given({500})}
          [] c = "LoadVariationRiskBalancing" ->
                {[v EXCEPT !.provider = ProviderOf(t), !.watcher = w] :
                    t \in ProviderTypes, w \in Given({"", "url"})}
                \cup {[v EXCEPT !.margin = x, !.sensitivity = y] :
                    x \in Given({-1, 0, 2}), y \in Given({-1, 0, 2})}]

Shapes == {[cpu |-> 1, memory |-> 7 * MiB], [cpu |-> 4, memory |-> 4 * MiB],
           [cpu |-> 7, memory |-> 7 * MiB], [cpu |-> 0, memory |-> 0]}
MCSnapshots == [c \in Scorers |->
    CASE c = "NodeResourcesAllocatable" -> [Nodes -> Shapes]
      [] c = "PodState" -> [Nodes -> 0 .. 2]
      [] OTHER -> {Nil}]

Metric(t, o, x) == [type |-> t, operator |-> o, value |-> x]
\* The same load in two orders, a heavier one, and partial or old-style reports.
Calm     == <<Metric("CPU", "Average", 20), Metric("CPU", "Latest", 80), Metric("CPU", "Std", 4),
              Metric("Memory", "Average", 25), Metric("Memory", "Std", 0)>>
CalmToo  == <<Metric("CPU", "Latest", 80), Metric("Memory", "Std", 0), Metric("CPU", "Average", 20),
              Metric("Memory", "Average", 25), Metric("CPU", "Std", 4)>>
Busy     == <<Metric("CPU", "Std", 64), Metric("CPU", "Average", 95), Metric("CPU", "", 5),
              Metric("Memory", "Average", 40), Metric("Memory", "Std", 100)>>
CPUOnly  == <<Metric("CPU", "", 35), Metric("CPU", "Std", 25)>>
Nothing  == <<>>
OnNodes(a, b, c) == [n \in Nodes |-> CASE n = n1 -> a [] n = n2 -> b [] OTHER -> c]
MCResponses == {OnNodes(Calm, CalmToo, Busy), OnNodes(Busy, Calm, CPUOnly),
                OnNodes(CPUOnly, Absent, CPUOnly), OnNodes(CalmToo, Busy, Nothing)}

MCCapacity   == [n \in Nodes |-> IF n = n3 THEN [CPU |-> 0, Memory |-> 100] ELSE [CPU |-> 50, Memory |-> 100]]
MCPodRequest == [CPU |-> PodTemplate(<<5, 5>>, <<8>>, 0), Memory |-> PodTemplate(<<10>>, <<25>>, 5)]

Info(prio, q, t, g, k) == [priority |-> prio, qos |-> q, stamp |-> t, group |-> g, name |-> k]
MCPodInfo == [p \in QueuePods |->
    CASE p = p1 -> Info(0, "Guaranteed", 3, g1, 1)
      [] p = p2 -> Info(0, "Guaranteed", 4, g2, 2)
      [] p = p3 -> Info(0, "Burstable", 4, NoGroup, 3)
      [] p = p4 -> Info(1, "BestEffort", 8, g1, 4)
      [] OTHER  -> Info(0, "BestEffort", 9, g1, 5)]
MCCreated == [g \in {g1, g2} |-> IF g = g1 THEN 2 ELSE 4]

=============================================================================
