--------------------- MODULE LoadVariationRiskBalancing ---------------------
(***************************************************************************)
(* The score of the LoadVariationRiskBalancing plugin                      *)
(* (pkg/trimaran/loadvariationriskbalancing): the risk of a node, from the *)
(* average and the deviation of its measured load.                         *)
(*                                                                         *)
(* Where the code has floating-point numbers this has whole percentages of *)
(* the capacity of the node; scores are in halves of a point until they    *)
(* are rounded.  A metric is a record of its type, operator and value.     *)
(***************************************************************************)
EXTENDS Integers, Sequences, PodRequests

NoOperator == ""   \* of the metrics of older load watchers

\* Metrics of a type and of some operators, and the value of the last of them.
Found(metrics, type, operators) ==
    {i \in DOMAIN metrics : metrics[i].type = type /\ metrics[i].operator \in operators}
LastValue(metrics, found) == IF found = {} THEN 0 ELSE metrics[Max(found)].value

\* Slip: a metric without operator, or Latest, replaces an average.
GetResourceDataLast(metrics, type) ==
    [avg     |-> LastValue(metrics, Found(metrics, type, {"Average", NoOperator, "Latest"})),
     stDev   |-> LastValue(metrics, Found(metrics, type, {"Std"})),
     isValid |-> \E i \in DOMAIN metrics : metrics[i].type = type]

\* getResourceData: the last Average, or else the last value without operator or Latest.
GetResourceData(metrics, type) ==
    LET averages == Found(metrics, type, {"Average"})
    IN  [avg     |-> LastValue(metrics, IF averages # {} THEN averages
                                        ELSE Found(metrics, type, {NoOperator, "Latest"})),
         stDev   |-> LastValue(metrics, Found(metrics, type, {"Std"})),
         isValid |-> \E i \in DOMAIN metrics : metrics[i].type = type]

\* getResourceRequested: containers, init containers and overhead of the pod.
GetResourceRequested(pod) == ComputePodResourceRequest(pod)

\* createResourceStats; used is in per cent of the capacity.
CreateResourceStats(metrics, type, capacity, request) ==
    LET data == GetResourceData(metrics, type)
    IN  [usedAvg |-> data.avg, usedStdev |-> data.stDev, req |-> request,
         capacity |-> capacity, isValid |-> data.isValid]

Clamp(x, low, high) == IF x < low THEN low ELSE IF x > high THEN high ELSE x

Power(x, n) == LET p[k \in 0 .. n] == IF k = 0 THEN 1 ELSE x * p[k - 1] IN p[n]

\* math.Pow(sigma, 1 / sensitivity) of a percentage, rounded down.  1 / 0 is +Inf,
\* and a number below 1 to the power of +Inf is 0.
Root(sigma, sensitivity) ==
    IF sensitivity = 0 THEN (IF sigma = 100 THEN 100 ELSE 0)
    ELSE Max({r \in 0 .. 100 : Power(r, sensitivity) <= sigma * Power(100, sensitivity - 1)})

\* Slip: the deviation is not bounded after the margin is applied.
ComputeScoreUnbounded(rs, margin, sensitivity) ==
    IF rs.capacity <= 0 THEN 0
    ELSE LET req   == IF rs.req < 0 THEN 0 ELSE rs.req
             mu    == Clamp(Clamp(rs.usedAvg, 0, 100) + (100 * req) \div rs.capacity, 0, 100)
             sigma == Root(Clamp(rs.usedStdev, 0, 100), sensitivity)
         IN  200 - mu - sigma * margin

\* computeScore, in halves of a point: 200 * (1 - (mu + sigma) / 2).
ComputeScore(rs, margin, sensitivity) ==
    IF rs.capacity <= 0 THEN 0
    ELSE LET req   == IF rs.req < 0 THEN 0 ELSE rs.req
             mu    == Clamp(Clamp(rs.usedAvg, 0, 100) + (100 * req) \div rs.capacity, 0, 100)
             std   == Clamp(rs.usedStdev, 0, 100)
             sigma == IF sensitivity >= 0 THEN Root(std, sensitivity) ELSE std
         IN  200 - mu - Clamp(sigma * margin, 0, 100)

\* Score of a node whose metrics are there: the worse of the two resources when
\* both are measured, the one that is measured otherwise; math.Round.
RiskScore(metrics, capacity, request, margin, sensitivity) ==
    LET Stats(r)  == CreateResourceStats(metrics, r, capacity[r], request[r])
        Of(r)     == IF Stats(r).isValid THEN ComputeScore(Stats(r), margin, sensitivity) ELSE 0
        cpu       == Of("CPU")
        memory    == Of("Memory")
        both      == Stats("CPU").isValid /\ Stats("Memory").isValid
        total     == IF both THEN Min({cpu, memory}) ELSE Max({cpu, memory})
    IN  (total + 1) \div 2

=============================================================================
