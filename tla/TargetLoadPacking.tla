-------------------------- MODULE TargetLoadPacking -------------------------
(***************************************************************************)
(* The TargetLoadPacking plugin on top of the cache of scheduled pods: the *)
(* metrics it holds and the score it gives a node.  Score reads the metrics *)
(* under one lock and the cache under another one.                         *)
(*                                                                         *)
(* A measured utilisation is a whole percentage; it is an input of Score.  *)
(* Fractions are exact where the code has floating-point numbers.          *)
(***************************************************************************)
EXTENDS TrimaranCache, Sums

CONSTANTS
    PodSpec,          \* PodSpec[p]: record of its containers (a sequence) and overhead
    None,             \* a container has no limit, no request; a node has no metric
    Multiplier,       \* DefaultRequestsMultiplier, a fraction [num, den]
    DefaultRequests,  \* DefaultRequests, in the unit of the requests
    Target,           \* TargetUtilization
    Capacity,         \* Capacity[n]: CPU capacity of node n
    Utils             \* utilisations that may be measured

Maybe == Nat \cup {None}

ASSUME SpecAssumption ==
    /\ None \notin Nat
    /\ PodSpec \in [Pods -> [containers : Seq([limit : Maybe, request : Maybe]), overhead : Nat]]
ASSUME ArgsAssumption ==
    /\ Multiplier \in [num : Nat, den : Nat \ {0}]
    /\ DefaultRequests \in Nat
    /\ Target \in Nat \ {0}
ASSUME NodesAssumption ==
    /\ Capacity \in [Nodes -> Nat]
    /\ Utils \subseteq 0 .. 100

VARIABLE end   \* Window.End of the metrics in use, in seconds; 0 before the first ones

allVars == <<vars, end>>

-----------------------------------------------------------------------------
MinNodeScore == 0
MaxNodeScore == 100

\* math.Round of num / den, neither being negative.
Round(num, den) == (2 * num + den) \div (2 * den)

\* PredictUtilisation of a container
PredictUtilisation(c) ==
    CASE c.limit # None   -> c.limit
      [] c.limit = None /\ c.request # None -> Round(c.request * Multiplier.num, Multiplier.den)
      [] OTHER -> DefaultRequests

\* What a pod is predicted to use, with its overhead.
PodUsage ==
    [p \in Pods |-> LET containers == PodSpec[p].containers
                    IN  AddUp([i \in DOMAIN containers |-> PredictUtilisation(containers[i])])
                          + PodSpec[p].overhead]

\* Timestamp.Unix: the second that time t is in.
Unix(t) == t \div Second

\* Slip: pods scheduled just before the end of the window are taken for measured.
UnmeasuredAfterEnd(e) == Unix(e.at) > end

\* The metrics do not show the pod of entry e yet.
Unmeasured(e) ==
    Unix(e.at) > end \/ (Unix(e.at) <= end /\ end - Unix(e.at) < Interval)

\* missingCPUUtilMillis of node n
MissingUtil(n) ==
    LET missing == {i \in DOMAIN cache[n] : Unmeasured(cache[n][i])}
    IN  AddUp([i \in missing |-> PodUsage[cache[n][i].pod]])

\* predictedCPUUsage times the capacity: what was measured, what the metrics
\* miss and the pod itself.
PredictedUsage(n, p, util) ==
    IF Capacity[n] = 0 THEN 0
    ELSE util * Capacity[n] + 100 * (PodUsage[p] + MissingUtil(n))

\* Slips: the penalty has no bound; it grows the wrong way.
PackingScoreUnbounded(usage, cap) ==
    IF usage > Target * cap
    THEN (50 * (100 * cap - usage)) \div ((100 - Target) * cap)
    ELSE Round((100 - Target) * usage + Target * Target * cap, Target * cap)
PackingScoreReversed(usage, cap) ==
    IF usage > Target * cap
    THEN IF usage > 100 * cap THEN MinNodeScore
         ELSE Round(50 * (usage - Target * cap), (100 - Target) * cap)
    ELSE Round((100 - Target) * usage + Target * Target * cap, Target * cap)

\* The score of a usage of usage / cap percent: up to the target it grows, above
\* it a node is penalised, above 100 percent it is avoided.
PackingScore(usage, cap) ==
    IF usage > Target * cap
    THEN IF usage > 100 * cap THEN MinNodeScore
         ELSE Round(50 * (100 * cap - usage), (100 - Target) * cap)
    ELSE Round((100 - Target) * usage + Target * Target * cap, Target * cap)

\* Score of node n for pod p, whose measured utilisation is util or None.
\* Without capacity the usage is 0 percent, whatever it is measured in.
Score(n, p, util) ==
    IF util = None THEN MinNodeScore
    ELSE PackingScore(PredictedUsage(n, p, util), IF Capacity[n] = 0 THEN 1 ELSE Capacity[n])

-----------------------------------------------------------------------------
\* updateMetrics got a window; when it fails it keeps the one it has.
UpdateMetrics ==
    /\ end' \in 0 .. Unix(now)
    /\ UNCHANGED vars

TLPInit == Init /\ end = 0
TLPNext == (Next /\ UNCHANGED end) \/ UpdateMetrics
TLPSpec == TLPInit /\ [][TLPNext]_allVars

-----------------------------------------------------------------------------
TLPTypeOK == TypeOK /\ end \in 0 .. MaxTime

\* The load that the pods of S are predicted to cause.
Load(S) == AddUp([p \in S |-> PodUsage[p]])

\* "We predict utilization for the recent pods that got scheduled on the node":
\* Score counts every pod of the last reporting interval, in the whole seconds
\* that Timestamp.Unix leaves of the times, however recent the window is, and no
\* pod twice or after its deletion, whatever deletions and cleanups came between.
\* An older pod that the window does not show either may be missing.
RecentPredicted ==
    \A n \in Nodes :
        LET there  == {p \in Pods : seen[p] = n}
            recent == {p \in there : Unix(since[p]) + Interval > Unix(now)}
        IN  Load(recent) <= MissingUtil(n) /\ MissingUtil(n) <= Load(there)

\* "The range of score is from 0-100": a score out of the range of the framework
\* would fail the whole cycle; the recent pods may add up to more than the node
\* has.  New puts no upper limit on the target.
ScoreInRange ==
    \A n \in Nodes, p \in Pods, util \in Utils \cup {None} :
        Score(n, p, util) \in MinNodeScore .. MaxNodeScore

\* Nodes are packed up to the target and relieved beyond it: of two
\* measurements the higher one scores no less as long as both stay within the
\* target, and no more when both exceed it.
PackedToTarget ==
    \A n \in Nodes, p \in Pods :
        LET over  == {u \in Utils : PredictedUsage(n, p, u) > Target * Capacity[n]}
            score == [u \in Utils |-> Score(n, p, u)]
        IN  \A u, v \in Utils : u <= v =>
              /\ {u, v} \cap over = {} => score[u] <= score[v]
              /\ {u, v} \subseteq over => score[u] >= score[v]

=============================================================================
