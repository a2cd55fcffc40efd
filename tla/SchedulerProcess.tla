-------------------------- MODULE SchedulerProcess --------------------------
(***************************************************************************)
(* The life of one component in its process: its arguments are decoded, it *)
(* is constructed, its informers are started and synced, and it serves.    *)
(* Init picks the component: a plugin of the scheduler (cmd/scheduler) or  *)
(* the PodGroupController (cmd/controller).  In service, the scorers go    *)
(* through scoring cycles and the queue sorts through pushes and pops.     *)
(* What the other components do in service is in modules of their own.     *)
(***************************************************************************)
EXTENDS PluginArgs, NodeScores, LoadVariationRiskBalancing, QueueSort

CONSTANTS
    RawArgs,        \* RawArgs[c]: versioned arguments that component c may be given
    Nodes,
    Snapshots,      \* Snapshots[c]: what a cycle of scorer c may find in its snapshot
    Responses,      \* metrics of all nodes that the load watcher may answer with
    Absent,         \* a node has no entry in the metrics
    Capacity,       \* Capacity[n]: allocatable CPU and Memory of node n
    PodRequest,     \* what the pod of the cycle requests of them, a pod template for each
    MaxNominated    \* bound on the pods nominated to a node

Components ==
    {"Coscheduling", "CapacityScheduling", "NodeResourcesAllocatable", "TargetLoadPacking",
     "LoadVariationRiskBalancing", "CrossNodePreemption", "PodState", "QOSSort",
     "PodGroupController"}
Configured == Components \ {"CrossNodePreemption", "PodState", "QOSSort", "PodGroupController"}
Scorers    == {"NodeResourcesAllocatable", "PodState", "LoadVariationRiskBalancing"}
Sorters    == {"Coscheduling", "QOSSort"}

\* What the configuration file, the snapshot and the load watcher may hold.  Pods are
\* counted, and resources measured, in machine integers.
ASSUME ConfigurationAssumption == \A c \in Configured : RawArgs[c] \ Undecoded \subseteq Versioned(c)

ASSUME ClusterAssumption ==
    /\ IsFiniteSet(Nodes)
    /\ MaxNominated \in 0 .. Half - 1
    /\ \A s \in Snapshots["NodeResourcesAllocatable"], n \in Nodes :
            \A r \in DOMAIN s[n] : s[n][r] \in Nat
    /\ \A s \in Snapshots["PodState"], n \in Nodes : s[n] \in 0 .. Half - 1

Metrics == Seq([type : STRING, operator : STRING, value : Int])
ASSUME LoadAssumption ==
    /\ Responses \subseteq [Nodes -> {Absent} \cup Metrics]
    /\ Capacity \in [Nodes -> [CPU : Int, Memory : Int]]
    /\ PodRequest \in [CPU : PodTemplates, Memory : PodTemplates]

\* Informers: PodGroups and ElasticQuotas from the generated factory, pods and
\* disruption budgets from the factory of the scheduler, and the pods with a group
\* label from a factory that the component makes for itself.
ProcessFactoryOf ==
    [pg |-> "generated", eq |-> "generated", pods |-> "shared", pdb |-> "shared", ownPods |-> "own"]

VARIABLES
    component,   \* the component whose life this is
    stage,       \* "configured", "constructing", "serving" or "refused" (the process ends)
    args,        \* its arguments: versioned, then internal
    pc,          \* next step of its construction
    informers, started, synced,   \* see InformerFactory
    snapshot,    \* snapshot of the scoring cycle, or Nil
    nominated,   \* nominated[n]: number of pods nominated to node n
    metrics,     \* metrics that the plugin or its collector holds
    scored,      \* nodes scored in this cycle: the score, and what it was computed from
    final        \* scores after NormalizeScore, or Nil

INSTANCE InformerFactory
    WITH Informers <- DOMAIN ProcessFactoryOf, FactoryOf <- ProcessFactoryOf

informerVars == <<informers, started, synced>>
scoreVars   == <<snapshot, nominated, metrics, scored, final>>
processVars == <<component, stage, args, pc, informerVars, scoreVars, queueVars>>

-----------------------------------------------------------------------------
(* Construction, as the list of steps of each constructor.                 *)

Do(op, on) == [op |-> op, on |-> on]

\* The command of kube-scheduler starts the shared factory once it has its plugins.
RunScheduler == <<Do("start", {"shared"}), Do("waitFactory", {"shared"})>>

\* Slip: the factories are started before the manager asks for its listers.
NewCoschedulingStartFirst ==
    <<Do("check", {}), Do("client", {}), Do("start", {"generated", "own"}),
      Do("ask", {"pg", "ownPods"}), Do("wait", {"pg", "ownPods"})>>

\* Coscheduling: New with NewPodGroupManager
NewCoscheduling ==
    <<Do("check", {}), Do("client", {}), Do("ask", {"pg", "ownPods"}),
      Do("start", {"generated"}), Do("start", {"own"}), Do("wait", {"pg", "ownPods"})>>

\* Slip: the caches are not waited for.
NewCapacitySchedulingNoWait ==
    <<Do("check", {}), Do("ask", {"pdb"}), Do("client", {}), Do("ask", {"eq"}),
      Do("start", {"generated"}), Do("ask", {"pods"})>>

\* CapacityScheduling: New
NewCapacityScheduling ==
    <<Do("check", {}), Do("ask", {"pdb"}), Do("client", {}), Do("ask", {"eq"}),
      Do("start", {"generated"}), Do("wait", {"eq"}), Do("ask", {"pods"})>>

\* TargetLoadPacking: New; its metrics in service are in the module TargetLoadPacking.
NewTargetLoadPacking == <<Do("check", {}), Do("ask", {"pods"}), Do("metrics", {})>>

\* LoadVariationRiskBalancing: New with newCollector
NewLoadVariation == <<Do("check", {}), Do("metrics", {}), Do("ask", {"pods"})>>

\* The controller: Run of cmd/controller/app, NewPodGroupController and the Run of
\* the controller, which waits for the PodGroups twice and for the pods not at all.
RunController ==
    <<Do("client", {}), Do("ask", {"pg", "ownPods"}),
      Do("start", {"generated"}), Do("start", {"own"}), Do("wait", {"pg"})>>

Program ==
    CASE component = "Coscheduling"       -> NewCoscheduling \o RunScheduler
      [] component = "CapacityScheduling" -> NewCapacityScheduling \o RunScheduler
      [] component = "NodeResourcesAllocatable" -> <<Do("check", {})>> \o RunScheduler
      [] component = "TargetLoadPacking"  -> NewTargetLoadPacking \o RunScheduler
      [] component = "LoadVariationRiskBalancing" -> NewLoadVariation \o RunScheduler
      [] component = "PodGroupController" -> RunController
      [] OTHER -> RunScheduler

AtStep(op) == stage = "constructing" /\ Program[pc].op = op
On == Program[pc].on

Advance ==
    /\ pc' = pc + 1
    /\ stage' = IF pc = Len(Program) THEN "serving" ELSE stage

Refuse == stage' = "refused" /\ UNCHANGED pc

\* The configuration is read; what comes from other code is not decoded.
Load ==
    /\ stage = "configured"
    /\ args' = IF component \in Configured /\ args \notin Undecoded THEN Decode(component, args) ELSE args
    /\ stage' = "constructing"
    /\ pc' = 1
    /\ UNCHANGED <<component, informerVars, scoreVars, queueVars>>

CheckArgs ==
    /\ AtStep("check")
    /\ IF Refuses(component, args) THEN Refuse /\ UNCHANGED args
       ELSE Advance /\ args' = Effective(component, args)
    /\ UNCHANGED <<component, informerVars, scoreVars, queueVars>>

\* BuildConfigFromFlags and the clients made from it; they may fail.
BuildClient ==
    /\ AtStep("client")
    /\ Advance \/ Refuse
    /\ UNCHANGED <<component, args, informerVars, scoreVars, queueVars>>

AskForInformers ==
    /\ AtStep("ask")
    /\ InformerFor(On)
    /\ Advance
    /\ UNCHANGED <<component, args, scoreVars, queueVars>>

Start ==
    /\ AtStep("start")
    /\ StartFactories(On)
    /\ Advance
    /\ UNCHANGED <<component, args, scoreVars, queueVars>>

\* cache.WaitForCacheSync of single informers, or that of a factory.
WaitForCacheSync ==
    /\ \/ AtStep("wait") /\ On \subseteq synced
       \/ AtStep("waitFactory") /\ \A f \in On : FactorySynced(f)
    /\ Advance
    /\ UNCHANGED <<component, args, informerVars, scoreVars, queueVars>>

\* The first updateMetrics; its failure is logged.  The error of the client's own
\* constructor was dropped before: a client that is not there makes the call panic,
\* and the process ends like one whose constructor has failed.
FetchMetrics ==
    /\ AtStep("metrics")
    /\ \/ metrics' \in Responses \cup {metrics} /\ Advance
       \/ metrics' = metrics /\ Refuse
    /\ UNCHANGED <<component, args, informerVars, snapshot, nominated, scored, final, queueVars>>

SyncInformer(i) ==
    /\ Sync(i)
    /\ UNCHANGED <<component, stage, args, pc, scoreVars, queueVars>>

-----------------------------------------------------------------------------
(* Scoring cycles                                                          *)

Scoring == stage = "serving" /\ component \in Scorers

\* The scheduler takes a snapshot for the next pod.
StartCycle ==
    /\ Scoring
    /\ snapshot = Nil \/ final # Nil
    /\ snapshot' \in {Pointer(s) : s \in Snapshots[component]}
    /\ scored' = <<>>
    /\ final' = Nil
    /\ UNCHANGED <<component, stage, args, pc, informerVars, nominated, metrics, queueVars>>

\* What the score of node n is computed from: the snapshot is that of the cycle, the
\* nominated pods and the metrics are those of the moment.
Basis(n) ==
    CASE component = "NodeResourcesAllocatable" -> snapshot[1][n]
      [] component = "PodState" -> [terminating |-> snapshot[1][n], nominated |-> nominated[n]]
      [] component = "LoadVariationRiskBalancing" -> metrics[n]

\* What node b has of resource r: 0 of what it does not list.
AllocatableOf(b, r) == IF r \in DOMAIN b THEN b[r] ELSE 0

\* Score of Allocatable and of the scorer behind it
AllocatableScore(b) ==
    LET weights == ResourceToWeightMap(args.resources)
    IN  NodeScore(weights, [r \in DOMAIN weights |-> AllocatableOf(b, r)], args.mode)

\* Score of LoadVariationRiskBalancing with getNodeMetrics
LoadVariationScore(n, b) ==
    IF b = Absent THEN MinNodeScore
    ELSE RiskScore(b, Capacity[n], [r \in DOMAIN PodRequest |-> GetResourceRequested(PodRequest[r])],
                   args.margin, args.sensitivity)

ScoreOf(n, b) ==
    CASE component = "NodeResourcesAllocatable" -> AllocatableScore(b)
      [] component = "PodState" -> PodStateScore(b.terminating, b.nominated)
      [] component = "LoadVariationRiskBalancing" -> LoadVariationScore(n, b)

\* The framework scores the nodes in parallel.
Score(n) ==
    /\ Scoring
    /\ snapshot # Nil
    /\ n \notin DOMAIN scored
    /\ scored' = [m \in DOMAIN scored \cup {n} |->
                    IF m = n THEN [basis |-> Basis(n), score |-> ScoreOf(n, Basis(n))] ELSE scored[m]]
    /\ UNCHANGED <<component, stage, args, pc, informerVars, snapshot, nominated, metrics, final, queueVars>>

\* NormalizeScore; that of LoadVariationRiskBalancing does nothing.
Normalize ==
    /\ Scoring
    /\ DOMAIN scored = Nodes
    /\ final = Nil
    /\ LET raw == [n \in Nodes |-> scored[n].score]
       IN  final' = IF component = "LoadVariationRiskBalancing" THEN raw ELSE NormalizeScore(raw)
    /\ UNCHANGED <<component, stage, args, pc, informerVars, snapshot, nominated, metrics, scored, queueVars>>

\* updateMetrics of the collector's goroutine, when it is answered.
UpdateMetrics ==
    /\ Scoring
    /\ component = "LoadVariationRiskBalancing"
    /\ metrics' \in Responses
    /\ UNCHANGED <<component, stage, args, pc, informerVars, snapshot, nominated, scored, final, queueVars>>

\* A pod is nominated to a node or its nomination ends, also while nodes are scored.
Nominate(n) ==
    /\ Scoring
    /\ component = "PodState"
    /\ \E k \in 0 .. MaxNominated : nominated' = [nominated EXCEPT ![n] = k]
    /\ UNCHANGED <<component, stage, args, pc, informerVars, snapshot, metrics, scored, final, queueVars>>

-----------------------------------------------------------------------------
(* The active queue                                                        *)

Sorting == stage = "serving" /\ component \in Sorters

QueuePod(p) ==
    /\ Sorting
    /\ Push(component, p)
    /\ UNCHANGED <<component, stage, args, pc, informerVars, scoreVars>>

NextPod ==
    /\ Sorting
    /\ Pop(component)
    /\ UNCHANGED <<component, stage, args, pc, informerVars, scoreVars>>

ChangePodGroup(g) ==
    /\ Sorting
    /\ component = "Coscheduling"
    /\ ListPodGroup(g)
    /\ UNCHANGED <<component, stage, args, pc, informerVars, scoreVars>>

-----------------------------------------------------------------------------
ProcessInit ==
    /\ component \in Components
    /\ stage = "configured"
    /\ args \in IF component \in Configured THEN RawArgs[component] ELSE {Nil}
    /\ pc = 1
    /\ FactoryInit
    /\ snapshot = Nil
    /\ nominated = [n \in Nodes |-> 0]
    /\ metrics = [n \in Nodes |-> Absent]
    /\ scored = <<>>
    /\ final = Nil
    /\ QueueInit

Construct == Load \/ CheckArgs \/ BuildClient \/ AskForInformers \/ Start \/ WaitForCacheSync \/ FetchMetrics

ProcessNext ==
    \/ Load
    \/ CheckArgs
    \/ BuildClient
    \/ AskForInformers
    \/ Start
    \/ WaitForCacheSync
    \/ FetchMetrics
    \/ \E i \in DOMAIN ProcessFactoryOf : SyncInformer(i)
    \/ StartCycle
    \/ \E n \in Nodes : Score(n)
    \/ Normalize
    \/ UpdateMetrics
    \/ \E n \in Nodes : Nominate(n)
    \/ \E p \in QueuePods : QueuePod(p)
    \/ NextPod
    \/ \E g \in DOMAIN Created : ChangePodGroup(g)

\* The process runs, and the API server answers the informers.
ProcessFairness ==
    /\ WF_processVars(Construct)
    /\ \A i \in DOMAIN ProcessFactoryOf : WF_processVars(SyncInformer(i))

ProcessSpec == ProcessInit /\ [][ProcessNext]_processVars /\ ProcessFairness

-----------------------------------------------------------------------------
(* Properties                                                              *)

\* Every variable keeps its type; only what was asked for is started, and only what
\* was started is synced.
ProcessTypeOK ==
    /\ component \in Components
    /\ stage \in {"configured", "constructing", "serving", "refused"}
    /\ pc \in 1 .. Len(Program) + 1
    /\ FactoryTypeOK
    /\ QueueTypeOK
    /\ nominated \in [Nodes -> 0 .. MaxNominated]
    /\ DOMAIN scored \subseteq Nodes

\* What a component reads through listers and handlers.
Reads ==
    CASE component = "Coscheduling"       -> {"pg", "ownPods"}
      [] component = "CapacityScheduling" -> {"eq", "pdb", "pods"}
      [] component \in {"TargetLoadPacking", "LoadVariationRiskBalancing"} -> {"pods"}
      [] component = "PodGroupController" -> {"pg", "ownPods"}
      [] OTHER -> {}

\* "Coscheduling sync finished": no component serves from a lister whose informer
\* has not listed everything.  The controller waits for its PodGroups twice and for
\* the pods that syncHandler counts not at all, so it does not hold of the controller.
ListersSynced == stage = "serving" => Reads \subseteq synced

\* The controller's pods aside, nothing is read too early: no plugin of the scheduler
\* serves from a lister whose informer has not listed everything, and the controller
\* has all PodGroups when its workers begin.
PluginListersSynced ==
    stage = "serving" =>
        IF component = "PodGroupController" THEN "pg" \in synced ELSE Reads \subseteq synced

\* Start-up ends: the constructors ask for their informers before they start the
\* factories, so that no wait for a cache is forever.
StartUpEnds == <>(stage \in {"serving", "refused"})

\* Arguments written out as a versioned object and read again are the same: neither
\* a default nor a conversion changes what was already decoded.
RoundTrip ==
    stage # "configured" /\ component \in Configured /\ args \notin Undecoded =>
        Decode(component, ToV1beta1(component, args)) = args

\* No product or sum of the scoring of this cycle leaves the machine integers.
Headroom ==
    /\ component = "NodeResourcesAllocatable" =>
          LET weights == ResourceToWeightMap(args.resources)
          IN  /\ SumFunction(weights) < Half
              /\ \A n \in Nodes :
                    SumFunction([r \in DOMAIN weights |-> AllocatableOf(snapshot[1][n], r) * weights[r]])
                        < Half
    /\ \A m, n \in Nodes : 100 * (scored[m].score - scored[n].score) < Half

\* The scores that reach the framework are in its range, for all arguments that the
\* constructors accept and as long as the machine integers suffice.
ScoresInRange ==
    final # Nil /\ Headroom => \A n \in Nodes : final[n] \in MinNodeScore .. MaxNodeScore

\* What a list of metrics reports of a resource, whatever the order of the list.
Measured(b, r) == \E i \in DOMAIN b : b[i].type = r
Reported(b, r, operators) == {b[i].value : i \in {i \in DOMAIN b : b[i].type = r /\ b[i].operator \in operators}}
AverageOf(b, r) ==
    IF Reported(b, r, {"Average"}) # {} THEN Reported(b, r, {"Average"}) ELSE Reported(b, r, {NoOperator, "Latest"})

\* Node m, as it was seen, is at least as good as node n for the component.
AtLeastAsGood(m, n) ==
    LET x == scored[m].basis
        y == scored[n].basis
    IN  CASE component = "NodeResourcesAllocatable" ->
                \A i \in DOMAIN args.resources :
                    LET r == args.resources[i].name
                    IN  IF args.mode = "Most" THEN AllocatableOf(x, r) >= AllocatableOf(y, r)
                        ELSE AllocatableOf(x, r) <= AllocatableOf(y, r)
          [] component = "PodState" -> x.terminating >= y.terminating /\ x.nominated <= y.nominated
          [] component = "LoadVariationRiskBalancing" ->
                /\ x # Absent /\ y # Absent /\ Capacity[m] = Capacity[n]
                /\ \A r \in {"CPU", "Memory"} :
                    /\ Measured(x, r) = Measured(y, r)
                    /\ (AverageOf(x, r) = {}) = (AverageOf(y, r) = {})
                    /\ (Reported(x, r, {"Std"}) = {}) = (Reported(y, r, {"Std"}) = {})
                    /\ \A a \in AverageOf(x, r), b \in AverageOf(y, r) : a <= b
                    /\ \A a \in Reported(x, r, {"Std"}), b \in Reported(y, r, {"Std"}) : a <= b

\* A node that is at least as good as another one, in everything the plugin looks at
\* and as it was when it was scored, ends up with at least its score.
RanksFaithfully ==
    final # Nil /\ Headroom =>
        \A m, n \in Nodes : AtLeastAsGood(m, n) => final[m] >= final[n]

\* The pod at the head of the queue is one that no queued pod has to precede.
HeadIsFirst ==
    heap # <<>> => \A i \in DOMAIN heap : ~Precedes(component, heap[i], heap[1])

=============================================================================
