# TLA+ specifications of scheduler-plugins

This directory holds specifications of the plugins of this repository that keep
state or search: TLA+ modules, TLC configurations and TLAPS proofs. Paths below
are relative to the root of the repository.

* `tlc -config X.cfg M` checks a run (the table below has the pairs);
* `tlapm MProofs.tla` checks the proofs;
* `PROJECT.json` lists runs, mutants, the lines of code behind each definition,
  hazards and theorems.

## 1. The system

scheduler-plugins is a build of kube-scheduler with extra plugins, and one
controller. The framework (queue, cycle, waiting pods, binding) and the informers
are Kubernetes code outside this repository; they are modelled from how the
plugins use them and marked external in the map.

| Part | State | Operations | Interacts with |
|---|---|---|---|
| Coscheduling, `pkg/coscheduling`, `core/core.go` | deny list and permitted list (two go-caches with expiry), cycle state key, the framework's waiting pods | `Less`, `PreFilter`, `PostFilter`, `Reserve`, `Permit`, `Unreserve`, `PostBind` | one scheduling goroutine, one binding goroutine per pod, PodGroup lister, scheduler snapshot |
| PodGroup status, `core.go:PostBind` and `pkg/controller/podgroup.go` | status in the API server, two informer caches, the controller's work queue | `PostBind`; `pgAdded`, `pgUpdated`, `podAdded`, `podUpdated`, `sync`, `syncHandler` | two processes that write the same object with merge patches |
| CapacityScheduling books, `pkg/capacityscheduling` | the map `elasticQuotaInfos` under an RWMutex; the store of the ElasticQuota informer | `PreFilter`, `Reserve`, `Unreserve`; three pod handlers, three ElasticQuota handlers; `New` | scheduling, binding and informer goroutines |
| CapacityScheduling preemption, `PostFilter` to `selectVictimsOnNode` | the cycle state (a clone of the quotas), nominations; copies of a node and of the quota snapshot | `preempt`, `FindCandidates`, `dryRunPreemption`, `AddPod`, `RemovePod`; two loops and the tests between them, `reprievePod`, `filterPodsWithPDBViolation` | the snapshot that PreFilter took, evictions, the books |
| CrossNodePreemption | slices of the depth-first search | `bruteForceDryRunPreemption`, `dfs`, `dryRunOnePass` | node lister, filters |
| Trimaran cache, `pkg/trimaran/handler.go` | `ScheduledPodsCache` | `OnAdd`, `OnUpdate`, `OnDelete`, `updateCache`, `cleanupCache` | pod informer, ticker, `Score` of TargetLoadPacking |
| TargetLoadPacking, `pkg/trimaran/targetloadpacking` | the latest metrics under an RWMutex | `updateMetrics`, `Score`, `PredictUtilisation` | load watcher, Trimaran cache |
| LoadVariationRiskBalancing | the latest metrics under an RWMutex | `updateMetrics`, `getNodeMetrics`, `Score` | load watcher |
| NodeResourcesAllocatable, PodState | none; they read the snapshot and the nominated pods | `Score`, `NormalizeScore` | the framework, which scores nodes in parallel |
| Queue order, `Coscheduling.Less`, `pkg/qos` | none; PodGroup lister | `Less`, `compQOS` | the heap of the active queue |
| Plugin arguments, `pkg/apis/config` | versioned and internal objects | defaults, conversions, the checks of the constructors | every `New` |
| Informer factory, `pkg/generated/informers` | informers asked for, started | `InformerFor`, `Start`, `WaitForCacheSync` | every `New`, both binaries |
| Binaries, `cmd` | - | registration of the plugins, `Run` of the controller | everything |

What is hard in this code:

* *Coscheduling.* `Permit` decides on the snapshot taken when the cycle began, while
  binding goroutines refuse and forget siblings. A waiting pod hears at most one of
  Allow, Reject and its timer. Rejected pods are forgotten one by one later, and only
  the deny list keeps new cycles from counting them meanwhile. Gangs hold slots while
  they wait for more. Correct: no gang is released without room for it; no pod
  is let through without minMember committed siblings; nobody waits for ever; gangs
  that fit are bound.
* *Status.* Two writers with two stale caches, patches without resource version, a
  writer that modifies its own cache, patches that fail, restarts. Correct: the status
  never claims what the pods have not done, and catches up.
* *Quota books.* A pod is added by `Reserve` and by the handler and removed by
  `Unreserve`, the update and the delete handler, in any order; quotas change under
  it; `addElasticQuota` looks before it locks. Correct: used equals what the counted
  pods request, the limits hold for what is really placed, and usage returns.
* *Preemption.* Victims are judged against a state that changes as others are removed
  and put back; the choice is made on a snapshot and carried out victim by victim later.
  Correct: candidates are executable, minimal, and take from borrowers; what is evicted
  is still enough; a pod that could be placed is placed in the end.
* *Cross-node search.* Slices that share arrays. Correct: everything is tried and what
  was found stays what it was.
* *Trimaran.* Entries are found by binary search and removed by position, and read with
  metrics whose window ends at another time. Correct: a pod of the last reporting interval
  is predicted, once, and the score stays in the range of the framework.
* *Scores and queue.* Metrics and nominations change between the scores of two nodes;
  machine integers wrap; the list of metrics has no order; `compQOS` is no strict order.
  Correct: scores are in range and rank nodes by what was seen of them; the head of the
  queue is a pod that nobody has to precede.
* *Start-up.* A factory starts only what was asked for before. Correct: start-up ends, and
  nothing is served from a cache that is not complete.

## 2. Modules

| Module | Models | Extended by |
|---|---|---|
| `Coscheduling` | Coscheduling and PodGroupManager inside the scheduler's goroutines | `MCCoscheduling`, `CoschedulingProofs` |
| `PodGroupStatus` | PostBind and PodGroupController | `MCPodGroupStatus`, `PodGroupStatusProofs` |
| `GangAdmission` | abstract: what gang scheduling promises | `INSTANCE` in `Coscheduling` |
| `CapacityScheduling` | `elasticQuotaInfos` and its writers | `MCCapacityScheduling`, `CapacitySchedulingProofs`, `QuotaPreemption` |
| `QuotaPreemption` | cycles with PostFilter over the books of `CapacityScheduling` | `MCQuotaPreemption`, `CapacitySchedulingProofs` |
| `PodRequests` | `computePodResourceRequest`, also of LoadVariationRiskBalancing | `MCQuotaPreemption`, `LoadVariationRiskBalancing` |
| `Preemption` | `selectVictimsOnNode` | `MCPreemption`, `PreemptionProofs` |
| `CrossNodePreemption` | `dfs`, `dryRunOnePass` (checked as it is, without an MC module) | `CrossNodePreemptionProofs` |
| `TrimaranCache` | `PodAssignEventHandler` | `TargetLoadPacking` |
| `TargetLoadPacking` | metrics and score of TargetLoadPacking over `TrimaranCache` | `MCTargetLoadPacking`, `TrimaranProofs` |
| `Sums` | the loops that add numbers up: `AddUp` | `CapacityScheduling`, `TargetLoadPacking`; lemmas in `SumsProofs` |
| `PluginArgs` | arguments: defaults, conversions, checks | `SchedulerProcess` |
| `InformerFactory` | the shared informer factory | `INSTANCE` in `SchedulerProcess` |
| `NodeScores` | NodeResourcesAllocatable, PodState, NormalizeScore on machine integers | `SchedulerProcess` |
| `LoadVariationRiskBalancing` | its analysis of metrics and its score | `SchedulerProcess` |
| `QueueSort` | the two `Less` and the heap that uses them | `SchedulerProcess` |
| `SchedulerProcess` | one component from its configuration to its service | `MCSchedulerProcess`, `SchedulerProcessProofs` |

In each module a comment that begins with *Slip* marks definitions no action uses:
the mutated forms of the definition after them. Every property of a passing run has
one that breaks it (`mutants` in `PROJECT.json`).

**Coscheduling.** `pc[p]` is where pod p is on the path of the framework. A handler is
one step unless another goroutine can act in the middle of it: the loops over the
waiting pods take one step per pod (`Visit`), and a pod that must wait is put into the
map (`Enlist`) after `Permit` has answered. The loops hold the read lock of the map, so
`Enlist` and `WaitOnPermit`, which write it, are disabled meanwhile. The cluster is a
pool of `Capacity` slots. `GapDivisor` is 10 in the code; it is a constant so that the
tolerated gap can occur in small groups. `ExpireDenied` lets a denial expire when no
refused pod holds a slot any more, since the expiry is 20 seconds by default; the fault
`earlyexpiry` lifts this. Any queued pod may be next here; the order is in `QueueSort`.

**GangAdmission** has one variable, the set of pods of each group that may be bound. A
group is admitted in one step with at least minMember pods; later pods join; nothing is
revoked. In the refinement a pod counts as admitted once it is let through, or once the
sibling in `Permit` that completes the gang has it in its list of pods to allow.

**PodGroupStatus.** One group. `schedEvents` and `ctrlEvents` are watch events under
way. `PostBind` has three steps, as it reads its lister twice and calls the API server
in between; the record `bind` says whether the objects it holds are still the ones of
the cache, because it writes into them. `Merge` is the JSON merge patch: only fields
that differ between the two arguments are written. Pods are not deleted.

**CapacityScheduling.** `quota` is the store of the informer, `events` the
notifications the handlers have not seen, `infos` the map of the plugin. Methods
under the lock are one step; `addElasticQuota` is two, because its test is outside the
lock. `told[p]` is what the pod handlers know. Resources are one number; `Total` is
the sum over a set of pods, given as a constant function with its defining law as an
assumption (`TotalAssumption`). A pod deleted between PreFilter and Reserve is not told
apart from one deleted right after Reserve.

**QuotaPreemption** extends `CapacityScheduling` with nodes, nominations, cordoned nodes,
pods that are terminating and the cycle under way. A cycle record holds the snapshot: the
clone of the quotas and the pods on the nodes. Handlers, binding goroutines and kubelets
go on while the cycle works through PreFilter, Filter, PostFilter (`NotEligible`,
`FindCandidates`, `SelectCandidate`), the evictions one by one (`Evict`) and the
nomination. `SelectVictimsOnNode` is one operator here; `CHOOSE` names the one set that
the second loop ends with, which is one because `Importance` has no ties
(`NodeAssumption`). It may be empty: all potential victims are put back and the node is a
candidate all the same. Which evictions would violate a disruption budget is not kept;
`FindCandidates` takes any set of pods for them, and those are put back first (`Sooner`).
The choice among candidates is any choice. When PreFilter
fails no node has a status, so a cordoned node is not known to be unresolvable. Victims
are evicted by name. Of the events of the books it has updates of quotas, the ends and
deletions of pods, and binds that succeed; failed binds, lowered quotas and restarts are
in `quota_books`.

**Preemption.** One dry run on one node, which is sequential. `node` and `counted` are
the copies, `potential`, `victims` and `violations` the locals. The filters are `Fits`,
any function that does not ask for more pods. The entry of a quota is the set of pods
it counts, which `CapacityScheduling` shows to determine what it uses.

**CrossNodePreemption.** `heap` holds the arrays behind the Go slices, `GoAppend` writes
in place while there is capacity. `calls` is the stack of `dfs`.

**TrimaranCache.** Time is in ticks, `Second` of them to a second, because the cleanup
compares times as they are and the score compares them in whole seconds; the reporting
interval is in seconds, the cleanup period in ticks. `cache[n]` is the list of a node. There are finitely many pods (`NodeAssumption`).

**TargetLoadPacking** extends `TrimaranCache` with the end of the metrics window in use,
which may be any second up to the present one, and leaves the actions of the cache as they
are. `Unix` is the truncation to seconds of `Timestamp.Unix()`. The score is an operator on exact fractions; the measured utilisation is its input, over
which the properties quantify. That `Score` reads metrics and cache one after the other
needs no step of its own: a window read earlier is one that `UpdateMetrics` may have left
in place.

**SchedulerProcess.** `component` is one of the eight plugins or the controller.
The constructors are written as lists of steps (`Program`): check the arguments, make a
client, ask for informers, start factories, wait, fetch metrics. The two Trimaran plugins drop
the error of their client's constructor; where that leaves no client the first `updateMetrics`
panics, which is the second outcome of `FetchMetrics`. Arguments may also be absent or of
another type (`Undecoded`). Then scorers go through scoring cycles,
one step per node, with `UpdateMetrics` or `Nominate` between any two; queue sorts push and
pop pods while PodGroups come and go. `PluginArgs` has the versioned objects, with pointers
as sequences of at most one element, and the conversions both ways. `NodeScores` wraps at
`Half` (2^63 in the code) and truncates divisions towards zero; PodState and
NodeResourcesAllocatable have the same NormalizeScore. `LoadVariationRiskBalancing` works in
whole percentages, and its exponent is a whole root (`Root`, the largest percentage whose
power does not exceed the number). Its loop over the metrics is given by what it ends with
(`GetResourceData`): the last average, or else the last value without operator. `QueueSort`
has the heap of container/heap in full, since whether a non-strict `Less` is harmful depends
on it. The loops `up` and `down` are given by the positions the sifted pod comes through, the
smallest set that holds its start and is closed under the step of the loop (`Risen`, `Sunk`),
so that they can be evaluated and proved about without recursive operators.

The constants of `SchedulerProcess` have the shapes of what they stand for: versioned objects
with any strings and numbers (`ConfigurationAssumption`), finitely many nodes with any
resources, counts of pods that fit an integer (`ClusterAssumption`), any list of metrics
(`LoadAssumption`). `ScoresInRange` and `RanksFaithfully` speak of cycles in which no sum or
product leaves the machine integers (`Headroom`: the weights, the weighted resources and
100 times the spread of the scores), and two loads are compared only where the same resources
are measured of both nodes (`Measured`), because the score of a resource without metrics is
not that of a lightly loaded one.

## 3. Runs

| Run | Configuration | Result |
|---|---|---|
| `gang_faults` | `MCCoscheduling_faults.cfg` | `TypeOK`, `RoomForGang` under every fault |
| `gang_contention` | `MCCoscheduling_contention.cfg` | `GangAllOrNothing`, `WaitersSettled` and the refinement `AdmitsWholeGangs`: two gangs, three slots, nodes that refuse pods, a group that may be within the tolerated gap |
| `gang_bound` | `MCCoscheduling_bound.cfg` | `GangsBound`: two gangs that fit are bound; `AdmitsWholeGangs` with a pod that joins later |
| `status` | `MCPodGroupStatus_truth.cfg` | `TypeOK`, `NoOverclaim`, `FinishedSettles` with a pod to spare, late events, failed patches, restarts |
| `quota_books` | `MCCapacityScheduling_books.cfg` | `TypeOK`, `UsedMatchesPods` under every event |
| `quota_preemption` | `MCQuotaPreemption.cfg` | `QuotaRespected`, `Accounted`, `EndedNotCounted`, `EvictionSuffices`, `Reclaims`: two namespaces compete for two nodes |
| `preemption_candidates` | `MCPreemption_candidates.cfg` | `CandidateExecutable`, `RemovedOnce`, `NoNeedlessVictim`, `BorrowersOnly`, `TypeOK` |
| `crossnode_search` | `CrossNodePreemption_search.cfg` | `AllCombinationsTried` with four pods |
| `trimaran` | `MCTargetLoadPacking.cfg` | `TLPTypeOK`, `OldestFirst`, `CachedOnce`, `RecentPredicted`, `ScoreInRange`, `PackedToTarget` |
| `profile` | `MCSchedulerProcess.cfg` | `StartUpEnds`, `PluginListersSynced`, `RoundTrip`, `ScoresInRange`, `RanksFaithfully`, `HeadIsFirst`, `ProcessTypeOK` |
| `status_lost` | `MCPodGroupStatus_lost.cfg` | **violates** `RunningSettles` |
| `crossnode_alias` | `CrossNodePreemption_alias.cfg` | **violates** `CandidatesExecutable` |

The two violations are in `findings`:

* `status_lost`: `PostBind` keeps the count of a bind in the cached object when the
  phase does not change; the next watch event replaces the object, the count never
  reaches minMember and the group stays `Scheduling` while its pods run. Watch events
  are prompt in this run (`Prompt`), so no unusual delay is needed.
* `crossnode_alias`: `append` in `dfs` writes into the array of victims of a candidate
  found before. Five pods are needed.

Section 5 has more of them, with the change of a configuration that shows each.

### Bounds

* Coscheduling: three kinds of instance. `gang_faults` has a gang of three with minMember 3
  and a pod without a group. `gang_contention` has gangs of three and two, all of them needed,
  on three slots, so that each gang can hold what the other needs. `gang_bound` has the same
  pods with minMember 2, so that the first gang has one to spare, and room for all. This is
  enough for a snapshot to be stale by a sibling, a competitor and a pod that left. No
  counter is bounded. `GapDivisor` is 10 in the code, where the gap begins to matter at
  minMember 10; in `gang_contention` it is 3: with two pods assigned the gang of three is
  within the gap, with one it is not, and the gang of two never is. In `gang_faults` it is 2.
* PodGroupStatus: two pods, minMember 1, one event under way to each informer
  (`MaxLag` 1: a writer waits while its event would be the second). Two pods are
  enough for one PostBind to see the effects of another one late, and the second one may be
  bound, run, fail or succeed before or after the group is Finished. The lost count needs
  three pods that are all needed, see `status_lost`.
* CapacityScheduling: two pods of different size in one namespace, two notifications
  under way (`MaxEvents` 2: a change and its reversal).
* QuotaPreemption: pods of sizes 1 and 2 in one namespace and of size 1 in the other, on
  nodes with room for 2 and 1, so that neither the nodes nor the quotas hold all of them.
  One quota can be raised (`Growing`, `MaxEvents` 1); before that the sum of min stops the
  third pod, after that max does. At most one node is cordoned (`MaxCordoned`). Preemption
  within a namespace and between namespaces, a preemptor that is preempted in turn, a victim that
  ends by itself and a name that is used again all occur. A node has at most
  one potential victim at a time here; several of them, the order of the budgets and dry runs
  that end without a victim are in `preemption_candidates`, and in the proof of
  `VictimsAreEnough`.
* Preemption: every set of residents and counted pods out of five, in two namespaces,
  every pair of quotas out of none and two, a disruption budget for three pods.
* CrossNodePreemption: every placement of four pods on two nodes, every shortage up to 2
  and every set of conflicting pods; five pods for `crossnode_alias`.
* TargetLoadPacking and TrimaranCache: three pods of different make, one node (nodes do
  not interact), two ticks to a second (`Second`), an interval of two seconds, cleanup every 3
  ticks, time up to 7 (`MaxTime`), so that times in the middle of a second occur, entries
  become older than the interval and a second cleanup works on what the first one left. The pods together exceed what the node has left.

* SchedulerProcess: for every component each argument left out, zero, negative and set, and
  an object of a foreign type or none; three nodes with every mix of four shapes (one has none of a
  resource, one weight is at the limit of the integers, `Half` = 2^24), four answers of the
  load watcher that differ in order, completeness and load, a node without capacity, one
  nomination per node (`MaxNominated`); five pods in the queue, so that the heap has three
  levels, in two groups and none.

Deadlock is not checked where the system may stop: all pods bound, a status settled, a
search over, time at its bound.

### Fairness

* Coscheduling: strong fairness of the next step of each pod (`Step(p)`), weak fairness
  of the expiry of denials. Strong, because a step competes for the scheduling goroutine
  or for the write lock of the waiting pods: failed pods back off and the unschedulable
  queue is flushed, so the queue serves every pod; a Go RWMutex does not starve writers.
  Nothing is assumed of users, timers, failures or of which way `Filter` decides.
* PodGroupStatus: weak fairness of the steps of both processes and of the watches. A
  failed `Sync` changes nothing and puts the key back, so weak fairness of `Sync` says
  that the API server does not refuse for ever. Restarts must stop for
  `FinishedSettles`, as its premise says. Pods need not make progress.
* QuotaPreemption: strong fairness of the scheduling goroutine with each pod
  (`Scheduling(p)`), because pods compete for it and the queue serves every pod; weak
  fairness of the world around it: binding goroutines, informers and kubelets. `Reclaims`
  is about executions in which users stop interfering, as its premise says.
* SchedulerProcess: weak fairness of the constructor and of the sync of each started
  informer. A client that cannot be made ends in `refused`.

## 4. Proofs

Theorems hold for every value of the constants that satisfies the ASSUMEs of the module,
without bounds on pods, groups, nodes or time. Where a theorem has a hypothesis it is
written in its ASSUME and given here; each hypothesis is satisfied by the configuration of
a run that checks the same property.

* `CoschedulingProofs`
  * Under all faults: `TypeCorrect` (`TypeOK`) and `GangHasRoom` (`RoomForGang`).
    `RoomForGang` speaks of the pods assigned now, while `Filter` and `Permit` look at the
    snapshot, so it is strengthened by: only the pod in its cycle is in a cycle step
    (`CycleOwner`); what is assigned now was in the snapshot or is the pod itself
    (`SnapshotCovers`), since nobody else assumes pods meanwhile; and the snapshot leaves a
    slot for the pod past `Filter` and counts minMember pods when Permit releases
    (`RoomCounted`). `LabelKnown`, for the types, says that steps past a nil check on the
    PodGroup belong to pods with a group.
  * `Undisturbed` (`Faults` within `{"nofit"}`): `GangsWhole` (`GangAllOrNothing`) and
    `ImplementsGangAdmission` (`Spec => AdmitsWholeGangs`). The invariant `GangInv` says what
    the pods of a snapshot may have become. A group with a refused pod is denied, or its
    refusals are under way in the scheduling goroutine (`DenialCovers`), so past PreFilter no
    sibling is refused (`NoneDoomedPastPreFilter`), and Permit counts pods that are really
    committed. In the other direction, once a pod is released every later snapshot holds
    minMember of its gang (`SnapshotHoldsGang`), so PostFilter does not refuse the group
    (`ReleasedNotDoomed`, `HeldBackUnreleased`), and those that still wait are on Permit's
    list (`WaitersOnList`). For the refinement each step of Coscheduling is an admission of
    one gang, a join, or a stutter. The hypothesis is needed: section 5 has the executions
    with timers in which the property fails.
* `CapacitySchedulingProofs`, which is about `QuotaPreemption` too
  * Under all events: `TypeCorrect` and `BooksBalance` (`UsedMatchesPods`). `TypeOK` alone is
    not inductive (used stays a natural number only because it is the sum over a set that
    contains the pod removed), so it is proved together with one `Balanced` per entry.
  * `Steady` (no quota is created or deleted, no bind succeeds that is reported as failed, no
    restart): `RunningCounted` (`Accounted`) and `EndedUncounted` (`EndedNotCounted`). The
    invariant is an equivalence, `CountedExactly`: a pod is counted from Reserve until its
    Unreserve or until the handlers know its end. It needs that handlers lag and say nothing
    untrue (`ToldTrue`), and that only failed pods are undone (`UndoFailed`).
  * `Raising` (of all events only quotas that are raised): `QuotasRespected`
    (`QuotaRespected`). PreFilter compares with the plugin's entries, which lag behind the
    store; `SpecsBehind` orders entry, notifications and store, and `AdmittedWithinLimits`
    carries the answer of PreFilter to Reserve, since there is one cycle (`OneAdmitted`).
  * `ImplementsBooks`: `QSpec => Spec`, every step of a cycle with preemption is a step of the
    books or a stutter. So what is proved of the books holds with preemption:
    `PreemptionRespectsQuotas`, `PreemptionCounts`.
  * `Raising`: `VictimsAreEnough` (`EvictionSuffices`). From the snapshot on, until the
    cycle is over, pods leave and limits rise (`SnapshotFuller`); filters and quotas are
    monotone in this, so what the dry run found stays enough (`CandidatesEnough`,
    `VictimsEnough`). That the dry run finds enough in the first place (`VictimsSuffice`)
    is a matter of its second loop: `Sooner` is a strict total order on the potential victims
    whatever the budgets (`SoonerOrder`), so there is one last to be put back
    (`LastToSpare`), going through them in this order yields the set that `CHOOSE` names
    (`VictimsExist`, by the induction `BySparing`), and at every turn the victims so far
    with those still to be looked at are enough.
* `PodGroupStatusProofs`: `TypeCorrect`, and `NeverOverclaims` (`NoOverclaim`) when no other
  namespace has pods with the group's label (`Foreign = {}`; the controller counts them, see
  section 5). Statuses are merged field by field, so the invariant is about fields: every
  status anywhere, in the API server, a cache, a notification or a PostBind under way, has
  only true fields (`AllHonest`), and pods do not go back, so true fields stay true.
* `PreemptionProofs`: `CandidatesExecutable`, `VictimsNeeded`, `NeverRemovedTwice`,
  `OnlyBorrowersPay` (`BorrowersOnly`) and `TypeCorrect`, for any pods, quotas, budgets and
  antitone filters. The invariant relates the copies to the snapshot at every stage: only
  pods with a quota are counted (`Counting`); while collecting, the copies lack exactly the
  potential victims (`Collecting`); while deciding, they lack the victims and those not yet
  looked at (`Deciding`); and the preemptor fits in the present copy while no victim fits
  beside it (`Loop`). For `OnlyBorrowersPay` also: potential victims were taken in the order
  of importance (`InOrder`), and the quota of each was above its min with those before it
  gone (`Borrowed`); the witness is the victim of the quota that was taken last.
* `CrossNodePreemptionProofs`: `SearchComplete` (`AllCombinationsTried`) for any number of
  pods. Pending calls of `dfs` share arrays. The invariant: of two that share one the next to
  run has the longer slice (`Nested`), so append writes behind the end of the others and they
  read as they did; and every combination has been tried or is below exactly one pending call
  (`Covered`, `Once`). The slices in `result` have no such order, which is the finding
  `crossnode_alias`.
* `TrimaranProofs`: `TypeCorrect`, `EntriesInOrder`, `OneEntryPerPod`, `RecentPodsPredicted`,
  `ScoresInRange` and `PacksToTarget`, for any pods, nodes, capacities and periods; the
  multiplier is not negative (`ArgsAssumption`), and the last two assume a target of at most
  100. `RecentPodsPredicted` is about the pods of the last reporting interval, in whole
  seconds: an older one that the window in use does not show may be gone from the cache
  (section 5). Deletion and cleanup thin the list of a node out (`Thinned`: what is left keeps its
  order), so entries stay ordered and unique; the entry of a pod outlives its reporting
  interval (`RecentCached`), in ticks and so in seconds too (`UnixBounds`, `UnixMonotone`), and entries say what the handler was told (`EntriesTrue`), so
  the prediction lies between the load of the recent pods and that of all pods. Scores are
  monotone in the predicted usage on either side of the target.
* `SchedulerProcessProofs`, for any configuration, nodes, snapshots, answers of the load
  watcher, integer width and pods: `ProcessTypeCorrect`,
  `PluginListersSyncedCorrect`, `RoundTripCorrect`, `ScoresInRangeCorrect`, `RanksFaithfullyCorrect`
  and `HeadIsFirstCorrect`, each named after its property. None of them is inductive; they
  follow from one invariant, `ProcessInv` (`ProcessInvariant`), in five parts besides the types:
  * `Progress` and `Built` are about the constructor: what it asked for is there, what it
    asked for before the Start of its factory is started, what it waited for, directly or with
    its factory, is synced. That this covers what the plugins read (`Reads`), and the PodGroups of
    the controller, is a matter of the order of the steps in each `Program`.
  * `Arguments`: past the codec every field has a value (`DecodeTyped`), and past the checks of
    the constructor the arguments are what it accepts (`EffectiveAccepted`). Defaulting changes
    nothing of what it has produced, and the conversions undo each other (`RoundTripOf`).
  * `Cycle`: each score is that of what was seen of the node at its step, although metrics and
    nominations have changed since. The ranking then follows from the monotonicity of the
    formulas: of the weighted mean (`MeanMonotone`, with sums over any resources), of the risk
    (`RiskMonotone`, through the root and the bounds), and of `NormalizeScore`
    (`NormalizeScoreCorrect`, from `RescaledInRange` and `RescaleKeepsOrder`: with headroom no
    product wraps, and the truncating division is monotone).
  * `Queued`: no pod of the heap has to precede the one above it. That a pod need not
    precede another one is transitive (`OrderTransitive`); `Less` is never false of a pod
    that has to come first, nor true of one that has to come later (`LessAgrees`), which is all
    the heap needs, so the answers of QOSSort for equal pods do no harm. A push lets the pod
    rise along the ancestors of the last position (`RisenFacts`, `UpKeeps`), a pop lets the
    last pod sink along the lesser children (`SunkFacts`, `DownKeeps`); both leave the order of
    all other neighbours. `HeapOrder` takes the order from neighbours to the head.
* `SumsProofs`: induction over a finite set (`SetInduction`, for a set of good subsets, as
  operators cannot be passed to the provers, and `SetDescent`, which takes the members away one
  by one), from it that `AddUp` adds up, is monotone and grows with its terms, that finite sets
  of numbers have a largest member, and the same laws of `SumFunction` (`SumSteps`,
  `SumMonotone`, `SumPositive`), the fold of the community modules.

`AddUp` in `Sums` counts pairs, so that TLC can evaluate it and the prover can reason about it
directly.

Only model-checked:

* all liveness (`WaitersSettled`, `GangsBound`, `FinishedSettles`, `Reclaims`,
  `StartUpEnds`): fairness and ENABLED are out of the prover's reach.

The violated `RunningSettles` and `SuccessReported` are liveness properties as well.

## 5. Known divergences without a run

Met while modelling; each is at the line given, and those with constants can be seen by
changing a configuration.

* `core.go:162`: with `Faults = {"timeout"}` in `MCCoscheduling_contention.cfg`
  `GangAllOrNothing` fails: Permit counts a sibling whose timer fired after the snapshot, and
  the last pod of a gang is released alone, where `kep/42-podgroup-coscheduling/README.md:122`
  says "If any pod times out, the whole group would be rejected".
* `coscheduling.go:149`: the comment on line 144 says that PostFilter rejects the group
  when a pod does not pass PreFilter, but it returns at once then. With `MinResources <-
  Two` in `MCCoscheduling_contention.cfg`, `WaitersSettled` fails: pods keep their slots
  until their timers fire.
* `coscheduling.go:168-174`: PostFilter leaves a group alone that lacks at most 10% of
  minMember, so its waiting pods are neither released nor refused and depend on their
  timers for as long as it stays there. `WaitersSettled` excepts such groups; without the
  exception it fails in `gang_contention`.
* `coscheduling.go:245`: Unreserve rejects the waiting pods; a sibling between `Permit` and
  the map of waiting pods is missed.
* `core.go:197`: PostBind patches from a stale cache over what the controller wrote.
  `RunningSettles` fails already with two pods and minMember 2 in
  `MCPodGroupStatus_lost.cfg` when `Prompt = FALSE`; with prompt events it holds for them.
* `controller/podgroup.go:119`: a group is Failed when one pod has failed and minMember run
  or have ended (`:249`), and a Failed group is not queued again, so it stays Failed although
  minMember others succeed; `apis/scheduling/v1alpha1/types.go:105` says "PodGroupFinish means
  all of `spec.minMember` pods are successfully." `SuccessReported` states this and fails in
  `MCPodGroupStatus_truth.cfg`; `FinishedSettles` speaks of groups that are not declared Failed.
* `controller/podgroup.go:205`: pods are listed in all namespaces. With `Foreign = {f1}`
  in `MCPodGroupStatus_truth.cfg` `NoOverclaim` fails: a foreign pod makes the group Finished.
* `controller/podgroup.go:99`: Run waits for the PodGroups twice and for the pods, which
  `syncHandler` counts, not at all (`podListerSynced` of line 87 is not used), and goes on to
  report "Coscheduling sync finished". `ListersSynced` states it of all components and fails
  in `MCSchedulerProcess.cfg`; `PluginListersSynced` is the same without the controller's pods.
* `controller/podgroup.go:123`: with `LateStart = TRUE` in `MCPodGroupStatus_lost.cfg` a
  scheduled group is never queued again and does not become Running.
* `capacity_scheduling.go:605` and `:610` (this and the next two with other `Faults` in
  `MCCapacityScheduling_books.cfg`): `Accounted` fails with `Faults = {"restart"}`
  (the entry filled by addPod is replaced by an empty one) and with `Faults =
  {"quota"}` (a quota created again does not count the running pods).
* `capacity_scheduling.go:288`: `QuotaRespected` fails with `Faults = {"lostbind"}`.
* `capacity_scheduling.go:863`: `EndedNotCounted` fails with `Faults = {"restart"}`: pods
  that have ended are counted after a restart.
* `capacity_scheduling.go:503`: a pod larger than what its quota has borrowed is evicted,
  which leaves the quota below its min; `BorrowersOnly` states what does hold.
* `capacity_scheduling.go:380`: a dry run looks at one node. When the borrowers are spread
  over several nodes and no single one has enough of them, there is no candidate and the
  guarantee of min (KEP 9) is not kept; `Reclaims` speaks of pods for which one node would do.
* `capacity_scheduling.go:309`: a preemptor waits only for victims of lower priority. Victims
  of another quota may have any priority, so it may choose more victims while the first ones
  terminate.
* `capacity_scheduling.go:264`: the nomination reserves room on the node and no quota. The
  quota that the victims free may be taken by another pod, and a nominated pod that is over
  its quota goes on to block its node for others.
* `capacity_scheduling.go:315`: between the snapshot and the eviction the victims' quota may
  have come down to its min; it then loses pods that it had not borrowed.
* `capacity_scheduling.go:697`, `:634`: a missed deletion is delivered as
  `DeletedFinalStateUnknown`, which the type assertion does not expect; the process ends.
* `elasticquota.go:67`: a quota without max has max 0 and admits nothing, where KEP 9 calls
  max infinite by default.
* `controller/podgroup.go:217`: OccupiedBy is written into the cached object and not into the
  copy, so the patch never carries it.
* `coscheduling.go:122`: a PodGroup that is created or deleted while its pods are queued
  changes their order under the heap, which is not rebuilt; `HeadIsFirst` is checked with
  PodGroups that change only while none of their pods is queued. Two PodGroups created in the
  same second are interleaved by the names of their pods.
* `noderesources/allocatable.go:126`: weights have no upper limit; `ScoresInRange` and
  `RanksFaithfully` hold as long as the integers suffice (`Headroom`).
* `loadvariationriskbalancing/collector.go:75`: the provider type is not checked; TargetLoadPacking
  checks it. What the load-watcher library does with an unknown one is outside this
  repository; here such a client does not answer, or is not there.
* `cross_node_preemption.go:180`: the node is cloned again for every victim, where line 176
  says "Remove all victim pods.", so a node that needs two of its own pods gone is tried and
  not found: `CombinationsFound` fails in `CrossNodePreemption_search.cfg`.
* `cross_node_preemption.go:183`: RunPreFilterExtensionRemovePod is called with the victim as
  the pod to schedule, so plugins whose prefilter state is about the preemptor are told of
  the wrong pod. `DryRunOnePass` has a removal that is taken into account, as far as the
  filters look at the node.
* `trimaran/handler.go:123`: a node without a fresh entry is skipped by the cleanup, so its
  old entries stay.
* `trimaran/handler.go:121`: entries are kept for one reporting interval, while KEP 61 wants
  the pods scheduled since the end of a window up to five minutes old; `RecentPredicted`
  states what does hold.
* `targetloadpacking.go:76`: the target has no upper limit. With `Target = 150` in
  `MCTargetLoadPacking.cfg` `ScoreInRange` fails, where
  `kep/61-Trimaran-real-load-aware-scheduling/README.md:156` says "the range of score is from
  0-100". The multiplier may be negative (`ArgsAssumption` excludes it), and both are package
  variables, which several profiles share.
* `targetloadpacking.go:83-88`, `loadvariationriskbalancing/collector.go:66-77`: the error of
  the client's constructor is dropped. Without a client the first `updateMetrics` panics and
  the scheduler does not start; here such a component ends in `refused`.
* `trimaran/handler.go:83`: a missed deletion is delivered as `DeletedFinalStateUnknown`, which
  the filter lets through (`targetloadpacking.go:102-105`) and the type assertion of
  `OnDelete` does not expect; the process ends. Such deletions are not modelled.
* `coscheduling.go:88`: a denial time of 0 means the default of the cache and a negative one
  that denials never expire; both are accepted.

When quotas are lowered, pods that are already running may exceed them: that is no
divergence, and the reason why `quota_preemption` only raises them (`raise`).

## 6. Not modelled

* The order among candidates, extenders, and the queue's back-off: upstream code, any choice
  and any delay here. What the budgets still allow is any set of pods in `QuotaPreemption`;
  `Preemption` counts them. Preemptors with PreemptionPolicy Never do not occur.
* OccupiedBy and timestamps of the PodGroup; deletion of pods and of the PodGroup in
  PodGroupStatus.
* Resource vectors, absent min or max: a resource is one number in the books.
* Sensitivities of LoadVariationRiskBalancing that are not whole numbers, floating-point
  rounding (exact fractions here), the load-watcher library (external: any answer or none).
* The node filter, extenders and evictions of CrossNodePreemption, which are the same calls
  as in `QuotaPreemption`.
* Flags of the binaries and leader election (a restart in `PodGroupStatus`); deep copies
  (values), REST calls of the generated clients, their fakes, registration in the scheme:
  no state of their own.

## 7. Plan

1. Deletion of pods in `PodGroupStatus`; resource vectors with absent max in
   `CapacityScheduling`.
2. Failed binds and restarts in `QuotaPreemption`.
