--------------------------- MODULE QuotaPreemption ---------------------------
(***************************************************************************)
(* CapacityScheduling with its PostFilter: scheduling cycles on nodes,     *)
(* preemption by quota, and the quota books of CapacityScheduling, whose   *)
(* handlers go on while a cycle works on its snapshot.  A cycle takes a    *)
(* snapshot (the nodes by the framework, a clone of elasticQuotaInfos by   *)
(* PreFilter); the victims are chosen on the snapshot and evicted from the *)
(* cluster as it is later.  selectVictimsOnNode is one operator here,      *)
(* module Preemption has its steps.                                        *)
(***************************************************************************)
EXTENDS CapacityScheduling

CONSTANTS
    Nodes, NoNode,
    Room,        \* Room[n]: what node n can hold
    Priority,    \* Priority[p]
    Importance,  \* Importance[p]: the order of MoreImportantPod, without ties
    NoCycle,
    Growing,     \* namespaces whose ElasticQuota is changed
    MaxCordoned  \* bound: nodes that may be cordoned

ASSUME NodeAssumption ==
    /\ NoNode \notin Nodes /\ Room \in [Nodes -> Nat]
    /\ Priority \in [Pods -> Nat] /\ Importance \in [Pods -> Nat]
    /\ \A p, q \in Pods : /\ Importance[p] = Importance[q] => p = q
                          /\ Priority[p] < Priority[q] => Importance[p] < Importance[q]

VARIABLES
    where,        \* where[p]: node of a pod that is assumed or bound, or NoNode
    cordoned,     \* nodes that the filters call UnschedulableAndUnresolvable
    terminating,  \* bound pods with a deletion timestamp
    nominated,    \* nominated[p]: status.nominatedNodeName
    cycle         \* the scheduling cycle under way, or NoCycle

cluster == <<where, cordoned, terminating, nominated>>
qvars   == <<vars, cluster, cycle>>

-----------------------------------------------------------------------------
\* The scheduler cache has the pods from Reserve on, until they end or are
\* forgotten.
Placed    == {"binding", "assigned"}
On(n)     == {p \in Pods : where[p] = n}

\* ElasticQuotaInfos.clone, and the dry run's copy of it after RemovePod of the
\* pods of V (deletePodIfPresent: what they use goes with them).
Without(books, V) ==
    [n \in Namespaces |->
        IF books[n] = NoQuota THEN NoQuota
        ELSE [books[n] EXCEPT !.pods = @ \ V, !.used = @ - Total[V \cap books[n].pods]]]

\* What decisions are based on: a copy of the books, the pods on the nodes, and
\* the nodes that accept none.  A cycle has one of its own; this is the present.
Now == [infos |-> infos, on |-> [n \in Nodes |-> On(n)], down |-> cordoned]

\* The filters on node n without the pods of V.  Nominated pods of the same or a
\* higher priority, known from the queue, count as if they were there.
Fits(view, p, n, V) ==
    LET left   == view.on[n] \ V
        others == {q \in Pods \ (left \cup {p}) : nominated[q] = n /\ Priority[q] >= Priority[p]}
    IN  n \notin view.down /\ Total[left \cup others] + Req[p] <= Room[n]

\* The pods of S that are less important than q.
Below(q, S) == {r \in S : Importance[r] < Importance[q]}

\* Whom the first loop of selectVictimsOnNode picks from node n.  It begins with
\* the least important pod and stops taking pods of another quota when those
\* taken have brought it down to its min.
Eligible(view, p, n, q) ==
    LET own   == view.infos[Ns[p]]
        other == Without(view.infos, Below(q, view.on[n]))[Ns[q]]
    IN  IF own # NoQuota
        THEN /\ other # NoQuota
             /\ IF own.used + Req[p] > own.min
                THEN Ns[q] = Ns[p] /\ Priority[q] < Priority[p]
                ELSE Ns[q] # Ns[p] /\ other.used > other.min
        ELSE other = NoQuota /\ Priority[q] < Priority[p]

\* Slip: the quotas together are not looked at.
SuitableMaxOnly(view, p, n, V) ==
    /\ Fits(view, p, n, V)
    /\ LET left == Without(view.infos, V)[Ns[p]] IN left # NoQuota => ~OverMax(left, p)

\* With the pods of V gone from the node the preemptor fits and exceeds no quota.
Suitable(view, p, n, V) == Fits(view, p, n, V) /\ ~OverQuota(Without(view.infos, V), p)

\* The first half of selectVictimsOnNode: the potential victims, and whether it
\* goes on with them.
Potential(view, p, n)   == {q \in view.on[n] : Eligible(view, p, n, q)}
Preemptible(view, p, n) == /\ Potential(view, p, n) # {}
                           /\ Suitable(view, p, n, Potential(view, p, n))

\* Of two potential victims q is put back before r: those whose eviction violates a
\* disruption budget come first, and more important pods before others.
Sooner(violating, q, r) ==
    IF q \in violating <=> r \in violating THEN Importance[q] > Importance[r] ELSE q \in violating

\* Its second half: each is put back unless the preemptor could then not be placed,
\* with the victims so far and those still to be looked at gone.  It may end with no
\* victim at all.
SelectVictimsOnNode(view, p, n, violating) ==
    LET potential == Potential(view, p, n)
        Gone(q, V) == {r \in V : Sooner(violating, r, q)} \cup {r \in potential : Sooner(violating, q, r)}
    IN  CHOOSE V \in SUBSET potential :
            \A q \in potential : q \in V <=> ~Suitable(view, p, n, Gone(q, V))

\* dryRunPreemption: the victims on every node that is a candidate.
DryRunPreemption(view, nodes, p, violating) ==
    [n \in {m \in nodes : Preemptible(view, p, m)} |-> SelectVictimsOnNode(view, p, n, violating)]

-----------------------------------------------------------------------------
\* Nothing outlasts the pod it belongs to.
Forget ==
    /\ where' = [p \in Pods |-> IF pod'[p] \in Placed THEN where[p] ELSE NoNode]
    /\ terminating' = {p \in terminating : pod'[p] = "assigned"}
    /\ nominated' = [p \in Pods |-> IF pod'[p] \in {"pending", "admitted"} THEN nominated[p] ELSE NoNode]
    /\ UNCHANGED cordoned

\* A new cycle, with the snapshot that the framework and PreFilter take.
StartCycle(p, stage) ==
    cycle' = [infos |-> infos, on |-> Now.on, down |-> cordoned, dying |-> terminating,
              pod |-> p, stage |-> stage, unresolvable |-> {}]

InStage(p, stage) == cycle # NoCycle /\ cycle.pod = p /\ cycle.stage = stage

\* PreFilter succeeds or not; without it the framework goes to PostFilter.
PreFilterPass(p) ==
    /\ cycle = NoCycle /\ PreFilter(p)
    /\ StartCycle(p, "filter")
    /\ UNCHANGED cluster

PreFilterRefuse(p) ==
    /\ cycle = NoCycle /\ pod[p] = "pending"
    /\ OverQuota(infos, p)
    /\ StartCycle(p, "postfilter")
    /\ UNCHANGED <<vars, cluster>>

\* A node fits on the snapshot: assume, Reserve.
Place(p, n) ==
    /\ InStage(p, "filter") /\ Fits(cycle, p, n, {})
    /\ Reserve(p)
    /\ where' = [where EXCEPT ![p] = n]
    /\ nominated' = [nominated EXCEPT ![p] = NoNode]
    /\ cycle' = NoCycle
    /\ UNCHANGED <<cordoned, terminating>>

\* Only now the filters have spoken of the nodes, and preemption cannot help on
\* those that are down.
NoNodeFits(p) ==
    /\ InStage(p, "filter") /\ \A n \in Nodes : ~Fits(cycle, p, n, {})
    /\ FilterFail(p)
    /\ cycle' = [cycle EXCEPT !.stage = "postfilter", !.unresolvable = cycle.down]
    /\ UNCHANGED cluster

-----------------------------------------------------------------------------
\* PostFilter.

\* Slip: no victim is looked for on the nominated node.
AwaitsNothing(p) == nominated[p] # NoNode /\ nominated[p] \notin cycle.unresolvable

\* PodEligibleToPreemptOthers says no: a victim of lower priority is on its way
\* out on the nominated node, unless that node became unresolvable.  Preemptors
\* with PreemptionPolicy Never, which it turns away as well, are left out.
AwaitsVictims(p) ==
    /\ nominated[p] # NoNode /\ nominated[p] \notin cycle.unresolvable
    /\ \E q \in cycle.on[nominated[p]] \cap cycle.dying : Priority[q] < Priority[p]

\* preempt returns early: the pod is gone (GetUpdatedPod), or must wait.
NotEligible(p) ==
    /\ InStage(p, "postfilter")
    /\ pod[p] # "pending" \/ AwaitsVictims(p)
    /\ cycle' = NoCycle
    /\ UNCHANGED <<vars, cluster>>

\* nodesWherePreemptionMightHelp
NodesWherePreemptionMightHelp == Nodes \ cycle.unresolvable

\* FindCandidates, which clears the nomination when preemption cannot help on
\* any node.  Now the snapshot has served its purpose.  Which pods have a budget that
\* is used up is not known: any of them.
FindCandidates(p) ==
    /\ InStage(p, "postfilter")
    /\ pod[p] = "pending" /\ ~AwaitsVictims(p)
    /\ nominated' = IF NodesWherePreemptionMightHelp = {}
                    THEN [nominated EXCEPT ![p] = NoNode] ELSE nominated
    /\ \E violating \in SUBSET Pods :
          cycle' = [pod |-> p, stage |-> "select",
                    candidates |-> DryRunPreemption(cycle, NodesWherePreemptionMightHelp, p, violating)]
    /\ UNCHANGED <<vars, where, cordoned, terminating>>

NoCandidates(p) ==
    /\ InStage(p, "select") /\ DOMAIN cycle.candidates = {}
    /\ cycle' = NoCycle
    /\ UNCHANGED <<vars, cluster>>

\* SelectCandidate may take any candidate.
SelectCandidate(p, n) ==
    /\ InStage(p, "select") /\ n \in DOMAIN cycle.candidates
    /\ cycle' = [pod |-> p, stage |-> "evict", node |-> n,
                 victims |-> cycle.candidates[n], left |-> cycle.candidates[n]]
    /\ UNCHANGED <<vars, cluster>>

\* A deletion: at once for a pod that the API server does not know to have a
\* node, else the kubelet is asked to terminate it.
DeleteNow(v) == DeletePod(v) /\ Forget
AskToEnd(v)  == /\ terminating' = terminating \cup {v}
                /\ UNCHANGED <<vars, where, cordoned, nominated>>

\* PrepareCandidate evicts one victim after the other and stops at an error:
\* one that is gone already, although others may have been evicted.  Victims go
\* by their name, whatever pod bears it now.
Evict(p, v) ==
    /\ InStage(p, "evict") /\ v \in cycle.left
    /\ \/ /\ pod[v] \notin {"absent", "deleted"}
          /\ IF pod[v] = "assigned" THEN AskToEnd(v) ELSE DeleteNow(v)
          /\ cycle' = [cycle EXCEPT !.left = @ \ {v}]
       \/ /\ pod[v] \in {"absent", "deleted"}
          /\ cycle' = NoCycle
          /\ UNCHANGED <<vars, cluster>>

\* The rest of PrepareCandidate: nominations of lower priority on the node are
\* cleared.  The scheduler then records the nomination of the preemptor.
Nominate(p) ==
    /\ InStage(p, "evict") /\ cycle.left = {}
    /\ nominated' = [q \in Pods |->
          IF q = p THEN IF pod[p] = "pending" THEN cycle.node ELSE NoNode
          ELSE IF nominated[q] = cycle.node /\ Priority[q] < Priority[p] THEN NoNode
          ELSE nominated[q]]
    /\ cycle' = NoCycle
    /\ UNCHANGED <<vars, where, cordoned, terminating>>

-----------------------------------------------------------------------------
\* The world around the cycle.

\* Binding goroutines and informers.
Background(p) == /\ Bind(p) \/ Unreserve(p) \/ Handlers(p)
                 /\ Forget /\ UNCHANGED cycle

Terminate(p)  == p \in terminating /\ DeleteNow(p) /\ UNCHANGED cycle

QuotaHandler(n) == UpdateElasticQuota(n) /\ UNCHANGED <<cluster, cycle>>

\* Users and owners: pods are created, end, are deleted; quotas change; nodes
\* are cordoned.  What has ended stays, a pod's name is used again only after a
\* deletion.
Create(p) == CreatePod(p) /\ Forget /\ UNCHANGED cycle
End(p)    == FinishPod(p) /\ Forget /\ UNCHANGED cycle
Delete(p) == pod[p] = "pending" /\ DeleteNow(p) /\ UNCHANGED cycle
Change(n) == n \in Growing /\ ChangeSpec(n) /\ UNCHANGED <<cluster, cycle>>
Cordon(n) == /\ Cardinality(cordoned) < MaxCordoned
             /\ cordoned' = cordoned \cup {n}
             /\ UNCHANGED <<vars, where, terminating, nominated, cycle>>

QInit ==
    /\ Init
    /\ where = [p \in Pods |-> NoNode]
    /\ cordoned = {} /\ terminating = {}
    /\ nominated = [p \in Pods |-> NoNode]
    /\ cycle = NoCycle

\* The scheduling goroutine, with pod p.
Scheduling(p) ==
    \/ PreFilterPass(p) \/ PreFilterRefuse(p)
    \/ NoNodeFits(p) \/ NotEligible(p) \/ FindCandidates(p) \/ NoCandidates(p) \/ Nominate(p)
    \/ \E n \in Nodes : Place(p, n) \/ SelectCandidate(p, n)
    \/ \E v \in Pods : Evict(p, v)

\* Binding goroutines, informers and kubelets.
World ==
    \/ \E p \in Pods : Background(p) \/ Terminate(p)
    \/ \E n \in Namespaces : QuotaHandler(n)

\* What the plugin does not control.
Disturbance ==
    \/ \E p \in Pods : Create(p) \/ End(p) \/ Delete(p)
    \/ \E n \in Namespaces : Change(n)
    \/ \E n \in Nodes : Cordon(n)

QNext == (\E p \in Pods : Scheduling(p)) \/ World \/ Disturbance

QSpec == QInit /\ [][QNext]_qvars

\* The queue serves every pending pod, goroutines and informers run, kubelets
\* carry out deletions.
QFairness ==
    /\ \A p \in Pods : SF_qvars(Scheduling(p))
    /\ WF_qvars(World)

QFairSpec == QSpec /\ QFairness

-----------------------------------------------------------------------------
\* The victims were chosen on a snapshot and are evicted later: with them gone
\* the preemptor would fit and be within the quotas as the books are now,
\* whatever the informers and the binding goroutines have done meanwhile.  (A
\* cordoned node is the user's doing.)
EvictionSuffices ==
    cycle # NoCycle /\ cycle.stage = "evict" /\ cycle.node \notin cordoned =>
        /\ Fits(Now, cycle.pod, cycle.node, cycle.victims)
        /\ ~OverQuota(Without(infos, cycle.victims), cycle.pod)

\* A pending pod that could be placed, as it is or by evicting pods of one node.
Starved(p) ==
    /\ pod[p] = "pending"
    /\ \/ ~OverQuota(infos, p) /\ \E n \in Nodes : Fits(Now, p, n, {})
       \/ \E n \in Nodes : Preemptible(Now, p, n)

\* A pod that is gone and is counted still.
StillCounted(p) == pod[p] \in {"absent", "terminal", "deleted"} /\ p \in infos[Ns[p]].pods

\* "A mechanism to guarantee the 'victim' user can consume its 'min' resource
\* whenever it needs": once users leave the cluster alone, no pod stays pending
\* for ever that could be placed with or without evictions, and what a pod used
\* comes back to its quota: victims are not chosen, spared and awaited in
\* circles, and no deletion gets lost between Reserve and the pod handlers.
Reclaims ==
    <>[][~Disturbance]_qvars => \A p \in Pods : []<>(~Starved(p) /\ ~StillCounted(p))

=============================================================================
