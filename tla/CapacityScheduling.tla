------------------------- MODULE CapacityScheduling -------------------------
(***************************************************************************)
(* The quota book-keeping of the CapacityScheduling plugin                 *)
(* (pkg/capacityscheduling): the map elasticQuotaInfos and everything that *)
(* writes it.  Three kinds of goroutines do: the scheduling cycle and the  *)
(* binding goroutines (PreFilter, Reserve, Unreserve), the handlers of the *)
(* pod informer, and the handlers of the ElasticQuota informer.            *)
(*                                                                         *)
(* The store of an informer (the lister) is ahead of its handlers: a       *)
(* change is in the store when its notification is still under way.        *)
(*                                                                         *)
(* Resources are one number per pod; Total[S] is what the pods of S        *)
(* request together.                                                       *)
(***************************************************************************)
EXTENDS Integers, Sequences, FiniteSets, Sums

CONSTANTS
    Pods, Namespaces,
    Ns,         \* Ns[p]: namespace of pod p
    Req,        \* Req[p]: computePodResourceRequest
    Total,      \* Total[S]: sum of Req over the set S of pods
    Specs,      \* specs that an ElasticQuota may have: records [min, max]
    InitSpec,   \* InitSpec[n]: the quota that exists at the start, or NoQuota
    NoQuota,    \* no ElasticQuota / nil *ElasticQuotaInfo
    MaxEvents,  \* bound: ElasticQuota notifications under way per namespace
    Faults      \* which of Events may happen

Events == {"spec",      \* the spec of an ElasticQuota is changed
           "raise",     \* likewise, but min and max only grow
           "quota",     \* ElasticQuotas are created and deleted
           "lostbind",  \* a bind call succeeds but is reported as failed
           "restart"}   \* the scheduler restarts

Infos == [pods : SUBSET Pods, used : Nat, min : Nat, max : Nat]   \* ElasticQuotaInfo

ASSUME PodAssumption   == /\ IsFiniteSet(Pods) /\ IsFiniteSet(Namespaces)
                          /\ Ns \in [Pods -> Namespaces]
ASSUME TotalAssumption ==
    /\ Req \in [Pods -> Nat]
    /\ Total \in [SUBSET Pods -> Nat]
    /\ Total[{}] = 0
    /\ \A S \in SUBSET Pods, p \in Pods : p \notin S => Total[S \cup {p}] = Total[S] + Req[p]
ASSUME SpecAssumption  ==
    /\ Specs \subseteq [min : Nat, max : Nat]
    /\ NoQuota \notin Specs \cup Infos
    /\ InitSpec \in [Namespaces -> Specs \cup {NoQuota}]
ASSUME BoundAssumption == MaxEvents \in Nat \ {0} /\ Faults \subseteq Events

VARIABLES
    pod,     \* pod[p]: where p is in its life
    undo,    \* pods with a failed bind whose Unreserve has not run yet
    told,    \* told[p]: what the pod handlers have been told of p
    quota,   \* quota[n]: spec in the store of the ElasticQuota informer
    events,  \* events[n]: notifications under way to the ElasticQuota handlers
    adding,  \* adding[n]: spec of an addElasticQuota that is between its
             \*   unlocked look at the map and its lock, or NoQuota
    infos    \* infos[n]: the ElasticQuotaInfo of the plugin, or NoQuota

vars == <<pod, undo, told, quota, events, adding, infos>>

-----------------------------------------------------------------------------
\* In the API server a pod has a node from "assigned" on; "deleted" lasts until
\* the handlers have been told.
Life == {"absent", "pending", "admitted", "binding", "failed",
         "assigned", "terminal", "deleted"}
InFlight == {"admitted", "binding", "failed"}

\* newElasticQuotaInfo with nil used
NewInfo(spec) == [pods |-> {}, used |-> 0, min |-> spec.min, max |-> spec.max]

\* Slips: the set of pods is not consulted.
AddPodAlways(info, p) ==
    IF info = NoQuota THEN info
    ELSE [info EXCEPT !.pods = @ \cup {p}, !.used = @ + Req[p]]
DeletePodAlways(info, p) ==
    IF info = NoQuota THEN info
    ELSE [info EXCEPT !.pods = @ \ {p}, !.used = @ - Req[p]]

\* A namespace's map entry after addPodIfNotPresent / deletePodIfPresent,
\* which do nothing without an entry.
AddPodIfNotPresent(info, p) ==
    IF info = NoQuota \/ p \in info.pods THEN info
    ELSE [info EXCEPT !.pods = @ \cup {p}, !.used = @ + Req[p]]

DeletePodIfPresent(info, p) ==
    IF info = NoQuota \/ p \notin info.pods THEN info
    ELSE [info EXCEPT !.pods = @ \ {p}, !.used = @ - Req[p]]

\* overUsed against Max
OverMax(info, p) == info.used + Req[p] > info.max

\* Slip: the request of the pod itself is left out.
OverAggregatedMinAlready(books, p) ==
    LET known == {n \in Namespaces : books[n] # NoQuota}
    IN  AddUp([n \in known |-> books[n].used]) > AddUp([n \in known |-> books[n].min])

\* aggregatedMinOverUsedWithPod
OverAggregatedMin(books, p) ==
    LET known == {n \in Namespaces : books[n] # NoQuota}
    IN  AddUp([n \in known |-> books[n].used]) + Req[p]
          > AddUp([n \in known |-> books[n].min])

\* The two tests of PreFilter, on a map of ElasticQuotaInfos.
OverQuota(books, p) ==
    books[Ns[p]] # NoQuota /\ (OverMax(books[Ns[p]], p) \/ OverAggregatedMin(books, p))

SetInfo(n, info) == infos' = [infos EXCEPT ![n] = info]
SetPod(p, at)    == pod' = [pod EXCEPT ![p] = at]

-----------------------------------------------------------------------------
\* The scheduling cycle and the binding goroutines.

\* PreFilter succeeds.  When it fails the pod stays in the queue.
PreFilter(p) ==
    /\ pod[p] = "pending"
    /\ \A q \in Pods : pod[q] # "admitted"
    /\ ~OverQuota(infos, p)
    /\ SetPod(p, "admitted")
    /\ UNCHANGED <<undo, told, quota, events, adding, infos>>

\* No node fits the pod.
FilterFail(p) ==
    /\ pod[p] = "admitted"
    /\ SetPod(p, "pending")
    /\ UNCHANGED <<undo, told, quota, events, adding, infos>>

Reserve(p) ==
    /\ pod[p] = "admitted"
    /\ SetPod(p, "binding")
    /\ SetInfo(Ns[p], AddPodIfNotPresent(infos[Ns[p]], p))
    /\ UNCHANGED <<undo, told, quota, events, adding>>

Bind(p) ==
    /\ pod[p] = "binding"
    /\ SetPod(p, "assigned")
    /\ UNCHANGED <<undo, told, quota, events, adding, infos>>

\* The bind call returns an error, although it may have been carried out.
BindFail(p) ==
    /\ pod[p] = "binding"
    /\ undo' = undo \cup {p}
    /\ \/ SetPod(p, "failed")
       \/ "lostbind" \in Faults /\ SetPod(p, "assigned")
    /\ UNCHANGED <<told, quota, events, adding, infos>>

\* Unreserve; a pod that is not assigned is queued again.
Unreserve(p) ==
    /\ p \in undo
    /\ undo' = undo \ {p}
    /\ SetInfo(Ns[p], DeletePodIfPresent(infos[Ns[p]], p))
    /\ SetPod(p, IF pod[p] = "failed" THEN "pending" ELSE pod[p])
    /\ UNCHANGED <<told, quota, events, adding>>

-----------------------------------------------------------------------------
\* Users and kubelets.

CreatePod(p) ==
    /\ pod[p] = "absent" /\ p \notin undo
    /\ SetPod(p, "pending")
    /\ UNCHANGED <<undo, told, quota, events, adding, infos>>

FinishPod(p) ==
    /\ pod[p] = "assigned"
    /\ SetPod(p, "terminal")
    /\ UNCHANGED <<undo, told, quota, events, adding, infos>>

\* Also the eviction of a preemption victim.  The bind call of a pod that is
\* gone can only fail; the pod handlers, behind assignedPod, never see it.
DeletePod(p) ==
    /\ \/ pod[p] = "pending" /\ SetPod(p, "absent") /\ UNCHANGED undo
       \/ pod[p] \in {"binding", "failed"} /\ SetPod(p, "absent") /\ undo' = undo \cup {p}
       \/ pod[p] \in {"assigned", "terminal"} /\ SetPod(p, "deleted") /\ UNCHANGED undo
    /\ UNCHANGED <<told, quota, events, adding, infos>>

\* A change of the ElasticQuota reaches the store and is queued for the handlers.
SetQuota(n, spec) ==
    /\ Len(events[n]) < MaxEvents
    /\ quota' = [quota EXCEPT ![n] = spec]
    /\ events' = [events EXCEPT ![n] = Append(@, [old |-> quota[n], new |-> spec])]
    /\ UNCHANGED <<pod, undo, told, adding, infos>>

ChangeSpec(n) ==
    /\ quota[n] # NoQuota
    /\ \E spec \in Specs \ {quota[n]} :
         /\ \/ "spec" \in Faults
            \/ "raise" \in Faults /\ spec.min >= quota[n].min /\ spec.max >= quota[n].max
         /\ SetQuota(n, spec)

CreateQuota(n) ==
    /\ "quota" \in Faults /\ quota[n] = NoQuota
    /\ \E spec \in Specs : SetQuota(n, spec)

DeleteQuota(n) ==
    /\ "quota" \in Faults /\ quota[n] # NoQuota
    /\ SetQuota(n, NoQuota)

-----------------------------------------------------------------------------
\* The handlers of the ElasticQuota informer run one after the other.

Told(n) == events' = [events EXCEPT ![n] = Tail(@)]
HandlerFree == \A n \in Namespaces : adding[n] = NoQuota

\* addElasticQuota up to its lock: it looks at the map without holding it.
AddElasticQuota(n) ==
    /\ HandlerFree /\ events[n] # <<>> /\ Head(events[n]).old = NoQuota
    /\ adding' = [adding EXCEPT ![n] = IF infos[n] = NoQuota THEN Head(events[n]).new ELSE NoQuota]
    /\ Told(n)
    /\ UNCHANGED <<pod, undo, told, quota, infos>>

\* The rest of it: the entry is replaced, whatever it is by now.
AddElasticQuotaLocked(n) ==
    /\ adding[n] # NoQuota
    /\ SetInfo(n, NewInfo(adding[n]))
    /\ adding' = [adding EXCEPT ![n] = NoQuota]
    /\ UNCHANGED <<pod, undo, told, quota, events>>

\* Slip: the new entry starts without pods.
UpdateElasticQuotaAfresh(n) ==
    /\ HandlerFree /\ events[n] # <<>>
    /\ Head(events[n]).old # NoQuota /\ Head(events[n]).new # NoQuota
    /\ SetInfo(n, NewInfo(Head(events[n]).new))
    /\ Told(n)
    /\ UNCHANGED <<pod, undo, told, quota, adding>>

\* updateElasticQuota keeps the pods and what they use.
UpdateElasticQuota(n) ==
    /\ HandlerFree /\ events[n] # <<>>
    /\ Head(events[n]).old # NoQuota /\ Head(events[n]).new # NoQuota
    /\ LET fresh == NewInfo(Head(events[n]).new)
       IN  SetInfo(n, IF infos[n] = NoQuota THEN fresh
                      ELSE [fresh EXCEPT !.pods = infos[n].pods, !.used = infos[n].used])
    /\ Told(n)
    /\ UNCHANGED <<pod, undo, told, quota, adding>>

DeleteElasticQuota(n) ==
    /\ HandlerFree /\ events[n] # <<>> /\ Head(events[n]).new = NoQuota
    /\ SetInfo(n, NoQuota)
    /\ Told(n)
    /\ UNCHANGED <<pod, undo, told, quota, adding>>

-----------------------------------------------------------------------------
\* The handlers of the pod informer, behind the filter assignedPod.

\* addPod creates the entry from the lister when there is none.  Whether the
\* pod has ended is not looked at: after a restart ("relisted") it may have.
AddPod(p) ==
    /\ \/ told[p] = "none" /\ pod[p] \in {"assigned", "terminal", "deleted"}
          /\ told' = [told EXCEPT ![p] = "assigned"]
       \/ told[p] = "relisted"
          /\ told' = [told EXCEPT ![p] = "terminal"]
    /\ LET n    == Ns[p]
           info == IF infos[n] = NoQuota /\ quota[n] # NoQuota THEN NewInfo(quota[n]) ELSE infos[n]
       IN  SetInfo(n, AddPodIfNotPresent(info, p))
    /\ UNCHANGED <<pod, undo, quota, events, adding>>

\* Slip: the phase of the old pod is looked at.
UpdatePodOldPhase(p) ==
    /\ told[p] = "assigned" /\ pod[p] = "terminal"
    /\ told' = [told EXCEPT ![p] = "terminal"]
    /\ UNCHANGED <<pod, undo, quota, events, adding, infos>>

\* updatePod: the pod has ended.
UpdatePod(p) ==
    /\ told[p] = "assigned" /\ pod[p] = "terminal"
    /\ told' = [told EXCEPT ![p] = "terminal"]
    /\ SetInfo(Ns[p], DeletePodIfPresent(infos[Ns[p]], p))
    /\ UNCHANGED <<pod, undo, quota, events, adding>>

\* deletePod
DeletePodHandler(p) ==
    /\ pod[p] = "deleted" /\ told[p] \in {"assigned", "terminal"}
    /\ told' = [told EXCEPT ![p] = "none"]
    /\ SetPod(p, "absent")
    /\ SetInfo(Ns[p], DeletePodIfPresent(infos[Ns[p]], p))
    /\ UNCHANGED <<undo, quota, events, adding>>

-----------------------------------------------------------------------------
\* The scheduler restarts with an empty map; New waits for the store of the
\* ElasticQuota informer, not for its handlers, before it adds the pod handlers.
Restart ==
    /\ "restart" \in Faults
    /\ pod' = [p \in Pods |-> IF pod[p] \in InFlight THEN "pending"
                              ELSE IF pod[p] = "deleted" THEN "absent" ELSE pod[p]]
    /\ undo' = {}
    /\ told' = [p \in Pods |-> IF pod[p] = "terminal" THEN "relisted" ELSE "none"]
    /\ events' = [n \in Namespaces |-> IF quota[n] = NoQuota THEN <<>>
                                       ELSE <<[old |-> NoQuota, new |-> quota[n]]>>]
    /\ adding' = [n \in Namespaces |-> NoQuota]
    /\ infos' = [n \in Namespaces |-> NoQuota]
    /\ UNCHANGED quota

\* The initial quotas have been handled before the first pod appears.
Init ==
    /\ pod = [p \in Pods |-> "absent"]
    /\ undo = {}
    /\ told = [p \in Pods |-> "none"]
    /\ quota = InitSpec
    /\ events = [n \in Namespaces |-> <<>>]
    /\ adding = [n \in Namespaces |-> NoQuota]
    /\ infos = [n \in Namespaces |-> IF InitSpec[n] = NoQuota THEN NoQuota ELSE NewInfo(InitSpec[n])]

Handlers(p) == AddPod(p) \/ UpdatePod(p) \/ DeletePodHandler(p)

Next ==
    \/ \E p \in Pods : \/ PreFilter(p) \/ FilterFail(p) \/ Reserve(p)
                       \/ Bind(p) \/ BindFail(p) \/ Unreserve(p)
                       \/ CreatePod(p) \/ FinishPod(p) \/ DeletePod(p)
                       \/ Handlers(p)
    \/ \E n \in Namespaces : \/ ChangeSpec(n) \/ CreateQuota(n) \/ DeleteQuota(n)
                             \/ AddElasticQuota(n) \/ AddElasticQuotaLocked(n)
                             \/ UpdateElasticQuota(n) \/ DeleteElasticQuota(n)
    \/ Restart

Spec == Init /\ [][Next]_vars

-----------------------------------------------------------------------------
Quotas == Specs \cup {NoQuota}

TypeOK ==
    /\ pod \in [Pods -> Life]
    /\ undo \subseteq Pods
    /\ told \in [Pods -> {"none", "relisted", "assigned", "terminal"}]
    /\ quota \in [Namespaces -> Quotas]
    /\ events \in [Namespaces -> Seq([old : Quotas, new : Quotas])]
    /\ adding \in [Namespaces -> Quotas]
    /\ infos \in [Namespaces -> Infos \cup {NoQuota}]

\* What a quota counts as used is what its pods request, through double
\* notifications, Reserve and Unreserve racing the pod handlers, changes of the
\* spec and restarts; in particular it never becomes negative.
UsedMatchesPods ==
    \A n \in Namespaces : infos[n] # NoQuota =>
        /\ infos[n].used = Total[infos[n].pods]
        /\ \A p \in infos[n].pods : Ns[p] = n

\* Pods that the scheduler has placed, or is placing, in namespace n.
Holding(n) == {p \in Pods : Ns[p] = n /\ pod[p] \in {"binding", "assigned"}}

\* "max: the upper bound of the resource consumption of the consumers", and the
\* quotas together are not given more than the sum of their min.
QuotaRespected ==
    LET known == {n \in Namespaces : quota[n] # NoQuota}
    IN  /\ \A n \in known : Total[Holding(n)] <= quota[n].max
        /\ Total[UNION {Holding(n) : n \in known}]
             <= AddUp([n \in known |-> quota[n].min])

\* A pod that has ended does not count: assignedPod "selects pods that are
\* assigned (scheduled and running)".
EndedNotCounted ==
    \A p \in Pods : told[p] = "terminal" /\ infos[Ns[p]] # NoQuota => p \notin infos[Ns[p]].pods

\* "The usage of max is based on the resource configurations of successfully
\* scheduled pods": once the handlers know of a running pod, its quota counts it.
Accounted ==
    \A p \in Pods :
        told[p] = "assigned" /\ pod[p] = "assigned" /\ infos[Ns[p]] # NoQuota
          => p \in infos[Ns[p]].pods

=============================================================================
