---------------------------- MODULE Coscheduling ----------------------------
(***************************************************************************)
(* The Coscheduling plugin (pkg/coscheduling) and its PodGroupManager      *)
(* (pkg/coscheduling/core) inside the scheduler that calls them.           *)
(*                                                                         *)
(* The scheduler framework is external: one scheduling goroutine runs a    *)
(* cycle for one pod at a time (queue pop, cluster snapshot, PreFilter,    *)
(* Filter, PostFilter or assume + Reserve, Permit); each pod that leaves   *)
(* the cycle gets a binding goroutine (WaitOnPermit, Bind, PostBind, or    *)
(* Unreserve and ForgetPod).  pc[p] is where pod p is on that path.        *)
(*                                                                         *)
(* A cluster is a pool of Capacity slots and every pod takes one slot.     *)
(***************************************************************************)
EXTENDS Integers, FiniteSets

CONSTANTS
    Pods,          \* pods that may be created
    Groups,        \* PodGroup names
    NoGroup,       \* no label / nil *PodGroup
    NoPod,         \* the scheduling goroutine is between two cycles
    Label,         \* Label[p]: PodGroup label of pod p, NoGroup if it has none
    MinMember,     \* MinMember[g]: spec.minMember
    MinResources,  \* MinResources[g]: spec.minResources in slots, 0 for nil
    Capacity,      \* slots of the cluster
    GapDivisor,    \* PostFilter tolerates a gap of 1/GapDivisor of minMember (10 in the code)
    Faults         \* which events of the environment may happen

FaultKinds == {"timeout",      \* a waiting pod's timer fires
               "bindfail",     \* the bind call fails
               "nofit",        \* Filter fails although a slot is free (affinity, taints)
               "delete",       \* pods are deleted
               "pgdelete",     \* PodGroups are deleted
               "restart",      \* the scheduler crashes and restarts
               "earlyexpiry"}  \* a denial expires before its rejected pods are forgotten

ASSUME PodsAssumption  == IsFiniteSet(Pods) /\ NoPod \notin Pods
ASSUME GroupAssumption == NoGroup \notin Groups /\ Label \in [Pods -> Groups \cup {NoGroup}]
ASSUME SizeAssumption  == /\ MinMember \in [Groups -> Nat \ {0}]
                          /\ MinResources \in [Groups -> Nat]
                          /\ Capacity \in Nat
                          /\ GapDivisor \in Nat \ {0}
ASSUME FaultAssumption == Faults \subseteq FaultKinds

VARIABLES
    pc,         \* pc[p]: where p is
    live,       \* pods that exist in the API server (podLister)
    pgs,        \* PodGroups that exist (pgLister)
    cycle,      \* the pod whose scheduling cycle runs, or NoPod
    snapshot,   \* assumed and bound pods when that cycle began
    noop,       \* the cycle state holds the no-op key: PreFilter failed
    signal,     \* signal[p]: the first of Allow / Reject sent to waiting pod p
    todo,       \* todo[p]: waiting pods that p's IterateOverWaitingPods has yet to visit
    denied,     \* lastDeniedPG
    permitted   \* permittedPG

vars == <<pc, live, pgs, cycle, snapshot, noop, signal, todo, denied, permitted>>

-----------------------------------------------------------------------------
\* Steps of the scheduling goroutine; in the last three the pod is assumed.
InCycle   == {"prefilter", "resources", "filter", "postfilter", "rejecting",
              "permit", "allowing", "enlist"}
\* Steps of a binding goroutine, and of the failure path after Reserve.
Binding   == {"waiting", "binding", "unreserve", "unreserving", "forget"}
Iterators == {"rejecting", "allowing", "unreserving"}
Steps     == {"absent", "queued", "bound"} \cup InCycle \cup Binding

\* Pods with a node name in the scheduler cache: assumed or bound.
Occupies  == {"permit", "allowing", "enlist", "bound"} \cup Binding

Assigned  == {p \in Pods : pc[p] \in Occupies}
Members(g) == {p \in Pods : Label[p] = g}

\* framework.waitingPodsMap: its RWMutex is held for reading by every
\* IterateOverWaitingPods, for writing by add and remove.
WaitingPods == {p \in Pods : pc[p] = "waiting"}
ReadLocked  == \E p \in Pods : pc[p] \in Iterators

Goto(p, step) == pc' = [pc EXCEPT ![p] = step]

-----------------------------------------------------------------------------
\* PodGroupManager.GetPodGroup, the *PodGroup half: nil (NoGroup) without a
\* label or when the lister does not know the group.
GetPodGroup(p) == IF Label[p] \in pgs THEN Label[p] ELSE NoGroup

\* Counted in the snapshot taken when the cycle began, not in the live cache.
CalculateAssignedPods(g) == Cardinality(snapshot \cap Members(g))

\* Pods of the group are removed from the nodes before the free resources are
\* added up; "pods" is requested with quantity minMember.
CheckClusterResource(g) ==
    LET left == Capacity - Cardinality(snapshot \ Members(g))
    IN  MinResources[g] <= left /\ MinMember[g] <= left

\* Slips that the properties have to notice: the pod counted twice, or not at all.
ReadyTooEarly(g)    == CalculateAssignedPods(g) + 2 >= MinMember[g]
ReadyWithoutSelf(g) == CalculateAssignedPods(g) >= MinMember[g]

\* PodGroupManager.Permit: the pod itself is not in the snapshot.
Ready(g) == CalculateAssignedPods(g) + 1 >= MinMember[g]

\* Slip: the gap is divided as an integer, without the conversions to float.
ToleratedTruncated(g) == (MinMember[g] - CalculateAssignedPods(g)) \div MinMember[g] <= 0

\* PostFilter leaves the group alone: enough pods, or a gap of at most 10%.
Tolerated(g) ==
    LET assigned == CalculateAssignedPods(g)
    IN  \/ assigned >= MinMember[g]
        \/ GapDivisor * (MinMember[g] - assigned) <= MinMember[g]

\* The waiting pods a handler of pod p has to visit.
WaitingSiblings(p) == {q \in WaitingPods : Label[q] = Label[p]}

\* Slip: the group is not put on the deny list.
DenyGroupForgotten(p) == /\ denied' = denied
                         /\ permitted' = permitted \ {Label[p]}

\* What Unreserve and PostFilter do after the loop.
DenyGroup(p) == /\ denied' = denied \cup {Label[p]}
                /\ permitted' = permitted \ {Label[p]}

\* Allow and Reject write to a channel of capacity one: the first one wins.
Send(q, s) == signal' = [signal EXCEPT ![q] = IF @ = "none" THEN s ELSE @]

\* A failed pod goes back to the queue unless it was deleted meanwhile.
Requeue(p) == Goto(p, IF p \in live THEN "queued" ELSE "absent")

-----------------------------------------------------------------------------
\* The scheduling goroutine.

\* The queue pops a pod and the cache is snapshotted.
StartCycle(p) ==
    /\ cycle = NoPod /\ pc[p] = "queued"
    /\ cycle' = p
    /\ snapshot' = Assigned
    /\ noop' = FALSE
    /\ Goto(p, "prefilter")
    /\ UNCHANGED <<live, pgs, signal, todo, denied, permitted>>

\* Coscheduling.PreFilter up to the test for MinResources.  A failure leaves
\* the no-op key in the cycle state; the framework then runs PostFilter.
PreFilter(p) ==
    /\ pc[p] = "prefilter"
    /\ LET g == GetPodGroup(p)
           fails == /\ g # NoGroup
                    /\ g \in denied \/ Cardinality(live \cap Members(g)) < MinMember[g]
       IN  /\ noop' = fails
           /\ Goto(p, IF fails THEN "postfilter"
                      ELSE IF g # NoGroup /\ MinResources[g] # 0 THEN "resources"
                      ELSE "filter")
    /\ UNCHANGED <<live, pgs, cycle, snapshot, signal, todo, denied, permitted>>

\* The rest of PreFilter: permittedPG, CheckClusterResource, and the denial.
PreFilterResources(p) ==
    /\ pc[p] = "resources"
    /\ LET g == Label[p]
           passes == g \in permitted \/ CheckClusterResource(g)
       IN  /\ noop' = ~passes
           /\ Goto(p, IF passes THEN "filter" ELSE "postfilter")
           /\ permitted' = IF passes THEN permitted \cup {g} ELSE permitted
           /\ denied' = IF passes THEN denied ELSE denied \cup {g}
    /\ UNCHANGED <<live, pgs, cycle, snapshot, signal, todo>>

\* Filter on the snapshot, then AssumePod and Reserve (Coscheduling.Reserve
\* does nothing); or no node fits and the framework runs PostFilter.
Filter(p) ==
    /\ pc[p] = "filter"
    /\ \/ Cardinality(snapshot) < Capacity /\ Goto(p, "permit")
       \/ /\ Cardinality(snapshot) >= Capacity \/ "nofit" \in Faults
          /\ Goto(p, "postfilter")
    /\ UNCHANGED <<live, pgs, cycle, snapshot, noop, signal, todo, denied, permitted>>

\* Coscheduling.PostFilter before its loop.  Every early return ends the cycle.
PostFilter(p) ==
    /\ pc[p] = "postfilter"
    /\ LET g == GetPodGroup(p)
       IN  \/ /\ (~noop /\ g # NoGroup) => Tolerated(g)
              /\ Requeue(p)
              /\ cycle' = NoPod
              /\ noop' = FALSE
              /\ UNCHANGED todo
           \/ /\ ~noop /\ g # NoGroup /\ ~Tolerated(g)
              /\ Goto(p, "rejecting")
              /\ todo' = [todo EXCEPT ![p] = WaitingSiblings(p)]
              /\ UNCHANGED <<cycle, noop>>
    /\ UNCHANGED <<live, pgs, snapshot, signal, denied, permitted>>

PostFilterDone(p) ==
    /\ pc[p] = "rejecting" /\ todo[p] = {}
    /\ DenyGroup(p)
    /\ Requeue(p)
    /\ cycle' = NoPod
    /\ UNCHANGED <<live, pgs, snapshot, noop, signal, todo>>

\* Coscheduling.Permit.  Without a PodGroup the pod is unschedulable and the
\* goroutine goes on with Unreserve; "Wait" puts it into the waiting pods.
Permit(p) ==
    /\ pc[p] = "permit"
    /\ LET g == GetPodGroup(p)
       IN  \/ /\ Label[p] = NoGroup
              /\ Goto(p, "binding")
              /\ cycle' = NoPod
              /\ UNCHANGED todo
           \/ /\ Label[p] # NoGroup /\ g = NoGroup
              /\ Goto(p, "unreserve")
              /\ UNCHANGED <<cycle, todo>>
           \/ /\ g # NoGroup /\ Ready(g)
              /\ Goto(p, "allowing")
              /\ todo' = [todo EXCEPT ![p] = WaitingSiblings(p)]
              /\ UNCHANGED cycle
           \/ /\ g # NoGroup /\ ~Ready(g)
              /\ Goto(p, "enlist")
              /\ UNCHANGED <<cycle, todo>>
    /\ UNCHANGED <<live, pgs, snapshot, noop, signal, denied, permitted>>

\* Permit returns Success: the pod goes to its binding goroutine.
PermitDone(p) ==
    /\ pc[p] = "allowing" /\ todo[p] = {}
    /\ Goto(p, "binding")
    /\ cycle' = NoPod
    /\ UNCHANGED <<live, pgs, snapshot, noop, signal, todo, denied, permitted>>

\* waitingPodsMap.add, after which the binding goroutine waits on the channel.
Enlist(p) ==
    /\ pc[p] = "enlist" /\ ~ReadLocked
    /\ Goto(p, "waiting")
    /\ cycle' = NoPod
    /\ UNCHANGED <<live, pgs, snapshot, noop, signal, todo, denied, permitted>>

-----------------------------------------------------------------------------
\* One turn of a loop over the waiting pods, in any of the three handlers.
Visit(p, q) ==
    /\ pc[p] \in Iterators /\ q \in todo[p]
    /\ Send(q, IF pc[p] = "allowing" THEN "allow" ELSE "reject")
    /\ todo' = [todo EXCEPT ![p] = @ \ {q}]
    /\ UNCHANGED <<pc, live, pgs, cycle, snapshot, noop, denied, permitted>>

-----------------------------------------------------------------------------
\* The binding goroutines.

\* The timer was started with the waiting pod, before it is in the map.
Timeout(p) ==
    /\ "timeout" \in Faults
    /\ pc[p] \in {"enlist", "waiting"} /\ signal[p] = "none"
    /\ Send(p, "reject")
    /\ UNCHANGED <<pc, live, pgs, cycle, snapshot, noop, todo, denied, permitted>>

\* WaitOnPermit reads the channel and removes the pod from the map.
WaitOnPermit(p) ==
    /\ pc[p] = "waiting" /\ signal[p] # "none" /\ ~ReadLocked
    /\ Goto(p, IF signal[p] = "allow" THEN "binding" ELSE "unreserve")
    /\ signal' = [signal EXCEPT ![p] = "none"]
    /\ UNCHANGED <<live, pgs, cycle, snapshot, noop, todo, denied, permitted>>

Bind(p) ==
    /\ pc[p] = "binding"
    /\ \/ p \in live /\ Goto(p, "bound")
       \/ /\ p \notin live \/ "bindfail" \in Faults
          /\ Goto(p, "unreserve")
    /\ UNCHANGED <<live, pgs, cycle, snapshot, noop, signal, todo, denied, permitted>>

\* Slip: the nil check is missing.
UnreserveUnchecked(p) ==
    /\ pc[p] = "unreserve"
    /\ Goto(p, "unreserving")
    /\ todo' = [todo EXCEPT ![p] = WaitingSiblings(p)]
    /\ UNCHANGED <<live, pgs, cycle, snapshot, noop, signal, denied, permitted>>

\* Coscheduling.Unreserve: returns at once when there is no PodGroup.
Unreserve(p) ==
    /\ pc[p] = "unreserve"
    /\ LET g == GetPodGroup(p)
       IN  \/ /\ g = NoGroup
              /\ Goto(p, "forget")
              /\ UNCHANGED todo
           \/ /\ g # NoGroup
              /\ Goto(p, "unreserving")
              /\ todo' = [todo EXCEPT ![p] = WaitingSiblings(p)]
    /\ UNCHANGED <<live, pgs, cycle, snapshot, noop, signal, denied, permitted>>

UnreserveDone(p) ==
    /\ pc[p] = "unreserving" /\ todo[p] = {}
    /\ DenyGroup(p)
    /\ Goto(p, "forget")
    /\ UNCHANGED <<live, pgs, cycle, snapshot, noop, signal, todo>>

\* ForgetPod gives the slot back; the pod is queued again.  This is the
\* scheduling goroutine when Permit failed, else the binding goroutine.
Forget(p) ==
    /\ pc[p] = "forget"
    /\ Requeue(p)
    /\ cycle' = IF cycle = p THEN NoPod ELSE cycle
    /\ UNCHANGED <<live, pgs, snapshot, noop, signal, todo, denied, permitted>>

-----------------------------------------------------------------------------
\* The two go-cache instances.

\* Pods of g that were refused and still hold a slot, or held it when the
\* running cycle began.
Doomed(g) == {p \in Members(g) : \/ pc[p] \in {"unreserve", "unreserving", "forget"}
                                 \/ pc[p] = "waiting" /\ signal[p] = "reject"
                                 \/ cycle # NoPod /\ p \in snapshot \ Assigned}

\* DeniedPGExpirationTimeSeconds is 20 by default, a refused pod is forgotten
\* and a cycle over in milliseconds: the denial outlives both.  Adding a group
\* that is on the list does not prolong its stay, but a pod whose refusal counts
\* passed PreFilter, so the denial is no older than that pod's cycle.
ExpireDenied(g) ==
    /\ g \in denied
    /\ Doomed(g) = {} \/ "earlyexpiry" \in Faults
    /\ denied' = denied \ {g}
    /\ UNCHANGED <<pc, live, pgs, cycle, snapshot, noop, signal, todo, permitted>>

ExpirePermitted(g) ==
    /\ g \in permitted
    /\ permitted' = permitted \ {g}
    /\ UNCHANGED <<pc, live, pgs, cycle, snapshot, noop, signal, todo, denied>>

-----------------------------------------------------------------------------
\* Users and failures.

CreatePod(p) ==
    /\ p \notin live /\ pc[p] = "absent"
    /\ live' = live \cup {p}
    /\ Goto(p, "queued")
    /\ UNCHANGED <<pgs, cycle, snapshot, noop, signal, todo, denied, permitted>>

\* A queued pod leaves the queue, a bound one the cache; a waiting one is
\* rejected by the framework (RejectWaitingPod); one on its way carries on.
DeletePod(p) ==
    /\ "delete" \in Faults
    /\ p \in live
    /\ live' = live \ {p}
    /\ pc' = [pc EXCEPT ![p] = IF @ \in {"queued", "bound"} THEN "absent" ELSE @]
    /\ IF pc[p] = "waiting" THEN Send(p, "reject") ELSE UNCHANGED signal
    /\ UNCHANGED <<pgs, cycle, snapshot, noop, todo, denied, permitted>>

CreatePG(g) ==
    /\ g \notin pgs
    /\ pgs' = pgs \cup {g}
    /\ UNCHANGED <<pc, live, cycle, snapshot, noop, signal, todo, denied, permitted>>

DeletePG(g) ==
    /\ "pgdelete" \in Faults
    /\ g \in pgs
    /\ pgs' = pgs \ {g}
    /\ UNCHANGED <<pc, live, cycle, snapshot, noop, signal, todo, denied, permitted>>

\* Everything in memory is lost.  A bind call that was under way may or may
\* not have reached the API server.
Restart ==
    /\ "restart" \in Faults
    /\ \E arrived \in SUBSET {p \in live : pc[p] = "binding"} :
         pc' = [p \in Pods |-> IF p \notin live THEN "absent"
                               ELSE IF pc[p] = "bound" \/ p \in arrived THEN "bound"
                               ELSE "queued"]
    /\ cycle' = NoPod
    /\ snapshot' = {}
    /\ noop' = FALSE
    /\ signal' = [p \in Pods |-> "none"]
    /\ todo' = [p \in Pods |-> {}]
    /\ denied' = {}
    /\ permitted' = {}
    /\ UNCHANGED <<live, pgs>>

-----------------------------------------------------------------------------
Init ==
    /\ pc = [p \in Pods |-> "absent"]
    /\ live = {}
    /\ pgs = {}
    /\ cycle = NoPod
    /\ snapshot = {}
    /\ noop = FALSE
    /\ signal = [p \in Pods |-> "none"]
    /\ todo = [p \in Pods |-> {}]
    /\ denied = {}
    /\ permitted = {}

\* The next step of the goroutine that has pod p.
Step(p) ==
    \/ StartCycle(p) \/ PreFilter(p) \/ PreFilterResources(p) \/ Filter(p)
    \/ PostFilter(p) \/ PostFilterDone(p)
    \/ Permit(p) \/ PermitDone(p) \/ Enlist(p)
    \/ \E q \in Pods : Visit(p, q)
    \/ WaitOnPermit(p) \/ Bind(p) \/ Unreserve(p) \/ UnreserveDone(p) \/ Forget(p)

Next ==
    \/ \E p \in Pods : Step(p) \/ Timeout(p) \/ CreatePod(p) \/ DeletePod(p)
    \/ \E g \in Groups : ExpireDenied(g) \/ ExpirePermitted(g) \/ CreatePG(g) \/ DeletePG(g)
    \/ Restart

Spec == Init /\ [][Next]_vars

\* Goroutines run and cache entries expire.  Fairness is strong because a step
\* may wait for something that comes and goes: the scheduling goroutine (failed
\* pods back off and the unschedulable queue is flushed, so the queue serves
\* every pod) or the lock of the waiting pods (a Go RWMutex does not starve
\* writers).  Nothing is assumed of users, timers and failures.
Fairness ==
    /\ \A p \in Pods : SF_vars(Step(p))
    /\ \A g \in Groups : WF_vars(ExpireDenied(g))

FairSpec == Spec /\ Fairness

-----------------------------------------------------------------------------
TypeOK ==
    /\ pc \in [Pods -> Steps]
    /\ live \subseteq Pods
    /\ pgs \subseteq Groups
    /\ cycle \in Pods \cup {NoPod}
    /\ snapshot \subseteq Pods
    /\ noop \in BOOLEAN
    /\ signal \in [Pods -> {"none", "allow", "reject"}]
    /\ todo \in [Pods -> SUBSET Pods]
    /\ denied \subseteq Groups
    /\ permitted \subseteq Groups

\* "If there's not enough resources to start all tasks, the scheduler will not
\* start anyone": while Permit releases a gang, the slots that other pods leave
\* free hold minMember pods of the group, whatever the binding goroutines have
\* done since the snapshot that Permit counted in.
RoomForGang ==
    \A p \in Pods : pc[p] = "allowing" =>
        Cardinality(Assigned \ Members(Label[p])) + MinMember[Label[p]] <= Capacity

\* Pods of g that Permit let through, and those on their way that nobody refused.
Released(g)  == {p \in Members(g) : \/ pc[p] \in {"allowing", "binding", "bound"}
                                    \/ pc[p] = "waiting" /\ signal[p] = "allow"}
Committed(g) == {p \in Members(g) : \/ p \in Released(g)
                                    \/ pc[p] = "waiting" /\ signal[p] = "none"}

\* All or nothing: a pod of a group is let through to binding only together
\* with minMember pods of the group that hold a node and have not been refused.
\* Permit counts in the snapshot, so this rests on the denial of the group
\* outliving every pod that PostFilter refused.
GangAllOrNothing ==
    \A g \in Groups : Released(g) # {} => Cardinality(Committed(g)) >= MinMember[g]

\* The pods of g whose binding nothing but a failure can stop any more: the
\* released ones, and those that the sibling in Permit is about to release.
Admitted(g) ==
    Released(g) \cup {q \in WaitingPods : Label[q] = g /\ signal[q] = "none"
                                       /\ \E p \in Pods : pc[p] = "allowing" /\ q \in todo[p]}

Promise == INSTANCE GangAdmission WITH admitted <- [g \in Groups |-> Admitted(g)]

\* The plugin implements GangAdmission: Permit admits minMember pods of a group
\* at once, although it tells them one by one while other goroutines run, and no
\* later denial, refusal or cycle takes an admission back.
AdmitsWholeGangs == Promise!Spec

\* PostFilter tolerates the gap of an incomplete group (at most 10% of
\* minMember): it refuses none of the group's waiting pods then.
WithinGap(g) ==
    LET assigned == Cardinality(Assigned \cap Members(g))
    IN  assigned < MinMember[g] /\ GapDivisor * (MinMember[g] - assigned) <= MinMember[g]

\* Nobody waits on everybody: a pod that Permit holds back is let through or
\* refused by the plugin itself, through the attempts to schedule its siblings
\* and without the help of its timer, once all pods of its group exist.  The
\* one exception is a group that stays within the gap that PostFilter
\* tolerates: its waiting pods are left to their timers.
WaitersSettled ==
    \A p \in Pods : pc[p] = "waiting" /\ Members(Label[p]) \subseteq live
                        ~> pc[p] # "waiting" \/ []WithinGap(Label[p])

\* When the cluster has room for all pods, every pod of every complete group
\* is bound for good, whatever denials and partial attempts came before.
GangsBound ==
    (live = Pods /\ pgs = Groups) ~> [](\A p \in Pods : pc[p] = "bound")

=============================================================================
