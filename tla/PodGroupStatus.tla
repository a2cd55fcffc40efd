--------------------------- MODULE PodGroupStatus ---------------------------
(***************************************************************************)
(* The status of one PodGroup and its two writers: PodGroupManager.PostBind *)
(* in the scheduler (pkg/coscheduling/core) and the PodGroupController     *)
(* (pkg/controller), a process of its own.  Each reads the PodGroup from   *)
(* its informer cache and writes to the API server with a merge patch that *)
(* carries no resource version.                                            *)
(*                                                                         *)
(* PostBind also writes into the cached object, which the next watch event *)
(* replaces: Scheduled goes to the API server only when the phase changes. *)
(***************************************************************************)
EXTENDS Integers, Sequences, FiniteSets

CONSTANTS
    Pods,       \* pods of the group
    Foreign,    \* pods of another namespace that carry the same group label
    NoPod,
    MinMember,  \* spec.minMember
    LateStart,  \* scheduling began more than 48 hours after the group was created
    Prompt,     \* watch events are delivered before anything else happens
    MaxLag,     \* bound: watch events under way to one informer
    Faults      \* what may go wrong: subset of {"patchfail", "restart"}

ASSUME PodAssumption  == IsFiniteSet(Pods) /\ IsFiniteSet(Foreign) /\ NoPod \notin Pods
ASSUME DisjointAssumption == Pods \cap Foreign = {}
ASSUME SizeAssumption == MinMember \in Nat \ {0} /\ MaxLag \in Nat \ {0}
ASSUME ModeAssumption == /\ LateStart \in BOOLEAN /\ Prompt \in BOOLEAN
                         /\ Faults \subseteq {"patchfail", "restart"}

VARIABLES
    pod,         \* pod[p]: phase of pod p in the API server
    api,         \* status of the PodGroup in the API server
    schedCache,  \* the scheduler's cached PodGroup
    schedEvents, \* watch events under way to the scheduler
    posted,      \* pods whose PostBind has begun or will never run
    bind,        \* the PostBind that holds the lock of the PodGroupManager
    ctrlCache,   \* the controller's cached PodGroup
    ctrlEvents,  \* watch events under way to the controller
    seen,        \* seen[p]: phase of pod p in the controller's pod cache
    queued       \* the PodGroup's key is in the controller's work queue

vars == <<pod, api, schedCache, schedEvents, posted, bind,
          ctrlCache, ctrlEvents, seen, queued>>

AllPods   == Pods \cup Foreign
PodPhases == {"absent", "pending", "bound", "running", "succeeded", "failed"}
Phases    == {"", "Pending", "PreScheduling", "Scheduling", "Scheduled",
              "Running", "Finished", "Failed"}
Counts    == 0 .. Cardinality(AllPods)
Statuses  == [phase : Phases, scheduled : Counts, running : Counts,
              succeeded : Counts, failed : Counts]

NewStatus == [phase |-> "", scheduled |-> 0, running |-> 0, succeeded |-> 0, failed |-> 0]

\* PostBind at rest; "outer" and "inner" say whether the object that it read
\* first, and the one it read again for the patch, is still the cached one.
Idle == [at |-> "idle", pod |-> NoPod, copy |-> NewStatus, outer |-> FALSE, inner |-> FALSE]

Calm == ~Prompt \/ (schedEvents = <<>> /\ ctrlEvents = <<>> /\ seen = pod)

-----------------------------------------------------------------------------
\* CreateMergePatch(old, new) applied to the object in the API server: only the
\* fields in which old and new differ are written.
Merge(old, new) == [f \in DOMAIN api |-> IF old[f] # new[f] THEN new[f] ELSE api[f]]

\* The API server stores the patched object and notifies both informers,
\* unless nothing has changed.
Patch(old, new) ==
    LET stored == Merge(old, new)
    IN  IF stored = api
        THEN UNCHANGED <<api, schedEvents, ctrlEvents>>
        ELSE /\ Len(schedEvents) < MaxLag /\ Len(ctrlEvents) < MaxLag
             /\ api' = stored
             /\ schedEvents' = Append(schedEvents, stored)
             /\ ctrlEvents' = Append(ctrlEvents, stored)

-----------------------------------------------------------------------------
\* Pods, as users, the scheduler's bind call and the kubelet move them.
MovePod(p, from, to) ==
    /\ Calm
    /\ pod[p] \in from
    /\ \E phase \in to : pod' = [pod EXCEPT ![p] = phase]
    /\ UNCHANGED <<api, schedCache, schedEvents, posted, bind,
                   ctrlCache, ctrlEvents, seen, queued>>

CreatePod(p) == MovePod(p, {"absent"}, {"pending"})
BindPod(p)   == MovePod(p, {"pending"}, {"bound"})
StartPod(p)  == MovePod(p, {"bound"}, {"running"})
EndPod(p)    == MovePod(p, {"running"}, {"succeeded", "failed"})

-----------------------------------------------------------------------------
\* PodGroupManager.PostBind, in three steps under the manager's lock.

\* Slip: the pod counted twice.
PostBindCopyTwice(pg) ==
    [pg EXCEPT !.scheduled = @ + 2, !.phase = "Scheduling"]

\* The copy with one more scheduled pod and its phase.
PostBindCopy(pg) ==
    LET n == pg.scheduled + 1
    IN  [pg EXCEPT !.scheduled = n,
                   !.phase = IF n >= MinMember THEN "Scheduled" ELSE "Scheduling"]

PostBind(p) ==
    /\ Calm
    /\ bind.at = "idle"
    /\ p \notin posted /\ pod[p] \notin {"absent", "pending"}
    /\ posted' = posted \cup {p}
    /\ LET copy == PostBindCopy(schedCache)
       IN  bind' = [at |-> IF copy.phase # schedCache.phase THEN "patch" ELSE "store",
                    pod |-> p, copy |-> copy, outer |-> TRUE, inner |-> FALSE]
    /\ UNCHANGED <<pod, api, schedCache, schedEvents, ctrlCache, ctrlEvents, seen, queued>>

\* The lister is read again and the patch is made from what it returns now.
PostBindPatch ==
    /\ Calm
    /\ bind.at = "patch"
    /\ \/ /\ Patch(schedCache, bind.copy)
          /\ bind' = [bind EXCEPT !.at = "store", !.inner = TRUE]
       \/ /\ "patchfail" \in Faults
          /\ bind' = Idle
          /\ UNCHANGED <<api, schedEvents, ctrlEvents>>
    /\ UNCHANGED <<pod, schedCache, posted, ctrlCache, seen, queued>>

\* The phase goes into the object read for the patch, the count into the
\* object read first: neither reaches the cache when an event has replaced it.
PostBindStore ==
    /\ bind.at = "store"
    /\ schedCache' = [schedCache EXCEPT
                        !.phase = IF bind.inner THEN bind.copy.phase ELSE @,
                        !.scheduled = IF bind.outer THEN bind.copy.scheduled ELSE @]
    /\ bind' = Idle
    /\ UNCHANGED <<pod, api, schedEvents, posted, ctrlCache, ctrlEvents, seen, queued>>

\* A watch event replaces the scheduler's cached object.
SchedDeliver ==
    /\ schedEvents # <<>>
    /\ schedCache' = Head(schedEvents)
    /\ schedEvents' = Tail(schedEvents)
    /\ bind' = [bind EXCEPT !.outer = FALSE, !.inner = FALSE]
    /\ UNCHANGED <<pod, api, posted, ctrlCache, ctrlEvents, seen, queued>>

\* The scheduler restarts: PostBinds not finished by then never run.
SchedRestart ==
    /\ "restart" \in Faults
    /\ posted' = {p \in Pods : pod[p] \notin {"absent", "pending"}}
    /\ bind' = Idle
    /\ schedCache' = api
    /\ schedEvents' = <<>>
    /\ UNCHANGED <<pod, api, ctrlCache, ctrlEvents, seen, queued>>

-----------------------------------------------------------------------------
\* PodGroupController.

\* Pods of the controller's cache that carry the group's label: the lister is
\* not restricted to the group's namespace.
Listed       == {p \in AllPods : seen[p] # "absent"}

\* Slip: whatever has ended counts as a success.
CountEnded(phase) ==
    Cardinality({p \in Listed : seen[p] = phase \/ {phase, seen[p]} = {"succeeded", "failed"}})

\* running, succeeded, failed
Count(phase) == Cardinality({p \in Listed : seen[p] = phase})

\* syncHandler: the status that the cached one and the listed pods give.
SyncStatus(pg) ==
    LET run  == Count("running")
        succ == Count("succeeded")
        fail == Count("failed")
        scheduled == IF pg.phase = "Scheduling" /\ pg.scheduled >= MinMember
                     THEN "Scheduled" ELSE pg.phase
        started   == IF scheduled = "Scheduled" /\ succ + run >= MinMember
                     THEN "Running" ELSE scheduled
        settled   == IF fail # 0 /\ fail + run + succ >= MinMember
                     THEN "Failed" ELSE started
        final     == IF succ >= MinMember THEN "Finished" ELSE settled
    IN  CASE pg.phase = "" -> [pg EXCEPT !.phase = "Pending"]
          [] pg.phase = "Pending" ->
               [pg EXCEPT !.phase = IF Cardinality(Listed) >= MinMember
                                    THEN "PreScheduling" ELSE @]
          [] OTHER -> [pg EXCEPT !.phase = final, !.running = run,
                                 !.succeeded = succ, !.failed = fail]

\* sync and syncHandler.  A failed patch puts the key back into the queue.
Sync ==
    /\ Calm
    /\ queued
    /\ \/ Patch(ctrlCache, SyncStatus(ctrlCache)) /\ queued' = FALSE
       \/ /\ "patchfail" \in Faults
          /\ SyncStatus(ctrlCache) # ctrlCache
          /\ UNCHANGED <<api, schedEvents, ctrlEvents, queued>>
    /\ UNCHANGED <<pod, schedCache, posted, bind, ctrlCache, seen>>

\* Slip: a running group is taken for one that needs no further attention.
EnqueuesUnlessRunning(pg) == pg.phase \notin {"Finished", "Failed", "Running"}

\* pgAdded: groups that are over are not queued, nor those that waited so long
\* for their pods to be scheduled that the pods may have been collected.
Enqueues(pg) ==
    /\ pg.phase \notin {"Finished", "Failed"}
    /\ ~(LateStart /\ pg.scheduled = MinMember /\ pg.running = 0)

\* pgAdded and pgUpdated
CtrlDeliver ==
    /\ ctrlEvents # <<>>
    /\ ctrlCache' = Head(ctrlEvents)
    /\ ctrlEvents' = Tail(ctrlEvents)
    /\ queued' = (queued \/ Enqueues(Head(ctrlEvents)))
    /\ UNCHANGED <<pod, api, schedCache, schedEvents, posted, bind, seen>>

\* podAdded and podUpdated: the PodGroup is the one of the pod's namespace.
PodDeliver(p) ==
    /\ seen[p] # pod[p]
    /\ seen' = [seen EXCEPT ![p] = pod[p]]
    /\ queued' = (queued \/ (p \in Pods /\ Enqueues(ctrlCache)))
    /\ UNCHANGED <<pod, api, schedCache, schedEvents, posted, bind, ctrlCache, ctrlEvents>>

\* The controller restarts, or another replica becomes the leader.  Run waits
\* for the PodGroup informer only: the workers may find no pods yet.
CtrlRestart ==
    /\ "restart" \in Faults
    /\ ctrlCache' = api
    /\ ctrlEvents' = <<>>
    /\ seen' = [p \in AllPods |-> "absent"]
    /\ queued' = Enqueues(api)
    /\ UNCHANGED <<pod, api, schedCache, schedEvents, posted, bind>>

-----------------------------------------------------------------------------
Init ==
    /\ pod = [p \in AllPods |-> "absent"]
    /\ api = NewStatus
    /\ schedCache = NewStatus
    /\ schedEvents = <<>>
    /\ posted = {}
    /\ bind = Idle
    /\ ctrlCache = NewStatus
    /\ ctrlEvents = <<>>
    /\ seen = pod
    /\ queued = TRUE

Next ==
    \/ \E p \in AllPods : CreatePod(p) \/ BindPod(p) \/ StartPod(p) \/ EndPod(p) \/ PodDeliver(p)
    \/ \E p \in Pods : PostBind(p)
    \/ PostBindPatch \/ PostBindStore \/ SchedDeliver \/ SchedRestart
    \/ Sync \/ CtrlDeliver \/ CtrlRestart

Spec == Init /\ [][Next]_vars

\* Both processes run and their watches deliver.  Nothing is assumed of the
\* pods, of failures and of restarts.
Fairness ==
    /\ WF_vars(\E p \in Pods : PostBind(p))
    /\ WF_vars(PostBindPatch) /\ WF_vars(PostBindStore) /\ WF_vars(SchedDeliver)
    /\ WF_vars(Sync) /\ WF_vars(CtrlDeliver)
    /\ \A p \in AllPods : WF_vars(PodDeliver(p))

FairSpec == Spec /\ Fairness

-----------------------------------------------------------------------------
TypeOK ==
    /\ pod \in [AllPods -> PodPhases] /\ seen \in [AllPods -> PodPhases]
    /\ {api, schedCache, ctrlCache} \subseteq Statuses
    /\ schedEvents \in Seq(Statuses) /\ ctrlEvents \in Seq(Statuses)
    /\ posted \subseteq Pods
    /\ bind \in [at : {"idle", "patch", "store"}, pod : Pods \cup {NoPod},
                 copy : Statuses, outer : BOOLEAN, inner : BOOLEAN]
    /\ queued \in BOOLEAN

Own(phases) == Cardinality({p \in Pods : pod[p] \in phases})

\* The status never claims more than the group's pods have done, however stale
\* the two caches are and in whatever order the patches arrive: "Scheduled" and
\* Status.Scheduled need that many bound pods, "Running" minMember pods that
\* were started, "Finished" minMember pods that succeeded.
NoOverclaim ==
    LET bound   == Own({"bound", "running", "succeeded", "failed"})
        started == Own({"running", "succeeded", "failed"})
    IN  /\ api.scheduled <= bound
        /\ api.phase = "Scheduled" => bound >= MinMember
        /\ api.phase = "Running" => started >= MinMember
        /\ api.phase = "Finished" => Own({"succeeded"}) >= MinMember

\* "PodRunning means spec.minMember pods of PodGroups has been in running
\* phase": when from some time on minMember pods run, PostBind and the
\* controller bring the group to Running and leave it there.
RunningSettles ==
    <>[](Own({"running"}) >= MinMember) => <>[](api.phase = "Running")

\* When minMember pods of the group have succeeded, neither process restarts any
\* more and the group was never reported as failed, it is reported as finished
\* for good: a late PostBind or a stale controller cache may overwrite the phase,
\* but the watch event of that write makes the controller repair it.
FinishedSettles ==
    /\ <>[][~SchedRestart /\ ~CtrlRestart]_vars
    /\ [](api.phase # "Failed")
    /\ <>[](Own({"succeeded"}) >= MinMember)
    => <>[](api.phase = "Finished")

\* "PodGroupFinish means all of spec.minMember pods are successfully": when
\* minMember pods have succeeded and neither process restarts any more, the
\* group ends up as finished, whatever the pods beyond minMember do.  It does not
\* hold when one of those fails first: pgAdded returns early for a failed group.
SuccessReported ==
    /\ <>[][~SchedRestart /\ ~CtrlRestart]_vars
    /\ <>[](Own({"succeeded"}) >= MinMember)
    => <>[](api.phase = "Finished")

=============================================================================
