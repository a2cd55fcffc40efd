------------------------ MODULE PodGroupStatusProofs ------------------------
(***************************************************************************)
(* Proofs about PodGroupStatus for any number of pods and any lag of the   *)
(* two informers.  Patches carry no resource version, so a status may be   *)
(* put together from fields that were computed at different times by       *)
(* different processes from stale caches.  What saves it is that every     *)
(* field by itself only claims what pods have done, and pods do not go     *)
(* back: a status that is true of the group stays true.                    *)
(***************************************************************************)
EXTENDS PodGroupStatus, FiniteSetTheorems, TLAPS

Bound   == {"bound", "running", "succeeded", "failed"}
Started == {"running", "succeeded", "failed"}

\* The statuses every field of which is true.  The controller counts pods of
\* other namespaces too, so its phases say something only if there are none.
Honest ==
    {s \in Statuses :
        /\ s.scheduled <= Cardinality(posted)
        /\ s.phase = "Scheduled" => Own(Bound) >= MinMember
        /\ Foreign = {} =>
             /\ s.phase = "Running" => Own(Started) >= MinMember
             /\ s.phase = "Finished" => Own({"succeeded"}) >= MinMember}

\* PostBind runs once for a pod, after the pod is bound.
PostedBound == posted \subseteq Pods /\ \A p \in posted : pod[p] \in Bound

PostedFew ==
    /\ IsFiniteSet(posted) /\ Cardinality(posted) \in Nat
    /\ Cardinality(posted) <= Own(Bound) /\ Own(Bound) \in Nat
    /\ Cardinality(posted) <= Cardinality(AllPods) /\ Cardinality(AllPods) \in Nat

\* The controller's pod cache is behind, and what it says has happened.
SeenBehind ==
    \A p \in AllPods : /\ seen[p] = "running" => pod[p] \in Started
                       /\ seen[p] = "succeeded" => pod[p] = "succeeded"

PodTypes ==
    /\ pod \in [AllPods -> PodPhases] /\ seen \in [AllPods -> PodPhases]
    /\ bind \in [at : {"idle", "patch", "store"}, pod : Pods \cup {NoPod},
                 copy : Statuses, outer : BOOLEAN, inner : BOOLEAN]
    /\ queued \in BOOLEAN

\* Whatever status is anywhere, in the API server, in a cache, in a notification
\* or in a PostBind under way, is honest.
AllHonest ==
    /\ api \in Honest /\ schedCache \in Honest /\ ctrlCache \in Honest /\ bind.copy \in Honest
    /\ schedEvents \in Seq(Honest) /\ ctrlEvents \in Seq(Honest)

HonestInv == PodTypes /\ PostedBound /\ SeenBehind /\ AllHonest

-----------------------------------------------------------------------------

\* A queue of statuses: adding, removing, and looking at them as members of a
\* larger set.
LEMMA QueueOf ==
    ASSUME NEW S, NEW T, S \subseteq T, NEW q \in Seq(S)
    PROVE  /\ q \in Seq(T) /\ <<>> \in Seq(T)
           /\ q # <<>> => Head(q) \in S /\ Tail(q) \in Seq(S)
           /\ \A e \in T : Append(q, e) \in Seq(T)
  OBVIOUS

\* Own counts pods of the group.
LEMMA OwnCounts ==
    ASSUME NEW S
    PROVE  Own(S) \in Nat /\ IsFiniteSet({p \in Pods : pod[p] \in S})
<1>1. IsFiniteSet({p \in Pods : pod[p] \in S})
  BY PodAssumption, FS_Subset
<1> QED  BY <1>1, FS_CardinalityType DEF Own

\* When no pod leaves the phases of S, no fewer pods are in them.
LEMMA OwnGrows ==
    ASSUME NEW S, \A p \in Pods : pod[p] \in S => pod'[p] \in S
    PROVE  Own(S) <= Own(S)' /\ Own(S) \in Nat /\ Own(S)' \in Nat
<1>1. {p \in Pods : pod[p] \in S} \subseteq {p \in Pods : pod'[p] \in S}
  OBVIOUS
<1>2. IsFiniteSet({p \in Pods : pod'[p] \in S}) /\ IsFiniteSet({p \in Pods : pod[p] \in S})
  BY PodAssumption, FS_Subset
<1> QED  BY <1>1, <1>2, FS_Subset, FS_CardinalityType DEF Own

\* Every pod with a PostBind is bound, so there are no more of them than pods.
LEMMA PostedCounts == PostedBound => PostedFew
<1> SUFFICES ASSUME PostedBound PROVE PostedFew
  OBVIOUS
<1>1. posted \subseteq {p \in Pods : pod[p] \in Bound}
  BY DEF PostedBound
<1>2. IsFiniteSet({p \in Pods : pod[p] \in Bound}) /\ IsFiniteSet(AllPods)
  BY PodAssumption, FS_Subset, FS_Union DEF AllPods
<1>3. posted \subseteq AllPods
  BY DEF PostedBound, AllPods
<1> QED  BY <1>1, <1>2, <1>3, FS_Subset, FS_CardinalityType DEF Own, PostedFew

\* Pods do not go back: a status that is honest stays so.
LEMMA HonestGrows ==
    ASSUME PostedBound, PostedBound', posted \subseteq posted',
           \A p \in Pods : /\ pod[p] \in Bound => pod'[p] \in Bound
                           /\ pod[p] \in Started => pod'[p] \in Started
                           /\ pod[p] = "succeeded" => pod'[p] = "succeeded"
    PROVE  Honest \subseteq Honest'
<1>1. /\ Own(Bound) <= Own(Bound)' /\ Own(Bound) \in Nat /\ Own(Bound)' \in Nat
      /\ Own(Started) <= Own(Started)' /\ Own(Started) \in Nat /\ Own(Started)' \in Nat
  BY OwnGrows
<1>2. /\ Own({"succeeded"}) <= Own({"succeeded"})'
      /\ Own({"succeeded"}) \in Nat /\ Own({"succeeded"})' \in Nat
  BY OwnGrows
<1>3. /\ Cardinality(posted) <= Cardinality(posted')
      /\ Cardinality(posted) \in Nat /\ Cardinality(posted') \in Nat
  <2>1. IsFiniteSet(posted')
    BY PodAssumption, FS_Subset DEF PostedBound
  <2> QED  BY <2>1, FS_Subset, FS_CardinalityType
<1>4. MinMember \in Nat /\ \A s \in Statuses : s.scheduled \in Nat
  <2>1. Cardinality(AllPods) \in Nat
    BY PostedCounts DEF PostedFew
  <2> QED  BY <2>1, SizeAssumption DEF Statuses, Counts
<1>5. ASSUME NEW s \in Honest PROVE s \in Honest'
  <2>1. s \in Statuses /\ s.scheduled <= Cardinality(posted')
    BY <1>3, <1>4 DEF Honest
  <2>2. s.phase = "Scheduled" => Own(Bound)' >= MinMember
    BY <1>1, <1>4 DEF Honest
  <2>3. Foreign = {} => /\ s.phase = "Running" => Own(Started)' >= MinMember
                        /\ s.phase = "Finished" => Own({"succeeded"})' >= MinMember
    BY <1>1, <1>2, <1>4 DEF Honest
  <2> QED  BY <2>1, <2>2, <2>3 DEF Honest
<1> QED  BY <1>5

\* Every field of a merged status comes from one of two honest ones.
LEMMA MergeHonest ==
    ASSUME api \in Honest, NEW old \in Statuses, NEW new \in Honest
    PROVE  Merge(old, new) \in Honest
<1>1. api \in Statuses /\ new \in Statuses
  BY DEF Honest
<1>2. /\ Merge(old, new) \in Statuses
      /\ Merge(old, new).phase \in {api.phase, new.phase}
      /\ Merge(old, new).scheduled \in {api.scheduled, new.scheduled}
  BY <1>1 DEF Merge, Statuses
<1> QED  BY <1>2 DEF Honest

\* The API server and the notifications stay honest when the patch is.
LEMMA PatchHonest ==
    ASSUME AllHonest, NEW old \in Statuses, NEW new \in Honest, Patch(old, new)
    PROVE  api' \in Honest /\ schedEvents' \in Seq(Honest) /\ ctrlEvents' \in Seq(Honest)
<1> DEFINE stored == Merge(old, new)
<1>1. stored \in Honest
  BY MergeHonest DEF AllHonest
<1>2. CASE stored = api
  BY <1>2 DEF Patch, AllHonest
<1>3. CASE stored # api
  <2>1. /\ api' = stored /\ schedEvents' = Append(schedEvents, stored)
        /\ ctrlEvents' = Append(ctrlEvents, stored)
    BY <1>3 DEF Patch
  <2>2. Append(schedEvents, stored) \in Seq(Honest) /\ Append(ctrlEvents, stored) \in Seq(Honest)
    <3>1. schedEvents \in Seq(Honest) /\ ctrlEvents \in Seq(Honest)
      BY DEF AllHonest
    <3> HIDE DEF stored
    <3> QED  BY <1>1, <3>1, QueueOf
  <2> QED  BY <1>1, <2>1, <2>2
<1> QED  BY <1>2, <1>3

\* PostBind adds the pod that it is called for: one that was not counted before.
LEMMA CopyHonest ==
    ASSUME PostedBound, PostedBound', schedCache \in Honest, Honest \subseteq Honest',
           UNCHANGED pod, NEW p \in Pods, p \notin posted, posted' = posted \cup {p}
    PROVE  PostBindCopy(schedCache) \in Honest'
<1> DEFINE copy == PostBindCopy(schedCache)
           n    == schedCache.scheduled + 1
<1>1. schedCache \in Statuses /\ schedCache.scheduled <= Cardinality(posted)
  BY DEF Honest
<1>2. /\ Cardinality(posted) \in Nat /\ Cardinality(posted') = Cardinality(posted) + 1
      /\ IsFiniteSet(posted)
  BY PostedCounts, FS_AddElement DEF PostedFew
<1>3. /\ Cardinality(posted') <= Own(Bound)' /\ Cardinality(posted') <= Cardinality(AllPods)
      /\ Cardinality(AllPods) \in Nat /\ Own(Bound)' \in Nat
  <2>1. PostedFew'
    BY PostedCounts, PTL
  <2> QED  BY <2>1 DEF PostedFew
<1>4. schedCache.scheduled \in Nat
  BY <1>1, <1>3 DEF Statuses, Counts
<1>5. n \in Nat /\ n <= Cardinality(posted') /\ n \in Counts /\ n <= Own(Bound)'
  BY <1>1, <1>2, <1>3, <1>4 DEF Counts
<1>6. /\ copy \in Statuses /\ copy.scheduled = n
      /\ copy.phase = IF n >= MinMember THEN "Scheduled" ELSE "Scheduling"
  BY <1>1, <1>5 DEF PostBindCopy, Statuses, Phases
<1>7. copy.phase = "Scheduled" => Own(Bound)' >= MinMember
  <2> HIDE DEF copy, n
  <2> QED  BY <1>3, <1>5, <1>6, SizeAssumption
<1> HIDE DEF copy
<1>8. copy.phase # "Running" /\ copy.phase # "Finished"
  BY <1>6
<1>9. copy \in Honest'
  BY <1>5, <1>6, <1>7, <1>8 DEF Honest
<1> QED  BY <1>9 DEF copy

\* What the controller counts: no more than all pods, and without pods of other
\* namespaces no more than has happened.
LEMMA SeenCounts ==
    ASSUME PodTypes, SeenBehind
    PROVE  /\ Count("running") \in Counts /\ Count("succeeded") \in Counts
           /\ Count("failed") \in Counts
           /\ Foreign = {} => /\ Count("succeeded") + Count("running") <= Own(Started)
                              /\ Count("succeeded") <= Own({"succeeded"})
<1> DEFINE In(phase) == {p \in Listed : seen[p] = phase}
<1>1. IsFiniteSet(AllPods)
  BY PodAssumption, FS_Union DEF AllPods
<1>2. ASSUME NEW phase
      PROVE  /\ IsFiniteSet(In(phase)) /\ Cardinality(In(phase)) \in Nat
             /\ Cardinality(In(phase)) <= Cardinality(AllPods)
  <2>1. In(phase) \subseteq AllPods
    BY DEF Listed
  <2> QED  BY <1>1, <2>1, FS_Subset, FS_CardinalityType
<1>3. ASSUME NEW phase PROVE Count(phase) = Cardinality(In(phase)) /\ Count(phase) \in Counts
  <2>1. Cardinality(AllPods) \in Nat
    BY <1>1, FS_CardinalityType
  <2> QED  BY <1>2, <2>1 DEF Count, Counts
<1>4. ASSUME Foreign = {}
      PROVE  /\ Count("succeeded") + Count("running") <= Own(Started)
             /\ Count("succeeded") <= Own({"succeeded"})
  <2>1. In("succeeded") \subseteq {p \in Pods : pod[p] \in {"succeeded"}}
    BY <1>4 DEF Listed, AllPods, SeenBehind
  <2>2. In("succeeded") \cup In("running") \subseteq {p \in Pods : pod[p] \in Started}
    BY <1>4 DEF Listed, AllPods, SeenBehind, Started
  <2>3. Cardinality(In("succeeded")) <= Cardinality({p \in Pods : pod[p] \in {"succeeded"}})
    BY <2>1, OwnCounts, FS_Subset
  <2>4. Cardinality(In("succeeded") \cup In("running")) <= Cardinality({p \in Pods : pod[p] \in Started})
    BY <2>2, OwnCounts, FS_Subset
  <2>5. In("succeeded") \cap In("running") = {}
    OBVIOUS
  <2>6. /\ Cardinality(In("succeeded") \cup In("running"))
             = Cardinality(In("succeeded")) + Cardinality(In("running")) - Cardinality({})
        /\ Cardinality({}) = 0
    <3>1. IsFiniteSet(In("succeeded")) /\ IsFiniteSet(In("running"))
      BY <1>2
    <3> HIDE DEF In
    <3> QED  BY <2>5, <3>1, FS_Union, FS_EmptySet
  <2>7. Cardinality(In("succeeded")) \in Nat /\ Cardinality(In("running")) \in Nat
    BY <1>2
  <2>8. /\ Count("succeeded") = Cardinality(In("succeeded"))
        /\ Count("running") = Cardinality(In("running"))
    BY <1>3
  <2> HIDE DEF In
  <2> QED  BY <2>3, <2>4, <2>6, <2>7, <2>8 DEF Own
<1> QED  BY <1>3, <1>4

\* syncHandler draws honest conclusions from an honest status and a pod cache
\* that is behind.
LEMMA SyncHonest ==
    ASSUME PodTypes, PostedBound, SeenBehind, NEW pg \in Honest
    PROVE  SyncStatus(pg) \in Honest
<1> DEFINE run  == Count("running")
           succ == Count("succeeded")
           fail == Count("failed")
           scheduled == IF pg.phase = "Scheduling" /\ pg.scheduled >= MinMember
                        THEN "Scheduled" ELSE pg.phase
           started   == IF scheduled = "Scheduled" /\ succ + run >= MinMember
                        THEN "Running" ELSE scheduled
           settled   == IF fail # 0 /\ fail + run + succ >= MinMember
                        THEN "Failed" ELSE started
           final     == IF succ >= MinMember THEN "Finished" ELSE settled
<1>1. pg \in Statuses /\ pg.phase \in Phases /\ pg.scheduled \in Counts
  BY DEF Honest, Statuses
<1>2. /\ run \in Counts /\ succ \in Counts /\ fail \in Counts
      /\ Foreign = {} => succ + run <= Own(Started) /\ succ <= Own({"succeeded"})
  BY SeenCounts
<1>3. /\ Own(Started) \in Nat /\ Own({"succeeded"}) \in Nat /\ Own(Bound) \in Nat
      /\ MinMember \in Nat /\ Counts \subseteq Nat
  <2>1. Cardinality(AllPods) \in Nat
    BY PostedCounts DEF PostedFew
  <2>2. Counts \subseteq Nat
    BY <2>1 DEF Counts
  <2> QED  BY <2>2, OwnCounts, SizeAssumption
<1>4. pg.scheduled <= Own(Bound) /\ pg.scheduled \in Nat
  <2>1. pg.scheduled <= Cardinality(posted)
    BY DEF Honest
  <2>2. pg.scheduled \in Nat
    BY <1>1, <1>3
  <2> QED  BY <1>3, <2>1, <2>2, PostedCounts DEF PostedFew
<1>5. CASE pg.phase = ""
  <2>1. SyncStatus(pg) = [pg EXCEPT !.phase = "Pending"]
    BY <1>5 DEF SyncStatus
  <2>2. [pg EXCEPT !.phase = "Pending"] \in Statuses
    BY <1>1 DEF Statuses, Phases
  <2> QED  BY <1>1, <2>1, <2>2 DEF Honest, Statuses
<1>6. CASE pg.phase = "Pending"
  <2> DEFINE phase == IF Cardinality(Listed) >= MinMember THEN "PreScheduling" ELSE pg.phase
  <2>1. SyncStatus(pg) = [pg EXCEPT !.phase = phase]
    BY <1>6 DEF SyncStatus
  <2>2. phase \in {"PreScheduling", "Pending"}
    BY <1>6
  <2> HIDE DEF phase
  <2>3. [pg EXCEPT !.phase = phase] \in Statuses
    BY <1>1, <2>2 DEF Statuses, Phases
  <2> QED  BY <1>1, <2>1, <2>2, <2>3 DEF Honest, Statuses
<1>7. CASE pg.phase # "" /\ pg.phase # "Pending"
  <2> DEFINE s == [pg EXCEPT !.phase = final, !.running = run, !.succeeded = succ, !.failed = fail]
  <2>1. SyncStatus(pg) = s
    BY <1>7 DEF SyncStatus
  <2> HIDE DEF run, succ, fail
  <2>2. scheduled \in Phases /\ (scheduled = "Scheduled" => Own(Bound) >= MinMember)
    <3>1. pg.phase = "Scheduled" => Own(Bound) >= MinMember
      BY DEF Honest
    <3>2. pg.scheduled >= MinMember => Own(Bound) >= MinMember
      BY <1>3, <1>4
    <3>3. scheduled \in Phases
      BY <1>1 DEF Phases
    <3> QED  BY <3>1, <3>2, <3>3
  <2>3. /\ Foreign = {} => /\ pg.phase = "Running" => Own(Started) >= MinMember
                           /\ pg.phase = "Finished" => Own({"succeeded"}) >= MinMember
    BY DEF Honest
  <2>4. /\ scheduled = "Running" => pg.phase = "Running"
        /\ scheduled = "Finished" => pg.phase = "Finished"
    OBVIOUS
  <2> HIDE DEF scheduled
  <2>5. /\ final \in Phases
        /\ final = "Scheduled" => scheduled = "Scheduled"
        /\ final = "Running" => scheduled = "Running" \/ succ + run >= MinMember
        /\ final = "Finished" => scheduled = "Finished" \/ succ >= MinMember
    BY <2>2 DEF Phases
  <2> HIDE DEF final
  <2>6. Foreign = {} => /\ final = "Running" => Own(Started) >= MinMember
                        /\ final = "Finished" => Own({"succeeded"}) >= MinMember
    BY <1>2, <1>3, <2>3, <2>4, <2>5
  <2>7. s \in Statuses /\ s.phase = final /\ s.scheduled = pg.scheduled
    BY <1>1, <1>2, <2>5 DEF Statuses
  <2> HIDE DEF s
  <2> QED  BY <2>1, <2>2, <2>5, <2>6, <2>7 DEF Honest
<1> QED  BY <1>5, <1>6, <1>7

\* A new status claims nothing.
LEMMA NewHonest ==
    ASSUME Cardinality(posted) \in Nat, Cardinality(AllPods) \in Nat
    PROVE  NewStatus \in Statuses /\ NewStatus \in Honest
<1>1. NewStatus \in Statuses /\ NewStatus.scheduled = 0 /\ NewStatus.phase = ""
  BY DEF NewStatus, Statuses, Phases, Counts
<1>2. "" # "Scheduled" /\ "" # "Running" /\ "" # "Finished"
  BY Zenon
<1>3. 0 <= Cardinality(posted)
  OBVIOUS
<1> QED  BY <1>1, <1>2, <1>3 DEF Honest

\* A step in which no pod moves and no PostBind begins.
LEMMA SameHonest ==
    ASSUME UNCHANGED <<pod, posted>>
    PROVE  Honest' = Honest /\ (PostedBound => PostedBound')
  BY DEF Honest, Own, PostedBound

\* A new PodGroup claims nothing.
LEMMA InitHonest == Init => HonestInv
<1> SUFFICES ASSUME Init PROVE HonestInv
  OBVIOUS
<1>1. Cardinality(posted) = 0 /\ Cardinality(AllPods) \in Nat
  <2>1. IsFiniteSet(AllPods)
    BY PodAssumption, FS_Union DEF AllPods
  <2> QED  BY <2>1, FS_EmptySet, FS_CardinalityType DEF Init
<1>2. NewStatus \in Statuses /\ NewStatus \in Honest
  BY <1>1, NewHonest
<1>4. AllHonest
  BY <1>2 DEF AllHonest, Init, Idle
<1>5. PodTypes /\ PostedBound /\ SeenBehind
  BY <1>2 DEF Init, Idle, PodTypes, PostedBound, SeenBehind, PodPhases
<1> QED  BY <1>4, <1>5 DEF HonestInv

\* Pods are created, bound, start and end.
LEMMA MoveStep ==
    ASSUME HonestInv, NEW p \in AllPods, CreatePod(p) \/ BindPod(p) \/ StartPod(p) \/ EndPod(p)
    PROVE  HonestInv'
<1>1. UNCHANGED <<api, schedCache, schedEvents, posted, bind, ctrlCache, ctrlEvents, seen, queued>>
  BY DEF CreatePod, BindPod, StartPod, EndPod, MovePod
<1>2. /\ pod' \in [AllPods -> PodPhases]
      /\ \A q \in AllPods : /\ pod[q] \in Bound => pod'[q] \in Bound
                            /\ pod[q] \in Started => pod'[q] \in Started
                            /\ pod[q] = "succeeded" => pod'[q] = "succeeded"
  BY DEF CreatePod, BindPod, StartPod, EndPod, MovePod, HonestInv, PodTypes, PodPhases, Bound, Started
<1>3. PodTypes'
  BY <1>1, <1>2 DEF HonestInv, PodTypes
<1>4. PostedBound' /\ SeenBehind'
  BY <1>1, <1>2 DEF HonestInv, PostedBound, SeenBehind, AllPods
<1>5. Honest \subseteq Honest'
  BY <1>1, <1>2, <1>4, HonestGrows DEF HonestInv, AllPods
<1>6. AllHonest'
  <2>1. schedEvents \in Seq(Honest) /\ ctrlEvents \in Seq(Honest)
    BY DEF HonestInv, AllHonest
  <2>2. schedEvents \in Seq(Honest') /\ ctrlEvents \in Seq(Honest')
    BY <1>5, <2>1, QueueOf
  <2> QED  BY <1>1, <1>5, <2>2 DEF HonestInv, AllHonest
<1> QED  BY <1>3, <1>4, <1>6 DEF HonestInv

\* PostBind takes its copy.
LEMMA PostBindStep ==
    ASSUME HonestInv, NEW p \in Pods, PostBind(p)
    PROVE  HonestInv'
<1> DEFINE copy == PostBindCopy(schedCache)
<1>1. /\ UNCHANGED <<pod, api, schedCache, schedEvents, ctrlCache, ctrlEvents, seen, queued>>
      /\ p \notin posted /\ posted' = posted \cup {p} /\ pod[p] \notin {"absent", "pending"}
      /\ bind' = [at |-> IF copy.phase # schedCache.phase THEN "patch" ELSE "store",
                  pod |-> p, copy |-> copy, outer |-> TRUE, inner |-> FALSE]
  BY DEF PostBind
<1>2. PostedBound'
  BY <1>1 DEF HonestInv, PodTypes, PodPhases, PostedBound, Bound, AllPods
<1>3. Honest \subseteq Honest'
  BY <1>1, <1>2, HonestGrows DEF HonestInv
<1>4. copy \in Honest' /\ copy \in Statuses
  <2>1. copy \in Honest'
    BY <1>1, <1>2, <1>3, CopyHonest DEF HonestInv, AllHonest
  <2> HIDE DEF copy
  <2> QED  BY <2>1 DEF Honest
<1> HIDE DEF copy
<1>5. PodTypes' /\ SeenBehind'
  BY <1>1, <1>4 DEF HonestInv, PodTypes, SeenBehind
<1>6. AllHonest'
  <2>1. schedEvents \in Seq(Honest) /\ ctrlEvents \in Seq(Honest)
    BY DEF HonestInv, AllHonest
  <2>2. schedEvents \in Seq(Honest') /\ ctrlEvents \in Seq(Honest')
    BY <1>3, <2>1, QueueOf
  <2>3. bind'.copy \in Honest'
    BY <1>1, <1>4
  <2> QED  BY <1>1, <1>3, <2>2, <2>3 DEF HonestInv, AllHonest
<1> QED  BY <1>2, <1>5, <1>6 DEF HonestInv

\* The other steps of the scheduler process.
LEMMA SchedulerStep ==
    ASSUME HonestInv, PostBindPatch \/ PostBindStore \/ SchedDeliver
    PROVE  HonestInv'
<1>1. UNCHANGED <<pod, posted, ctrlCache, seen, queued>>
  BY DEF PostBindPatch, PostBindStore, SchedDeliver
<1>2. Honest' = Honest /\ PostedBound'
  BY <1>1, SameHonest DEF HonestInv
<1>3. SeenBehind'
  BY <1>1 DEF HonestInv, SeenBehind
<1>4. /\ api \in Honest /\ schedCache \in Honest /\ bind.copy \in Honest /\ ctrlCache \in Honest
      /\ schedEvents \in Seq(Honest) /\ ctrlEvents \in Seq(Honest)
  BY DEF HonestInv, AllHonest
<1>5. Idle.copy \in Honest /\ Idle \in [at : {"idle", "patch", "store"}, pod : Pods \cup {NoPod},
                                        copy : Statuses, outer : BOOLEAN, inner : BOOLEAN]
  <2>1. Cardinality(AllPods) \in Nat /\ Cardinality(posted) \in Nat
    BY PostedCounts DEF HonestInv, PostedFew
  <2>2. NewStatus \in Statuses /\ NewStatus \in Honest
    BY <2>1, NewHonest
  <2> QED  BY <2>2 DEF Idle
<1>6. ASSUME /\ api' \in Honest /\ schedCache' \in Honest /\ bind'.copy \in Honest
             /\ schedEvents' \in Seq(Honest) /\ ctrlEvents' \in Seq(Honest)
             /\ bind' \in [at : {"idle", "patch", "store"}, pod : Pods \cup {NoPod},
                           copy : Statuses, outer : BOOLEAN, inner : BOOLEAN]
      PROVE  HonestInv'
  BY <1>1, <1>2, <1>3, <1>4, <1>6 DEF HonestInv, AllHonest, PodTypes
<1>7. CASE PostBindPatch
  <2>1. CASE /\ Patch(schedCache, bind.copy)
             /\ bind' = [bind EXCEPT !.at = "store", !.inner = TRUE]
    <3>1. schedCache' = schedCache /\ schedCache \in Statuses
      BY <1>7, <1>4 DEF PostBindPatch, Honest
    <3>2. api' \in Honest /\ schedEvents' \in Seq(Honest) /\ ctrlEvents' \in Seq(Honest)
      BY <1>4, <2>1, <3>1, PatchHonest DEF HonestInv
    <3>3. /\ bind'.copy = bind.copy
          /\ bind' \in [at : {"idle", "patch", "store"}, pod : Pods \cup {NoPod},
                        copy : Statuses, outer : BOOLEAN, inner : BOOLEAN]
      BY <2>1 DEF HonestInv, PodTypes
    <3> QED  BY <1>4, <1>6, <3>1, <3>2, <3>3
  <2>2. CASE bind' = Idle /\ UNCHANGED <<api, schedEvents, ctrlEvents>>
    BY <1>4, <1>5, <1>6, <1>7, <2>2 DEF PostBindPatch
  <2> QED  BY <1>7, <2>1, <2>2 DEF PostBindPatch
<1>8. CASE PostBindStore
  <2>1. schedCache' \in Honest
    <3>1. schedCache \in Statuses /\ bind.copy \in Statuses
      BY <1>4 DEF Honest
    <3>2. /\ schedCache' \in Statuses /\ schedCache'.phase \in {schedCache.phase, bind.copy.phase}
          /\ schedCache'.scheduled \in {schedCache.scheduled, bind.copy.scheduled}
      BY <1>8, <3>1 DEF PostBindStore, Statuses
    <3> QED  BY <1>4, <3>2 DEF Honest
  <2> QED  BY <1>4, <1>5, <1>6, <1>8, <2>1 DEF PostBindStore
<1>9. CASE SchedDeliver
  <2>1. Head(schedEvents) \in Honest /\ Tail(schedEvents) \in Seq(Honest)
    BY <1>4, <1>9, QueueOf DEF SchedDeliver
  <2>2. /\ bind'.copy = bind.copy
        /\ bind' \in [at : {"idle", "patch", "store"}, pod : Pods \cup {NoPod},
                      copy : Statuses, outer : BOOLEAN, inner : BOOLEAN]
    BY <1>9 DEF SchedDeliver, HonestInv, PodTypes
  <2> QED  BY <1>4, <1>6, <1>9, <2>1, <2>2 DEF SchedDeliver
<1> QED  BY <1>7, <1>8, <1>9

\* After a restart of the scheduler every bound pod is one whose PostBind has run
\* or never will.
LEMMA RestartStep ==
    ASSUME HonestInv, SchedRestart
    PROVE  HonestInv'
<1>1. /\ UNCHANGED <<pod, api, ctrlCache, ctrlEvents, seen, queued>>
      /\ posted' = {p \in Pods : pod[p] \notin {"absent", "pending"}}
      /\ bind' = Idle /\ schedCache' = api /\ schedEvents' = <<>>
  BY DEF SchedRestart
<1>2. PostedBound' /\ posted \subseteq posted'
  BY <1>1 DEF HonestInv, PodTypes, PodPhases, PostedBound, Bound, AllPods
<1>3. Honest \subseteq Honest'
  BY <1>1, <1>2, HonestGrows DEF HonestInv
<1>4. NewStatus \in Statuses /\ NewStatus \in Honest'
  <2>1. Cardinality(AllPods) \in Nat /\ Cardinality(posted) \in Nat
    BY PostedCounts DEF HonestInv, PostedFew
  <2> QED  BY <1>3, <2>1, NewHonest
<1>5. PodTypes' /\ SeenBehind'
  BY <1>1, <1>4 DEF HonestInv, PodTypes, SeenBehind, Idle
<1>6. AllHonest'
  <2>1. ctrlEvents \in Seq(Honest)
    BY DEF HonestInv, AllHonest
  <2>2. ctrlEvents \in Seq(Honest') /\ <<>> \in Seq(Honest')
    BY <1>3, <2>1, QueueOf
  <2>3. bind'.copy \in Honest'
    BY <1>1, <1>4 DEF Idle
  <2> QED  BY <1>1, <1>3, <2>2, <2>3 DEF HonestInv, AllHonest
<1> QED  BY <1>2, <1>5, <1>6 DEF HonestInv

\* The controller process, and what its pod informer brings.
LEMMA ControllerStep ==
    ASSUME HonestInv, Sync \/ CtrlDeliver \/ CtrlRestart \/ \E p \in AllPods : PodDeliver(p)
    PROVE  HonestInv'
<1>1. UNCHANGED <<pod, posted, schedCache, bind>>
  BY DEF Sync, CtrlDeliver, CtrlRestart, PodDeliver
<1>2. Honest' = Honest /\ PostedBound'
  BY <1>1, SameHonest DEF HonestInv
<1>3. /\ api \in Honest /\ schedCache \in Honest /\ bind.copy \in Honest /\ ctrlCache \in Honest
      /\ schedEvents \in Seq(Honest) /\ ctrlEvents \in Seq(Honest)
  BY DEF HonestInv, AllHonest
<1>4. ASSUME /\ api' \in Honest /\ ctrlCache' \in Honest
             /\ schedEvents' \in Seq(Honest) /\ ctrlEvents' \in Seq(Honest)
             /\ seen' \in [AllPods -> PodPhases] /\ SeenBehind' /\ queued' \in BOOLEAN
      PROVE  HonestInv'
  BY <1>1, <1>2, <1>3, <1>4 DEF HonestInv, AllHonest, PodTypes
<1>5. CASE Sync
  <2>1. SyncStatus(ctrlCache) \in Honest /\ ctrlCache \in Statuses
    BY <1>3, SyncHonest DEF HonestInv, Honest
  <2>2. UNCHANGED <<ctrlCache, seen>> /\ queued' \in BOOLEAN
    BY <1>5 DEF Sync, HonestInv, PodTypes
  <2>3. api' \in Honest /\ schedEvents' \in Seq(Honest) /\ ctrlEvents' \in Seq(Honest)
    <3>1. CASE Patch(ctrlCache, SyncStatus(ctrlCache))
      BY <2>1, <3>1, PatchHonest DEF HonestInv
    <3>2. CASE UNCHANGED <<api, schedEvents, ctrlEvents>>
      BY <1>3, <3>2
    <3> QED  BY <1>5, <3>1, <3>2 DEF Sync
  <2>4. seen' \in [AllPods -> PodPhases] /\ SeenBehind'
    BY <1>1, <2>2 DEF HonestInv, PodTypes, SeenBehind
  <2> QED  BY <1>3, <1>4, <2>2, <2>3, <2>4
<1>6. CASE CtrlDeliver
  <2>1. Head(ctrlEvents) \in Honest /\ Tail(ctrlEvents) \in Seq(Honest)
    BY <1>3, <1>6, QueueOf DEF CtrlDeliver
  <2>2. seen' \in [AllPods -> PodPhases] /\ SeenBehind' /\ queued' \in BOOLEAN
    BY <1>1, <1>6 DEF CtrlDeliver, HonestInv, PodTypes, SeenBehind
  <2> QED  BY <1>3, <1>4, <1>6, <2>1, <2>2 DEF CtrlDeliver
<1>7. CASE CtrlRestart
  <2>1. seen' \in [AllPods -> PodPhases] /\ SeenBehind' /\ queued' \in BOOLEAN
    BY <1>7 DEF CtrlRestart, SeenBehind, PodPhases, Enqueues
  <2>2. ctrlCache' = api /\ ctrlEvents' = <<>> /\ UNCHANGED <<api, schedEvents>>
    BY <1>7 DEF CtrlRestart
  <2>3. <<>> \in Seq(Honest)
    BY <1>3, QueueOf
  <2> QED  BY <1>3, <1>4, <2>1, <2>2, <2>3
<1>8. ASSUME NEW p \in AllPods, PodDeliver(p) PROVE HonestInv'
  <2>1. seen' \in [AllPods -> PodPhases] /\ SeenBehind' /\ queued' \in BOOLEAN
    BY <1>8 DEF PodDeliver, HonestInv, PodTypes, SeenBehind, Enqueues, Started
  <2> QED  BY <1>3, <1>4, <1>8, <2>1 DEF PodDeliver
<1> QED  BY <1>5, <1>6, <1>7, <1>8

\* Every status that either process reads, computes or writes is honest.
THEOREM HonestInvariance == Spec => []HonestInv
<1>1. HonestInv /\ [Next]_vars => HonestInv'
  <2> SUFFICES ASSUME HonestInv, [Next]_vars PROVE HonestInv'
    OBVIOUS
  <2>1. ASSUME UNCHANGED vars PROVE HonestInv'
    <3>1. Honest' = Honest /\ PostedBound'
      BY <2>1, SameHonest DEF vars, HonestInv
    <3> QED  BY <2>1, <3>1 DEF vars, HonestInv, PodTypes, SeenBehind, AllHonest
  <2> QED  BY <2>1, MoveStep, PostBindStep, SchedulerStep, RestartStep, ControllerStep DEF Next
<1> QED  BY <1>1, InitHonest, PTL DEF Spec

\* Every variable keeps its type: the counts of a status never exceed the number
\* of pods, although PostBind adds to a count that it read from a stale cache.
THEOREM TypeCorrect == Spec => []TypeOK
<1>1. HonestInv => TypeOK
  <2> SUFFICES ASSUME HonestInv PROVE TypeOK
    OBVIOUS
  <2>1. Honest \subseteq Statuses
    BY DEF Honest
  <2>2. schedEvents \in Seq(Honest) /\ ctrlEvents \in Seq(Honest)
    BY DEF HonestInv, AllHonest
  <2>3. schedEvents \in Seq(Statuses) /\ ctrlEvents \in Seq(Statuses)
    BY <2>1, <2>2, QueueOf
  <2> QED  BY <2>1, <2>3 DEF HonestInv, PodTypes, PostedBound, AllHonest, TypeOK
<1> QED  BY <1>1, HonestInvariance, PTL

\* The status in the API server never claims more than the pods of the group have
\* done, for any number of pods and any lag of the caches, with failing patches
\* and restarts of both processes, if no other namespace uses the group's name.
THEOREM NeverOverclaims ==
    ASSUME Foreign = {}
    PROVE  Spec => []NoOverclaim
<1>1. HonestInv => NoOverclaim
  <2> SUFFICES ASSUME HonestInv PROVE NoOverclaim
    OBVIOUS
  <2>1. /\ api \in Statuses /\ api.scheduled <= Cardinality(posted)
        /\ api.phase = "Scheduled" => Own(Bound) >= MinMember
        /\ api.phase = "Running" => Own(Started) >= MinMember
        /\ api.phase = "Finished" => Own({"succeeded"}) >= MinMember
    BY DEF HonestInv, AllHonest, Honest
  <2>2. /\ Cardinality(posted) <= Own(Bound) /\ Cardinality(posted) \in Nat /\ Own(Bound) \in Nat
        /\ Cardinality(AllPods) \in Nat
    BY PostedCounts DEF HonestInv, PostedFew
  <2>3. api.scheduled \in Nat
    BY <2>1, <2>2 DEF Statuses, Counts
  <2>4. api.scheduled <= Own(Bound)
    BY <2>1, <2>2, <2>3
  <2> QED  BY <2>1, <2>4 DEF NoOverclaim, Bound, Started
<1> QED  BY <1>1, HonestInvariance, PTL

=============================================================================
