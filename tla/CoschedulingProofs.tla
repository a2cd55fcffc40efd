------------------------- MODULE CoschedulingProofs -------------------------
(***************************************************************************)
(* Proofs about Coscheduling for any set of pods, any groups and any       *)
(* cluster size, under every fault.                                        *)
(*                                                                         *)
(* RoomForGang is not inductive: Permit decides on a snapshot while other  *)
(* goroutines move on.  What makes it hold is that only the scheduling     *)
(* goroutine adds assigned pods, one per cycle, so that the snapshot       *)
(* covers all the pods assigned so far except the pod of the cycle.        *)
(***************************************************************************)
EXTENDS Coscheduling, FiniteSetTheorems, TLAPS

\* Only the pod of the running cycle is inside the cycle.
CycleOwner == \A p \in Pods : pc[p] \in InCycle => cycle = p

\* Pods assigned now were assigned when the cycle began, but for its own pod.
SnapshotCovers == cycle # NoPod => Assigned \subseteq snapshot \cup {cycle}

\* Filter found a free slot in the snapshot; Permit found the group complete.
RoomCounted ==
    \A p \in Pods :
        /\ pc[p] \in {"permit", "allowing"} => Cardinality(snapshot) < Capacity
        /\ pc[p] = "allowing" => Ready(Label[p])

\* Steps past a nil check on the PodGroup belong to labelled pods.
LabelKnown ==
    \A p \in Pods : pc[p] \in {"resources"} \cup Iterators => Label[p] \in Groups

IInv == TypeOK /\ LabelKnown /\ CycleOwner /\ SnapshotCovers /\ RoomCounted

-----------------------------------------------------------------------------
\* A PodGroup that GetPodGroup returns is one the lister knows.
LEMMA GetPodGroupKnown ==
    ASSUME NEW p \in Pods, TypeOK
    PROVE  /\ GetPodGroup(p) # NoGroup => GetPodGroup(p) = Label[p] /\ Label[p] \in Groups
           /\ Label[p] = NoGroup => GetPodGroup(p) = NoGroup
  BY GroupAssumption DEF GetPodGroup, TypeOK

\* The pods outside a set M, and M's own, add up to all of a finite set.
LEMMA SplitCardinality ==
    ASSUME NEW S, NEW M, IsFiniteSet(S)
    PROVE  /\ Cardinality(S) \in Nat /\ Cardinality(S \cap M) \in Nat
           /\ IsFiniteSet(S \ M)
           /\ Cardinality(S \ M) = Cardinality(S) - Cardinality(S \cap M)
  BY FS_Difference, FS_Intersection, FS_CardinalityType

-----------------------------------------------------------------------------
\* A step moves only the pod it is about, so it is enough to look at that pod.
LEMMA TypeStep ==
    TypeOK /\ LabelKnown /\ [Next]_vars => TypeOK' /\ LabelKnown'
<1> SUFFICES ASSUME TypeOK, LabelKnown, [Next]_vars
             PROVE  TypeOK' /\ LabelKnown'
  OBVIOUS
<1> DEFINE TypePart == TypeOK /\ LabelKnown
<1> USE PodsAssumption, GroupAssumption, GetPodGroupKnown
        DEF Goto, Requeue, Send, DenyGroup, Steps, InCycle, Binding, Iterators
<1>1. ASSUME NEW p \in Pods, StartCycle(p) PROVE TypePart'
  BY <1>1 DEF TypeOK, LabelKnown, StartCycle, Assigned
<1>2. ASSUME NEW p \in Pods, PreFilter(p) PROVE TypePart'
  BY <1>2 DEF TypeOK, LabelKnown, PreFilter
<1>3. ASSUME NEW p \in Pods, PreFilterResources(p) PROVE TypePart'
  BY <1>3 DEF TypeOK, LabelKnown, PreFilterResources
<1>4. ASSUME NEW p \in Pods, Filter(p) PROVE TypePart'
  BY <1>4 DEF TypeOK, LabelKnown, Filter
<1>5. ASSUME NEW p \in Pods, PostFilter(p) PROVE TypePart'
  <2> DEFINE g == GetPodGroup(p)
  <2>1. CASE /\ ~noop /\ g # NoGroup /\ ~Tolerated(g)
             /\ Goto(p, "rejecting")
             /\ todo' = [todo EXCEPT ![p] = WaitingSiblings(p)]
             /\ UNCHANGED <<live, pgs, cycle, snapshot, noop, signal, denied, permitted>>
    BY <2>1 DEF TypeOK, LabelKnown, WaitingSiblings, WaitingPods
  <2>2. CASE /\ Requeue(p) /\ cycle' = NoPod /\ noop' = FALSE
             /\ UNCHANGED <<live, pgs, snapshot, signal, todo, denied, permitted>>
    BY <2>2 DEF TypeOK, LabelKnown
  <2> QED  BY <1>5, <2>1, <2>2 DEF PostFilter
<1>6. ASSUME NEW p \in Pods, PostFilterDone(p) PROVE TypePart'
  BY <1>6 DEF TypeOK, LabelKnown, PostFilterDone
<1>7. ASSUME NEW p \in Pods, Permit(p) PROVE TypePart'
  BY <1>7 DEF TypeOK, LabelKnown, Permit, WaitingSiblings, WaitingPods
<1>8. ASSUME NEW p \in Pods, PermitDone(p) PROVE TypePart'
  BY <1>8 DEF TypeOK, LabelKnown, PermitDone
<1>9. ASSUME NEW p \in Pods, Enlist(p) PROVE TypePart'
  BY <1>9 DEF TypeOK, LabelKnown, Enlist
<1>10. ASSUME NEW p \in Pods, WaitOnPermit(p) PROVE TypePart'
  BY <1>10 DEF TypeOK, LabelKnown, WaitOnPermit
<1>11. ASSUME NEW p \in Pods, Bind(p) PROVE TypePart'
  BY <1>11 DEF TypeOK, LabelKnown, Bind
<1>12. ASSUME NEW p \in Pods, Unreserve(p) PROVE TypePart'
  BY <1>12 DEF TypeOK, LabelKnown, Unreserve, WaitingSiblings, WaitingPods
<1>13. ASSUME NEW p \in Pods, UnreserveDone(p) PROVE TypePart'
  BY <1>13 DEF TypeOK, LabelKnown, UnreserveDone
<1>14. ASSUME NEW p \in Pods, Forget(p) PROVE TypePart'
  BY <1>14 DEF TypeOK, LabelKnown, Forget
<1>15. ASSUME NEW p \in Pods, Timeout(p) PROVE TypePart'
  BY <1>15 DEF TypeOK, LabelKnown, Timeout
<1>16. ASSUME NEW p \in Pods, CreatePod(p) PROVE TypePart'
  BY <1>16 DEF TypeOK, LabelKnown, CreatePod
<1>17. ASSUME NEW p \in Pods, DeletePod(p) PROVE TypePart'
  BY <1>17 DEF TypeOK, LabelKnown, DeletePod
<1>18. ASSUME NEW p \in Pods, NEW q \in Pods, Visit(p, q) PROVE TypePart'
  BY <1>18 DEF TypeOK, LabelKnown, Visit
<1>19. ASSUME NEW g \in Groups, ExpireDenied(g) PROVE TypePart'
  BY <1>19 DEF TypeOK, LabelKnown, ExpireDenied
<1>20. ASSUME NEW g \in Groups, ExpirePermitted(g) PROVE TypePart'
  BY <1>20 DEF TypeOK, LabelKnown, ExpirePermitted
<1>21. ASSUME NEW g \in Groups, CreatePG(g) PROVE TypePart'
  BY <1>21 DEF TypeOK, LabelKnown, CreatePG
<1>22. ASSUME NEW g \in Groups, DeletePG(g) PROVE TypePart'
  BY <1>22 DEF TypeOK, LabelKnown, DeletePG
<1>23. CASE Restart
  BY <1>23 DEF TypeOK, LabelKnown, Restart
<1>24. CASE UNCHANGED vars
  BY <1>24 DEF TypeOK, LabelKnown, vars
<1> QED
  BY <1>1, <1>2, <1>3, <1>4, <1>5, <1>6, <1>7, <1>8, <1>9, <1>10, <1>11, <1>12,
     <1>13, <1>14, <1>15, <1>16, <1>17, <1>18, <1>19, <1>20, <1>21, <1>22, <1>23, <1>24
     DEF Next, Step

\* A step that keeps the snapshot keeps what was counted in it.
LEMMA ReadyStable ==
    ASSUME snapshot' = snapshot
    PROVE  \A g : Ready(g)' = Ready(g)
  BY DEF Ready, CalculateAssignedPods, Members

\* Each step keeps the facts about the scheduling goroutine and its snapshot:
\* one cycle at a time, and no slot is taken behind the snapshot's back.
LEMMA CycleStep ==
    IInv /\ [Next]_vars => CycleOwner' /\ SnapshotCovers' /\ RoomCounted'
<1> SUFFICES ASSUME IInv, [Next]_vars
             PROVE  CycleOwner' /\ SnapshotCovers' /\ RoomCounted'
  OBVIOUS
<1> DEFINE CyclePart == CycleOwner /\ SnapshotCovers /\ RoomCounted
<1> USE PodsAssumption, GroupAssumption, GetPodGroupKnown, ReadyStable
        DEF IInv, TypeOK, CycleOwner, SnapshotCovers, RoomCounted, Assigned, Goto, Requeue,
            Steps, InCycle, Binding, Occupies, Iterators
<1>1. ASSUME NEW p \in Pods, StartCycle(p) PROVE CyclePart'
  BY <1>1 DEF StartCycle
<1>2. ASSUME NEW p \in Pods, PreFilter(p) PROVE CyclePart'
  BY <1>2 DEF PreFilter
<1>3. ASSUME NEW p \in Pods, PreFilterResources(p) PROVE CyclePart'
  BY <1>3 DEF PreFilterResources
<1>4. ASSUME NEW p \in Pods, Filter(p) PROVE CyclePart'
  BY <1>4 DEF Filter
<1>5. ASSUME NEW p \in Pods, PostFilter(p) PROVE CyclePart'
  BY <1>5 DEF PostFilter
<1>6. ASSUME NEW p \in Pods, PostFilterDone(p) PROVE CyclePart'
  BY <1>6 DEF PostFilterDone
<1>7. ASSUME NEW p \in Pods, Permit(p) PROVE CyclePart'
  BY <1>7 DEF Permit
<1>8. ASSUME NEW p \in Pods, PermitDone(p) PROVE CyclePart'
  BY <1>8 DEF PermitDone
<1>9. ASSUME NEW p \in Pods, Enlist(p) PROVE CyclePart'
  BY <1>9 DEF Enlist
<1>10. ASSUME NEW p \in Pods, WaitOnPermit(p) PROVE CyclePart'
  BY <1>10 DEF WaitOnPermit
<1>11. ASSUME NEW p \in Pods, Bind(p) PROVE CyclePart'
  BY <1>11 DEF Bind
<1>12. ASSUME NEW p \in Pods, Unreserve(p) PROVE CyclePart'
  BY <1>12 DEF Unreserve
<1>13. ASSUME NEW p \in Pods, UnreserveDone(p) PROVE CyclePart'
  BY <1>13 DEF UnreserveDone
<1>14. ASSUME NEW p \in Pods, Forget(p) PROVE CyclePart'
  BY <1>14 DEF Forget
<1>15. ASSUME NEW p \in Pods, Timeout(p) PROVE CyclePart'
  BY <1>15 DEF Timeout
<1>16. ASSUME NEW p \in Pods, CreatePod(p) PROVE CyclePart'
  BY <1>16 DEF CreatePod
<1>17. ASSUME NEW p \in Pods, DeletePod(p) PROVE CyclePart'
  BY <1>17 DEF DeletePod
<1>18. ASSUME NEW p \in Pods, NEW q \in Pods, Visit(p, q) PROVE CyclePart'
  BY <1>18 DEF Visit
<1>19. ASSUME NEW g \in Groups, ExpireDenied(g) PROVE CyclePart'
  BY <1>19 DEF ExpireDenied
<1>20. ASSUME NEW g \in Groups, ExpirePermitted(g) PROVE CyclePart'
  BY <1>20 DEF ExpirePermitted
<1>21. ASSUME NEW g \in Groups, CreatePG(g) PROVE CyclePart'
  BY <1>21 DEF CreatePG
<1>22. ASSUME NEW g \in Groups, DeletePG(g) PROVE CyclePart'
  BY <1>22 DEF DeletePG
<1>23. CASE Restart
  BY <1>23 DEF Restart
<1>24. CASE UNCHANGED vars
  BY <1>24 DEF vars
<1> QED
  BY <1>1, <1>2, <1>3, <1>4, <1>5, <1>6, <1>7, <1>8, <1>9, <1>10, <1>11, <1>12,
     <1>13, <1>14, <1>15, <1>16, <1>17, <1>18, <1>19, <1>20, <1>21, <1>22, <1>23, <1>24
     DEF Next, Step

\* Before the first pod there is no cycle and nothing is counted.
LEMMA InitInv == Init => IInv
  BY GroupAssumption, PodsAssumption
     DEF Init, IInv, TypeOK, LabelKnown, CycleOwner, SnapshotCovers, RoomCounted,
         Assigned, Occupies, Steps, InCycle, Binding, Iterators

\* The types and the facts about the running cycle hold in every reachable state.
THEOREM Invariance == Spec => []IInv
<1>1. IInv /\ [Next]_vars => IInv'
  BY TypeStep, CycleStep DEF IInv
<1> QED
  BY InitInv, <1>1, PTL DEF Spec

\* The variables keep their types; in particular only PodGroup names reach the
\* deny list and the permitted list (PreFilter, PostFilter and Unreserve return
\* early on a nil PodGroup).
THEOREM TypeCorrect == Spec => []TypeOK
  BY Invariance, PTL DEF IInv

-----------------------------------------------------------------------------
\* What Permit counted in the snapshot, and the slots Filter found there, leave
\* room for minMember pods in the cluster as it is now.
LEMMA RoomCountedIsEnough == IInv => RoomForGang
<1> SUFFICES ASSUME IInv, NEW p \in Pods, pc[p] = "allowing"
             PROVE  Cardinality(Assigned \ Members(Label[p])) + MinMember[Label[p]] <= Capacity
  BY DEF RoomForGang
<1> DEFINE M == Members(Label[p])
<1>1. IsFiniteSet(snapshot)
  BY PodsAssumption, FS_Subset DEF IInv, TypeOK
<1>2. Assigned \ M \subseteq snapshot \ M
  <2>1. cycle = p /\ cycle # NoPod
    BY PodsAssumption DEF IInv, CycleOwner, InCycle
  <2>2. p \in M
    BY DEF Members
  <2> QED  BY <2>1, <2>2 DEF IInv, SnapshotCovers
<1>3. Cardinality(Assigned \ M) <= Cardinality(snapshot \ M) /\ Cardinality(Assigned \ M) \in Nat
  BY <1>1, <1>2, SplitCardinality, FS_Subset, FS_CardinalityType
<1>4. Cardinality(snapshot) < Capacity /\ Cardinality(snapshot \cap M) + 1 >= MinMember[Label[p]]
  BY DEF IInv, RoomCounted, Ready, CalculateAssignedPods
<1>5. MinMember[Label[p]] \in Nat /\ Capacity \in Nat
  BY SizeAssumption DEF IInv, LabelKnown, Iterators
<1>6. /\ Cardinality(snapshot) \in Nat /\ Cardinality(snapshot \cap M) \in Nat
      /\ Cardinality(snapshot \ M) = Cardinality(snapshot) - Cardinality(snapshot \cap M)
  BY <1>1, SplitCardinality
<1> HIDE DEF M
<1> QED
  BY <1>3, <1>4, <1>5, <1>6 DEF M

\* A gang is released only when the slots left by other pods hold minMember
\* pods of it: for every cluster, every set of groups and every fault, although
\* Permit counts in a snapshot that binding goroutines have outrun.
THEOREM GangHasRoom == Spec => []RoomForGang
  BY Invariance, RoomCountedIsEnough, PTL

-----------------------------------------------------------------------------
(***************************************************************************)
(* Coscheduling releases whole gangs: GangAllOrNothing is an invariant and *)
(* Coscheduling implements GangAdmission, for any pods, groups and cluster *)
(* size, as long as the environment does nothing to pods on their way      *)
(* (Undisturbed: no timer fires, no bind fails, nothing is deleted, no     *)
(* restart, a denial outlives its refused pods).                           *)
(*                                                                         *)
(* Permit counts in a snapshot, so the proof is about what the pods of the *)
(* snapshot may have become: none of them is refused, because a group with *)
(* a refused pod is on the deny list (or its refusal is still under way in *)
(* the one scheduling goroutine), and PreFilter stops a pod of such a      *)
(* group; and nobody is refused later, because PostFilter counts the whole *)
(* gang in its snapshot as soon as one pod of it was released.             *)
(***************************************************************************)
\* The environment may make Filter fail, and does no more.
Undisturbed == Faults \subseteq {"nofit"}

\* Nothing is deleted: a pod that is anywhere exists.
PodsExist == \A p \in Pods : pc[p] # "absent" => p \in live

\* Only pods in the map of waiting pods are signalled.
SignalsWaiting == \A p \in Pods : signal[p] # "none" => pc[p] = "waiting"

\* A loop visits waiting siblings: the lock keeps them in the map meanwhile.
VisitsSiblings ==
    \A r \in Pods : pc[r] \in Iterators =>
        \A q \in todo[r] : pc[q] = "waiting" /\ Label[q] = Label[r]

\* The pod of the cycle is in the cycle or failing on behalf of it, and it was
\* not assigned when the cycle began.
Failing == {"unreserve", "unreserving", "forget"}
CyclePod ==
    /\ cycle \notin snapshot
    /\ cycle # NoPod => pc[cycle] \in InCycle \cup Failing

\* A group that the lister does not know has nobody assigned but, for a moment,
\* the pod whose Permit is about to fail; and when it fails that pod is alone.
UnknownGroupEmpty ==
    \A p \in Assigned \cup snapshot : Label[p] \in Groups \ pgs =>
        p = cycle /\ pc[p] \in {"permit"} \cup Failing
FailsAlone ==
    \A p \in Pods : pc[p] \in Failing /\ cycle = p =>
        (Assigned \cup snapshot) \cap Members(Label[p]) \subseteq {p}

\* A group with a refused pod is denied, or its loop of refusals is running.
DenialCovers ==
    \A g \in Groups : \A q \in Doomed(g) :
        \/ g \in denied
        \/ q = cycle
        \/ \E r \in Pods : pc[r] = "rejecting" /\ Label[r] = g

\* Past PreFilter's look at the deny list no sibling is refused.
NoneDoomedPastPreFilter ==
    \A p \in Pods : pc[p] \in {"resources", "filter", "permit", "allowing"} /\ Label[p] \in Groups
                        => Doomed(Label[p]) = {}

\* Nobody is refused in a group of which a pod was released, and nobody is
\* released while PostFilter refuses the group or Permit holds a pod of it back.
ReleasedNotDoomed == \A g \in Groups : Released(g) # {} => Doomed(g) = {}
HeldBackUnreleased ==
    \A p \in Pods : pc[p] \in {"rejecting", "enlist"} /\ Label[p] \in Groups
                        => Released(Label[p]) = {}

\* The snapshot of a running cycle holds the whole of every released gang.
Counting == {"prefilter", "resources", "filter", "postfilter", "permit"}
SnapshotHoldsGang ==
    \A p \in Pods : pc[p] \in Counting =>
        \A g \in Groups : Released(g) # {} => CalculateAssignedPods(g) >= MinMember[g]

\* A pod of a released gang that still waits is on Permit's list to be told.
WaitersOnList ==
    \A g \in Groups : \A q \in Members(g) :
        Released(g) # {} /\ pc[q] = "waiting" /\ signal[q] = "none" =>
            \E r \in Pods : pc[r] = "allowing" /\ q \in todo[r]

GangInv == /\ PodsExist /\ SignalsWaiting /\ VisitsSiblings /\ CyclePod
           /\ UnknownGroupEmpty /\ FailsAlone
           /\ DenialCovers /\ NoneDoomedPastPreFilter
           /\ ReleasedNotDoomed /\ HeldBackUnreleased
           /\ SnapshotHoldsGang /\ WaitersOnList /\ GangAllOrNothing

-----------------------------------------------------------------------------
\* What Permit and PostFilter count is a number.
LEMMA CountType ==
    ASSUME TypeOK, NEW g
    PROVE  CalculateAssignedPods(g) \in Nat
  BY PodsAssumption, FS_Subset, FS_CardinalityType, FS_Intersection
     DEF TypeOK, CalculateAssignedPods

\* Undisturbed, timers, deletions and restarts do not happen.
LEMMA QuietStep ==
    ASSUME Undisturbed, [Next]_vars
    PROVE  \/ \E p \in Pods :
                \/ StartCycle(p) \/ PreFilter(p) \/ PreFilterResources(p) \/ Filter(p)
                \/ PostFilter(p) \/ PostFilterDone(p) \/ Permit(p) \/ PermitDone(p)
                \/ Enlist(p) \/ WaitOnPermit(p) \/ Bind(p) \/ Unreserve(p)
                \/ UnreserveDone(p) \/ Forget(p) \/ CreatePod(p)
                \/ \E q \in Pods : Visit(p, q)
           \/ \E g \in Groups : ExpireDenied(g) \/ ExpirePermitted(g) \/ CreatePG(g)
           \/ UNCHANGED vars
  BY DEF Undisturbed, Next, Step, Timeout, DeletePod, DeletePG, Restart

\* Who is where: the lock keeps the pods of a running loop in the map, and only
\* the scheduling goroutine starts cycles.
LEMMA PlaceStep ==
    ASSUME Undisturbed, IInv, PodsExist, SignalsWaiting, VisitsSiblings, CyclePod, [Next]_vars
    PROVE  PodsExist' /\ SignalsWaiting' /\ VisitsSiblings' /\ CyclePod'
<1> DEFINE Place == PodsExist /\ SignalsWaiting /\ VisitsSiblings /\ CyclePod
<1> USE PodsAssumption, GroupAssumption, GetPodGroupKnown
        DEF IInv, TypeOK, CycleOwner, PodsExist, SignalsWaiting, VisitsSiblings, CyclePod,
            Failing, Assigned, Goto, Requeue, Send, WaitingSiblings, WaitingPods, ReadLocked,
            Steps, InCycle, Binding, Occupies, Iterators
<1>1. ASSUME NEW p \in Pods, StartCycle(p) PROVE Place'
  BY <1>1 DEF StartCycle
<1>2. ASSUME NEW p \in Pods, PreFilter(p) PROVE Place'
  BY <1>2 DEF PreFilter
<1>3. ASSUME NEW p \in Pods, PreFilterResources(p) PROVE Place'
  BY <1>3 DEF PreFilterResources
<1>4. ASSUME NEW p \in Pods, Filter(p) PROVE Place'
  BY <1>4 DEF Filter
<1>5. ASSUME NEW p \in Pods, PostFilter(p) PROVE Place'
  BY <1>5 DEF PostFilter
<1>6. ASSUME NEW p \in Pods, PostFilterDone(p) PROVE Place'
  BY <1>6 DEF PostFilterDone
<1>7. ASSUME NEW p \in Pods, Permit(p) PROVE Place'
  BY <1>7 DEF Permit
<1>8. ASSUME NEW p \in Pods, PermitDone(p) PROVE Place'
  BY <1>8 DEF PermitDone
<1>9. ASSUME NEW p \in Pods, Enlist(p) PROVE Place'
  BY <1>9 DEF Enlist
<1>10. ASSUME NEW p \in Pods, WaitOnPermit(p) PROVE Place'
  BY <1>10 DEF WaitOnPermit
<1>11. ASSUME NEW p \in Pods, Bind(p) PROVE Place'
  BY <1>11 DEF Bind
<1>12. ASSUME NEW p \in Pods, Unreserve(p) PROVE Place'
  BY <1>12 DEF Unreserve
<1>13. ASSUME NEW p \in Pods, UnreserveDone(p) PROVE Place'
  BY <1>13 DEF UnreserveDone
<1>14. ASSUME NEW p \in Pods, Forget(p) PROVE Place'
  BY <1>14 DEF Forget
<1>15. ASSUME NEW p \in Pods, CreatePod(p) PROVE Place'
  BY <1>15 DEF CreatePod
<1>16. ASSUME NEW p \in Pods, NEW q \in Pods, Visit(p, q) PROVE Place'
  BY <1>16 DEF Visit
<1>17. ASSUME NEW g \in Groups, ExpireDenied(g) PROVE Place'
  BY <1>17 DEF ExpireDenied
<1>18. ASSUME NEW g \in Groups, ExpirePermitted(g) PROVE Place'
  BY <1>18 DEF ExpirePermitted
<1>19. ASSUME NEW g \in Groups, CreatePG(g) PROVE Place'
  BY <1>19 DEF CreatePG
<1>20. CASE UNCHANGED vars
  BY <1>20 DEF vars
<1> QED
  BY QuietStep, <1>1, <1>2, <1>3, <1>4, <1>5, <1>6, <1>7, <1>8, <1>9, <1>10, <1>11,
     <1>12, <1>13, <1>14, <1>15, <1>16, <1>17, <1>18, <1>19, <1>20

\* A group unknown to the lister stays empty, and a pod that fails for want of
\* its group fails alone.
LEMMA GroupStep ==
    ASSUME Undisturbed, IInv, PodsExist, VisitsSiblings, CyclePod,
           UnknownGroupEmpty, FailsAlone, [Next]_vars
    PROVE  UnknownGroupEmpty' /\ FailsAlone'
<1> DEFINE GroupPart == UnknownGroupEmpty /\ FailsAlone
<1> USE PodsAssumption, GroupAssumption, GetPodGroupKnown
        DEF IInv, TypeOK, CycleOwner, SnapshotCovers, PodsExist, VisitsSiblings, CyclePod,
            UnknownGroupEmpty, FailsAlone, Undisturbed,
            Failing, Members, Assigned, Goto, Requeue,
            Steps, InCycle, Binding, Occupies, Iterators
<1>1. ASSUME NEW p \in Pods, StartCycle(p) PROVE GroupPart'
  BY <1>1 DEF StartCycle
<1>2. ASSUME NEW p \in Pods, PreFilter(p) PROVE GroupPart'
  BY <1>2 DEF PreFilter
<1>3. ASSUME NEW p \in Pods, PreFilterResources(p) PROVE GroupPart'
  BY <1>3 DEF PreFilterResources
<1>4. ASSUME NEW p \in Pods, Filter(p) PROVE GroupPart'
  BY <1>4 DEF Filter
<1>5. ASSUME NEW p \in Pods, PostFilter(p) PROVE GroupPart'
  BY <1>5 DEF PostFilter
<1>6. ASSUME NEW p \in Pods, PostFilterDone(p) PROVE GroupPart'
  BY <1>6 DEF PostFilterDone
<1>7. ASSUME NEW p \in Pods, Permit(p) PROVE GroupPart'
  <2>1. CASE Label[p] \in Groups \ pgs
    <3>1. (Assigned \cup snapshot) \cap Members(Label[p]) \subseteq {p}
      BY <1>7, <2>1 DEF Permit
    <3>2. pc' = [pc EXCEPT ![p] = "unreserve"] /\ UNCHANGED <<pgs, cycle, snapshot>>
      BY <1>7, <2>1 DEF Permit, GetPodGroup
    <3> QED  BY <1>7, <2>1, <3>1, <3>2 DEF Permit
  <2>2. CASE Label[p] \notin Groups \ pgs
    <3>1. /\ pc[p] = "permit" /\ \E s \in {"binding", "allowing", "enlist"} : pc' = [pc EXCEPT ![p] = s]
          /\ cycle = p /\ cycle' \in {p, NoPod} /\ UNCHANGED <<pgs, snapshot>>
      BY <1>7, <2>2 DEF Permit, GetPodGroup
    <3>2. Assigned' \subseteq Assigned
      BY <1>7, <3>1
    <3>3. UnknownGroupEmpty'
      BY <1>7, <2>2, <3>1, <3>2
    <3> QED  BY <1>7, <2>2, <3>1, <3>3
  <2> QED  BY <2>1, <2>2
<1>8. ASSUME NEW p \in Pods, PermitDone(p) PROVE GroupPart'
  BY <1>8 DEF PermitDone
<1>9. ASSUME NEW p \in Pods, Enlist(p) PROVE GroupPart'
  BY <1>9 DEF Enlist
<1>10. ASSUME NEW p \in Pods, WaitOnPermit(p) PROVE GroupPart'
  BY <1>10 DEF WaitOnPermit
<1>11. ASSUME NEW p \in Pods, Bind(p) PROVE GroupPart'
  BY <1>11 DEF Bind
<1>12. ASSUME NEW p \in Pods, Unreserve(p) PROVE GroupPart'
  BY <1>12 DEF Unreserve
<1>13. ASSUME NEW p \in Pods, UnreserveDone(p) PROVE GroupPart'
  BY <1>13 DEF UnreserveDone
<1>14. ASSUME NEW p \in Pods, Forget(p) PROVE GroupPart'
  BY <1>14 DEF Forget
<1>15. ASSUME NEW p \in Pods, CreatePod(p) PROVE GroupPart'
  BY <1>15 DEF CreatePod
<1>16. ASSUME NEW p \in Pods, NEW q \in Pods, Visit(p, q) PROVE GroupPart'
  BY <1>16 DEF Visit
<1>17. ASSUME NEW g \in Groups, ExpireDenied(g) PROVE GroupPart'
  BY <1>17 DEF ExpireDenied
<1>18. ASSUME NEW g \in Groups, ExpirePermitted(g) PROVE GroupPart'
  BY <1>18 DEF ExpirePermitted
<1>19. ASSUME NEW g \in Groups, CreatePG(g) PROVE GroupPart'
  BY <1>19 DEF CreatePG
<1>20. CASE UNCHANGED vars
  BY <1>20 DEF vars
<1> QED
  BY QuietStep, <1>1, <1>2, <1>3, <1>4, <1>5, <1>6, <1>7, <1>8, <1>9, <1>10, <1>11,
     <1>12, <1>13, <1>14, <1>15, <1>16, <1>17, <1>18, <1>19, <1>20

\* A pod becomes refused in two ways: its own Permit fails for want of the
\* PodGroup, or the loop of a refusing sibling reaches it.
LEMMA NewlyDoomed ==
    ASSUME Undisturbed, IInv, PodsExist, SignalsWaiting, VisitsSiblings, CyclePod, [Next]_vars
    PROVE  \A h \in Groups : \A x \in Doomed(h)' \ Doomed(h) :
              \/ /\ cycle = x /\ pc[x] = "permit" /\ Label[x] = h /\ h \notin pgs
                 /\ pc' = [pc EXCEPT ![x] = "unreserve"]
                 /\ UNCHANGED <<cycle, snapshot, signal>>
              \/ /\ \E r \in Pods : pc[r] \in {"rejecting", "unreserving"} /\ Label[r] = h
                                    /\ x \in todo[r]
                 /\ pc[x] = "waiting" /\ signal[x] = "none"
                 /\ UNCHANGED <<pc, cycle, snapshot, denied>>
<1> DEFINE Shown == \A h \in Groups : \A x \in Doomed(h)' \ Doomed(h) :
              \/ /\ cycle = x /\ pc[x] = "permit" /\ Label[x] = h /\ h \notin pgs
                 /\ pc' = [pc EXCEPT ![x] = "unreserve"]
                 /\ UNCHANGED <<cycle, snapshot, signal>>
              \/ /\ \E r \in Pods : pc[r] \in {"rejecting", "unreserving"} /\ Label[r] = h
                                    /\ x \in todo[r]
                 /\ pc[x] = "waiting" /\ signal[x] = "none"
                 /\ UNCHANGED <<pc, cycle, snapshot, denied>>
<1> USE PodsAssumption, GroupAssumption
        DEF IInv, TypeOK, CycleOwner, SnapshotCovers, PodsExist, SignalsWaiting,
            VisitsSiblings, CyclePod, Undisturbed, Doomed, GetPodGroup,
            Failing, Members, Assigned, Goto, Requeue, Send,
            Steps, InCycle, Binding, Occupies, Iterators
<1>1. ASSUME NEW p \in Pods, StartCycle(p) PROVE Shown
  BY <1>1 DEF StartCycle
<1>2. ASSUME NEW p \in Pods, PreFilter(p) PROVE Shown
  BY <1>2 DEF PreFilter
<1>3. ASSUME NEW p \in Pods, PreFilterResources(p) PROVE Shown
  BY <1>3 DEF PreFilterResources
<1>4. ASSUME NEW p \in Pods, Filter(p) PROVE Shown
  BY <1>4 DEF Filter
<1>5. ASSUME NEW p \in Pods, PostFilter(p) PROVE Shown
  BY <1>5 DEF PostFilter
<1>6. ASSUME NEW p \in Pods, PostFilterDone(p) PROVE Shown
  BY <1>6 DEF PostFilterDone
<1>7. ASSUME NEW p \in Pods, Permit(p) PROVE Shown
  BY <1>7 DEF Permit
<1>8. ASSUME NEW p \in Pods, PermitDone(p) PROVE Shown
  BY <1>8 DEF PermitDone
<1>9. ASSUME NEW p \in Pods, Enlist(p) PROVE Shown
  BY <1>9 DEF Enlist
<1>10. ASSUME NEW p \in Pods, WaitOnPermit(p) PROVE Shown
  BY <1>10 DEF WaitOnPermit
<1>11. ASSUME NEW p \in Pods, Bind(p) PROVE Shown
  BY <1>11 DEF Bind
<1>12. ASSUME NEW p \in Pods, Unreserve(p) PROVE Shown
  BY <1>12 DEF Unreserve
<1>13. ASSUME NEW p \in Pods, UnreserveDone(p) PROVE Shown
  BY <1>13 DEF UnreserveDone
<1>14. ASSUME NEW p \in Pods, Forget(p) PROVE Shown
  BY <1>14 DEF Forget
<1>15. ASSUME NEW p \in Pods, CreatePod(p) PROVE Shown
  BY <1>15 DEF CreatePod
<1>16. ASSUME NEW p \in Pods, NEW q \in Pods, Visit(p, q) PROVE Shown
  BY <1>16 DEF Visit
<1>17. ASSUME NEW g \in Groups, ExpireDenied(g) PROVE Shown
  BY <1>17 DEF ExpireDenied
<1>18. ASSUME NEW g \in Groups, ExpirePermitted(g) PROVE Shown
  BY <1>18 DEF ExpirePermitted
<1>19. ASSUME NEW g \in Groups, CreatePG(g) PROVE Shown
  BY <1>19 DEF CreatePG
<1>20. CASE UNCHANGED vars
  BY <1>20 DEF vars
<1> QED
  BY QuietStep, <1>1, <1>2, <1>3, <1>4, <1>5, <1>6, <1>7, <1>8, <1>9, <1>10, <1>11,
     <1>12, <1>13, <1>14, <1>15, <1>16, <1>17, <1>18, <1>19, <1>20

\* A released pod stays released.  A pod becomes released in two ways: its own
\* Permit finds the gang complete, or the loop of such a sibling reaches it.
LEMMA NewlyReleased ==
    ASSUME Undisturbed, IInv, PodsExist, SignalsWaiting, VisitsSiblings, CyclePod, [Next]_vars
    PROVE  \A h \in Groups :
              /\ Released(h) \subseteq Released(h)'
              /\ \A x \in Released(h)' \ Released(h) :
                  \/ /\ cycle = x /\ pc[x] = "permit" /\ Label[x] = h /\ Ready(h)
                     /\ pc' = [pc EXCEPT ![x] = "allowing"]
                     /\ todo' = [todo EXCEPT ![x] = WaitingSiblings(x)]
                     /\ UNCHANGED <<cycle, snapshot, signal, denied>>
                  \/ \E r \in Pods : /\ pc[r] = "allowing" /\ Label[r] = h /\ x \in todo[r]
                                     /\ UNCHANGED <<pc, cycle, snapshot, denied>>
<1> DEFINE Shown == \A h \in Groups :
              /\ Released(h) \subseteq Released(h)'
              /\ \A x \in Released(h)' \ Released(h) :
                  \/ /\ cycle = x /\ pc[x] = "permit" /\ Label[x] = h /\ Ready(h)
                     /\ pc' = [pc EXCEPT ![x] = "allowing"]
                     /\ todo' = [todo EXCEPT ![x] = WaitingSiblings(x)]
                     /\ UNCHANGED <<cycle, snapshot, signal, denied>>
                  \/ \E r \in Pods : /\ pc[r] = "allowing" /\ Label[r] = h /\ x \in todo[r]
                                     /\ UNCHANGED <<pc, cycle, snapshot, denied>>
<1> USE PodsAssumption, GroupAssumption
        DEF IInv, TypeOK, CycleOwner, PodsExist, SignalsWaiting,
            VisitsSiblings, CyclePod, Undisturbed, Released, GetPodGroup,
            Failing, Members, Goto, Requeue, Send,
            Steps, InCycle, Binding, Iterators
<1>1. ASSUME NEW p \in Pods, StartCycle(p) PROVE Shown
  BY <1>1 DEF StartCycle
<1>2. ASSUME NEW p \in Pods, PreFilter(p) PROVE Shown
  BY <1>2 DEF PreFilter
<1>3. ASSUME NEW p \in Pods, PreFilterResources(p) PROVE Shown
  BY <1>3 DEF PreFilterResources
<1>4. ASSUME NEW p \in Pods, Filter(p) PROVE Shown
  BY <1>4 DEF Filter
<1>5. ASSUME NEW p \in Pods, PostFilter(p) PROVE Shown
  BY <1>5 DEF PostFilter
<1>6. ASSUME NEW p \in Pods, PostFilterDone(p) PROVE Shown
  BY <1>6 DEF PostFilterDone
<1>7. ASSUME NEW p \in Pods, Permit(p) PROVE Shown
  BY <1>7 DEF Permit
<1>8. ASSUME NEW p \in Pods, PermitDone(p) PROVE Shown
  BY <1>8 DEF PermitDone
<1>9. ASSUME NEW p \in Pods, Enlist(p) PROVE Shown
  BY <1>9 DEF Enlist
<1>10. ASSUME NEW p \in Pods, WaitOnPermit(p) PROVE Shown
  BY <1>10 DEF WaitOnPermit
<1>11. ASSUME NEW p \in Pods, Bind(p) PROVE Shown
  BY <1>11 DEF Bind
<1>12. ASSUME NEW p \in Pods, Unreserve(p) PROVE Shown
  BY <1>12 DEF Unreserve
<1>13. ASSUME NEW p \in Pods, UnreserveDone(p) PROVE Shown
  BY <1>13 DEF UnreserveDone
<1>14. ASSUME NEW p \in Pods, Forget(p) PROVE Shown
  BY <1>14 DEF Forget
<1>15. ASSUME NEW p \in Pods, CreatePod(p) PROVE Shown
  BY <1>15 DEF CreatePod
<1>16. ASSUME NEW p \in Pods, NEW q \in Pods, Visit(p, q) PROVE Shown
  BY <1>16 DEF Visit
<1>17. ASSUME NEW g \in Groups, ExpireDenied(g) PROVE Shown
  BY <1>17 DEF ExpireDenied
<1>18. ASSUME NEW g \in Groups, ExpirePermitted(g) PROVE Shown
  BY <1>18 DEF ExpirePermitted
<1>19. ASSUME NEW g \in Groups, CreatePG(g) PROVE Shown
  BY <1>19 DEF CreatePG
<1>20. CASE UNCHANGED vars
  BY <1>20 DEF vars
<1> QED
  BY QuietStep, <1>1, <1>2, <1>3, <1>4, <1>5, <1>6, <1>7, <1>8, <1>9, <1>10, <1>11,
     <1>12, <1>13, <1>14, <1>15, <1>16, <1>17, <1>18, <1>19, <1>20

\* What covers a refused pod goes on covering it: a denial is not lifted while
\* it is there, and PostFilter's loop ends with a denial.
LEMMA DenialKept ==
    ASSUME Undisturbed, IInv, CyclePod, [Next]_vars,
           NEW h \in Groups, NEW x \in Doomed(h), x \in Doomed(h)',
           \/ h \in denied
           \/ x = cycle
           \/ \E r \in Pods : pc[r] = "rejecting" /\ Label[r] = h
    PROVE  \/ h \in denied'
           \/ x = cycle'
           \/ \E r \in Pods : pc'[r] = "rejecting" /\ Label[r] = h
<1> DEFINE Kept == \/ h \in denied'
                   \/ x = cycle'
                   \/ \E r \in Pods : pc'[r] = "rejecting" /\ Label[r] = h
<1> USE PodsAssumption, GroupAssumption
        DEF IInv, TypeOK, CycleOwner, CyclePod, Undisturbed, Doomed, DenyGroup,
            Failing, Members, Goto, Requeue, Steps, InCycle, Binding, Iterators
<1>1. ASSUME NEW p \in Pods, StartCycle(p) PROVE Kept
  BY <1>1 DEF StartCycle
<1>2. ASSUME NEW p \in Pods, PreFilter(p) PROVE Kept
  BY <1>2 DEF PreFilter
<1>3. ASSUME NEW p \in Pods, PreFilterResources(p) PROVE Kept
  BY <1>3 DEF PreFilterResources
<1>4. ASSUME NEW p \in Pods, Filter(p) PROVE Kept
  BY <1>4 DEF Filter
<1>5. ASSUME NEW p \in Pods, PostFilter(p) PROVE Kept
  BY <1>5 DEF PostFilter
<1>6. ASSUME NEW p \in Pods, PostFilterDone(p) PROVE Kept
  BY <1>6 DEF PostFilterDone
<1>7. ASSUME NEW p \in Pods, Permit(p) PROVE Kept
  BY <1>7 DEF Permit
<1>8. ASSUME NEW p \in Pods, PermitDone(p) PROVE Kept
  BY <1>8 DEF PermitDone
<1>9. ASSUME NEW p \in Pods, Enlist(p) PROVE Kept
  BY <1>9 DEF Enlist
<1>10. ASSUME NEW p \in Pods, WaitOnPermit(p) PROVE Kept
  BY <1>10 DEF WaitOnPermit
<1>11. ASSUME NEW p \in Pods, Bind(p) PROVE Kept
  BY <1>11 DEF Bind
<1>12. ASSUME NEW p \in Pods, Unreserve(p) PROVE Kept
  BY <1>12 DEF Unreserve
<1>13. ASSUME NEW p \in Pods, UnreserveDone(p) PROVE Kept
  BY <1>13 DEF UnreserveDone
<1>14. ASSUME NEW p \in Pods, Forget(p) PROVE Kept
  BY <1>14 DEF Forget
<1>15. ASSUME NEW p \in Pods, CreatePod(p) PROVE Kept
  BY <1>15 DEF CreatePod
<1>16. ASSUME NEW p \in Pods, NEW q \in Pods, Visit(p, q) PROVE Kept
  BY <1>16 DEF Visit
<1>17. ASSUME NEW g \in Groups, ExpireDenied(g) PROVE Kept
  BY <1>17 DEF ExpireDenied
<1>18. ASSUME NEW g \in Groups, ExpirePermitted(g) PROVE Kept
  BY <1>18 DEF ExpirePermitted
<1>19. ASSUME NEW g \in Groups, CreatePG(g) PROVE Kept
  BY <1>19 DEF CreatePG
<1>20. CASE UNCHANGED vars
  BY <1>20 DEF vars
<1> QED
  BY QuietStep, <1>1, <1>2, <1>3, <1>4, <1>5, <1>6, <1>7, <1>8, <1>9, <1>10, <1>11,
     <1>12, <1>13, <1>14, <1>15, <1>16, <1>17, <1>18, <1>19, <1>20

\* A group with a refused pod stays denied until that pod is gone.
LEMMA DenialStep ==
    ASSUME Undisturbed, IInv, GangInv, [Next]_vars
    PROVE  DenialCovers'
<1> SUFFICES ASSUME NEW h \in Groups, NEW x \in Doomed(h)'
             PROVE  \/ h \in denied'
                    \/ x = cycle'
                    \/ \E r \in Pods : pc'[r] = "rejecting" /\ Label[r] = h
  BY DEF DenialCovers
<1>1. CASE x \in Doomed(h)
  BY <1>1, DenialKept DEF GangInv, DenialCovers
<1>2. CASE cycle = x /\ UNCHANGED cycle
  BY <1>2
<1>3. CASE /\ \E r \in Pods : pc[r] \in {"rejecting", "unreserving"} /\ Label[r] = h
                              /\ x \in todo[r]
           /\ pc[x] = "waiting" /\ UNCHANGED <<pc, denied>>
  <2> PICK r \in Pods : pc[r] \in {"rejecting", "unreserving"} /\ Label[r] = h /\ x \in todo[r]
    BY <1>3
  <2>1. CASE pc[r] = "rejecting"
    BY <1>3, <2>1
  <2>2. CASE pc[r] = "unreserving"
    <3>1. r # cycle
      BY <1>3, <2>2 DEF GangInv, FailsAlone, Failing, Members, Assigned, Occupies, Binding,
                        VisitsSiblings, Iterators, IInv, TypeOK
    <3>2. r \in Doomed(h)
      BY <2>2 DEF Doomed, Members
    <3> QED  BY <1>3, <3>1, <3>2 DEF GangInv, DenialCovers
  <2> QED  BY <2>1, <2>2
<1> QED
  BY <1>1, <1>2, <1>3, NewlyDoomed DEF GangInv

\* The way past PreFilter is through PreFilter.
LEMMA PastPreFilter ==
    ASSUME Undisturbed, TypeOK, [Next]_vars, NEW y \in Pods,
           pc[y] \notin {"resources", "filter", "permit", "allowing"},
           pc'[y] \in {"resources", "filter", "permit", "allowing"}
    PROVE  PreFilter(y)
<1> USE DEF TypeOK, Goto, Requeue
<1>1. ASSUME NEW p \in Pods, StartCycle(p) PROVE PreFilter(y)
  BY <1>1 DEF StartCycle
<1>2. ASSUME NEW p \in Pods, PreFilter(p) PROVE PreFilter(y)
  BY <1>2 DEF PreFilter
<1>3. ASSUME NEW p \in Pods, PreFilterResources(p) PROVE PreFilter(y)
  BY <1>3 DEF PreFilterResources
<1>4. ASSUME NEW p \in Pods, Filter(p) PROVE PreFilter(y)
  BY <1>4 DEF Filter
<1>5. ASSUME NEW p \in Pods, PostFilter(p) PROVE PreFilter(y)
  BY <1>5 DEF PostFilter
<1>6. ASSUME NEW p \in Pods, PostFilterDone(p) PROVE PreFilter(y)
  BY <1>6 DEF PostFilterDone
<1>7. ASSUME NEW p \in Pods, Permit(p) PROVE PreFilter(y)
  BY <1>7 DEF Permit
<1>8. ASSUME NEW p \in Pods, PermitDone(p) PROVE PreFilter(y)
  BY <1>8 DEF PermitDone
<1>9. ASSUME NEW p \in Pods, Enlist(p) PROVE PreFilter(y)
  BY <1>9 DEF Enlist
<1>10. ASSUME NEW p \in Pods, WaitOnPermit(p) PROVE PreFilter(y)
  BY <1>10 DEF WaitOnPermit
<1>11. ASSUME NEW p \in Pods, Bind(p) PROVE PreFilter(y)
  BY <1>11 DEF Bind
<1>12. ASSUME NEW p \in Pods, Unreserve(p) PROVE PreFilter(y)
  BY <1>12 DEF Unreserve
<1>13. ASSUME NEW p \in Pods, UnreserveDone(p) PROVE PreFilter(y)
  BY <1>13 DEF UnreserveDone
<1>14. ASSUME NEW p \in Pods, Forget(p) PROVE PreFilter(y)
  BY <1>14 DEF Forget
<1>15. ASSUME NEW p \in Pods, CreatePod(p) PROVE PreFilter(y)
  BY <1>15 DEF CreatePod
<1>16. ASSUME NEW p \in Pods, NEW q \in Pods, Visit(p, q) PROVE PreFilter(y)
  BY <1>16 DEF Visit
<1>17. ASSUME NEW g \in Groups, ExpireDenied(g) PROVE PreFilter(y)
  BY <1>17 DEF ExpireDenied
<1>18. ASSUME NEW g \in Groups, ExpirePermitted(g) PROVE PreFilter(y)
  BY <1>18 DEF ExpirePermitted
<1>19. ASSUME NEW g \in Groups, CreatePG(g) PROVE PreFilter(y)
  BY <1>19 DEF CreatePG
<1>20. CASE UNCHANGED vars
  BY <1>20 DEF vars
<1> QED
  BY QuietStep, <1>1, <1>2, <1>3, <1>4, <1>5, <1>6, <1>7, <1>8, <1>9, <1>10, <1>11,
     <1>12, <1>13, <1>14, <1>15, <1>16, <1>17, <1>18, <1>19, <1>20

\* A refused pod and a released one of the same group never meet: a pod that
\* passes PreFilter has no refused sibling, and none is refused behind its back.
LEMMA CleanStep ==
    ASSUME Undisturbed, IInv, GangInv, [Next]_vars
    PROVE  NoneDoomedPastPreFilter'
<1> DEFINE Past == {"resources", "filter", "permit", "allowing"}
<1> SUFFICES ASSUME NEW y \in Pods, pc'[y] \in Past, Label[y] \in Groups,
                    NEW x \in Doomed(Label[y])'
             PROVE  FALSE
  BY DEF NoneDoomedPastPreFilter
<1>1. CASE pc[y] \in Past
  <2>1. Doomed(Label[y]) = {}
    BY <1>1 DEF GangInv, NoneDoomedPastPreFilter
  <2>2. cycle = y
    BY <1>1 DEF IInv, CycleOwner, InCycle
  <2>3. \A r \in Pods : Label[r] = Label[y] => pc[r] \notin {"rejecting", "unreserving"}
    BY <1>1, <2>1, <2>2 DEF IInv, CycleOwner, InCycle, Doomed, Members
  <2> QED  BY <1>1, <2>1, <2>2, <2>3, NewlyDoomed DEF GangInv, IInv, TypeOK
<1>2. CASE pc[y] \notin Past
  <2>1. PreFilter(y)
    BY <1>2, PastPreFilter DEF IInv
  <2>2. cycle = y /\ pc[y] = "prefilter"
    BY <2>1 DEF PreFilter, IInv, CycleOwner, InCycle
  <2>3. x \in Doomed(Label[y])
    BY <2>1, <2>2, NewlyDoomed DEF GangInv, IInv, CycleOwner, TypeOK, PreFilter, Goto
  <2>4. x \in Assigned \cup snapshot /\ x # cycle /\ Label[x] = Label[y]
    BY <2>2, <2>3 DEF Doomed, Assigned, Occupies, Binding, Members, GangInv, CyclePod
  <2>5. Label[y] \in pgs
    BY <2>4 DEF GangInv, UnknownGroupEmpty
  <2>6. Label[y] \in denied
    BY <2>2, <2>3, <2>4 DEF GangInv, DenialCovers, IInv, CycleOwner, InCycle
  <2> QED
    BY <1>2, <2>1, <2>2, <2>5, <2>6, GroupAssumption DEF PreFilter, GetPodGroup, Goto, IInv, TypeOK
<1> QED  BY <1>1, <1>2

\* A waiting pod that has no signal stays in the map, on the list of a loop that
\* has yet to reach it; the way into the map is waitingPodsMap.add.
LEMMA WaitersMove ==
    ASSUME Undisturbed, IInv, SignalsWaiting, VisitsSiblings, [Next]_vars
    PROVE  \A y \in Pods :
              /\ pc[y] = "waiting" /\ signal[y] = "none" => pc'[y] = "waiting"
              /\ pc'[y] = "waiting" /\ signal'[y] = "none"
                    => pc[y] = "enlist" \/ (pc[y] = "waiting" /\ signal[y] = "none")
              /\ \A r \in Pods : pc[r] = "allowing" /\ y \in todo[r] /\ signal'[y] = "none"
                    => pc'[r] = "allowing" /\ y \in todo'[r]
<1> DEFINE Moves == \A y \in Pods :
              /\ pc[y] = "waiting" /\ signal[y] = "none" => pc'[y] = "waiting"
              /\ pc'[y] = "waiting" /\ signal'[y] = "none"
                    => pc[y] = "enlist" \/ (pc[y] = "waiting" /\ signal[y] = "none")
              /\ \A r \in Pods : pc[r] = "allowing" /\ y \in todo[r] /\ signal'[y] = "none"
                    => pc'[r] = "allowing" /\ y \in todo'[r]
<1> USE PodsAssumption DEF IInv, TypeOK, CycleOwner, SignalsWaiting, VisitsSiblings,
            Goto, Requeue, Send, InCycle, Iterators
<1>1. ASSUME NEW p \in Pods, StartCycle(p) PROVE Moves
  BY <1>1 DEF StartCycle
<1>2. ASSUME NEW p \in Pods, PreFilter(p) PROVE Moves
  BY <1>2 DEF PreFilter
<1>3. ASSUME NEW p \in Pods, PreFilterResources(p) PROVE Moves
  BY <1>3 DEF PreFilterResources
<1>4. ASSUME NEW p \in Pods, Filter(p) PROVE Moves
  BY <1>4 DEF Filter
<1>5. ASSUME NEW p \in Pods, PostFilter(p) PROVE Moves
  BY <1>5 DEF PostFilter
<1>6. ASSUME NEW p \in Pods, PostFilterDone(p) PROVE Moves
  BY <1>6 DEF PostFilterDone
<1>7. ASSUME NEW p \in Pods, Permit(p) PROVE Moves
  BY <1>7 DEF Permit
<1>8. ASSUME NEW p \in Pods, PermitDone(p) PROVE Moves
  BY <1>8 DEF PermitDone
<1>9. ASSUME NEW p \in Pods, Enlist(p) PROVE Moves
  BY <1>9 DEF Enlist
<1>10. ASSUME NEW p \in Pods, WaitOnPermit(p) PROVE Moves
  BY <1>10 DEF WaitOnPermit
<1>11. ASSUME NEW p \in Pods, Bind(p) PROVE Moves
  BY <1>11 DEF Bind
<1>12. ASSUME NEW p \in Pods, Unreserve(p) PROVE Moves
  BY <1>12 DEF Unreserve
<1>13. ASSUME NEW p \in Pods, UnreserveDone(p) PROVE Moves
  BY <1>13 DEF UnreserveDone
<1>14. ASSUME NEW p \in Pods, Forget(p) PROVE Moves
  BY <1>14 DEF Forget
<1>15. ASSUME NEW p \in Pods, CreatePod(p) PROVE Moves
  BY <1>15 DEF CreatePod
<1>16. ASSUME NEW p \in Pods, NEW q \in Pods, Visit(p, q) PROVE Moves
  BY <1>16 DEF Visit
<1>17. ASSUME NEW g \in Groups, ExpireDenied(g) PROVE Moves
  BY <1>17 DEF ExpireDenied
<1>18. ASSUME NEW g \in Groups, ExpirePermitted(g) PROVE Moves
  BY <1>18 DEF ExpirePermitted
<1>19. ASSUME NEW g \in Groups, CreatePG(g) PROVE Moves
  BY <1>19 DEF CreatePG
<1>20. CASE UNCHANGED vars
  BY <1>20 DEF vars
<1> QED
  BY QuietStep, <1>1, <1>2, <1>3, <1>4, <1>5, <1>6, <1>7, <1>8, <1>9, <1>10, <1>11,
     <1>12, <1>13, <1>14, <1>15, <1>16, <1>17, <1>18, <1>19, <1>20

\* A cycle begins with a snapshot and keeps it; it refuses a group, or holds the
\* pod back, when it counts too few pods of the group in that snapshot.
LEMMA CycleMoves ==
    ASSUME Undisturbed, IInv, [Next]_vars
    PROVE  /\ snapshot' = snapshot \/ \E p \in Pods : StartCycle(p)
           /\ \A y \in Pods :
              /\ pc'[y] \in Counting /\ pc[y] \notin Counting => StartCycle(y)
              /\ pc'[y] \in {"rejecting", "enlist"} /\ pc[y] # pc'[y] =>
                    \/ pc[y] = "postfilter" /\ ~Tolerated(Label[y]) /\ Label[y] \in Groups
                    \/ pc[y] = "permit" /\ ~Ready(Label[y]) /\ Label[y] \in Groups
<1> DEFINE Moves ==
           /\ snapshot' = snapshot \/ \E p \in Pods : StartCycle(p)
           /\ \A y \in Pods :
              /\ pc'[y] \in Counting /\ pc[y] \notin Counting => StartCycle(y)
              /\ pc'[y] \in {"rejecting", "enlist"} /\ pc[y] # pc'[y] =>
                    \/ pc[y] = "postfilter" /\ ~Tolerated(Label[y]) /\ Label[y] \in Groups
                    \/ pc[y] = "permit" /\ ~Ready(Label[y]) /\ Label[y] \in Groups
<1> USE PodsAssumption, GroupAssumption, GetPodGroupKnown
        DEF IInv, TypeOK, Goto, Requeue, Counting
<1>1. ASSUME NEW p \in Pods, StartCycle(p) PROVE Moves
  BY <1>1 DEF StartCycle
<1>2. ASSUME NEW p \in Pods, PreFilter(p) PROVE Moves
  BY <1>2 DEF PreFilter
<1>3. ASSUME NEW p \in Pods, PreFilterResources(p) PROVE Moves
  BY <1>3 DEF PreFilterResources
<1>4. ASSUME NEW p \in Pods, Filter(p) PROVE Moves
  BY <1>4 DEF Filter
<1>5. ASSUME NEW p \in Pods, PostFilter(p) PROVE Moves
  BY <1>5 DEF PostFilter
<1>6. ASSUME NEW p \in Pods, PostFilterDone(p) PROVE Moves
  BY <1>6 DEF PostFilterDone
<1>7. ASSUME NEW p \in Pods, Permit(p) PROVE Moves
  BY <1>7 DEF Permit
<1>8. ASSUME NEW p \in Pods, PermitDone(p) PROVE Moves
  BY <1>8 DEF PermitDone
<1>9. ASSUME NEW p \in Pods, Enlist(p) PROVE Moves
  BY <1>9 DEF Enlist
<1>10. ASSUME NEW p \in Pods, WaitOnPermit(p) PROVE Moves
  BY <1>10 DEF WaitOnPermit
<1>11. ASSUME NEW p \in Pods, Bind(p) PROVE Moves
  BY <1>11 DEF Bind
<1>12. ASSUME NEW p \in Pods, Unreserve(p) PROVE Moves
  BY <1>12 DEF Unreserve
<1>13. ASSUME NEW p \in Pods, UnreserveDone(p) PROVE Moves
  BY <1>13 DEF UnreserveDone
<1>14. ASSUME NEW p \in Pods, Forget(p) PROVE Moves
  BY <1>14 DEF Forget
<1>15. ASSUME NEW p \in Pods, CreatePod(p) PROVE Moves
  BY <1>15 DEF CreatePod
<1>16. ASSUME NEW p \in Pods, NEW q \in Pods, Visit(p, q) PROVE Moves
  BY <1>16 DEF Visit
<1>17. ASSUME NEW g \in Groups, ExpireDenied(g) PROVE Moves
  BY <1>17 DEF ExpireDenied
<1>18. ASSUME NEW g \in Groups, ExpirePermitted(g) PROVE Moves
  BY <1>18 DEF ExpirePermitted
<1>19. ASSUME NEW g \in Groups, CreatePG(g) PROVE Moves
  BY <1>19 DEF CreatePG
<1>20. CASE UNCHANGED vars
  BY <1>20 DEF vars
<1> QED
  BY QuietStep, <1>1, <1>2, <1>3, <1>4, <1>5, <1>6, <1>7, <1>8, <1>9, <1>10, <1>11,
     <1>12, <1>13, <1>14, <1>15, <1>16, <1>17, <1>18, <1>19, <1>20

\* Nobody of a released gang is refused, and nobody is released in a group that
\* PostFilter refuses or of which Permit holds a pod back.
LEMMA ReleaseStep ==
    ASSUME Undisturbed, IInv, GangInv, [Next]_vars
    PROVE  ReleasedNotDoomed' /\ HeldBackUnreleased'
<1>1. ReleasedNotDoomed'
  <2> SUFFICES ASSUME NEW h \in Groups, NEW y \in Released(h)', NEW x \in Doomed(h)'
               PROVE  FALSE
    BY DEF ReleasedNotDoomed
  <2>1. CASE Released(h) # {}
    <3> PICK z : z \in Released(h)
      BY <2>1
    <3>1. Doomed(h) = {}
      BY <2>1 DEF GangInv, ReleasedNotDoomed
    <3>2. h \in pgs
      <4>1. z \in Assigned /\ Label[z] = h /\ pc[z] \notin {"permit"} \cup Failing
        BY DEF Released, Members, Assigned, Occupies, Binding, Failing
      <4> QED  BY <4>1 DEF GangInv, UnknownGroupEmpty
    <3>3. \A r \in Pods : Label[r] = h => pc[r] \notin {"rejecting", "unreserving"}
      BY <2>1, <3>1 DEF GangInv, HeldBackUnreleased, Doomed, Members
    <3> QED  BY <3>1, <3>2, <3>3, NewlyDoomed DEF GangInv
  <2>2. CASE Released(h) = {}
    <3>1. y \in Pods /\ Label[y] = h
      BY DEF Released, Members
    <3>2. \A r \in Pods : Label[r] = h => pc[r] # "allowing"
      BY <2>2 DEF Released, Members
    <3>3. pc'[y] = "allowing"
      BY <2>2, <3>1, <3>2, NewlyReleased DEF GangInv, IInv, TypeOK
    <3> QED  BY <3>1, <3>3, CleanStep DEF NoneDoomedPastPreFilter
  <2> QED  BY <2>1, <2>2
<1>2. HeldBackUnreleased'
  <2> SUFFICES ASSUME NEW y \in Pods, pc'[y] \in {"rejecting", "enlist"}, Label[y] \in Groups,
                      NEW z \in Released(Label[y])'
               PROVE  FALSE
    BY DEF HeldBackUnreleased
  <2>1. cycle = y /\ pc[y] \in {"rejecting", "enlist", "postfilter", "permit"}
    BY CycleMoves DEF IInv, CycleOwner, InCycle
  <2>2. z \in Released(Label[y])
    <3>1. \A r \in Pods : pc[r] # "allowing"
      BY <2>1 DEF IInv, CycleOwner, InCycle
    <3> QED  BY <2>1, <3>1, NewlyReleased DEF GangInv, IInv, TypeOK
  <2>3. pc[y] \in {"postfilter", "permit"} /\ (~Tolerated(Label[y]) \/ ~Ready(Label[y]))
    BY <2>1, <2>2, CycleMoves DEF GangInv, HeldBackUnreleased
  <2>4. CalculateAssignedPods(Label[y]) >= MinMember[Label[y]]
    BY <2>2, <2>3 DEF GangInv, SnapshotHoldsGang, Counting
  <2>5. CalculateAssignedPods(Label[y]) \in Nat /\ MinMember[Label[y]] \in Nat
    BY CountType, SizeAssumption DEF IInv
  <2> QED  BY <2>3, <2>4, <2>5 DEF Tolerated, Ready
<1> QED  BY <1>1, <1>2

\* The pods of a group that are counted, or on their way, are finitely many.
LEMMA CommittedType ==
    ASSUME NEW g
    PROVE  IsFiniteSet(Committed(g)) /\ Committed(g) \subseteq Members(g)
  BY PodsAssumption, FS_Subset DEF Committed, Released, Members

\* The pods that Permit counts in the snapshot are all released or waiting for
\* it still: none of them was refused, none of them is another cycle's.
LEMMA CountedOnTheirWay ==
    ASSUME IInv, GangInv, NEW y \in Pods, pc[y] = "permit", Label[y] \in Groups
    PROVE  snapshot \cap Members(Label[y]) \subseteq
             {q \in Members(Label[y]) : \/ pc[q] \in {"binding", "bound"}
                                        \/ pc[q] = "waiting" /\ signal[q] # "reject"}
<1> SUFFICES ASSUME NEW q \in snapshot, q \in Members(Label[y])
             PROVE  pc[q] \in {"binding", "bound"} \/ (pc[q] = "waiting" /\ signal[q] # "reject")
  OBVIOUS
<1>1. cycle = y /\ cycle # NoPod /\ q # y
  BY PodsAssumption DEF IInv, CycleOwner, InCycle, GangInv, CyclePod
<1>2. q \notin Doomed(Label[y])
  BY DEF GangInv, NoneDoomedPastPreFilter
<1>3. q \in Assigned /\ pc[q] \notin Failing /\ ~(pc[q] = "waiting" /\ signal[q] = "reject")
  BY <1>1, <1>2 DEF Doomed, Failing
<1>4. pc[q] \notin InCycle
  BY <1>1, <1>3 DEF IInv, CycleOwner, Assigned
<1>5. pc[q] \in {"waiting", "binding", "bound"}
  BY <1>3, <1>4 DEF Assigned, Occupies, Binding, InCycle, Failing
<1> QED
  BY <1>3, <1>5

\* A cycle that begins sees the whole of every released gang, and no gang is
\* released during it but by its own Permit.
LEMMA SnapshotStep ==
    ASSUME Undisturbed, IInv, GangInv, [Next]_vars
    PROVE  SnapshotHoldsGang'
<1> SUFFICES ASSUME NEW y \in Pods, pc'[y] \in Counting, NEW h \in Groups, Released(h)' # {}
             PROVE  CalculateAssignedPods(h)' >= MinMember[h]
  BY DEF SnapshotHoldsGang
<1>1. CASE pc[y] \in Counting
  <2>1. cycle = y /\ cycle # NoPod
    BY <1>1, PodsAssumption DEF IInv, CycleOwner, InCycle, Counting
  <2>2. snapshot' = snapshot
    BY <2>1, CycleMoves DEF StartCycle
  <2>3. \A r \in Pods : pc[r] # "allowing"
    BY <1>1, <2>1 DEF IInv, CycleOwner, InCycle, Counting
  <2>4. Released(h) # {}
    BY <2>1, <2>3, NewlyReleased DEF GangInv, Counting, IInv, TypeOK
  <2> QED
    BY <1>1, <2>2, <2>4 DEF GangInv, SnapshotHoldsGang, CalculateAssignedPods, Members
<1>2. CASE pc[y] \notin Counting
  <2>1. StartCycle(y)
    BY <1>2, CycleMoves
  <2>2. Released(h) # {}
    BY <2>1 DEF Released, StartCycle, Goto, IInv, TypeOK
  <2>3. Cardinality(Committed(h)) >= MinMember[h]
    BY <2>2 DEF GangInv, GangAllOrNothing
  <2>4. Committed(h) \subseteq Assigned \cap Members(h)
    BY DEF Committed, Released, Members, Assigned, Occupies, Binding
  <2>5. /\ IsFiniteSet(Assigned \cap Members(h))
        /\ Cardinality(Committed(h)) <= Cardinality(Assigned \cap Members(h))
    BY <2>4, PodsAssumption, FS_Subset DEF Assigned
  <2>6. /\ Cardinality(Committed(h)) \in Nat /\ Cardinality(Assigned \cap Members(h)) \in Nat
        /\ MinMember[h] \in Nat
    BY <2>5, CommittedType, FS_CardinalityType, SizeAssumption
  <2>7. CalculateAssignedPods(h)' = Cardinality(Assigned \cap Members(h))
    BY <2>1 DEF StartCycle, CalculateAssignedPods, Members
  <2> QED  BY <2>3, <2>5, <2>6, <2>7
<1> QED  BY <1>1, <1>2

\* Permit releases a complete gang, and nobody of it is refused afterwards.
LEMMA AllOrNothingStep ==
    ASSUME Undisturbed, IInv, GangInv, [Next]_vars
    PROVE  GangAllOrNothing'
<1> SUFFICES ASSUME NEW h \in Groups, Released(h)' # {}
             PROVE  Cardinality(Committed(h)') >= MinMember[h]
  BY DEF GangAllOrNothing
<1>1. IsFiniteSet(Committed(h)') /\ MinMember[h] \in Nat
  BY PodsAssumption, FS_Subset, SizeAssumption DEF Committed, Released, Members
<1>2. CASE Released(h) # {}
  <2>1. Committed(h) \subseteq Committed(h)'
    <3> SUFFICES ASSUME NEW x \in Members(h), pc[x] = "waiting", signal[x] = "none",
                        x \notin Released(h)'
                 PROVE  x \in Committed(h)'
      BY NewlyReleased DEF Committed, GangInv, Members
    <3>1. x \in Pods /\ pc'[x] = "waiting"
      BY WaitersMove DEF GangInv, Members
    <3>2. signal'[x] # "reject"
      BY <3>1, ReleaseStep DEF ReleasedNotDoomed, Doomed, Members
    <3>3. signal'[x] \in {"none", "allow", "reject"}
      BY <3>1, TypeStep DEF IInv, TypeOK
    <3> QED  BY <3>1, <3>2, <3>3 DEF Committed, Released, Members
  <2>2. Cardinality(Committed(h)) <= Cardinality(Committed(h)')
    BY <1>1, <2>1, FS_Subset
  <2>3. Cardinality(Committed(h)) \in Nat /\ Cardinality(Committed(h)') \in Nat
    BY <1>1, CommittedType, FS_CardinalityType
  <2>4. Cardinality(Committed(h)) >= MinMember[h]
    BY <1>2 DEF GangInv, GangAllOrNothing
  <2> QED  BY <1>1, <2>2, <2>3, <2>4
<1>3. CASE Released(h) = {}
  <2>1. \A r \in Pods : Label[r] = h => pc[r] # "allowing"
    BY <1>3 DEF Released, Members
  <2>2. PICK y \in Pods : /\ cycle = y /\ pc[y] = "permit" /\ Label[y] = h /\ Ready(h)
                          /\ pc' = [pc EXCEPT ![y] = "allowing"] /\ signal' = signal
    BY <1>3, <2>1, NewlyReleased DEF GangInv, Released, Members
  <2> DEFINE Counted == snapshot \cap Members(h)
  <2>3. Counted \cup {y} \subseteq Committed(h)' /\ y \notin Counted
    <3>1. y \notin snapshot
      BY <2>2 DEF GangInv, CyclePod
    <3>2. y \in Committed(h)'
      BY <2>2 DEF Committed, Released, Members, IInv, TypeOK
    <3>3. ASSUME NEW q \in Counted PROVE q \in Committed(h)'
      <4>1. /\ q \in Members(h)
            /\ pc[q] \in {"binding", "bound"} \/ (pc[q] = "waiting" /\ signal[q] # "reject")
        <5>1. q \in snapshot \cap Members(Label[y])
          BY <2>2
        <5> QED  BY <2>2, <5>1, CountedOnTheirWay
      <4>2. q \in Pods /\ Label[q] = h /\ pc'[q] = pc[q] /\ signal'[q] = signal[q]
        BY <2>2, <4>1 DEF Members, IInv, TypeOK
      <4>3. signal[q] \in {"none", "allow", "reject"}
        BY <4>2 DEF IInv, TypeOK
      <4> QED  BY <4>1, <4>2, <4>3 DEF Committed, Released, Members
    <3> QED  BY <3>1, <3>2, <3>3
  <2>4. IsFiniteSet(Counted) /\ Cardinality(Counted \cup {y}) = Cardinality(Counted) + 1
    BY <2>3, PodsAssumption, FS_Subset, FS_AddElement DEF IInv, TypeOK
  <2>5. Cardinality(Counted \cup {y}) <= Cardinality(Committed(h)')
    BY <1>1, <2>3, FS_Subset
  <2>6. Cardinality(Counted) \in Nat /\ Cardinality(Committed(h)') \in Nat
    BY <1>1, <2>4, FS_CardinalityType
  <2>7. Cardinality(Counted) + 1 >= MinMember[h]
    BY <2>2 DEF Ready, CalculateAssignedPods
  <2> HIDE DEF Counted
  <2> QED  BY <1>1, <2>4, <2>5, <2>6, <2>7
<1> QED  BY <1>2, <1>3

\* Permit lists all waiting siblings, and none comes to wait after that.
LEMMA ListStep ==
    ASSUME Undisturbed, IInv, GangInv, [Next]_vars
    PROVE  WaitersOnList'
<1> SUFFICES ASSUME NEW h \in Groups, NEW q \in Members(h), Released(h)' # {},
                    pc'[q] = "waiting", signal'[q] = "none"
             PROVE  \E r \in Pods : pc'[r] = "allowing" /\ q \in todo'[r]
  BY DEF WaitersOnList, Members
<1>1. q \in Pods /\ Label[q] = h
  BY DEF Members
<1>2. CASE Released(h) # {}
  <2>1. pc[q] = "waiting" /\ signal[q] = "none"
    BY <1>1, <1>2, WaitersMove DEF GangInv, HeldBackUnreleased
  <2>2. PICK r \in Pods : pc[r] = "allowing" /\ q \in todo[r]
    BY <1>2, <2>1 DEF GangInv, WaitersOnList
  <2> QED  BY <1>1, <2>2, WaitersMove DEF GangInv
<1>3. CASE Released(h) = {}
  <2>1. \A r \in Pods : Label[r] = h => pc[r] # "allowing"
    BY <1>3 DEF Released, Members
  <2>2. PICK y \in Pods : /\ pc[y] = "permit" /\ Label[y] = h
                          /\ pc' = [pc EXCEPT ![y] = "allowing"]
                          /\ todo' = [todo EXCEPT ![y] = WaitingSiblings(y)]
    BY <1>3, <2>1, NewlyReleased DEF GangInv, Released, Members
  <2> QED
    BY <1>1, <2>2 DEF WaitingSiblings, WaitingPods, IInv, TypeOK
<1> QED  BY <1>2, <1>3

\* Before the first pod nobody is released and nobody refused.
LEMMA GangInit == Init => GangInv
<1> SUFFICES ASSUME Init PROVE GangInv
  OBVIOUS
<1>1. Assigned = {} /\ \A g : Released(g) = {} /\ Doomed(g) = {}
  BY PodsAssumption DEF Init, Released, Doomed, Assigned, Occupies, Binding, Members
<1> QED
  BY <1>1 DEF GangInv, Init, PodsExist, SignalsWaiting, VisitsSiblings, CyclePod,
       UnknownGroupEmpty, FailsAlone, DenialCovers, NoneDoomedPastPreFilter, ReleasedNotDoomed,
       HeldBackUnreleased, SnapshotHoldsGang, WaitersOnList, GangAllOrNothing,
       Iterators, Failing, Counting

\* In an undisturbed environment the refusals and releases of the groups stay
\* apart in every reachable state.
THEOREM GangInvariance ==
    ASSUME Undisturbed
    PROVE  Spec => [](IInv /\ GangInv)
<1>1. IInv /\ GangInv /\ [Next]_vars => (IInv /\ GangInv)'
  <2> SUFFICES ASSUME IInv, GangInv, [Next]_vars PROVE (IInv /\ GangInv)'
    OBVIOUS
  <2>1. IInv'
    BY TypeStep, CycleStep DEF IInv
  <2>2. PodsExist' /\ SignalsWaiting' /\ VisitsSiblings' /\ CyclePod'
    BY PlaceStep DEF GangInv
  <2>3. UnknownGroupEmpty' /\ FailsAlone'
    BY GroupStep DEF GangInv
  <2> QED
    BY <2>1, <2>2, <2>3, DenialStep, CleanStep, ReleaseStep, SnapshotStep, AllOrNothingStep,
       ListStep DEF GangInv
<1> QED
  BY InitInv, GangInit, <1>1, PTL DEF Spec

\* All or nothing, for every cluster and every set of groups: a pod is let
\* through to binding only together with minMember pods of its group that hold a
\* node and are not refused.
THEOREM GangsWhole ==
    ASSUME Undisturbed
    PROVE  Spec => []GangAllOrNothing
  BY GangInvariance, PTL DEF GangInv

-----------------------------------------------------------------------------
\* A group has admitted pods from the moment one of them is released.
LEMMA AdmittedIffReleased ==
    ASSUME VisitsSiblings, NEW h \in Groups
    PROVE  (Admitted(h) = {}) <=> (Released(h) = {})
  BY DEF Admitted, Released, VisitsSiblings, WaitingPods, Members, Iterators

\* Every step but the Permit of a complete gang leaves the admissions alone:
\* telling the siblings one by one admits nobody, and refusals revoke nothing.
LEMMA AdmissionsKept ==
    ASSUME Undisturbed, IInv, GangInv, [Next]_vars,
           \A y \in Pods : pc[y] = "permit" => pc'[y] # "allowing"
    PROVE  \A h \in Groups : Admitted(h)' = Admitted(h)
<1> DEFINE Kept == \A h \in Groups : Admitted(h)' = Admitted(h)
<1> USE PodsAssumption, GroupAssumption
        DEF IInv, TypeOK, CycleOwner, GangInv, PodsExist, SignalsWaiting, VisitsSiblings,
            Undisturbed, Admitted, Released, WaitingPods, ReadLocked, Members,
            Goto, Requeue, Send, Steps, InCycle, Binding, Iterators
<1>1. ASSUME NEW p \in Pods, StartCycle(p) PROVE Kept
  BY <1>1 DEF StartCycle
<1>2. ASSUME NEW p \in Pods, PreFilter(p) PROVE Kept
  BY <1>2 DEF PreFilter
<1>3. ASSUME NEW p \in Pods, PreFilterResources(p) PROVE Kept
  BY <1>3 DEF PreFilterResources
<1>4. ASSUME NEW p \in Pods, Filter(p) PROVE Kept
  BY <1>4 DEF Filter
<1>5. ASSUME NEW p \in Pods, PostFilter(p) PROVE Kept
  BY <1>5 DEF PostFilter
<1>6. ASSUME NEW p \in Pods, PostFilterDone(p) PROVE Kept
  BY <1>6 DEF PostFilterDone
<1>7. ASSUME NEW p \in Pods, Permit(p) PROVE Kept
  BY <1>7 DEF Permit
<1>8. ASSUME NEW p \in Pods, PermitDone(p) PROVE Kept
  BY <1>8 DEF PermitDone
<1>9. ASSUME NEW p \in Pods, Enlist(p) PROVE Kept
  BY <1>9 DEF Enlist
<1>10. ASSUME NEW p \in Pods, WaitOnPermit(p) PROVE Kept
  BY <1>10 DEF WaitOnPermit
<1>11. ASSUME NEW p \in Pods, Bind(p) PROVE Kept
  BY <1>11 DEF Bind
<1>12. ASSUME NEW p \in Pods, Unreserve(p) PROVE Kept
  BY <1>12 DEF Unreserve
<1>13. ASSUME NEW p \in Pods, UnreserveDone(p) PROVE Kept
  BY <1>13 DEF UnreserveDone
<1>14. ASSUME NEW p \in Pods, Forget(p) PROVE Kept
  BY <1>14 DEF Forget
<1>15. ASSUME NEW p \in Pods, CreatePod(p) PROVE Kept
  BY <1>15 DEF CreatePod
<1>16. ASSUME NEW p \in Pods, NEW q \in Pods, Visit(p, q) PROVE Kept
  <2>1. CASE pc[p] = "allowing"
    BY <1>16, <2>1 DEF Visit
  <2>2. CASE pc[p] # "allowing"
    <3>1. ASSUME NEW r \in Pods, pc[r] = "allowing", q \in todo[r] PROVE FALSE
      <4>1. pc[p] = "unreserving" /\ Label[p] = Label[r] /\ Label[r] \in Groups
        BY <1>16, <2>2, <3>1 DEF Visit, LabelKnown
      <4>2. p \in Doomed(Label[r])
        BY <4>1 DEF Doomed
      <4> QED  BY <3>1, <4>1, <4>2 DEF NoneDoomedPastPreFilter
    <3> QED  BY <1>16, <2>2, <3>1 DEF Visit
  <2> QED  BY <2>1, <2>2
<1>17. ASSUME NEW g \in Groups, ExpireDenied(g) PROVE Kept
  BY <1>17 DEF ExpireDenied
<1>18. ASSUME NEW g \in Groups, ExpirePermitted(g) PROVE Kept
  BY <1>18 DEF ExpirePermitted
<1>19. ASSUME NEW g \in Groups, CreatePG(g) PROVE Kept
  BY <1>19 DEF CreatePG
<1>20. CASE UNCHANGED vars
  BY <1>20 DEF vars
<1> QED
  BY QuietStep, <1>1, <1>2, <1>3, <1>4, <1>5, <1>6, <1>7, <1>8, <1>9, <1>10, <1>11,
     <1>12, <1>13, <1>14, <1>15, <1>16, <1>17, <1>18, <1>19, <1>20

\* A pod that leaves Permit for the loop that tells its siblings has just found
\* the gang complete.
LEMMA PermitTaken ==
    ASSUME Undisturbed, IInv, [Next]_vars,
           NEW y \in Pods, pc[y] = "permit", pc'[y] = "allowing"
    PROVE  /\ Label[y] \in Groups /\ Ready(Label[y]) /\ cycle = y
           /\ pc' = [pc EXCEPT ![y] = "allowing"]
           /\ todo' = [todo EXCEPT ![y] = WaitingSiblings(y)]
           /\ UNCHANGED <<signal, snapshot>>
<1> DEFINE Taken == Permit(y) /\ pc'[y] = "allowing"
<1> USE DEF IInv, TypeOK, Goto, Requeue
<1>1. ASSUME NEW p \in Pods, StartCycle(p) PROVE Taken
  BY <1>1 DEF StartCycle
<1>2. ASSUME NEW p \in Pods, PreFilter(p) PROVE Taken
  BY <1>2 DEF PreFilter
<1>3. ASSUME NEW p \in Pods, PreFilterResources(p) PROVE Taken
  BY <1>3 DEF PreFilterResources
<1>4. ASSUME NEW p \in Pods, Filter(p) PROVE Taken
  BY <1>4 DEF Filter
<1>5. ASSUME NEW p \in Pods, PostFilter(p) PROVE Taken
  BY <1>5 DEF PostFilter
<1>6. ASSUME NEW p \in Pods, PostFilterDone(p) PROVE Taken
  BY <1>6 DEF PostFilterDone
<1>7. ASSUME NEW p \in Pods, Permit(p) PROVE Taken
  BY <1>7 DEF Permit
<1>8. ASSUME NEW p \in Pods, PermitDone(p) PROVE Taken
  BY <1>8 DEF PermitDone
<1>9. ASSUME NEW p \in Pods, Enlist(p) PROVE Taken
  BY <1>9 DEF Enlist
<1>10. ASSUME NEW p \in Pods, WaitOnPermit(p) PROVE Taken
  BY <1>10 DEF WaitOnPermit
<1>11. ASSUME NEW p \in Pods, Bind(p) PROVE Taken
  BY <1>11 DEF Bind
<1>12. ASSUME NEW p \in Pods, Unreserve(p) PROVE Taken
  BY <1>12 DEF Unreserve
<1>13. ASSUME NEW p \in Pods, UnreserveDone(p) PROVE Taken
  BY <1>13 DEF UnreserveDone
<1>14. ASSUME NEW p \in Pods, Forget(p) PROVE Taken
  BY <1>14 DEF Forget
<1>15. ASSUME NEW p \in Pods, CreatePod(p) PROVE Taken
  BY <1>15 DEF CreatePod
<1>16. ASSUME NEW p \in Pods, NEW q \in Pods, Visit(p, q) PROVE Taken
  BY <1>16 DEF Visit
<1>17. ASSUME NEW g \in Groups, ExpireDenied(g) PROVE Taken
  BY <1>17 DEF ExpireDenied
<1>18. ASSUME NEW g \in Groups, ExpirePermitted(g) PROVE Taken
  BY <1>18 DEF ExpirePermitted
<1>19. ASSUME NEW g \in Groups, CreatePG(g) PROVE Taken
  BY <1>19 DEF CreatePG
<1>20. ASSUME UNCHANGED vars PROVE Taken
  BY <1>20 DEF vars
<1>21. Taken
  BY QuietStep, <1>1, <1>2, <1>3, <1>4, <1>5, <1>6, <1>7, <1>8, <1>9, <1>10, <1>11,
     <1>12, <1>13, <1>14, <1>15, <1>16, <1>17, <1>18, <1>19, <1>20
<1> QED
  BY <1>21, GetPodGroupKnown DEF Permit, CycleOwner, InCycle

\* The Permit of a complete gang, and nothing else, admits: the whole gang when
\* nobody of the group was admitted before, else one more pod.
LEMMA PermitAdmits ==
    ASSUME Undisturbed, IInv, GangInv, [Next]_vars,
           NEW y \in Pods, pc[y] = "permit", pc'[y] = "allowing"
    PROVE  LET h == Label[y] IN
           /\ h \in Groups /\ y \in Members(h)
           /\ \A k \in Groups \ {h} : Admitted(k)' = Admitted(k)
           /\ Admitted(h) = {} => /\ Admitted(h)' \subseteq Members(h)
                                 /\ Cardinality(Admitted(h)') >= MinMember[h]
           /\ Admitted(h) # {} => Admitted(h)' = Admitted(h) \cup {y}
<1> DEFINE h == Label[y]
<1>1. /\ h \in Groups /\ Ready(h) /\ cycle = y
      /\ pc' = [pc EXCEPT ![y] = "allowing"]
      /\ todo' = [todo EXCEPT ![y] = WaitingSiblings(y)]
      /\ UNCHANGED <<signal, snapshot>>
  BY PermitTaken
<1>2. \A r \in Pods : pc[r] # "allowing"
  BY <1>1 DEF IInv, CycleOwner, InCycle
<1>3. y \in Members(h)
  BY DEF Members
<1>4. \A k \in Groups : Admitted(k) = Released(k)
  BY <1>2 DEF Admitted
<1>5. \A r \in Pods : pc'[r] = "allowing" <=> r = y
  BY <1>1, <1>2 DEF IInv, TypeOK
<1>6. \A k \in Groups : Released(k)' = IF k = h THEN Released(k) \cup {y} ELSE Released(k)
  BY <1>1 DEF Released, Members, IInv, TypeOK
<1>7. \A q \in Pods : pc'[q] = "waiting" <=> pc[q] = "waiting"
  BY <1>1 DEF IInv, TypeOK
<1>8. ASSUME NEW k \in Groups \ {h} PROVE Admitted(k)' = Admitted(k)
  BY <1>1, <1>4, <1>5, <1>6 DEF Admitted, WaitingPods, WaitingSiblings, IInv, TypeOK
<1>9. Admitted(h)' = Released(h) \cup {y} \cup {q \in Members(h) : pc[q] = "waiting" /\ signal[q] = "none"}
  BY <1>1, <1>5, <1>6, <1>7 DEF Admitted, WaitingPods, WaitingSiblings, Members, IInv, TypeOK
<1>10. ASSUME Admitted(h) = {}
       PROVE  Admitted(h)' \subseteq Members(h) /\ Cardinality(Admitted(h)') >= MinMember[h]
  <2>1. Committed(h)' = Admitted(h)'
    <3>1. Released(h) \subseteq Members(h)
      BY DEF Released
    <3> QED  BY <1>1, <1>3, <1>6, <1>7, <1>9, <3>1 DEF Committed, Members, IInv, TypeOK
  <2>2. Released(h)' # {}
    BY <1>1, <1>6
  <2> QED  BY <1>1, <1>9, <1>3, <2>1, <2>2, AllOrNothingStep DEF GangAllOrNothing, Released
<1>11. ASSUME Admitted(h) # {} PROVE Admitted(h)' = Admitted(h) \cup {y}
  BY <1>1, <1>2, <1>4, <1>9, <1>11 DEF GangInv, WaitersOnList
<1> QED
  BY <1>1, <1>3, <1>8, <1>10, <1>11

\* Refinement: Coscheduling, with its queue, cycles, loops and locks, admits whole
\* gangs in single steps and revokes no admission, for every cluster and every
\* set of groups.
THEOREM ImplementsGangAdmission ==
    ASSUME Undisturbed
    PROVE  Spec => AdmitsWholeGangs
<1> DEFINE adm == [g \in Groups |-> Admitted(g)]
<1>1. Init => Promise!Init
  BY DEF Init, Promise!Init, Admitted, Released, WaitingPods, Members
<1>2. IInv /\ GangInv /\ [Next]_vars => [Promise!Next]_adm
  <2> SUFFICES ASSUME IInv, GangInv, [Next]_vars PROVE Promise!Next \/ adm' = adm
    OBVIOUS
  <2>1. CASE \A y \in Pods : pc[y] = "permit" => pc'[y] # "allowing"
    BY <2>1, AdmissionsKept
  <2>2. CASE \E y \in Pods : pc[y] = "permit" /\ pc'[y] = "allowing"
    <3> PICK y \in Pods : pc[y] = "permit" /\ pc'[y] = "allowing"
      BY <2>2
    <3> DEFINE h == Label[y]
    <3>1. /\ h \in Groups /\ y \in Members(h)
          /\ \A k \in Groups \ {h} : Admitted(k)' = Admitted(k)
          /\ Admitted(h) = {} => /\ Admitted(h)' \subseteq Members(h)
                                /\ Cardinality(Admitted(h)') >= MinMember[h]
          /\ Admitted(h) # {} => Admitted(h)' = Admitted(h) \cup {y}
      BY PermitAdmits
    <3>2. Promise!Members(h) = Members(h)
      BY DEF Promise!Members, Members
    <3>3. adm' = [adm EXCEPT ![h] = Admitted(h)']
      BY <3>1
    <3>4. CASE Admitted(h) = {}
      <4> PICK S : S = Admitted(h)'
        OBVIOUS
      <4>1. S \subseteq Members(h) /\ Cardinality(S) >= MinMember[h]
        BY <3>1, <3>4
      <4>2. adm[h] = {} /\ adm' = [adm EXCEPT ![h] = S]
        BY <3>1, <3>3, <3>4
      <4>3. Promise!Cardinality(S) = Cardinality(S)
        BY DEF Promise!Cardinality, Cardinality
      <4>4. Promise!Admit(h, S)
        BY <3>2, <4>1, <4>2, <4>3 DEF Promise!Admit
      <4> QED  BY <3>1, <3>2, <4>1, <4>4 DEF Promise!Next
    <3>5. CASE Admitted(h) # {}
      <4>1. Promise!Join(h, y)
        BY <3>1, <3>2, <3>3, <3>5 DEF Promise!Join
      <4> QED  BY <3>1, <3>2, <4>1 DEF Promise!Next
    <3> QED  BY <3>4, <3>5
  <2> QED  BY <2>1, <2>2
<1> QED
  BY <1>1, <1>2, GangInvariance, PTL DEF Spec, AdmitsWholeGangs, Promise!Spec

=============================================================================
