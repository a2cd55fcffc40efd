-------------------------- MODULE PreemptionProofs --------------------------
(***************************************************************************)
(* Proofs about Preemption for any pods, requests, quotas and budgets, and *)
(* any filters that do not ask for other pods.  The second loop only puts  *)
(* pods back, and only while the filters and the quotas still allow the    *)
(* preemptor: that is the invariant (Loop) from which it follows that a    *)
(* candidate is executable and that no victim can be spared.  That only    *)
(* borrowers pay needs the order in which the first loop takes pods: BInv. *)
(***************************************************************************)
EXTENDS Preemption, SumsProofs

\* The quotas count pods of their own namespaces only.
Counting == snapshot \subseteq {p \in Pods : Ns[p] \in Known}

\* Where the pods are while the first loop runs.
Collecting ==
    stage = "collect" =>
        /\ potential \subseteq resident \ todo /\ victims = {}
        /\ todo \subseteq resident
        /\ node = resident \ potential
        /\ counted = snapshot \ potential

\* Where they are from the second loop on: a pod is on the node, a victim, or
\* still to be decided about; the books count at least what the snapshot says.
Deciding ==
    stage \in {"reprieve", "candidate"} =>
        /\ todo \cap victims = {}
        /\ todo \cup victims \subseteq resident
        /\ node = resident \ (todo \cup victims)
        /\ snapshot \ (todo \cup victims) \subseteq counted
        /\ counted \cap (todo \cup victims) = {}
        /\ stage = "candidate" => todo = {}

\* What the second loop maintains about the preemptor and about the victims.
Loop ==
    stage \in {"reprieve", "candidate"} =>
        /\ Fits[node]
        /\ ~OverQuota(counted)
        /\ \A p \in victims : ~Fits[node \cup {p}] \/ OverQuota(CountedWith(p))

IInv == TypeOK /\ RemovedOnce /\ Counting /\ Collecting /\ Deciding /\ Loop

\* The pods that were removed before p was.
Before(p) == {q \in potential : Importance[q] < Importance[p]}

\* The first loop goes from the least important pod on, and the second one
\* decides about the pods that the first one has picked.
InOrder ==
    /\ stage = "collect" => \A q \in potential, r \in todo : Importance[q] < Importance[r]
    /\ stage = "reprieve" => todo \subseteq potential
    /\ victims \subseteq potential

\* A quota of others was above its min when it lost a pod.
Borrowed ==
    HasQuota /\ ~MoreThanMinWithPreemptor =>
        \A p \in potential :
            Ns[p] \in Known /\ Total[Of(Ns[p], snapshot \ Before(p))] > quota[Ns[p]].min

BInv == IInv /\ InOrder /\ Borrowed

-----------------------------------------------------------------------------
\* More pods request more.
LEMMA TotalMonotone ==
    ASSUME NEW S \in SUBSET Pods, NEW T \in SUBSET Pods, S \subseteq T
    PROVE  Total[S] \in Nat /\ Total[T] \in Nat /\ Total[S] <= Total[T]
<1>1. T \ S \in SUBSET Pods /\ S \cap (T \ S) = {} /\ S \cup (T \ S) = T
  OBVIOUS
<1>2. Total[T] = Total[S] + Total[T \ S]
  BY <1>1, TotalAssumption
<1> QED  BY <1>1, <1>2, TotalAssumption

\* A quota that is exceeded stays exceeded when it counts more pods
\* (overUsed, aggregatedMinOverUsedWithPod).
LEMMA OverQuotaMonotone ==
    ASSUME NEW S \in SUBSET Pods, NEW T \in SUBSET Pods, S \subseteq T,
           quota \in Quotas, OverQuota(S)
    PROVE  OverQuota(T)
<1> DEFINE n == Preemptor.ns
<1>1. Of(n, S) \in SUBSET Pods /\ Of(n, T) \in SUBSET Pods /\ Of(n, S) \subseteq Of(n, T)
  BY DEF Of
<1>2. /\ Total[S] \in Nat /\ Total[T] \in Nat /\ Total[S] <= Total[T]
      /\ Total[Of(n, S)] \in Nat /\ Total[Of(n, T)] \in Nat /\ Total[Of(n, S)] <= Total[Of(n, T)]
  BY <1>1, TotalMonotone
<1>3. HasQuota /\ quota[n] \in Specs
  BY QuotaAssumption DEF OverQuota, HasQuota, Known, Quotas
<1>4. quota[n].max \in Nat /\ SumMin[quota] \in Nat /\ Preemptor.request \in Nat
  BY <1>3, QuotaAssumption
<1> QED  BY <1>2, <1>3, <1>4 DEF OverQuota, OverMax, OverAggregatedMin

-----------------------------------------------------------------------------
\* One more victim makes the set of victims larger by one.
LEMMA OneMore ==
    ASSUME NEW S \in SUBSET Pods, NEW p \in Pods, p \notin S
    PROVE  /\ Cardinality(S) \in Nat
           /\ Cardinality(S \cup {p}) = Cardinality(S) + 1
<1>1. IsFiniteSet(S)
  BY PodAssumption, FS_Subset
<1> QED  BY <1>1, FS_AddElement, FS_CardinalityType

\* The dry run starts with all pods of the node in place.
LEMMA InitInv == Init => IInv
<1> SUFFICES ASSUME Init PROVE IInv
  OBVIOUS
<1>1. Cardinality({}) = 0
  BY FS_EmptySet
<1>2. TypeOK
  BY <1>1 DEF Init, TypeOK
<1> QED  BY <1>2, PodAssumption DEF Init, IInv, RemovedOnce, Counting, Known, Collecting, Deciding, Loop

\* The first loop.
LEMMA CollectStep ==
    ASSUME IInv, NEW p \in Pods, Collect(p)
    PROVE  IInv'
<1> USE DEF IInv, Collect, given, Least
<1>1. TypeOK'
  BY DEF TypeOK
<1>2. Collecting' /\ RemovedOnce' /\ Counting'
  BY DEF Collecting, RemovedOnce, Counting, Known
<1>3. Deciding' /\ Loop'
  BY DEF Deciding, Loop
<1> QED  BY <1>1, <1>2, <1>3

\* The tests between the loops establish what the second loop maintains.
LEMMA CheckStep ==
    ASSUME IInv, Check
    PROVE  IInv'
<1> USE DEF IInv, Check, given
<1>1. TypeOK'
  BY DEF TypeOK
<1>2. Collecting' /\ RemovedOnce' /\ Counting'
  BY DEF Collecting, RemovedOnce, Counting, Known
<1>3. Deciding'
  BY DEF Deciding, Collecting
<1>4. Loop'
  BY DEF Loop, Collecting, OverQuota, OverMax, OverAggregatedMin, HasQuota, Known, Of
<1> QED  BY <1>1, <1>2, <1>3, <1>4

\* reprievePod: whatever it decides, the preemptor still fits, and whoever was
\* refused before would still be refused.
LEMMA ReprieveStep ==
    ASSUME IInv, NEW p \in Pods, Reprieve(p)
    PROVE  IInv'
<1> DEFINE fits == Fits[node \cup {p}]
           over == OverQuota(IF fits THEN CountedWith(p) ELSE counted \ {p})
<1>0. ReprieveWith(p, fits, over)
  BY DEF Reprieve
<1>1. /\ stage = "reprieve" /\ p \in todo /\ p \notin victims /\ p \notin node
      /\ p \notin counted /\ counted \ {p} = counted
  BY <1>0 DEF ReprieveWith, NextToSpare, Most, IInv, Deciding
<1>2. /\ node \in SUBSET Pods /\ counted \in SUBSET Pods /\ victims \in SUBSET Pods
      /\ node \cup {p} \in SUBSET Pods
      /\ CountedWith(p) \in SUBSET Pods /\ counted \subseteq CountedWith(p)
      /\ quota \in Quotas /\ UNCHANGED <<quota, snapshot, resident, potential>>
  BY <1>0 DEF IInv, TypeOK, CountedWith, ReprieveWith, given
<1>3. ~fits => ~over
  BY <1>1 DEF IInv, Loop
<1>4. fits \in BOOLEAN /\ over \in BOOLEAN
  BY <1>2, FitsAssumption DEF OverQuota, OverMax, OverAggregatedMin
<1>v. /\ violations' = IF p \in Violating(potential) /\ ~fits THEN violations + 1 ELSE violations
      /\ todo' = todo \ {p}
      /\ stage' = IF ~fits /\ over THEN "error" ELSE stage
      /\ victims' = IF fits = over THEN victims \cup {p} ELSE victims
      /\ node' = IF fits /\ ~over THEN node \cup {p} ELSE node
      /\ counted' = IF fits /\ ~over THEN CountedWith(p) ELSE counted \ {p}
  BY <1>0 DEF ReprieveWith
<1>q. \A S \in SUBSET Pods : OverQuota(S)' <=> OverQuota(S)
  BY <1>2 DEF OverQuota, OverMax, OverAggregatedMin, HasQuota, Known, Of
<1>c. \A q \in Pods : CountedWith(q)' = IF Ns[q] \in Known THEN counted' \cup {q} ELSE counted'
  BY <1>2 DEF CountedWith, Known
<1>k. Counting'
  BY <1>2 DEF IInv, Counting, Known
<1>5. CASE fits /\ ~over
  <2>1. /\ stage' = "reprieve" /\ node' = node \cup {p} /\ counted' = CountedWith(p)
        /\ victims' = victims /\ todo' = todo \ {p} /\ violations' = violations
    BY <1>1, <1>4, <1>5, <1>v
  <2>2. TypeOK' /\ RemovedOnce' /\ Collecting'
    BY <1>2, <2>1 DEF IInv, TypeOK, RemovedOnce, Collecting
  <2>3. Deciding'
    BY <1>1, <1>2, <2>1 DEF IInv, Deciding, CountedWith, Counting
  <2>4. Fits[node'] /\ ~OverQuota(counted)'
    BY <1>1, <1>2, <1>5, <2>1, <1>q
  <2>5. ASSUME NEW q \in victims PROVE ~Fits[node' \cup {q}] \/ OverQuota(CountedWith(q))'
    <3>1. ~Fits[node \cup {q}] \/ OverQuota(CountedWith(q))
      BY <1>1 DEF IInv, Loop
    <3>2. /\ q \in Pods /\ node \cup {q} \in SUBSET Pods /\ node' \cup {q} \in SUBSET Pods
          /\ node \cup {q} \subseteq node' \cup {q}
          /\ CountedWith(q) \in SUBSET Pods /\ CountedWith(q)' \in SUBSET Pods
          /\ CountedWith(q) \subseteq CountedWith(q)'
      BY <1>2, <2>1, <1>c DEF CountedWith
    <3>3. ~Fits[node \cup {q}] => ~Fits[node' \cup {q}]
      BY <3>2, FitsAssumption
    <3>4. OverQuota(CountedWith(q)) => OverQuota(CountedWith(q)')
      BY <1>2, <3>2, OverQuotaMonotone
    <3>5. OverQuota(CountedWith(q)') => OverQuota(CountedWith(q))'
      BY <1>2 DEF OverQuota, OverMax, OverAggregatedMin, HasQuota, Known, Of
    <3> QED  BY <3>1, <3>3, <3>4, <3>5
  <2> QED  BY <1>k, <2>1, <2>2, <2>3, <2>4, <2>5 DEF IInv, Loop
<1>6. CASE fits = over
  <2>1. /\ stage' = "reprieve" /\ node' = node /\ counted' = counted
        /\ victims' = victims \cup {p} /\ todo' = todo \ {p}
        /\ violations' \in {violations, violations + 1}
    BY <1>1, <1>3, <1>4, <1>6, <1>v
  <2>2. TypeOK' /\ RemovedOnce' /\ Collecting'
    <3>1. Cardinality(victims) \in Nat /\ Cardinality(victims \cup {p}) = Cardinality(victims) + 1
      BY <1>1, <1>2, OneMore
    <3>2. violations' \in 0 .. Cardinality(victims')
      BY <2>1, <3>1 DEF IInv, TypeOK
    <3> QED  BY <1>2, <2>1, <3>2 DEF IInv, TypeOK, RemovedOnce, Collecting
  <2>3. Deciding'
    BY <1>1, <1>2, <2>1 DEF IInv, Deciding
  <2>4. Fits[node'] /\ ~OverQuota(counted)'
    BY <1>1, <1>2, <2>1, <1>q DEF IInv, Loop
  <2>5. ASSUME NEW q \in victims' PROVE ~Fits[node' \cup {q}] \/ OverQuota(CountedWith(q))'
    <3>1. ~Fits[node \cup {q}] \/ OverQuota(CountedWith(q))
      <4>1. CASE q = p
        BY <1>4, <1>6, <4>1
      <4>2. CASE q # p
        BY <1>1, <2>1, <4>2 DEF IInv, Loop
      <4> QED  BY <4>1, <4>2
    <3>2. q \in Pods /\ CountedWith(q)' = CountedWith(q)
      BY <1>2, <2>1 DEF CountedWith, Known
    <3>3. OverQuota(CountedWith(q)') => OverQuota(CountedWith(q))'
      BY <1>2 DEF OverQuota, OverMax, OverAggregatedMin, HasQuota, Known, Of
    <3> QED  BY <2>1, <3>1, <3>2, <3>3
  <2> QED  BY <1>k, <2>1, <2>2, <2>3, <2>4, <2>5 DEF IInv, Loop
<1> QED  BY <1>3, <1>4, <1>5, <1>6

-----------------------------------------------------------------------------
\* Every step of the dry run keeps the invariant.
LEMMA InvStep == IInv /\ [Next]_vars => IInv'
<1> SUFFICES ASSUME IInv, [Next]_vars PROVE IInv'
  OBVIOUS
<1>1. ASSUME NEW p \in Pods, Collect(p) \/ Reprieve(p) PROVE IInv'
  BY <1>1, CollectStep, ReprieveStep
<1>2. CASE Check
  BY <1>2, CheckStep
<1>3. CASE Finish
  BY <1>3 DEF Finish, given, IInv, TypeOK, RemovedOnce, Counting, Known, Collecting, Deciding,
              Loop, OverQuota, OverMax, OverAggregatedMin, HasQuota, Of, CountedWith
<1>4. CASE UNCHANGED vars
  BY <1>4 DEF vars, IInv, TypeOK, RemovedOnce, Counting, Known, Collecting, Deciding,
              Loop, OverQuota, OverMax, OverAggregatedMin, HasQuota, Of, CountedWith
<1> QED  BY <1>1, <1>2, <1>3, <1>4 DEF Next

\* The invariant holds throughout every dry run.
THEOREM Invariance == Spec => []IInv
  BY InitInv, InvStep, PTL DEF Spec

\* Every candidate that selectVictimsOnNode returns is executable: without the
\* victims the preemptor passes the filters and no quota is exceeded.
THEOREM CandidatesExecutable == Spec => []CandidateExecutable
<1>1. IInv => CandidateExecutable
  <2> SUFFICES ASSUME IInv, stage = "candidate"
               PROVE  Fits[resident \ victims] /\ ~OverQuota(After)
    BY DEF CandidateExecutable
  <2>1. /\ node = resident \ victims /\ Fits[node] /\ ~OverQuota(counted)
        /\ After \subseteq counted /\ After \in SUBSET Pods /\ counted \in SUBSET Pods
        /\ quota \in Quotas
    BY DEF IInv, Deciding, Loop, After, TypeOK
  <2> QED  BY <2>1, OverQuotaMonotone
<1> QED  BY Invariance, <1>1, PTL

\* Nobody is evicted needlessly: each victim, put back alone, would make the
\* preemptor unschedulable.
THEOREM VictimsNeeded == Spec => []NoNeedlessVictim
<1>1. IInv => NoNeedlessVictim
  BY DEF IInv, Loop, NoNeedlessVictim
<1> QED  BY Invariance, <1>1, PTL

\* The error return of removePod in reprievePod is dead code.
THEOREM NeverRemovedTwice == Spec => []RemovedOnce
<1>1. IInv => RemovedOnce
  BY DEF IInv
<1> QED  BY Invariance, <1>1, PTL

\* The quotas of others stay borrowers until they lose their last pod: what the
\* first loop has seen of a quota when it removed a pod still tells of that pod.
LEMMA BInvStep ==
    ASSUME BInv, IInv', [Next]_vars
    PROVE  BInv'
<1> DEFINE Q == /\ (HasQuota' <=> HasQuota) /\ Known' = Known
                /\ (MoreThanMinWithPreemptor' <=> MoreThanMinWithPreemptor)
<1>1. ASSUME UNCHANGED given PROVE Q
  BY <1>1 DEF given, HasQuota, Known, MoreThanMinWithPreemptor, Of
<1>2. ASSUME UNCHANGED given, potential' = potential PROVE Borrowed'
  <2>1. \A p \in Pods : Before(p)' = Before(p)
    BY <1>2 DEF Before
  <2>2. quota' = quota /\ snapshot' = snapshot /\ potential \in SUBSET Pods
    BY <1>2 DEF given, BInv, IInv, TypeOK
  <2>3. ASSUME HasQuota', ~MoreThanMinWithPreemptor', NEW p \in potential'
        PROVE  Ns[p] \in Known' /\ Total[Of(Ns[p], snapshot \ Before(p))]' > quota'[Ns[p]].min
    <3>1. p \in Pods /\ Of(Ns[p], snapshot \ Before(p))' = Of(Ns[p], snapshot \ Before(p))
      BY <1>2, <2>1, <2>2, <2>3 DEF Of
    <3>2. Ns[p] \in Known /\ Total[Of(Ns[p], snapshot \ Before(p))] > quota[Ns[p]].min
      BY <1>1, <1>2, <2>3 DEF BInv, Borrowed
    <3> QED  BY <1>1, <1>2, <2>2, <3>1, <3>2
  <2> QED  BY <2>3 DEF Borrowed
<1>3. ASSUME NEW p \in Pods, Collect(p) PROVE InOrder' /\ Borrowed'
  <2>1. /\ stage = "collect" /\ stage' = "collect" /\ p \in todo /\ todo' = todo \ {p}
        /\ \A q \in todo : Importance[p] <= Importance[q]
        /\ UNCHANGED given /\ victims' = victims /\ potential \in SUBSET Pods /\ todo \in SUBSET Pods
        /\ potential' \in {potential, potential \cup {p}}
        /\ counted = snapshot \ potential /\ victims = {} /\ p \notin potential
    BY <1>3 DEF Collect, Least, BInv, IInv, Collecting, TypeOK
  <2>2. \A q, r \in Pods : /\ Importance[q] \in Nat /\ Importance[r] \in Nat
                           /\ Importance[q] = Importance[r] => q = r
    BY PodAssumption
  <2>3. \A q \in potential : Importance[q] < Importance[p]
    BY <2>1 DEF BInv, InOrder
  <2>4. InOrder'
    <3>1. ASSUME NEW q \in potential', NEW r \in todo' PROVE Importance[q] < Importance[r]
      BY <2>1, <2>2, <3>1 DEF BInv, InOrder
    <3> QED  BY <2>1, <3>1 DEF InOrder
  <2>5. CASE potential' = potential
    BY <1>2, <2>1, <2>4, <2>5
  <2>6. CASE potential' # potential
    <3>1. Eligible(p) /\ potential' = potential \cup {p}
      BY <1>3, <2>6 DEF Collect
    <3>2. ASSUME HasQuota', ~MoreThanMinWithPreemptor', NEW q \in potential'
          PROVE  Ns[q] \in Known' /\ Total[Of(Ns[q], snapshot \ Before(q))]' > quota'[Ns[q]].min
      <4>1. HasQuota /\ ~MoreThanMinWithPreemptor /\ Known' = Known
        BY <1>1, <2>1, <3>2
      <4>2. quota' = quota /\ snapshot' = snapshot
        BY <2>1 DEF given
      <4>3. CASE q = p
        <5>1. Before(p)' = potential
          BY <2>1, <2>2, <2>3, <3>1 DEF Before
        <5>2. Of(Ns[p], snapshot \ Before(p))' = Of(Ns[p], counted)
          BY <2>1, <4>2, <5>1 DEF Of
        <5>3. Ns[p] \in Known /\ Total[Of(Ns[p], counted)] > quota[Ns[p]].min
          BY <3>1, <4>1 DEF Eligible, MoreThanMin
        <5> QED  BY <4>1, <4>2, <4>3, <5>2, <5>3
      <4>4. CASE q # p
        <5>1. q \in potential /\ q \in Pods
          BY <2>1, <3>1, <3>2, <4>4
        <5>2. ~(Importance[p] < Importance[q])
          BY <2>2, <2>3, <5>1
        <5>3. Before(q)' = Before(q)
          BY <3>1, <5>2 DEF Before
        <5>4. Of(Ns[q], snapshot \ Before(q))' = Of(Ns[q], snapshot \ Before(q))
          BY <4>2, <5>3 DEF Of
        <5>5. Ns[q] \in Known /\ Total[Of(Ns[q], snapshot \ Before(q))] > quota[Ns[q]].min
          BY <4>1, <5>1 DEF BInv, Borrowed
        <5> QED  BY <4>1, <4>2, <5>4, <5>5
      <4> QED  BY <4>3, <4>4
    <3> QED  BY <2>4, <3>2 DEF Borrowed
  <2> QED  BY <2>5, <2>6
<1>4. ASSUME NEW p \in Pods, Reprieve(p) PROVE InOrder' /\ Borrowed'
  <2>1. /\ stage = "reprieve" /\ p \in todo /\ todo' = todo \ {p} /\ stage' \in {"reprieve", "error"}
        /\ victims' \in {victims, victims \cup {p}} /\ UNCHANGED given /\ potential' = potential
    BY <1>4 DEF Reprieve, ReprieveWith, NextToSpare, Most
  <2>2. InOrder'
    BY <2>1 DEF BInv, InOrder
  <2> QED  BY <1>2, <2>1, <2>2
<1>5. ASSUME Check \/ Finish \/ UNCHANGED vars PROVE InOrder' /\ Borrowed'
  <2>1. InOrder'
    BY <1>5 DEF Check, Finish, vars, BInv, InOrder
  <2> QED  BY <1>2, <1>5, <2>1 DEF Check, Finish, vars, given
<1> QED  BY <1>3, <1>4, <1>5 DEF BInv, Next

\* The dry run handles sets of pods, and counts a violated budget at most once
\* for a victim.
THEOREM TypeCorrect == Spec => []TypeOK
<1>1. IInv => TypeOK
  BY DEF IInv
<1> QED  BY Invariance, <1>1, PTL

\* A preemptor within its min takes back what others have borrowed, and no more
\* than the last pod takes a quota below its min, although the loop removes pods
\* one by one and the second loop puts some of them back in another order.
THEOREM OnlyBorrowersPay == Spec => []BorrowersOnly
<1>1. Init => BInv
  BY InitInv DEF Init, BInv, InOrder, Borrowed
<1>2. BInv /\ [Next]_vars => BInv'
  BY InvStep, BInvStep DEF BInv
<1>3. BInv => BorrowersOnly
  <2> SUFFICES ASSUME BInv, stage = "candidate", HasQuota, ~MoreThanMinWithPreemptor,
                      NEW p \in victims
               PROVE  \E last \in Of(Ns[p], victims) :
                        Total[Of(Ns[p], snapshot \ (victims \ {last}))] > quota[Ns[p]].min
    BY DEF BorrowersOnly
  <2> DEFINE V == Of(Ns[p], victims)
  <2>1. /\ victims \in SUBSET Pods /\ snapshot \in SUBSET Pods /\ quota \in Quotas
        /\ victims \subseteq potential
    BY DEF BInv, IInv, TypeOK, InOrder
  <2>2. V \in SUBSET Pods /\ p \in V
    BY <2>1 DEF Of
  <2>3. IsFiniteSet(V) /\ \A q \in Pods : Importance[q] \in Nat
    BY <2>2, PodAssumption, FS_Subset
  <2>4. \E last \in V : \A q \in V : Importance[q] <= Importance[last]
    <3>1. V # {} /\ \A q \in V : Importance[q] \in Int
      BY <2>2, <2>3
    <3> HIDE DEF V
    <3> QED  BY <2>3, <3>1, Largest
  <2>5. PICK last \in V : \A q \in V : Importance[q] <= Importance[last]
    BY <2>4
  <2> DEFINE S == Of(Ns[p], snapshot \ Before(last))
             T == Of(Ns[p], snapshot \ (victims \ {last}))
  <2>6. last \in victims /\ Ns[last] = Ns[p] /\ last \in Pods
    BY <2>1, <2>5 DEF Of
  <2>7. \A q \in V \ {last} : Importance[q] < Importance[last]
    BY <2>2, <2>3, <2>5, <2>6, PodAssumption
  <2>8. S \in SUBSET Pods /\ T \in SUBSET Pods /\ S \subseteq T
    BY <2>1, <2>7 DEF Of, Before
  <2>9. Ns[p] \in Known /\ Total[S] > quota[Ns[p]].min
    <3>1. Ns[last] \in Known /\ Total[Of(Ns[last], snapshot \ Before(last))] > quota[Ns[last]].min
      BY <2>1, <2>6 DEF BInv, Borrowed
    <3> QED  BY <2>6, <3>1
  <2>10. quota[Ns[p]].min \in Nat
    BY <2>1, <2>9, QuotaAssumption DEF Known, Quotas
  <2> HIDE DEF S, T
  <2>11. Total[T] > quota[Ns[p]].min
    BY <2>8, <2>9, <2>10, TotalMonotone
  <2> QED  BY <2>5, <2>11 DEF T, V
<1> QED  BY <1>1, <1>2, <1>3, PTL DEF Spec

=============================================================================
