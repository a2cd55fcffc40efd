----------------------------- MODULE Preemption -----------------------------
(***************************************************************************)
(* selectVictimsOnNode of the CapacityScheduling plugin: the dry run that  *)
(* looks for pods of one node to evict in favour of a preemptor.  It works *)
(* on copies of the node and of the quota snapshot that PreFilter took     *)
(* (dryRunPreemption clones both for every node), so one dry run is        *)
(* sequential: it removes every potential victim, sees whether the         *)
(* preemptor would fit, and puts back whom it can spare.                   *)
(*                                                                         *)
(* The entry of a quota is the set of pods it counts: what it uses is what *)
(* they request (CapacityScheduling!UsedMatchesPods).                      *)
(***************************************************************************)
EXTENDS Integers, FiniteSets

CONSTANTS
    Pods, Namespaces,
    Ns,          \* Ns[p]: namespace of pod p
    Priority,    \* Priority[p]
    Importance,  \* Importance[p]: the order of MoreImportantPod, without ties
    Total,       \* Total[S]: what the pods of S request together
    Fits,        \* Fits[S]: the preemptor passes the filters on the node with pods S
    Budgets,     \* PodDisruptionBudgets
    Guarded,     \* Guarded[b]: pods that budget b matches and has not disrupted yet
    Allowed,     \* Allowed[b]: its DisruptionsAllowed
    Preemptor,   \* record of its ns, priority and request
    Specs,       \* records [min, max] of the ElasticQuotas
    SumMin,      \* SumMin[q]: the sum of min over the quotas of q
    NoQuota

Quotas == [Namespaces -> Specs \cup {NoQuota}]

ASSUME PodAssumption ==
    /\ IsFiniteSet(Pods) /\ Ns \in [Pods -> Namespaces]
    /\ Priority \in [Pods -> Nat] /\ Importance \in [Pods -> Nat]
    /\ \A p, q \in Pods : /\ Importance[p] = Importance[q] => p = q
                          /\ Priority[p] < Priority[q] => Importance[p] < Importance[q]
ASSUME TotalAssumption ==
    /\ Total \in [SUBSET Pods -> Nat]
    /\ \A S, T \in SUBSET Pods : S \cap T = {} => Total[S \cup T] = Total[S] + Total[T]
\* The filters do not ask for other pods (the code says so of affinity).
ASSUME FitsAssumption ==
    /\ Fits \in [SUBSET Pods -> BOOLEAN]
    /\ \A S, T \in SUBSET Pods : S \subseteq T /\ Fits[T] => Fits[S]
ASSUME BudgetAssumption == Guarded \in [Budgets -> SUBSET Pods] /\ Allowed \in [Budgets -> Nat]
ASSUME QuotaAssumption ==
    /\ Preemptor \in [ns : Namespaces, priority : Nat, request : Nat]
    /\ Specs \subseteq [min : Nat, max : Nat] /\ NoQuota \notin Specs
    /\ SumMin \in [Quotas -> Nat]

VARIABLES
    quota,      \* quota[n]: the ElasticQuota of namespace n in the snapshot
    snapshot,   \* pods that the quotas count in the snapshot of PreFilter
    resident,   \* pods on the node
    node,       \* pods left on the copy of the node
    counted,    \* pods counted in the copy of the snapshot
    stage,
    todo,       \* pods that the loop under way has still to look at
    potential,  \* potentialVictims
    victims,
    violations  \* numViolatingVictim

vars == <<quota, snapshot, resident, node, counted, stage, todo, potential, victims, violations>>
given == <<quota, snapshot, resident>>

-----------------------------------------------------------------------------
Known    == {n \in Namespaces : quota[n] # NoQuota}
HasQuota == Preemptor.ns \in Known
Of(n, S) == {p \in S : Ns[p] = n}

\* overUsed with the preemptor against max, and aggregatedMinOverUsedWithPod,
\* when the quotas count the pods of S.
OverMax(S) == Total[Of(Preemptor.ns, S)] + Preemptor.request > quota[Preemptor.ns].max
OverAggregatedMin(S) ==
    Total[S] + Preemptor.request > SumMin[quota]

OverQuota(S) == HasQuota /\ (OverMax(S) \/ OverAggregatedMin(S))

\* moreThanMinWithPreemptor: computed once, before any pod is removed.
MoreThanMinWithPreemptor ==
    Total[Of(Preemptor.ns, snapshot)] + Preemptor.request > quota[Preemptor.ns].min

\* moreThanMin of the quota of namespace n, as the removals so far leave it.
MoreThanMin(n) == Total[Of(n, counted)] > quota[n].min

\* Slip: the quota is judged by the snapshot although pods have been removed.
EligibleBySnapshot(p) ==
    IF HasQuota
    THEN /\ Ns[p] \in Known
         /\ IF MoreThanMinWithPreemptor
            THEN Ns[p] = Preemptor.ns /\ Priority[p] < Preemptor.priority
            ELSE Ns[p] # Preemptor.ns /\ Total[Of(Ns[p], snapshot)] > quota[Ns[p]].min
    ELSE Ns[p] \notin Known /\ Priority[p] < Preemptor.priority

\* Whom the first loop picks.
Eligible(p) ==
    IF HasQuota
    THEN /\ Ns[p] \in Known
         /\ IF MoreThanMinWithPreemptor
            THEN Ns[p] = Preemptor.ns /\ Priority[p] < Preemptor.priority
            ELSE Ns[p] # Preemptor.ns /\ MoreThanMin(Ns[p])
    ELSE Ns[p] \notin Known /\ Priority[p] < Preemptor.priority

\* filterPodsWithPDBViolation, which goes through S from the most important pod
\* on and takes one disruption from every budget that matches.
Violating(S) ==
    {p \in S : \E b \in Budgets :
        /\ p \in Guarded[b]
        /\ Cardinality({q \in S \cap Guarded[b] : Importance[q] >= Importance[p]}) > Allowed[b]}

\* The order of the loops: nodeInfo.Pods from the least important pod on;
\* the potential victims from the most important one on, violating ones first.
Least(S)       == {p \in S : \A q \in S : Importance[p] <= Importance[q]}
Most(S)        == {p \in S : \A q \in S : Importance[q] <= Importance[p]}
NextToSpare(S) == LET first == S \cap Violating(potential)
                  IN  IF first # {} THEN Most(first) ELSE Most(S)

-----------------------------------------------------------------------------
\* One turn of the loop over nodeInfo.Pods.
Collect(p) ==
    /\ stage = "collect" /\ p \in Least(todo)
    /\ todo' = todo \ {p}
    /\ IF Eligible(p)
       THEN /\ potential' = potential \cup {p}
            /\ node' = node \ {p}
            /\ counted' = counted \ {p}
       ELSE UNCHANGED <<potential, node, counted>>
    /\ UNCHANGED <<given, stage, victims, violations>>

\* Slip: only the filters are asked.
CheckFitsOnly ==
    /\ stage = "collect" /\ todo = {}
    /\ IF potential = {} \/ ~Fits[node]
       THEN stage' = "unsuitable" /\ UNCHANGED todo
       ELSE stage' = "reprieve" /\ todo' = potential
    /\ UNCHANGED <<given, node, counted, potential, victims, violations>>

\* The tests between the loops: is the node suitable with all of them gone?
Check ==
    /\ stage = "collect" /\ todo = {}
    /\ IF potential = {} \/ ~Fits[node] \/ OverQuota(counted)
       THEN stage' = "unsuitable" /\ UNCHANGED todo
       ELSE stage' = "reprieve" /\ todo' = potential
    /\ UNCHANGED <<given, node, counted, potential, victims, violations>>

\* AddPod of the plugin: counted unless its namespace has no quota.
CountedWith(p) == IF Ns[p] \in Known THEN counted \cup {p} ELSE counted

\* reprievePod, given what it finds after putting p back: evicted for one of
\* two reasons; for both it would be removed twice, which RemovePod refuses.
ReprieveWith(p, fits, over) ==
    /\ stage = "reprieve" /\ p \in NextToSpare(todo)
    /\ todo' = todo \ {p}
    /\ violations' = IF p \in Violating(potential) /\ ~fits THEN violations + 1 ELSE violations
    /\ stage' = IF ~fits /\ over THEN "error" ELSE stage
    /\ victims' = IF fits = over THEN victims \cup {p} ELSE victims
    /\ node' = IF fits /\ ~over THEN node \cup {p} ELSE node
    /\ counted' = IF fits /\ ~over THEN CountedWith(p) ELSE counted \ {p}
    /\ UNCHANGED <<given, potential>>

\* Slip: every pod that violates a budget is counted, spared or not.
ReprieveCountsAll(p) ==
    LET fits == Fits[node \cup {p}]
        over == OverQuota(IF fits THEN CountedWith(p) ELSE counted \ {p})
    IN  /\ stage = "reprieve" /\ p \in NextToSpare(todo)
        /\ todo' = todo \ {p}
        /\ violations' = IF p \in Violating(potential) THEN violations + 1 ELSE violations
        /\ victims' = IF fits = over THEN victims \cup {p} ELSE victims
        /\ node' = IF fits /\ ~over THEN node \cup {p} ELSE node
        /\ counted' = IF fits /\ ~over THEN CountedWith(p) ELSE counted \ {p}
        /\ UNCHANGED <<given, stage, potential>>

\* Slips: the quotas are asked as if the pod was still there; the filters are
\* asked with everybody else put back too.
ReprieveOverBefore(p) ==
    LET fits == Fits[node \cup {p}]
    IN  ReprieveWith(p, fits, OverQuota(CountedWith(p)))
ReprieveTogether(p) ==
    LET fits == Fits[node \cup todo]
    IN  ReprieveWith(p, fits, OverQuota(IF fits THEN CountedWith(p) ELSE counted \ {p}))

\* The second test sees p removed already when the first one failed.
Reprieve(p) ==
    LET fits == Fits[node \cup {p}]
    IN  ReprieveWith(p, fits, OverQuota(IF fits THEN CountedWith(p) ELSE counted \ {p}))

Finish ==
    /\ stage = "reprieve" /\ todo = {}
    /\ stage' = "candidate"
    /\ UNCHANGED <<given, node, counted, todo, potential, victims, violations>>

\* Pods may be counted that are on other nodes, and pods of the node may be
\* missing from the books.
Init ==
    /\ quota \in Quotas
    /\ resident \in SUBSET Pods
    /\ snapshot \in SUBSET {p \in Pods : quota[Ns[p]] # NoQuota}
    /\ node = resident /\ counted = snapshot
    /\ stage = "collect" /\ todo = resident
    /\ potential = {} /\ victims = {} /\ violations = 0

Next == (\E p \in Pods : Collect(p) \/ Reprieve(p)) \/ Check \/ Finish

Spec == Init /\ [][Next]_vars

-----------------------------------------------------------------------------
TypeOK ==
    /\ quota \in Quotas
    /\ {snapshot, resident, node, counted, todo, potential, victims} \subseteq SUBSET Pods
    /\ stage \in {"collect", "unsuitable", "reprieve", "error", "candidate"}
    /\ violations \in 0 .. Cardinality(victims)

\* What the quotas count once the victims are gone.
After == snapshot \ victims

\* "Each candidate is executable to make the given <pod> schedulable": with its
\* victims gone the preemptor passes the filters on the node, stays within the
\* max of its quota, and the quotas together within their min.
CandidateExecutable ==
    stage = "candidate" => Fits[resident \ victims] /\ ~OverQuota(After)

\* No pod is removed from the node twice: that the filters reject it and that a
\* quota is exceeded never come together.
RemovedOnce == stage # "error"

\* "Try to reprieve as many pods as possible": no single victim can be spared
\* from the final set, whatever was put back after it was refused.
NoNeedlessVictim ==
    stage = "candidate" => \A p \in victims : ~Fits[node \cup {p}] \/ OverQuota(CountedWith(p))

\* Other quotas give up what they borrowed: for a preemptor within its min, the
\* victims of a quota other than one of them leave it above its min.
BorrowersOnly ==
    stage = "candidate" /\ HasQuota /\ ~MoreThanMinWithPreemptor =>
        \A p \in victims : \E last \in Of(Ns[p], victims) :
            Total[Of(Ns[p], snapshot \ (victims \ {last}))] > quota[Ns[p]].min

=============================================================================
