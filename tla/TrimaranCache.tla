---------------------------- MODULE TrimaranCache ---------------------------
(***************************************************************************)
(* The cache of recently scheduled pods that the Trimaran plugins keep     *)
(* (pkg/trimaran/handler.go).  Score of TargetLoadPacking adds what the    *)
(* pods in it are predicted to use to the measured utilisation of the      *)
(* node, because the metrics cannot show them yet: see TargetLoadPacking.  *)
(*                                                                         *)
(* Time passes in ticks, Second of them to a second: an entry has the time *)
(* as the clock shows it, the metrics have it in whole seconds.            *)
(***************************************************************************)
EXTENDS Integers, Sequences, FiniteSets, SequencesExt

CONSTANTS
    Pods, Nodes, NoNode,
    Second,        \* ticks of the clock in a second
    Interval,      \* metricsAgentReportingIntervalSeconds
    CleanupEvery,  \* cacheCleanupIntervalMinutes, in ticks
    MaxTime        \* bound on time, in ticks

ASSUME NodeAssumption == NoNode \notin Nodes /\ IsFiniteSet(Pods)
ASSUME TimeAssumption == {Second, Interval, CleanupEvery, MaxTime} \subseteq Nat \ {0}

VARIABLES
    now,        \* the time
    node,       \* node[p]: node of pod p in the API server
    seen,       \* seen[p]: node of pod p as the handler was told
    since,      \* since[p]: when the handler was told of the pod it knows, else 0
    cache,      \* cache[n]: ScheduledPodsCache[n], <<>> when there is no entry
    cleaned     \* when the cleanup ran last

vars == <<now, node, seen, since, cache, cleaned>>

-----------------------------------------------------------------------------
\* metricsAgentReportingIntervalSeconds * time.Second
IntervalTicks == Interval * Second

\* An entry that cleanupCache keeps.
Fresh(e) == e.at + IntervalTicks > now

\* sort.Search for the first fresh entry; one past the end when there is none.
FirstFresh(s) ==
    IF \E i \in DOMAIN s : Fresh(s[i])
    THEN CHOOSE i \in DOMAIN s : Fresh(s[i]) /\ \A j \in 1 .. i - 1 : ~Fresh(s[j])
    ELSE Len(s) + 1

\* Slip: the usual deletion that moves the last entry into the gap.
WithoutSwapped(s, p) ==
    LET i == SelectInSeq(s, LAMBDA e : e.pod = p)
    IN  IF i = 0 THEN s ELSE SubSeq([s EXCEPT ![i] = s[Len(s)]], 1, Len(s) - 1)

\* What OnDelete makes of a node's entries: the first one of the pod goes.
Without(s, p) == RemoveFirstMatch(s, LAMBDA e : e.pod = p)

-----------------------------------------------------------------------------
Tick ==
    /\ now < MaxTime
    /\ now' = now + 1
    /\ UNCHANGED <<node, seen, since, cache, cleaned>>

\* The scheduler binds a pod; a pod is deleted.
Bind(p) ==
    /\ node[p] = NoNode /\ seen[p] = NoNode
    /\ \E n \in Nodes : node' = [node EXCEPT ![p] = n]
    /\ UNCHANGED <<now, seen, since, cache, cleaned>>

DeletePod(p) ==
    /\ node[p] # NoNode
    /\ node' = [node EXCEPT ![p] = NoNode]
    /\ UNCHANGED <<now, seen, since, cache, cleaned>>

\* OnAdd, OnUpdate and updateCache: behind the filter isAssigned a pod is
\* added once, when it has got its node.
OnAdd(p) ==
    /\ seen[p] = NoNode /\ node[p] # NoNode
    /\ seen' = [seen EXCEPT ![p] = node[p]]
    /\ since' = [since EXCEPT ![p] = now]
    /\ cache' = [cache EXCEPT ![node[p]] = Append(@, [pod |-> p, at |-> now])]
    /\ UNCHANGED <<now, node, cleaned>>

\* Slip: the pod is looked for under the node that the API server has for it.
OnDeleteElsewhere(p) ==
    /\ seen[p] # NoNode /\ node[p] # seen[p]
    /\ seen' = [seen EXCEPT ![p] = NoNode]
    /\ since' = [since EXCEPT ![p] = 0]
    /\ cache' = [n \in Nodes |-> IF n = node[p] THEN Without(cache[n], p) ELSE cache[n]]
    /\ UNCHANGED <<now, node, cleaned>>

\* OnDelete.  A deletion that the watch missed comes as a DeletedFinalStateUnknown,
\* which the filter lets through and the type assertion of the handler does not
\* expect: the process ends.  Such deletions are not modelled.
OnDelete(p) ==
    /\ seen[p] # NoNode /\ node[p] = NoNode
    /\ seen' = [seen EXCEPT ![p] = NoNode]
    /\ since' = [since EXCEPT ![p] = 0]
    /\ cache' = [cache EXCEPT ![seen[p]] = Without(@, p)]
    /\ UNCHANGED <<now, node, cleaned>>

\* Slip: the entries left over after the copy are emptied but not cut off.
CleanupCacheUncut ==
    /\ now >= cleaned + CleanupEvery
    /\ cleaned' = now
    /\ cache' = [n \in Nodes |->
                   LET i == FirstFresh(cache[n])
                   IN  IF i = Len(cache[n]) + 1 THEN cache[n]
                       ELSE SubSeq(cache[n], i, Len(cache[n]))
                              \o [j \in 1 .. i - 1 |-> [pod |-> NoNode, at |-> 0]]]
    /\ UNCHANGED <<now, node, seen, since>>

\* cleanupCache: a node without a fresh entry is skipped.
CleanupCache ==
    /\ now >= cleaned + CleanupEvery
    /\ cleaned' = now
    /\ cache' = [n \in Nodes |-> LET i == FirstFresh(cache[n])
                                 IN  IF i = Len(cache[n]) + 1 THEN cache[n]
                                     ELSE SubSeq(cache[n], i, Len(cache[n]))]
    /\ UNCHANGED <<now, node, seen, since>>

Init ==
    /\ now = 0 /\ cleaned = 0
    /\ node = [p \in Pods |-> NoNode]
    /\ seen = [p \in Pods |-> NoNode]
    /\ since = [p \in Pods |-> 0]
    /\ cache = [n \in Nodes |-> <<>>]

Next ==
    \/ \E p \in Pods : Bind(p) \/ DeletePod(p) \/ OnAdd(p) \/ OnDelete(p)
    \/ Tick \/ CleanupCache

Spec == Init /\ [][Next]_vars

-----------------------------------------------------------------------------
Entries == [pod : Pods, at : 0 .. MaxTime]

TypeOK ==
    /\ {now, cleaned} \subseteq 0 .. MaxTime /\ since \in [Pods -> 0 .. MaxTime]
    /\ node \in [Pods -> Nodes \cup {NoNode}] /\ seen \in [Pods -> Nodes \cup {NoNode}]
    /\ cache \in [Nodes -> Seq(Entries)]

Cached(p, n) == \E i \in DOMAIN cache[n] : cache[n][i].pod = p

\* The entries of a node are in the order of their timestamps, through
\* deletions and cleanups: the binary search of cleanupCache relies on it.
OldestFirst ==
    \A n \in Nodes : \A i, j \in DOMAIN cache[n] : i < j => cache[n][i].at <= cache[n][j].at

\* A pod has at most one entry, under its own node, and none after its deletion:
\* Score never predicts for a pod that is gone, nor twice for one that is there.
CachedOnce ==
    /\ \A p \in Pods, n \in Nodes : Cached(p, n) => seen[p] = n
    /\ \A n \in Nodes : IsInjective([i \in DOMAIN cache[n] |-> cache[n][i].pod])

=============================================================================
