------------------------- MODULE CrossNodePreemption ------------------------
(***************************************************************************)
(* The search of the CrossNodePreemption plugin: dfs enumerates every      *)
(* combination of the lower-priority pods and dryRunOnePass turns each one *)
(* into candidates.  The combinations are Go slices that grow by append,   *)
(* so the arrays behind them are part of the state: two slices may share   *)
(* one.                                                                    *)
(*                                                                         *)
(* Pods are numbered in the order in which bruteForceDryRunPreemption      *)
(* collects them, node by node; each requests one unit.                    *)
(***************************************************************************)
EXTENDS Integers, Sequences, FiniteSets

CONSTANTS
    NumPods,   \* number of pods of lower priority than the preemptor
    NumNodes,  \* number of potential nodes
    MaxShort   \* bound: units that a node may lack for the preemptor

Pods  == 1 .. NumPods
Nodes == 1 .. NumNodes

ASSUME SizeAssumption == {NumPods, NumNodes, MaxShort} \subseteq Nat \ {0}

VARIABLES
    where,      \* where[p]: node of pod p
    short,      \* short[n]: units that node n lacks
    conflicts,  \* pods that keep the preemptor from every node (cross-node filters)
    heap,       \* heap[a]: the array a, its length being the capacity
    calls,      \* calls of dfs that have not run yet, the next one last
    tried,      \* combinations handed to dryRunOnePass, as they read then
    result      \* candidates found: a node and a slice of victims

vars == <<where, short, conflicts, heap, calls, tried, result>>

-----------------------------------------------------------------------------
\* A slice is an array and a length; array 0 stands for none.
NilSlice == [array |-> 0, len |-> 0]
Cap(s)   == IF s.array = 0 THEN 0 ELSE Len(heap[s.array])
Elems(s) == {heap[s.array][i] : i \in 1 .. s.len}

\* append of the Go runtime: in place while there is capacity, else into a new
\* array of twice the capacity; 0 is an unused place.
GoAppend(s, p) ==
    IF s.len < Cap(s)
    THEN [slice |-> [s EXCEPT !.len = @ + 1],
          heap  |-> [heap EXCEPT ![s.array][s.len + 1] = p]]
    ELSE LET cap == IF Cap(s) = 0 THEN 1 ELSE 2 * Cap(s)
             new == [i \in 1 .. cap |-> IF i <= s.len THEN heap[s.array][i]
                                        ELSE IF i = s.len + 1 THEN p ELSE 0]
         IN  [slice |-> [array |-> Len(heap) + 1, len |-> s.len + 1],
              heap  |-> Append(heap, new)]

\* The preemptor passes the filters on node n once the pods of S are gone.
SchedulableWithout(n, S) ==
    /\ Cardinality({p \in S : where[p] = n}) >= short[n]
    /\ conflicts \subseteq S

\* dryRunOnePass: a copy of the victim's node is made for every victim, and
\* only that victim removed from it; the cycle state has all of them removed.  The
\* removal names the victim as the pod to be scheduled too, so conflicts are those of
\* filters that look at the removed pod alone, as RemovePod of CapacityScheduling does.
DryRunOnePass(s) ==
    LET fits(i) == short[where[heap[s.array][i]]] <= 1 /\ conflicts \subseteq Elems(s)
        copies  == SelectSeq([i \in 1 .. s.len |-> i], fits)
    IN  [k \in 1 .. Len(copies) |-> [node |-> where[heap[s.array][copies[k]]], victims |-> s]]

-----------------------------------------------------------------------------
Top == calls[Len(calls)]
Pop == SubSeq(calls, 1, Len(calls) - 1)

\* dfs at the end of the pods.
Leaf ==
    /\ calls # <<>> /\ Top.i > NumPods
    /\ calls' = Pop
    /\ tried' = Append(tried, IF Top.path.len = 0 THEN {} ELSE Elems(Top.path))
    /\ result' = result \o DryRunOnePass(Top.path)
    /\ UNCHANGED <<where, short, conflicts, heap>>

\* Slip: the combinations without the last pod are forgotten.
BranchPrunes ==
    /\ calls # <<>> /\ Top.i <= NumPods
    /\ LET picked == GoAppend(Top.path, Top.i)
       IN  /\ heap' = picked.heap
           /\ calls' = (IF Top.i = NumPods THEN Pop
                        ELSE Append(Pop, [i |-> Top.i + 1, path |-> Top.path]))
                         \o <<[i |-> Top.i + 1, path |-> picked.slice]>>
    /\ UNCHANGED <<where, short, conflicts, tried, result>>

\* dfs otherwise: pick the pod, then do not.
Branch ==
    /\ calls # <<>> /\ Top.i <= NumPods
    /\ LET picked == GoAppend(Top.path, Top.i)
       IN  /\ heap' = picked.heap
           /\ calls' = Pop \o <<[i |-> Top.i + 1, path |-> Top.path],
                                [i |-> Top.i + 1, path |-> picked.slice]>>
    /\ UNCHANGED <<where, short, conflicts, tried, result>>

\* The pods come node by node, and the preemptor did not fit anywhere.
Init ==
    /\ where \in {f \in [Pods -> Nodes] : \A p, q \in Pods : p <= q => f[p] <= f[q]}
    /\ short \in [Nodes -> 0 .. MaxShort]
    /\ conflicts \in SUBSET Pods
    /\ \A n \in Nodes : ~SchedulableWithout(n, {})
    /\ heap = <<>>
    /\ calls = <<[i |-> 1, path |-> NilSlice]>>
    /\ tried = <<>>
    /\ result = <<>>

Next == Leaf \/ Branch

Spec == Init /\ [][Next]_vars

-----------------------------------------------------------------------------
\* "We have 2^len(pods) choices in total": when the search is over, every
\* combination of pods has been handed to dryRunOnePass, and none twice.
AllCombinationsTried ==
    calls = <<>> => /\ {tried[i] : i \in DOMAIN tried} = SUBSET Pods
                    /\ Len(tried) = 2 ^ NumPods

\* "Each candidate is executable to make the given <pod> schedulable", read
\* when the search is over: the arrays may have been written to meanwhile.
CandidatesExecutable ==
    calls = <<>> => \A k \in DOMAIN result :
        SchedulableWithout(result[k].node, Elems(result[k].victims))

\* "Remove all victim pods": where evicting some combination would make room for the
\* preemptor on the node of one of its pods, the search finds a candidate.  It does
\* not hold with a node that needs two of its pods gone, each copy lacking only one.
CombinationsFound ==
    calls = <<>> /\ (\E S \in SUBSET Pods : \E p \in S : SchedulableWithout(where[p], S)) => result # <<>>

=============================================================================
