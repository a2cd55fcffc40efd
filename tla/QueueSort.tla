------------------------------ MODULE QueueSort ------------------------------
(***************************************************************************)
(* The two queue sort plugins, Coscheduling (pkg/coscheduling) and QOSSort *)
(* (pkg/qos), and the active queue that calls their Less.  The queue is    *)
(* the binary heap of container/heap: it only ever compares neighbours, so *)
(* its head is right only if Less is an order that does not change under   *)
(* the pods it holds.  QOSSort says "less" of two equal pods both ways.    *)
(***************************************************************************)
EXTENDS Integers, Sequences, SequencesExt

CONSTANTS
    QueuePods,   \* pods that may be queued
    PodInfo,     \* PodInfo[p]: record of priority, qos, stamp (InitialAttemptTimestamp),
                 \* group (a PodGroup or NoGroup) and the rank of its name
    NoGroup,
    Created      \* Created[g]: CreationTimestamp of PodGroup g

ASSUME QueueAssumption ==
    /\ PodInfo \in [QueuePods -> [priority : Int, qos : {"Guaranteed", "Burstable", "BestEffort"},
                                  stamp : Int, group : DOMAIN Created \cup {NoGroup}, name : Int]]
    /\ \A g \in DOMAIN Created : Created[g] \in Int

VARIABLES
    heap,        \* the pods of the active queue, as they lie in the heap
    listed       \* PodGroups that the lister of the plugin knows

queueVars == <<heap, listed>>

QueueTypeOK ==
    /\ heap \in Seq(QueuePods)
    /\ \A i, j \in DOMAIN heap : heap[i] = heap[j] => i = j
    /\ listed \subseteq DOMAIN Created

-----------------------------------------------------------------------------
(* Less                                                                    *)

\* Slip: the pod's own time is used.
GetCreationTimestampOfPod(p) == PodInfo[p].stamp

\* GetCreationTimestamp: of the group if the lister has it.
GetCreationTimestamp(p) ==
    IF PodInfo[p].group \in listed THEN Created[PodInfo[p].group] ELSE PodInfo[p].stamp

\* Less of Coscheduling
CoschedulingLess(p, q) ==
    LET time1 == GetCreationTimestamp(p)
        time2 == GetCreationTimestamp(q)
    IN  IF PodInfo[p].priority # PodInfo[q].priority
        THEN PodInfo[p].priority > PodInfo[q].priority
        ELSE IF time1 = time2 THEN PodInfo[p].name < PodInfo[q].name ELSE time1 < time2

\* compQOS
CompQOS(p, q) ==
    CASE PodInfo[p].qos = "Guaranteed" -> TRUE
      [] PodInfo[p].qos = "Burstable"  -> PodInfo[q].qos # "Guaranteed"
      [] OTHER                         -> PodInfo[q].qos = "BestEffort"

\* Less of QOSSort
QOSLess(p, q) ==
    \/ PodInfo[p].priority > PodInfo[q].priority
    \/ PodInfo[p].priority = PodInfo[q].priority /\ CompQOS(p, q)

Less(plugin, p, q) ==
    IF plugin = "QOSSort" THEN QOSLess(p, q) ELSE CoschedulingLess(p, q)

-----------------------------------------------------------------------------
(* container/heap; positions are 1 .. Len.  Its loops are given by the set  *)
(* of the positions that the sifted pod comes through: on each of them the *)
(* pod of the next one takes its place, and on the last one it stays.      *)

\* up: from j to the parent as long as the pod is less than the one there.
Risen(plugin, s, j) ==
    {p \in 1 .. j : \A C \in SUBSET (1 .. j) :
        (j \in C /\ \A c \in C : c > 1 /\ Less(plugin, s[j], s[c \div 2]) => c \div 2 \in C)
            => p \in C}

Up(plugin, s, j) ==
    [p \in 1 .. Len(s) |->
        IF p \notin Risen(plugin, s, j) THEN s[p]
        ELSE IF p \div 2 \in Risen(plugin, s, j) THEN s[p \div 2] ELSE s[j]]

\* The child that down compares with: the right one only if it is less.
Child(plugin, s, i) ==
    IF 2 * i < Len(s) /\ Less(plugin, s[2 * i + 1], s[2 * i]) THEN 2 * i + 1 ELSE 2 * i

\* down: from the top to that child as long as it is less than the pod.
Sunk(plugin, s) ==
    {p \in 1 .. Len(s) : \A C \in SUBSET (1 .. Len(s)) :
        (/\ 1 \in C
         /\ \A c \in C : 2 * c <= Len(s) /\ Less(plugin, s[Child(plugin, s, c)], s[1])
                => Child(plugin, s, c) \in C)
            => p \in C}

Down(plugin, s) ==
    [p \in 1 .. Len(s) |->
        IF p \notin Sunk(plugin, s) THEN s[p]
        ELSE IF Child(plugin, s, p) \in Sunk(plugin, s) THEN s[Child(plugin, s, p)] ELSE s[1]]

\* heap.Push and heap.Pop
Pushed(plugin, s, p) == Up(plugin, Append(s, p), Len(s) + 1)
Popped(plugin, s) ==
    IF Len(s) = 1 THEN <<>> ELSE Down(plugin, Front([s EXCEPT ![1] = s[Len(s)]]))

-----------------------------------------------------------------------------
QueueInit == heap = <<>> /\ listed = {}

\* A pod is new, or comes back from the unschedulable pods.
Push(plugin, p) ==
    /\ p \notin Range(heap)
    /\ heap' = Pushed(plugin, heap, p)
    /\ UNCHANGED listed

\* The scheduler takes the next pod.
Pop(plugin) ==
    /\ heap # <<>>
    /\ heap' = Popped(plugin, heap)
    /\ UNCHANGED listed

\* A PodGroup is created or deleted.  While pods of it are queued this changes the
\* result of Less under the heap; it is assumed to happen only when none is.
ListPodGroup(g) ==
    /\ \A i \in DOMAIN heap : PodInfo[heap[i]].group # g
    /\ listed' = IF g \in listed THEN listed \ {g} ELSE listed \cup {g}
    /\ UNCHANGED heap

-----------------------------------------------------------------------------
(* Properties                                                              *)

QOSRank == [Guaranteed |-> 2, Burstable |-> 1, BestEffort |-> 0]

\* When a pod entered the competition: with its group, or by itself.
Since(p) ==
    IF PodInfo[p].group \in listed THEN Created[PodInfo[p].group] ELSE PodInfo[p].stamp

\* Pod p has to be scheduled before pod q, by what the plugins promise.
Precedes(plugin, p, q) ==
    \/ PodInfo[p].priority > PodInfo[q].priority
    \/ /\ PodInfo[p].priority = PodInfo[q].priority
       /\ IF plugin = "QOSSort"
          THEN QOSRank[PodInfo[p].qos] > QOSRank[PodInfo[q].qos]
          ELSE Since(p) < Since(q) \/ (Since(p) = Since(q) /\ PodInfo[p].name < PodInfo[q].name)

=============================================================================
