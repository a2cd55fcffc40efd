----------------------------- MODULE NodeScores -----------------------------
(***************************************************************************)
(* The scores of NodeResourcesAllocatable (pkg/noderesources) and of       *)
(* PodState (pkg/podstate), and the NormalizeScore that both have.  Scores *)
(* are machine integers: -Half .. Half - 1, with wrap-around.              *)
(***************************************************************************)
EXTENDS Integers, Sequences, Functions

CONSTANT Half   \* 2^63 in the code

ASSUME HalfAssumption == Half \in Nat /\ Half > 100

MinNodeScore == 0
MaxNodeScore == 100

InWord(x) == -Half <= x /\ x < Half
Wrap(x) == ((x + Half) % (2 * Half)) - Half

\* Division of machine integers truncates towards zero.
Abs(x) == IF x < 0 THEN -x ELSE x
Quotient(a, b) ==
    IF (a < 0) = (b < 0) THEN Wrap(Abs(a) \div Abs(b)) ELSE -(Abs(a) \div Abs(b))

-----------------------------------------------------------------------------
(* NodeResourcesAllocatable.  The scorer is handed the requested resources *)
(* too and ignores them.                                                   *)

\* The map that NewAllocatable makes of the list: the last entry of a name counts.
ResourceToWeightMap(resources) ==
    [r \in {resources[i].name : i \in DOMAIN resources} |->
        LET last == CHOOSE i \in DOMAIN resources :
                        /\ resources[i].name = r
                        /\ \A j \in DOMAIN resources : resources[j].name = r => j <= i
        IN  resources[last].weight]

\* score of one resource
ResourceScore(capacity, mode) ==
    CASE mode = "Least" -> -1 * capacity
      [] mode = "Most"  -> capacity
      [] OTHER          -> 0

\* resourceScorer: the weighted mean of the resources of a node.
NodeScore(weights, allocatable, mode) ==
    LET Weighted(r) == ResourceScore(allocatable[r], mode) * weights[r]
        nodeScore == SumFunction([r \in DOMAIN weights |-> Weighted(r)])
        weightSum == SumFunction(weights)
    IN  Quotient(Wrap(nodeScore), Wrap(weightSum))

\* score of PodState: terminating pods of the snapshot, nominated pods of the queue.
PodStateScore(terminating, nominated) == terminating - nominated

-----------------------------------------------------------------------------
(* NormalizeScore                                                          *)

Highest(scores) ==
    LET seen == {-(Half - 1)} \cup {scores[n] : n \in DOMAIN scores}
    IN  CHOOSE h \in seen : \A s \in seen : s <= h

Lowest(scores) ==
    LET seen == {Half - 1} \cup {scores[n] : n \in DOMAIN scores}
    IN  CHOOSE l \in seen : \A s \in seen : l <= s

\* The place of a score between the lowest and the highest one.
Rescale(score, lowest, highest) ==
    LET oldRange == Wrap(highest - lowest)
        newRange == MaxNodeScore - MinNodeScore
    IN  IF oldRange = 0 THEN MinNodeScore
        ELSE Quotient(Wrap(Wrap(score - lowest) * newRange), oldRange) + MinNodeScore

NormalizeScore(scores) ==
    [n \in DOMAIN scores |-> Rescale(scores[n], Lowest(scores), Highest(scores))]

=============================================================================
