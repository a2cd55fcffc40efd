------------------------ MODULE SchedulerProcessProofs ------------------------
(***************************************************************************)
(* The life of a component, for any configuration, cluster, load and       *)
(* queue: a plugin serves from synced listers, its arguments survive being *)
(* written out and read again, its scores are in the range of the          *)
(* framework and rank the nodes faithfully, and the head of the queue is a *)
(* pod that no other one has to precede.                                   *)
(***************************************************************************)
EXTENDS SchedulerProcess, SumsProofs, SequenceTheorems

(***************************************************************************)
(* The inductive invariant                                                 *)
(***************************************************************************)

\* How far the construction is.
Progress ==
    /\ component \in Components
    /\ stage \in {"configured", "constructing", "serving", "refused"}
    /\ pc \in 1 .. Len(Program) + 1
    /\ stage = "configured" => pc = 1
    /\ stage \in {"constructing", "refused"} => pc <= Len(Program)
    /\ stage = "serving" => pc = Len(Program) + 1

\* What the steps so far have left behind: what was asked for is there, what was
\* asked for before the Start of its factory is started, and what was waited for,
\* by itself or with its factory, is synced.
Was(k, op) == k \in 1 .. pc - 1 /\ Program[k].op = op
Within(k, l) == {i \in Program[k].on : ProcessFactoryOf[i] \in Program[l].on}
Built ==
    /\ \A k \in Nat : Was(k, "ask") => Program[k].on \subseteq informers
    /\ \A k, l \in Nat : k < l /\ Was(k, "ask") /\ Was(l, "start") => Within(k, l) \subseteq started
    /\ \A k \in Nat : Was(k, "wait") => Program[k].on \subseteq synced
    /\ \A k, l, o \in Nat :
            k < l /\ l < o /\ Was(k, "ask") /\ Was(l, "start") /\ Was(o, "waitFactory")
                => Within(k, l) \cap Within(k, o) \subseteq synced

\* The internal objects that the codec produces: with defaults in place.
ProviderValues == [type : STRING, address : STRING, token : STRING]
Internal(plugin) ==
    CASE plugin = "Coscheduling" ->
            [permit : Int, denied : Int, kubeMaster : STRING, kubeConfig : STRING]
      [] plugin = "CapacityScheduling" -> [kubeConfig : STRING]
      [] plugin = "NodeResourcesAllocatable" ->
            [resources : Seq([name : STRING, weight : Int]) \ {<<>>}, mode : STRING \ {Unset}]
      [] plugin = "TargetLoadPacking" ->
            [requests : Optional(Int) \ {Nil}, multiplier : STRING, target : Nat \ {0},
             provider : ProviderValues, watcher : STRING]
      [] plugin = "LoadVariationRiskBalancing" ->
            [provider : ProviderValues, watcher : STRING, margin : Nat, sensitivity : Nat]

\* Arguments that the constructor has accepted.
Accepted(plugin, a) ==
    /\ plugin = "TargetLoadPacking" =>
          a.multiplier \in Floats /\ (a.watcher = Unset => a.provider.type \in Providers)
    /\ plugin = "NodeResourcesAllocatable" =>
          /\ \A i \in DOMAIN a.resources : a.resources[i].weight > 0
          /\ a.mode \in {"Least", "Most"}

Arguments ==
    component \in Configured =>
        /\ stage = "configured" => args \in RawArgs[component]
        /\ stage # "configured" => args \in Undecoded \/ args \in Internal(component)
        /\ pc > 1 => args \in Internal(component) /\ Accepted(component, args)

\* Every score of the cycle is that of what the node was seen as.
Seen(n, b) ==
    /\ component = "NodeResourcesAllocatable" => b = snapshot[1][n]
    /\ component = "PodState" =>
          b.terminating = snapshot[1][n] /\ b.nominated \in 0 .. MaxNominated
    /\ component = "LoadVariationRiskBalancing" => b \in {Absent} \cup Metrics

RawScores == [n \in Nodes |-> scored[n].score]

Cycle ==
    /\ nominated \in [Nodes -> 0 .. MaxNominated]
    /\ metrics \in [Nodes -> {Absent} \cup Metrics]
    /\ DOMAIN scored \subseteq Nodes
    /\ snapshot # Nil => Scoring /\ \E s \in Snapshots[component] : snapshot = Pointer(s)
    /\ \A n \in DOMAIN scored :
          /\ snapshot # Nil
          /\ Seen(n, scored[n].basis)
          /\ scored[n].score = ScoreOf(n, scored[n].basis)
    /\ final # Nil =>
          /\ Scoring
          /\ DOMAIN scored = Nodes
          /\ final = IF component = "LoadVariationRiskBalancing" THEN RawScores
                     ELSE NormalizeScore(RawScores)

\* The queue is a heap: no pod has to precede the one above it.
InOrder(s) == \A i \in 2 .. Len(s) : ~Precedes(component, s[i], s[i \div 2])
Queued ==
    /\ QueueTypeOK
    /\ heap # <<>> => Sorting
    /\ InOrder(heap)

ProcessInv == Progress /\ FactoryTypeOK /\ Built /\ Arguments /\ Cycle /\ Queued

(***************************************************************************)
(* NormalizeScore, for any scores and any width of the machine integers    *)
(***************************************************************************)

\* A number that fits a machine word is not changed by it.
LEMMA WrapFits ==
    ASSUME NEW x \in Int, InWord(x)
    PROVE  Wrap(x) = x
<1>1. Half \in Nat /\ Half > 100 BY HalfAssumption
<1>2. 0 <= x + Half /\ x + Half < 2 * Half BY <1>1 DEF InWord
<1>3. (x + Half) % (2 * Half) = x + Half BY <1>1, <1>2
<1>. QED BY <1>1, <1>3 DEF Wrap

\* A share of a hundred is at most a hundred.
LEMMA ShareBounded ==
    ASSUME NEW a \in Nat, NEW r \in Nat, 0 < r, a <= r
    PROVE  (a * 100) \div r \in 0 .. 100
<1> DEFINE q == (a * 100) \div r
<1>1. q \in Int /\ r * q <= a * 100 /\ a * 100 < r * q + r OBVIOUS
<1>. QED BY <1>1

\* A larger part has a larger share.
LEMMA ShareMonotone ==
    ASSUME NEW a \in Nat, NEW b \in Nat, NEW r \in Nat, 0 < r, a <= b
    PROVE  (a * 100) \div r <= (b * 100) \div r
OBVIOUS


\* What Rescale computes when nothing overflows.
LEMMA RescaleExact ==
    ASSUME NEW lowest \in Int, NEW highest \in Int, NEW score \in Int,
           lowest <= score, score <= highest, 100 * (highest - lowest) < Half,
           lowest < highest
    PROVE  Rescale(score, lowest, highest) = ((score - lowest) * 100) \div (highest - lowest)
<1>1. Half \in Nat /\ Half > 100 BY HalfAssumption
<1> DEFINE a == score - lowest
           r == highest - lowest
<1>2. a \in Nat /\ r \in Nat /\ 0 < r /\ a <= r /\ r < Half /\ a * 100 < Half BY <1>1
<1>3. Wrap(r) = r BY <1>1, <1>2, WrapFits DEF InWord
<1>4. Wrap(a) = a BY <1>1, <1>2, WrapFits DEF InWord
<1>5. a * 100 \in Nat /\ Wrap(a * 100) = a * 100 BY <1>1, <1>2, WrapFits DEF InWord
<1> HIDE DEF a, r
<1>6. (a * 100) \div r \in 0 .. 100 BY <1>2, ShareBounded
<1>7. Wrap((a * 100) \div r) = (a * 100) \div r BY <1>1, <1>6, WrapFits DEF InWord
<1>8. Quotient(a * 100, r) = (a * 100) \div r BY <1>2, <1>5, <1>7 DEF Quotient, Abs
<1>9. Rescale(score, lowest, highest) = Quotient(Wrap(Wrap(a) * 100), r)
  BY <1>2, <1>3, <1>4, <1>5, <1>6, <1>8 DEF Rescale, MinNodeScore, MaxNodeScore, a, r
<1>. QED BY <1>4, <1>5, <1>8, <1>9 DEF a, r

\* Whatever the scores of a cycle are, what NormalizeScore makes of them is in the
\* range of the framework.
THEOREM RescaledInRange ==
    ASSUME NEW lowest \in Int, NEW highest \in Int, NEW score \in Int,
           lowest <= score, score <= highest, 100 * (highest - lowest) < Half
    PROVE  Rescale(score, lowest, highest) \in MinNodeScore .. MaxNodeScore
<1>1. CASE lowest = highest
  <2>1. Wrap(highest - lowest) = 0 BY <1>1, WrapFits, HalfAssumption DEF InWord
  <2>. QED BY <2>1 DEF Rescale, MinNodeScore, MaxNodeScore
<1>2. CASE lowest < highest
  <2>1. ((score - lowest) * 100) \div (highest - lowest) \in 0 .. 100
    BY <1>2, ShareBounded
  <2>. QED BY <1>2, <2>1, RescaleExact DEF MinNodeScore, MaxNodeScore
<1>. QED BY <1>1, <1>2

\* NormalizeScore never turns the order of two nodes around.
THEOREM RescaleKeepsOrder ==
    ASSUME NEW lowest \in Int, NEW highest \in Int, NEW s \in Int, NEW t \in Int,
           lowest <= s, s <= t, t <= highest, 100 * (highest - lowest) < Half
    PROVE  Rescale(s, lowest, highest) <= Rescale(t, lowest, highest)
<1>1. CASE lowest = highest
  <2>1. s = t BY <1>1
  <2>2. Rescale(s, lowest, highest) \in MinNodeScore .. MaxNodeScore BY RescaledInRange
  <2>. QED BY <2>1, <2>2 DEF MinNodeScore, MaxNodeScore
<1>2. CASE lowest < highest
  <2>1. Rescale(s, lowest, highest) = ((s - lowest) * 100) \div (highest - lowest)
    BY <1>2, RescaleExact
  <2>2. Rescale(t, lowest, highest) = ((t - lowest) * 100) \div (highest - lowest)
    BY <1>2, RescaleExact
  <2>3. ((s - lowest) * 100) \div (highest - lowest) <= ((t - lowest) * 100) \div (highest - lowest)
    BY <1>2, ShareMonotone
  <2>. QED BY <2>1, <2>2, <2>3
<1>. QED BY <1>1, <1>2

\* A finite set of numbers has a largest and a smallest one.
LEMMA HasExtremes ==
    ASSUME NEW S \in SUBSET Int, IsFiniteSet(S), S # {}
    PROVE  (\E h \in S : \A x \in S : x <= h) /\ (\E l \in S : \A x \in S : l <= x)
<1> DEFINE f == [x \in S |-> x]
           g == [x \in S |-> 0 - x]
<1>1. (\A x \in S : f[x] = x /\ f[x] \in Int) /\ (\A x \in S : g[x] = 0 - x /\ g[x] \in Int)
  OBVIOUS
<1> HIDE DEF f, g
<1>2. PICK h \in S : \A x \in S : f[x] <= f[h]
  BY <1>1, Largest
<1>3. PICK l \in S : \A x \in S : g[x] <= g[l]
  BY <1>1, Largest
<1>4. \A x \in S : l <= x
  <2> SUFFICES ASSUME NEW x \in S PROVE l <= x
    OBVIOUS
  <2>1. 0 - x <= 0 - l /\ x \in Int /\ l \in Int
    BY <1>1, <1>3
  <2>. QED BY <2>1
<1>. QED BY <1>1, <1>2, <1>4

\* The scores that the loop of NormalizeScore goes through, with its first value.
LEMMA ScoresFinite ==
    ASSUME NEW S, IsFiniteSet(S), NEW scores, NEW T, scores \in [S -> T], NEW first
    PROVE  IsFiniteSet({first} \cup {scores[n] : n \in S})
<1> DEFINE R == {scores[n] : n \in S}
<1>1. scores \in Surjection(S, R)
  BY DEF Surjection
<1> HIDE DEF R
<1>2. IsFiniteSet(R)
  BY <1>1, FS_Surjection DEF ExistsSurjection
<1>3. IsFiniteSet({first})
  BY FS_Singleton
<1>. QED BY <1>2, <1>3, FS_Union DEF R

\* The extremes that the loop of NormalizeScore finds bound every score.
LEMMA Extremes ==
    ASSUME NEW S, IsFiniteSet(S), NEW scores \in [S -> Int]
    PROVE  /\ Lowest(scores) \in Int /\ Highest(scores) \in Int
           /\ \A n \in S : Lowest(scores) <= scores[n] /\ scores[n] <= Highest(scores)
<1> DEFINE R == {scores[n] : n \in S}
           up == {-(Half - 1)} \cup R
           low == {Half - 1} \cup R
<1>1. Half \in Nat BY HalfAssumption
<1>2. Highest(scores) = CHOOSE h \in up : \A x \in up : x <= h BY DEF Highest
<1>3. Lowest(scores) = CHOOSE l \in low : \A x \in low : l <= x BY DEF Lowest
<1>4. up \subseteq Int /\ low \subseteq Int /\ up # {} /\ low # {} BY <1>1
<1>5. IsFiniteSet(up) /\ IsFiniteSet(low)
  BY ScoresFinite
<1>6. \A n \in S : scores[n] \in up /\ scores[n] \in low OBVIOUS
<1> HIDE DEF up, low
<1>7. (\E h \in up : \A x \in up : x <= h) /\ (\E l \in low : \A x \in low : l <= x)
  BY <1>4, <1>5, HasExtremes
<1>8. Highest(scores) \in up /\ \A x \in up : x <= Highest(scores) BY <1>2, <1>7
<1>9. Lowest(scores) \in low /\ \A x \in low : Lowest(scores) <= x BY <1>3, <1>7
<1>. QED BY <1>4, <1>6, <1>8, <1>9

\* For any number of nodes and any scores whose spread leaves headroom: the
\* normalised scores are in range and rank the nodes as their scores did.
THEOREM NormalizeScoreCorrect ==
    ASSUME NEW S, IsFiniteSet(S), NEW scores \in [S -> Int],
           100 * (Highest(scores) - Lowest(scores)) < Half
    PROVE  /\ NormalizeScore(scores) \in [S -> MinNodeScore .. MaxNodeScore]
           /\ \A m, n \in S : scores[m] <= scores[n] =>
                NormalizeScore(scores)[m] <= NormalizeScore(scores)[n]
<1> DEFINE l == Lowest(scores)
           h == Highest(scores)
<1>1. l \in Int /\ h \in Int /\ \A n \in S : l <= scores[n] /\ scores[n] <= h BY Extremes
<1>2. NormalizeScore(scores) = [n \in S |-> Rescale(scores[n], l, h)] BY DEF NormalizeScore
<1>3. 100 * (h - l) < Half OBVIOUS
<1> HIDE DEF l, h
<1>4. ASSUME NEW n \in S PROVE Rescale(scores[n], l, h) \in MinNodeScore .. MaxNodeScore
  <2>1. scores[n] \in Int OBVIOUS
  <2>. QED BY <1>1, <1>3, <2>1, RescaledInRange
<1>5. ASSUME NEW m \in S, NEW n \in S, scores[m] <= scores[n]
      PROVE  Rescale(scores[m], l, h) <= Rescale(scores[n], l, h)
  <2>1. scores[m] \in Int /\ scores[n] \in Int OBVIOUS
  <2>. QED BY <1>1, <1>3, <1>5, <2>1, RescaleKeepsOrder
<1>. QED BY <1>2, <1>4, <1>5

(***************************************************************************)
(* The constructors                                                        *)
(***************************************************************************)

\* Where the steps of two lists are when they are put together.
LEMMA ConcatAt ==
    ASSUME NEW S, NEW s \in Seq(S), NEW t \in Seq(S)
    PROVE  /\ s \o t \in Seq(S) /\ Len(s \o t) = Len(s) + Len(t)
           /\ \A k \in 1 .. Len(s) : (s \o t)[k] = s[k]
           /\ \A k \in 1 .. Len(t) : (s \o t)[Len(s) + k] = t[k]
BY ConcatProperties

\* The steps of a constructor: they ask for known informers only, and a plugin with
\* arguments begins by checking them.
Steps == [op : {"check", "client", "metrics", "ask", "start", "wait", "waitFactory"},
          on : SUBSET {"generated", "shared", "own", "pg", "eq", "pods", "pdb", "ownPods"}]
AsksForKnown(s) == \A k \in 1 .. Len(s) : s[k].op = "ask" => s[k].on \subseteq DOMAIN ProcessFactoryOf
LEMMA ProgramShape ==
    ASSUME component \in Components
    PROVE  /\ Program \in Seq(Steps) /\ 1 <= Len(Program) /\ AsksForKnown(Program)
           /\ component \in Configured => Program[1].op = "check"
<1>1. /\ RunScheduler \in Seq(Steps) /\ Len(RunScheduler) = 2 /\ AsksForKnown(RunScheduler)
  <2>1. RunScheduler \in Seq(Steps)
    BY DEF RunScheduler, Steps, Do
  <2>. QED BY <2>1 DEF RunScheduler, Do, AsksForKnown
<1>2. ASSUME NEW s \in Seq(Steps), AsksForKnown(s)
      PROVE  s \o RunScheduler \in Seq(Steps) /\ Len(s \o RunScheduler) = Len(s) + 2
             /\ AsksForKnown(s \o RunScheduler) /\ \A k \in 1 .. Len(s) : (s \o RunScheduler)[k] = s[k]
  <2> DEFINE t == s \o RunScheduler
  <2>1. t \in Seq(Steps) /\ Len(t) = Len(s) + 2 /\ (\A k \in 1 .. Len(s) : t[k] = s[k])
        /\ (\A k \in 1 .. 2 : t[Len(s) + k] = RunScheduler[k])
    BY <1>1, ConcatAt
  <2> HIDE DEF t
  <2>2. ASSUME NEW k \in 1 .. Len(t), t[k].op = "ask" PROVE t[k].on \subseteq DOMAIN ProcessFactoryOf
    <3>1. CASE k \in 1 .. Len(s)
      BY <1>2, <2>1, <2>2, <3>1 DEF AsksForKnown
    <3>2. CASE k \notin 1 .. Len(s)
      <4>1. k - Len(s) \in 1 .. 2 /\ k = Len(s) + (k - Len(s))
        BY <2>1, <3>2
      <4>2. t[k] = RunScheduler[k - Len(s)]
        BY <2>1, <4>1
      <4>. QED BY <1>1, <2>2, <4>1, <4>2 DEF AsksForKnown
    <3>. QED BY <3>1, <3>2
  <2>3. AsksForKnown(t)
    BY <2>2 DEF AsksForKnown
  <2>. QED BY <2>1, <2>3 DEF t
<1>3. CASE component = "Coscheduling"
  <2>1. /\ NewCoscheduling \in Seq(Steps) /\ Len(NewCoscheduling) = 6 /\ NewCoscheduling[1].op = "check"
        /\ AsksForKnown(NewCoscheduling)
    BY DEF NewCoscheduling, Steps, Do, AsksForKnown, ProcessFactoryOf
  <2>. QED BY <1>2, <1>3, <2>1 DEF Program
<1>4. CASE component = "CapacityScheduling"
  <2>1. /\ NewCapacityScheduling \in Seq(Steps) /\ Len(NewCapacityScheduling) = 7
        /\ NewCapacityScheduling[1].op = "check" /\ AsksForKnown(NewCapacityScheduling)
    BY DEF NewCapacityScheduling, Steps, Do, AsksForKnown, ProcessFactoryOf
  <2>. QED BY <1>2, <1>4, <2>1 DEF Program
<1>5. CASE component = "NodeResourcesAllocatable"
  <2> DEFINE s == <<Do("check", {})>>
  <2>1. s \in Seq(Steps) /\ Len(s) = 1 /\ s[1].op = "check" /\ AsksForKnown(s)
    BY DEF Steps, Do, AsksForKnown
  <2>2. Program = s \o RunScheduler
    BY <1>5 DEF Program
  <2> HIDE DEF s
  <2>3. /\ s \o RunScheduler \in Seq(Steps) /\ Len(s \o RunScheduler) = Len(s) + 2
        /\ AsksForKnown(s \o RunScheduler)
        /\ \A k \in 1 .. Len(s) : (s \o RunScheduler)[k] = s[k]
    <3>1. s \in Seq(Steps) /\ AsksForKnown(s)
      BY <2>1
    <3>. QED BY <1>2, <3>1
  <2>. QED BY <2>1, <2>2, <2>3
<1>6. CASE component = "TargetLoadPacking"
  <2>1. /\ NewTargetLoadPacking \in Seq(Steps) /\ Len(NewTargetLoadPacking) = 3
        /\ NewTargetLoadPacking[1].op = "check" /\ AsksForKnown(NewTargetLoadPacking)
    BY DEF NewTargetLoadPacking, Steps, Do, AsksForKnown, ProcessFactoryOf
  <2>. QED BY <1>2, <1>6, <2>1 DEF Program
<1>7. CASE component = "LoadVariationRiskBalancing"
  <2>1. /\ NewLoadVariation \in Seq(Steps) /\ Len(NewLoadVariation) = 3
        /\ NewLoadVariation[1].op = "check" /\ AsksForKnown(NewLoadVariation)
    BY DEF NewLoadVariation, Steps, Do, AsksForKnown, ProcessFactoryOf
  <2>. QED BY <1>2, <1>7, <2>1 DEF Program
<1>8. CASE component = "PodGroupController"
  <2>1. RunController \in Seq(Steps) /\ Len(RunController) = 5 /\ AsksForKnown(RunController)
    BY DEF RunController, Steps, Do, AsksForKnown, ProcessFactoryOf
  <2>. QED BY <1>8, <2>1 DEF Program, Configured
<1>9. CASE component \in {"CrossNodePreemption", "PodState", "QOSSort"}
  <2>1. Program = RunScheduler /\ component \notin Configured
    BY <1>9 DEF Program, Configured
  <2>. QED BY <1>1, <2>1
<1>. QED BY <1>3, <1>4, <1>5, <1>6, <1>7, <1>8, <1>9 DEF Components

\* The component, and with it the program, is the same all the time.
LEMMA ProgramFixed ==
    ASSUME component' = component
    PROVE  Program' = Program
BY DEF Program

\* What a step may do to the stage: nothing, begin the construction, or do one step
\* of it.
Moves == stage = "constructing" /\ (Advance \/ Refuse)
LEMMA StepKinds ==
    ASSUME [ProcessNext]_processVars
    PROVE  /\ component' = component
           /\ UNCHANGED <<stage, pc>> \/ Load \/ Moves
<1>1. CASE UNCHANGED processVars
  BY <1>1 DEF processVars
<1>2. CASE Load
  BY <1>2 DEF Load
<1>3. CASE CheckArgs
  BY <1>3 DEF CheckArgs, Moves, AtStep
<1>4. CASE BuildClient
  BY <1>4 DEF BuildClient, Moves, AtStep
<1>5. CASE AskForInformers
  BY <1>5 DEF AskForInformers, Moves, AtStep
<1>6. CASE Start
  BY <1>6 DEF Start, Moves, AtStep
<1>7. CASE WaitForCacheSync
  BY <1>7 DEF WaitForCacheSync, Moves, AtStep
<1>8. CASE FetchMetrics
  BY <1>8 DEF FetchMetrics, Moves, AtStep
<1>9. CASE \E i \in DOMAIN ProcessFactoryOf : SyncInformer(i)
  BY <1>9 DEF SyncInformer
<1>10. CASE StartCycle \/ Normalize \/ UpdateMetrics
  BY <1>10 DEF StartCycle, Normalize, UpdateMetrics
<1>11. CASE \E n \in Nodes : Score(n) \/ Nominate(n)
  BY <1>11 DEF Score, Nominate
<1>12. CASE (\E p \in QueuePods : QueuePod(p)) \/ NextPod \/ \E g \in DOMAIN Created : ChangePodGroup(g)
  BY <1>12 DEF QueuePod, NextPod, ChangePodGroup
<1>. QED BY <1>1, <1>2, <1>3, <1>4, <1>5, <1>6, <1>7, <1>8, <1>9, <1>10, <1>11, <1>12 DEF ProcessNext

\* Every step keeps the stage and the program counter in step.
LEMMA ProgressStep ==
    ASSUME Progress, [ProcessNext]_processVars
    PROVE  Progress'
<1>1. component' = component /\ (UNCHANGED <<stage, pc>> \/ Load \/ Moves)
  BY StepKinds
<1>2. Program' = Program /\ Len(Program) \in Nat /\ 1 <= Len(Program)
  BY <1>1, ProgramFixed, ProgramShape DEF Progress
<1>3. CASE UNCHANGED <<stage, pc>>
  BY <1>1, <1>2, <1>3 DEF Progress
<1>4. CASE Load
  BY <1>1, <1>2, <1>4 DEF Progress, Load
<1>5. CASE Moves
  BY <1>1, <1>2, <1>5 DEF Progress, Moves, Advance, Refuse
<1>. QED BY <1>1, <1>3, <1>4, <1>5

\* What a step may do to the informers, and what it has to be at for that.
Idles == pc' = pc /\ UNCHANGED informerVars
Syncs == pc' = pc /\ \E i \in DOMAIN ProcessFactoryOf : Sync(i)
Passes(op) == pc' = pc + 1 /\ stage = "constructing" /\ Program[pc].op = op
LEMMA InformerKinds ==
    ASSUME Progress, [ProcessNext]_processVars
    PROVE  \/ Idles \/ Syncs
           \/ (Passes("check") \/ Passes("client") \/ Passes("metrics")) /\ UNCHANGED informerVars
           \/ Passes("ask") /\ InformerFor(On)
           \/ Passes("start") /\ StartFactories(On)
           \/ Passes("wait") /\ On \subseteq synced /\ UNCHANGED informerVars
           \/ Passes("waitFactory") /\ (\A f \in On : FactorySynced(f)) /\ UNCHANGED informerVars
<1>1. CASE UNCHANGED processVars
  BY <1>1 DEF processVars, Idles, informerVars
<1>2. CASE Load
  BY <1>2 DEF Load, Idles, Progress
<1>3. CASE CheckArgs
  BY <1>3 DEF CheckArgs, Idles, Passes, AtStep, Advance, Refuse
<1>4. CASE BuildClient
  BY <1>4 DEF BuildClient, Idles, Passes, AtStep, Advance, Refuse
<1>5. CASE AskForInformers
  BY <1>5 DEF AskForInformers, Passes, AtStep, Advance
<1>6. CASE Start
  BY <1>6 DEF Start, Passes, AtStep, Advance
<1>7. CASE WaitForCacheSync
  BY <1>7 DEF WaitForCacheSync, Passes, AtStep, Advance
<1>8. CASE FetchMetrics
  BY <1>8 DEF FetchMetrics, Idles, Passes, AtStep, Advance, Refuse
<1>9. CASE \E i \in DOMAIN ProcessFactoryOf : SyncInformer(i)
  BY <1>9 DEF SyncInformer, Syncs
<1>10. CASE StartCycle \/ Normalize \/ UpdateMetrics
  BY <1>10 DEF StartCycle, Normalize, UpdateMetrics, Idles
<1>11. CASE \E n \in Nodes : Score(n) \/ Nominate(n)
  BY <1>11 DEF Score, Nominate, Idles
<1>12. CASE (\E p \in QueuePods : QueuePod(p)) \/ NextPod \/ \E g \in DOMAIN Created : ChangePodGroup(g)
  BY <1>12 DEF QueuePod, NextPod, ChangePodGroup, Idles
<1>. QED BY <1>1, <1>2, <1>3, <1>4, <1>5, <1>6, <1>7, <1>8, <1>9, <1>10, <1>11, <1>12 DEF ProcessNext

\* Every step keeps the informers typed and the record of the construction true.
LEMMA BuiltStep ==
    ASSUME Progress, FactoryTypeOK, Built, [ProcessNext]_processVars
    PROVE  FactoryTypeOK' /\ Built'
<1>1. Program' = Program /\ AsksForKnown(Program) /\ pc \in Nat /\ Len(Program) \in Nat
  BY StepKinds, ProgramFixed, ProgramShape DEF Progress
<1>2. stage = "constructing" => pc \in 1 .. Len(Program)
  BY DEF Progress
<1>3. ASSUME pc' = pc, informers' = informers, started \subseteq started', synced \subseteq synced'
      PROVE  Built'
  BY <1>1, <1>3 DEF Built, Was, Within
<1>4. CASE Idles
  <2>1. FactoryTypeOK' BY <1>4 DEF Idles, informerVars, FactoryTypeOK
  <2>. QED BY <1>3, <1>4, <2>1 DEF Idles, informerVars
<1>5. CASE Syncs
  <2>1. FactoryTypeOK' BY <1>5 DEF Syncs, Sync, FactoryTypeOK
  <2>. QED BY <1>3, <1>5, <2>1 DEF Syncs, Sync
<1> DEFINE Old == 1 .. pc - 1
<1>6. ASSUME pc' = pc + 1, informers \subseteq informers', started \subseteq started', synced \subseteq synced',
             Program[pc].op = "ask" => Program[pc].on \subseteq informers',
             Program[pc].op = "start" => \A k \in Old : Was(k, "ask") => Within(k, pc) \subseteq started',
             Program[pc].op = "wait" => Program[pc].on \subseteq synced',
             Program[pc].op = "waitFactory" => \A k, l \in Old : k < l /\ Was(k, "ask") /\ Was(l, "start") =>
                Within(k, l) \cap Within(k, pc) \subseteq synced'
      PROVE  Built'
  <2>1. ASSUME NEW k \in Nat, NEW op, Was(k, op)'
        PROVE  (k \in Old /\ Was(k, op)) \/ (k = pc /\ Program[pc].op = op)
    BY <1>1, <1>6, <2>1 DEF Was
  <2>2. \A k, l : Within(k, l)' = Within(k, l)
    BY <1>1 DEF Within
  <2>3. \A k \in Nat : Was(k, "ask")' => Program[k].on \subseteq informers'
    BY <1>6, <2>1 DEF Built
  <2>4. ASSUME NEW k \in Nat, NEW l \in Nat, k < l, Was(k, "ask")', Was(l, "start")'
        PROVE  Within(k, l) \subseteq started'
    <3>1. k \in Old /\ Was(k, "ask")
      BY <1>1, <2>1, <2>4
    <3>2. CASE l \in Old /\ Was(l, "start")
      BY <1>6, <2>4, <3>1, <3>2 DEF Built
    <3>3. CASE l = pc /\ Program[pc].op = "start"
      BY <1>6, <3>1, <3>3
    <3>. QED BY <2>1, <2>4, <3>2, <3>3
  <2>5. \A k \in Nat : Was(k, "wait")' => Program[k].on \subseteq synced'
    BY <1>6, <2>1 DEF Built
  <2>6. ASSUME NEW k \in Nat, NEW l \in Nat, NEW o \in Nat, k < l, l < o,
               Was(k, "ask")', Was(l, "start")', Was(o, "waitFactory")'
        PROVE  Within(k, l) \cap Within(k, o) \subseteq synced'
    <3>1. k \in Old /\ Was(k, "ask") /\ l \in Old /\ Was(l, "start")
      BY <1>1, <2>1, <2>6
    <3>2. CASE o \in Old /\ Was(o, "waitFactory")
      BY <1>6, <2>6, <3>1, <3>2 DEF Built
    <3>3. CASE o = pc /\ Program[pc].op = "waitFactory"
      BY <1>6, <2>6, <3>1, <3>3
    <3>. QED BY <2>1, <2>6, <3>2, <3>3
  <2> HIDE DEF Old
  <2>. QED BY <1>1, <2>2, <2>3, <2>4, <2>5, <2>6 DEF Built
<1>7. ASSUME Passes("check") \/ Passes("client") \/ Passes("metrics"), UNCHANGED informerVars
      PROVE  FactoryTypeOK' /\ Built'
  <2>1. FactoryTypeOK' BY <1>7 DEF informerVars, FactoryTypeOK
  <2>. QED BY <1>6, <1>7, <2>1 DEF Passes, informerVars
<1>8. ASSUME Passes("ask"), InformerFor(On)
      PROVE  FactoryTypeOK' /\ Built'
  <2>1. informers' = informers \cup Program[pc].on /\ started' = started /\ synced' = synced
    BY <1>8 DEF InformerFor, On
  <2>2. pc' = pc + 1 /\ Program[pc].op = "ask" /\ pc \in 1 .. Len(Program)
    BY <1>2, <1>8 DEF Passes
  <2>3. FactoryTypeOK'
    BY <1>1, <2>1, <2>2 DEF FactoryTypeOK, AsksForKnown
  <2>. QED BY <1>6, <2>1, <2>2, <2>3
<1>9. ASSUME Passes("start"), StartFactories(On)
      PROVE  FactoryTypeOK' /\ Built'
  <2>1. /\ started' = started \cup {i \in informers : ProcessFactoryOf[i] \in Program[pc].on}
        /\ informers' = informers /\ synced' = synced
    BY <1>9 DEF StartFactories, On
  <2>2. pc' = pc + 1 /\ Program[pc].op = "start"
    BY <1>9 DEF Passes
  <2>3. FactoryTypeOK'
    BY <2>1 DEF FactoryTypeOK
  <2>4. \A k \in Old : Was(k, "ask") => Within(k, pc) \subseteq started'
    BY <1>1, <2>1 DEF Built, Within
  <2>. QED BY <1>6, <2>1, <2>2, <2>3, <2>4
<1>10. ASSUME Passes("wait"), On \subseteq synced, UNCHANGED informerVars
       PROVE  FactoryTypeOK' /\ Built'
  <2>1. FactoryTypeOK' BY <1>10 DEF informerVars, FactoryTypeOK
  <2>. QED BY <1>6, <1>10, <2>1 DEF Passes, informerVars, On
<1>11. ASSUME Passes("waitFactory"), \A f \in On : FactorySynced(f), UNCHANGED informerVars
       PROVE  FactoryTypeOK' /\ Built'
  <2>1. FactoryTypeOK' BY <1>11 DEF informerVars, FactoryTypeOK
  <2>2. informers' = informers /\ started' = started /\ synced' = synced
    BY <1>11 DEF informerVars
  <2>3. pc' = pc + 1 /\ Program[pc].op = "waitFactory"
    BY <1>11 DEF Passes
  <2>4. ASSUME NEW k \in Old, NEW l \in Old, k < l, Was(k, "ask"), Was(l, "start")
        PROVE  Within(k, l) \cap Within(k, pc) \subseteq synced'
    <3>1. Within(k, l) \subseteq started
      BY <1>1, <2>4 DEF Built
    <3>2. \A i \in started : ProcessFactoryOf[i] \in Program[pc].on => i \in synced
      BY <1>11 DEF FactorySynced, On
    <3>. QED BY <2>2, <3>1, <3>2 DEF Within
  <2>. QED BY <1>6, <2>1, <2>2, <2>3, <2>4
<1>. QED BY <1>4, <1>5, <1>7, <1>8, <1>9, <1>10, <1>11, InformerKinds

\* A constructor that has done all its steps has what the plugin reads synced:
\* PodGroups, quotas and grouped pods by its own waits, pods and disruption budgets
\* by the scheduler's, which is not before they were asked for.  The controller has
\* waited for its PodGroups.
LEMMA ReadsSynced ==
    ASSUME Progress, Built
    PROVE  PluginListersSynced
<1> SUFFICES ASSUME stage = "serving"
             PROVE  IF component = "PodGroupController" THEN "pg" \in synced ELSE Reads \subseteq synced
  BY DEF PluginListersSynced
<1>1. pc = Len(Program) + 1 /\ component \in Components
  BY DEF Progress
<1>2. ASSUME NEW k \in 1 .. Len(Program), Program[k].op = "wait" PROVE Program[k].on \subseteq synced
  BY <1>1, <1>2 DEF Built, Was
<1>3. ASSUME NEW k \in 1 .. Len(Program), NEW l \in 1 .. Len(Program), NEW o \in 1 .. Len(Program),
             NEW i, k < l, l < o, i \in Program[k].on, ProcessFactoryOf[i] = "shared",
             Program[k].op = "ask", Program[l] = Do("start", {"shared"}),
             Program[o] = Do("waitFactory", {"shared"})
      PROVE  i \in synced
  <2>1. Was(k, "ask") /\ Was(l, "start") /\ Was(o, "waitFactory")
    BY <1>1, <1>3 DEF Was, Do
  <2>2. i \in Within(k, l) /\ i \in Within(k, o)
    BY <1>3 DEF Within, Do
  <2>. QED BY <1>3, <2>1, <2>2 DEF Built
<1>4. /\ RunScheduler \in Seq(Steps) /\ Len(RunScheduler) = 2
      /\ RunScheduler[1] = Do("start", {"shared"}) /\ RunScheduler[2] = Do("waitFactory", {"shared"})
  <2>1. RunScheduler \in Seq(Steps)
    BY DEF RunScheduler, Steps, Do
  <2>. QED BY <2>1 DEF RunScheduler
<1> DEFINE Begins(s) == s \in Seq(Steps) /\ Program = s \o RunScheduler
<1>5. ASSUME NEW s, Begins(s)
      PROVE  /\ Len(Program) = Len(s) + 2 /\ \A k \in 1 .. Len(s) : Program[k] = s[k]
             /\ Program[Len(s) + 1] = Do("start", {"shared"})
             /\ Program[Len(s) + 2] = Do("waitFactory", {"shared"})
  <2> DEFINE t == s \o RunScheduler
  <2>1. s \in Seq(Steps) /\ Len(s) \in Nat
    BY <1>5
  <2>2. /\ Len(t) = Len(s) + Len(RunScheduler)
        /\ \A k \in 1 .. Len(s) : t[k] = s[k]
        /\ \A k \in 1 .. Len(RunScheduler) : t[Len(s) + k] = RunScheduler[k]
    <3>1. RunScheduler \in Seq(Steps)
      BY <1>4
    <3>. QED BY <2>1, <3>1, ConcatAt
  <2>3. Program = t
    BY <1>5
  <2> HIDE DEF t
  <2>. QED BY <1>4, <2>1, <2>2, <2>3
<1>6. ASSUME NEW s, Begins(s), NEW k \in 1 .. Len(s), s[k].op = "ask",
             NEW i \in s[k].on, ProcessFactoryOf[i] = "shared"
      PROVE  i \in synced
  <2>1. /\ Len(Program) = Len(s) + 2 /\ Program[k] = s[k] /\ Len(s) \in Nat
        /\ Program[Len(s) + 1] = Do("start", {"shared"})
        /\ Program[Len(s) + 2] = Do("waitFactory", {"shared"})
    BY <1>5, <1>6
  <2>. QED BY <1>3, <1>6, <2>1
<1> HIDE DEF Begins
<1>7. CASE component = "Coscheduling"
  <2>1. /\ NewCoscheduling \in Seq(Steps) /\ Len(NewCoscheduling) = 6
        /\ NewCoscheduling[6] = Do("wait", {"pg", "ownPods"})
    BY DEF NewCoscheduling, Steps, Do
  <2>2. Begins(NewCoscheduling)
    BY <1>7, <2>1 DEF Program, Begins
  <2>3. Len(Program) = 8 /\ Program[6] = Do("wait", {"pg", "ownPods"})
    <3>1. Len(Program) = Len(NewCoscheduling) + 2 /\ \A k \in 1 .. Len(NewCoscheduling) : Program[k] = NewCoscheduling[k]
      BY <1>5, <2>2
    <3>. QED BY <2>1, <3>1
  <2>. QED BY <1>2, <1>7, <2>3 DEF Reads, Do
<1>8. CASE component = "CapacityScheduling"
  <2>1. /\ NewCapacityScheduling \in Seq(Steps) /\ Len(NewCapacityScheduling) = 7
        /\ NewCapacityScheduling[2] = Do("ask", {"pdb"}) /\ NewCapacityScheduling[6] = Do("wait", {"eq"})
        /\ NewCapacityScheduling[7] = Do("ask", {"pods"})
    BY DEF NewCapacityScheduling, Steps, Do
  <2>2. Begins(NewCapacityScheduling)
    BY <1>8, <2>1 DEF Program, Begins
  <2>3. Len(Program) = 9 /\ Program[6] = Do("wait", {"eq"})
    <3>1. Len(Program) = Len(NewCapacityScheduling) + 2 /\ \A k \in 1 .. Len(NewCapacityScheduling) : Program[k] = NewCapacityScheduling[k]
      BY <1>5, <2>2
    <3>. QED BY <2>1, <3>1
  <2>4. "eq" \in synced
    BY <1>2, <2>3 DEF Do
  <2>5. "pdb" \in synced
    <3>1. /\ 2 \in 1 .. Len(NewCapacityScheduling) /\ NewCapacityScheduling[2].op = "ask"
          /\ "pdb" \in NewCapacityScheduling[2].on /\ ProcessFactoryOf["pdb"] = "shared"
      BY <2>1 DEF Do, ProcessFactoryOf
    <3>. QED BY <1>6, <2>2, <3>1
  <2>6. "pods" \in synced
    <3>1. /\ 7 \in 1 .. Len(NewCapacityScheduling) /\ NewCapacityScheduling[7].op = "ask"
          /\ "pods" \in NewCapacityScheduling[7].on /\ ProcessFactoryOf["pods"] = "shared"
      BY <2>1 DEF Do, ProcessFactoryOf
    <3>. QED BY <1>6, <2>2, <3>1
  <2>. QED BY <1>8, <2>4, <2>5, <2>6 DEF Reads
<1>9. CASE component = "TargetLoadPacking"
  <2>1. /\ NewTargetLoadPacking \in Seq(Steps) /\ Len(NewTargetLoadPacking) = 3
        /\ NewTargetLoadPacking[2] = Do("ask", {"pods"})
    BY DEF NewTargetLoadPacking, Steps, Do
  <2>2. Begins(NewTargetLoadPacking)
    BY <1>9, <2>1 DEF Program, Begins
  <2>3. "pods" \in synced
    <3>1. /\ 2 \in 1 .. Len(NewTargetLoadPacking) /\ NewTargetLoadPacking[2].op = "ask"
          /\ "pods" \in NewTargetLoadPacking[2].on /\ ProcessFactoryOf["pods"] = "shared"
      BY <2>1 DEF Do, ProcessFactoryOf
    <3>. QED BY <1>6, <2>2, <3>1
  <2>. QED BY <1>9, <2>3 DEF Reads
<1>10. CASE component = "LoadVariationRiskBalancing"
  <2>1. /\ NewLoadVariation \in Seq(Steps) /\ Len(NewLoadVariation) = 3
        /\ NewLoadVariation[3] = Do("ask", {"pods"})
    BY DEF NewLoadVariation, Steps, Do
  <2>2. Begins(NewLoadVariation)
    BY <1>10, <2>1 DEF Program, Begins
  <2>3. "pods" \in synced
    <3>1. /\ 3 \in 1 .. Len(NewLoadVariation) /\ NewLoadVariation[3].op = "ask"
          /\ "pods" \in NewLoadVariation[3].on /\ ProcessFactoryOf["pods"] = "shared"
      BY <2>1 DEF Do, ProcessFactoryOf
    <3>. QED BY <1>6, <2>2, <3>1
  <2>. QED BY <1>10, <2>3 DEF Reads
<1>11. CASE component = "PodGroupController"
  <2>1. Program = RunController /\ Len(RunController) = 5 /\ RunController[5] = Do("wait", {"pg"})
    BY <1>11 DEF Program, RunController
  <2>. QED BY <1>2, <1>11, <2>1 DEF Do
<1>12. CASE component \notin {"Coscheduling", "CapacityScheduling", "TargetLoadPacking",
                             "LoadVariationRiskBalancing", "PodGroupController"}
  BY <1>12 DEF Reads
<1>. QED BY <1>7, <1>8, <1>9, <1>10, <1>11, <1>12

(***************************************************************************)
(* The arguments                                                           *)
(***************************************************************************)

\* A pointer is nil or points to a value of its type.
LEMMA OptionalCases ==
    ASSUME NEW S, NEW p \in Optional(S)
    PROVE  p = Nil \/ (p # Nil /\ p[1] \in S /\ p = Pointer(p[1]))
<1>1. p \in Seq(S) /\ Len(p) \in Nat /\ Len(p) <= 1
  BY DEF Optional
<1>2. CASE Len(p) = 0
  BY <1>1, <1>2, EmptySeq DEF Nil
<1>3. CASE Len(p) = 1
  <2>1. p[1] \in S /\ p # <<>>
    BY <1>1, <1>3
  <2>2. <<p[1]>> \in Seq(S) /\ Len(<<p[1]>>) = 1 /\ <<p[1]>>[1] = p[1]
    BY <2>1
  <2>3. p = <<p[1]>>
    <3> DEFINE q == <<p[1]>>
    <3> HIDE DEF q
    <3>1. q \in Seq(S) /\ Len(p) = Len(q) /\ \A i \in 1 .. Len(p) : p[i] = q[i]
      BY <1>1, <1>3, <2>2 DEF q
    <3>. QED BY <1>1, <3>1, SeqEqual DEF q
  <2>. QED BY <2>1, <2>3 DEF Nil, Pointer
<1>4. ASSUME NEW n \in Nat, n <= 1 PROVE n = 0 \/ n = 1
  BY <1>4
<1>5. Len(p) = 0 \/ Len(p) = 1
  BY <1>1, <1>4, Zenon
<1>. QED BY <1>2, <1>3, <1>5, Zenon

\* What is read through a pointer, and what takes the place of nil.
LEMMA PointerTyped ==
    ASSUME NEW S, NEW p \in Optional(S), NEW x \in S
    PROVE  /\ Deref(p, x) \in S
           /\ OrElse(p, x) \in Optional(S) \ {Nil}
           /\ Pointer(x) \in Optional(S) \ {Nil}
<1>1. Pointer(x) \in Optional(S) \ {Nil}
  BY DEF Optional, Pointer, Nil
<1>. QED BY <1>1, OptionalCases DEF Deref, OrElse

\* Whatever a configuration file leaves out or gets wrong, the codec makes a complete
\* object of it.
LEMMA DecodeTyped ==
    ASSUME NEW c \in Configured, NEW v \in Versioned(c)
    PROVE  Decode(c, v) \in Internal(c)
<1> USE StringAssumption
<1>0. "Least" # Unset
  BY Zenon DEF Unset
<1>1. CASE c = "Coscheduling"
  <2> DEFINE u == SetDefaultsCoschedulingArgs(v)
             w == ToValues(CoschedulingPointers, u)
  <2>1. v \in [permit : Optional(Int), denied : Optional(Int),
               kubeMaster : Optional(STRING), kubeConfig : Optional(STRING)]
    BY <1>1 DEF Versioned
  <2>2. u \in [permit : Optional(Int) \ {Nil}, denied : Optional(Int) \ {Nil},
               kubeMaster : Optional(STRING), kubeConfig : Optional(STRING)]
    <3> DEFINE a == OrElse(v.permit, 60)
               b == OrElse(v.denied, 20)
    <3>1. a \in Optional(Int) \ {Nil} /\ b \in Optional(Int) \ {Nil}
      BY <2>1, PointerTyped
    <3>2. u = [v EXCEPT !.permit = a, !.denied = b]
      BY DEF SetDefaultsCoschedulingArgs
    <3> HIDE DEF a, b, u
    <3>. QED BY <2>1, <3>1, <3>2
  <2> HIDE DEF u
  <2>3. /\ Deref(u.permit, 0) \in Int /\ Deref(u.denied, 0) \in Int
        /\ Deref(u.kubeMaster, Unset) \in STRING /\ Deref(u.kubeConfig, Unset) \in STRING
    BY <2>2, PointerTyped
  <2>4. w \in [permit : Int, denied : Int, kubeMaster : STRING, kubeConfig : STRING]
    BY <2>2, <2>3 DEF ToValues, CoschedulingPointers
  <2>5. Decode(c, v) = ToConfig(c, u) /\ w = ToValues(Pointers(c), u)
    BY <1>1 DEF Decode, SetObjectDefaults, Pointers, u
  <2> HIDE DEF w
  <2>6. ToConfig(c, u) = w
    BY <2>5, <2>4 DEF ToConfig
  <2>. QED BY <1>1, <2>4, <2>5, <2>6 DEF Internal
<1>2. CASE c = "CapacityScheduling"
  <2> DEFINE u == SetDefaultsCapacitySchedulingArgs(v)
             w == ToValues(CapacitySchedulingPointers, u)
  <2>1. v \in [kubeConfig : Optional(STRING)]
    BY <1>2 DEF Versioned
  <2>2. u \in [kubeConfig : Optional(STRING)]
    BY <2>1, PointerTyped DEF SetDefaultsCapacitySchedulingArgs
  <2> HIDE DEF u
  <2>3. Deref(u.kubeConfig, Unset) \in STRING
    BY <2>2, PointerTyped
  <2>4. w \in [kubeConfig : STRING]
    BY <2>2, <2>3 DEF ToValues, CapacitySchedulingPointers
  <2>5. Decode(c, v) = ToConfig(c, u) /\ w = ToValues(Pointers(c), u)
    BY <1>2 DEF Decode, SetObjectDefaults, Pointers, u
  <2> HIDE DEF w
  <2>6. ToConfig(c, u) = w
    BY <2>5, <2>4 DEF ToConfig
  <2>. QED BY <1>2, <2>4, <2>5, <2>6 DEF Internal
<1>3. CASE c = "NodeResourcesAllocatable"
  <2> DEFINE R == Seq([name : STRING, weight : Int])
             u == SetDefaultsNodeResourcesAllocatableArgs(v)
             w == ToValues(<<>>, u)
  <2>1. v \in [resources : R, mode : STRING]
    BY <1>3 DEF Versioned
  <2>2. DefaultResources \in R \ {<<>>}
    BY DEF DefaultResources
  <2> HIDE DEF R
  <2>3. u \in [resources : R \ {<<>>}, mode : STRING \ {Unset}]
    <3>1. (IF v.mode = Unset THEN "Least" ELSE v.mode) \in STRING \ {Unset}
      BY <1>0, <2>1
    <3>2. (IF v.resources = <<>> THEN DefaultResources ELSE v.resources) \in R \ {<<>>}
      BY <2>1, <2>2
    <3>. QED BY <2>1, <3>1, <3>2 DEF SetDefaultsNodeResourcesAllocatableArgs
  <2> HIDE DEF u
  <2>4. w = u
    BY <2>3 DEF ToValues
  <2>5. Decode(c, v) = ToConfig(c, u) /\ w = ToValues(Pointers(c), u)
    BY <1>3 DEF Decode, SetObjectDefaults, Pointers, u
  <2> HIDE DEF w
  <2>6. ToConfig(c, u) = w
    BY <2>5, <2>3, <2>4 DEF ToConfig
  <2>. QED BY <1>3, <2>3, <2>4, <2>5, <2>6 DEF Internal, R
<1>4. ASSUME NEW q \in Provider
      PROVE  ToValues(MetricProviderPointers, q) \in ProviderValues
  <2>1. Deref(q.address, Unset) \in STRING /\ Deref(q.token, Unset) \in STRING
    BY PointerTyped DEF Provider
  <2>. QED BY <2>1 DEF ToValues, MetricProviderPointers, Provider, ProviderValues
<1>5. CASE c = "TargetLoadPacking"
  <2> DEFINE u == SetDefaultTargetLoadPackingArgs(v)
             w == ToValues(TargetLoadPackingPointers, u)
  <2>1. v \in [requests : Optional(Int), multiplier : Optional(STRING), target : Optional(Int),
               provider : Provider, watcher : Optional(STRING)]
    BY <1>5 DEF Versioned
  <2>2. /\ OrElse(v.requests, 1000) \in Optional(Int) \ {Nil} /\ OrElse(v.multiplier, DefaultRequestsMultiplier) \in Optional(STRING)
        /\ (IF Deref(v.target, 0) <= 0 THEN Pointer(40) ELSE v.target) \in Optional(Int) \ {Nil}
        /\ Deref(IF Deref(v.target, 0) <= 0 THEN Pointer(40) ELSE v.target, 0) \in Nat \ {0}
    <3>1. OrElse(v.requests, 1000) \in Optional(Int) \ {Nil} /\ OrElse(v.multiplier, DefaultRequestsMultiplier) \in Optional(STRING)
      BY <2>1, PointerTyped
    <3>2. Deref(v.target, 0) \in Int /\ Pointer(40) \in Optional(Int) \ {Nil} /\ v.target \in Optional(Int)
      BY <2>1, PointerTyped
    <3>3. Deref(Pointer(40), 0) = 40
      BY DEF Deref, Pointer, Nil
    <3>4. v.target = Nil => Deref(v.target, 0) = 0
      BY DEF Deref
    <3>. QED BY <3>1, <3>2, <3>3, <3>4
  <2>3. u \in [requests : Optional(Int) \ {Nil}, multiplier : Optional(STRING), target : Optional(Int) \ {Nil},
               provider : Provider, watcher : Optional(STRING)]
    <3> DEFINE a == OrElse(v.requests, 1000)
               b == OrElse(v.multiplier, DefaultRequestsMultiplier)
               d == IF Deref(v.target, 0) <= 0 THEN Pointer(40) ELSE v.target
    <3>1. a \in Optional(Int) \ {Nil} /\ b \in Optional(STRING) /\ d \in Optional(Int) \ {Nil}
      BY <2>2
    <3>2. u = [v EXCEPT !.requests = a, !.multiplier = b, !.target = d]
      BY DEF SetDefaultTargetLoadPackingArgs
    <3> HIDE DEF a, b, d, u
    <3>. QED BY <2>1, <3>1, <3>2
  <2>4. Deref(u.target, 0) \in Nat \ {0}
    BY <2>1, <2>2 DEF SetDefaultTargetLoadPackingArgs
  <2> HIDE DEF u
  <2>5. Deref(u.multiplier, Unset) \in STRING /\ Deref(u.watcher, Unset) \in STRING
    BY <2>3, PointerTyped
  <2>6. w \in [requests : Optional(Int) \ {Nil}, multiplier : STRING, target : Nat \ {0},
               provider : Provider, watcher : STRING]
    BY <2>3, <2>4, <2>5 DEF ToValues, TargetLoadPackingPointers
  <2>7. Decode(c, v) = ToConfig(c, u) /\ w = ToValues(Pointers(c), u)
    BY <1>5 DEF Decode, SetObjectDefaults, Pointers, u
  <2> HIDE DEF w
  <2>8. ToValues(MetricProviderPointers, w.provider) \in ProviderValues
    BY <1>4, <2>6
  <2>9. ToConfig(c, u) = [w EXCEPT !.provider = ToValues(MetricProviderPointers, w.provider)]
    BY <2>7, <2>6 DEF ToConfig
  <2>. QED BY <1>5, <2>6, <2>7, <2>8, <2>9 DEF Internal
<1>6. CASE c = "LoadVariationRiskBalancing"
  <2> DEFINE Default(p) == IF Deref(p, -1) < 0 THEN Pointer(1) ELSE p
             u == SetDefaultLoadVariationRiskBalancingArgs(v)
             w == ToValues(LoadVariationPointers, u)
  <2>1. v \in [provider : Provider, watcher : Optional(STRING),
               margin : Optional(Int), sensitivity : Optional(Int)]
    BY <1>6 DEF Versioned
  <2>2. ASSUME NEW p \in Optional(Int) PROVE Default(p) \in Optional(Int) /\ Deref(Default(p), 0) \in Nat
    <3>1. Deref(p, -1) \in Int /\ Pointer(1) \in Optional(Int)
      BY PointerTyped
    <3>2. Deref(Pointer(1), 0) = 1
      BY DEF Deref, Pointer, Nil
    <3>3. (p = Nil => Deref(p, -1) = -1) /\ (p # Nil => Deref(p, 0) = Deref(p, -1))
      BY DEF Deref
    <3>. QED BY <3>1, <3>2, <3>3
  <2>3. u \in [provider : Provider, watcher : Optional(STRING),
               margin : Optional(Int), sensitivity : Optional(Int)]
        /\ Deref(u.margin, 0) \in Nat /\ Deref(u.sensitivity, 0) \in Nat
    <3>1. /\ Default(v.margin) \in Optional(Int) /\ Deref(Default(v.margin), 0) \in Nat
          /\ Default(v.sensitivity) \in Optional(Int) /\ Deref(Default(v.sensitivity), 0) \in Nat
      BY <2>1, <2>2
    <3> DEFINE t == IF v.watcher = Nil /\ v.provider.type \notin Providers
                    THEN "KubernetesMetricsServer" ELSE v.provider.type
               q == [v.provider EXCEPT !.type = t]
    <3>2. t \in STRING
      BY <2>1 DEF Provider
    <3>3. q \in Provider
      BY <2>1, <3>2 DEF Provider
    <3>4. u = [v EXCEPT !.provider = q, !.margin = Default(v.margin), !.sensitivity = Default(v.sensitivity)]
      BY <2>1 DEF SetDefaultLoadVariationRiskBalancingArgs
    <3> HIDE DEF t, q, u, Default
    <3>. QED BY <2>1, <3>1, <3>3, <3>4
  <2> HIDE DEF u
  <2>4. Deref(u.watcher, Unset) \in STRING
    BY <2>3, PointerTyped
  <2>5. w \in [provider : Provider, watcher : STRING, margin : Nat, sensitivity : Nat]
    BY <2>3, <2>4 DEF ToValues, LoadVariationPointers
  <2>6. Decode(c, v) = ToConfig(c, u) /\ w = ToValues(Pointers(c), u)
    BY <1>6 DEF Decode, SetObjectDefaults, Pointers, u
  <2> HIDE DEF w
  <2>7. ToValues(MetricProviderPointers, w.provider) \in ProviderValues
    BY <1>4, <2>5
  <2>8. ToConfig(c, u) = [w EXCEPT !.provider = ToValues(MetricProviderPointers, w.provider)]
    BY <2>6, <2>5 DEF ToConfig
  <2>. QED BY <1>6, <2>5, <2>6, <2>7, <2>8 DEF Internal
<1>. QED BY <1>1, <1>2, <1>3, <1>5, <1>6 DEF Configured, Components

\* A conversion to pointers is undone by the conversion back.
LEMMA ThereAndBack ==
    ASSUME NEW zero, NEW c, c = [f \in DOMAIN c |-> c[f]]
    PROVE  ToValues(zero, ToPointers(zero, c)) = c
BY DEF ToValues, ToPointers, Deref, Pointer, Nil

\* What the codec has produced survives being written out and read again.
LEMMA RoundTripOf ==
    ASSUME NEW c \in Configured, NEW a \in Internal(c)
    PROVE  Decode(c, ToV1beta1(c, a)) = a
<1> DEFINE z == Pointers(c)
           v == ToPointers(z, a)
<1>1. \A x : Pointer(x) # Nil
  BY DEF Pointer, Nil
<1>2. \A x, y : Deref(Pointer(x), y) = x /\ OrElse(Pointer(x), y) = Pointer(x)
  BY <1>1 DEF Deref, OrElse, Pointer
<1>3. ASSUME a = [f \in DOMAIN a |-> a[f]], "provider" \notin DOMAIN a, SetObjectDefaults(c, v) = v
      PROVE  Decode(c, ToV1beta1(c, a)) = a
  <2>1. DOMAIN v = DOMAIN a
    BY DEF ToPointers
  <2>2. ToV1beta1(c, a) = v
    BY <1>3, <2>1 DEF ToV1beta1
  <2>3. ToValues(z, v) = a
    BY <1>3, ThereAndBack
  <2>4. ToConfig(c, v) = a
    BY <1>3, <2>3 DEF ToConfig
  <2>. QED BY <1>3, <2>2, <2>4 DEF Decode
<1>4. CASE c = "Coscheduling"
  <2>1. a \in [permit : Int, denied : Int, kubeMaster : STRING, kubeConfig : STRING]
    BY <1>4 DEF Internal
  <2>2. z = CoschedulingPointers
    BY <1>4 DEF Pointers
  <2>3. v.permit = Pointer(a.permit) /\ v.denied = Pointer(a.denied) /\ v = [f \in DOMAIN v |-> v[f]]
        /\ {"permit", "denied"} \subseteq DOMAIN v
    BY <2>1, <2>2 DEF ToPointers, CoschedulingPointers
  <2> HIDE DEF v
  <2>4. SetDefaultsCoschedulingArgs(v) = v
    BY <1>2, <2>3 DEF SetDefaultsCoschedulingArgs
  <2>5. SetObjectDefaults(c, v) = v
    BY <1>4, <2>4 DEF SetObjectDefaults
  <2>. QED BY <1>3, <2>1, <2>5
<1>5. CASE c = "CapacityScheduling"
  <2>1. a \in [kubeConfig : STRING]
    BY <1>5 DEF Internal
  <2>2. z = CapacitySchedulingPointers
    BY <1>5 DEF Pointers
  <2>3. v.kubeConfig = Pointer(a.kubeConfig) /\ v = [f \in DOMAIN v |-> v[f]] /\ "kubeConfig" \in DOMAIN v
    BY <2>1, <2>2 DEF ToPointers, CapacitySchedulingPointers
  <2> HIDE DEF v
  <2>4. SetDefaultsCapacitySchedulingArgs(v) = v
    BY <1>2, <2>3 DEF SetDefaultsCapacitySchedulingArgs
  <2>5. SetObjectDefaults(c, v) = v
    BY <1>5, <2>4 DEF SetObjectDefaults
  <2>. QED BY <1>3, <2>1, <2>5
<1>6. CASE c = "NodeResourcesAllocatable"
  <2>1. a \in [resources : Seq([name : STRING, weight : Int]) \ {<<>>}, mode : STRING \ {Unset}]
    BY <1>6 DEF Internal
  <2>2. z = <<>>
    BY <1>6 DEF Pointers
  <2>3. v.resources # <<>> /\ v.mode # Unset /\ v = [f \in DOMAIN v |-> v[f]]
        /\ {"resources", "mode"} \subseteq DOMAIN v
    BY <2>1, <2>2 DEF ToPointers
  <2> HIDE DEF v
  <2>4. SetDefaultsNodeResourcesAllocatableArgs(v) = v
    BY <2>3 DEF SetDefaultsNodeResourcesAllocatableArgs
  <2>5. SetObjectDefaults(c, v) = v
    BY <1>6, <2>4 DEF SetObjectDefaults
  <2>. QED BY <1>3, <2>1, <2>5
<1> DEFINE q == ToPointers(MetricProviderPointers, a.provider)
           w == [v EXCEPT !.provider = q]
<1>7. ASSUME a = [f \in DOMAIN a |-> a[f]], "provider" \in DOMAIN a, "provider" \notin DOMAIN z,
             a.provider \in ProviderValues, SetObjectDefaults(c, w) = w
      PROVE  Decode(c, ToV1beta1(c, a)) = a
  <2>1. DOMAIN v = DOMAIN a /\ v.provider = a.provider
    BY <1>7 DEF ToPointers
  <2>2. ToV1beta1(c, a) = w
    BY <1>7, <2>1 DEF ToV1beta1
  <2>3. ToValues(MetricProviderPointers, q) = a.provider
    <3>1. a.provider = [f \in DOMAIN a.provider |-> a.provider[f]]
      BY <1>7 DEF ProviderValues
    <3>. QED BY <3>1, ThereAndBack
  <2>4. ToValues(z, w) = [a EXCEPT !.provider = q]
    <3>1. DOMAIN w = DOMAIN a /\ w.provider = q /\ \A f \in DOMAIN a : f # "provider" => w[f] = v[f]
      BY <1>7, <2>1 DEF ToPointers
    <3>2. \A f \in DOMAIN a : f \in DOMAIN z => v[f] = Pointer(a[f])
      BY DEF ToPointers
    <3>3. \A f \in DOMAIN a : f \notin DOMAIN z => v[f] = a[f]
      BY DEF ToPointers
    <3> HIDE DEF w, v, q, z
    <3>. QED BY <1>2, <1>7, <3>1, <3>2, <3>3 DEF ToValues
  <2> HIDE DEF w, v, q
  <2>5. ToConfig(c, w) = a
    <3> DEFINE u == ToValues(z, w)
    <3>1. u = [a EXCEPT !.provider = q] /\ "provider" \in DOMAIN u /\ u.provider = q
      BY <1>7, <2>4
    <3>2. ToConfig(c, w) = [u EXCEPT !.provider = ToValues(MetricProviderPointers, u.provider)]
      BY <3>1 DEF ToConfig
    <3> HIDE DEF u
    <3>. QED BY <1>7, <2>3, <3>1, <3>2
  <2>. QED BY <1>7, <2>2, <2>5 DEF Decode
<1>8. CASE c = "TargetLoadPacking"
  <2>1. a \in [requests : Optional(Int) \ {Nil}, multiplier : STRING, target : Nat \ {0},
               provider : ProviderValues, watcher : STRING]
    BY <1>8 DEF Internal
  <2>2. z = TargetLoadPackingPointers /\ "provider" \notin DOMAIN TargetLoadPackingPointers
    BY <1>8 DEF Pointers, TargetLoadPackingPointers
  <2>3. /\ v.requests = a.requests /\ v.multiplier = Pointer(a.multiplier) /\ v.target = Pointer(a.target)
        /\ v = [f \in DOMAIN v |-> v[f]] /\ DOMAIN v = {"requests", "multiplier", "target", "provider", "watcher"}
    BY <2>1, <2>2 DEF ToPointers, TargetLoadPackingPointers
  <2> HIDE DEF v, q
  <2>4. /\ w.requests = a.requests /\ w.multiplier = Pointer(a.multiplier) /\ w.target = Pointer(a.target)
        /\ w = [f \in DOMAIN w |-> w[f]] /\ {"requests", "multiplier", "target"} \subseteq DOMAIN w
    BY <2>3
  <2> HIDE DEF w
  <2>5. OrElse(w.requests, 1000) = w.requests /\ OrElse(w.multiplier, DefaultRequestsMultiplier) = w.multiplier
    BY <1>2, <2>1, <2>4 DEF OrElse
  <2>6. Deref(w.target, 0) = a.target /\ ~(a.target <= 0)
    BY <1>2, <2>1, <2>4
  <2>7. SetDefaultTargetLoadPackingArgs(w) = w
    <3> DEFINE r == OrElse(w.requests, 1000)
               m == OrElse(w.multiplier, DefaultRequestsMultiplier)
               t == IF Deref(w.target, 0) <= 0 THEN Pointer(40) ELSE w.target
    <3>1. r = w.requests /\ m = w.multiplier /\ t = w.target
      BY <2>5, <2>6
    <3>2. SetDefaultTargetLoadPackingArgs(w) = [w EXCEPT !.requests = r, !.multiplier = m, !.target = t]
      BY DEF SetDefaultTargetLoadPackingArgs
    <3> HIDE DEF r, m, t
    <3>. QED BY <2>4, <3>1, <3>2
  <2>8. SetObjectDefaults(c, w) = w
    BY <1>8, <2>7 DEF SetObjectDefaults
  <2>9. a = [f \in DOMAIN a |-> a[f]] /\ "provider" \in DOMAIN a /\ a.provider \in ProviderValues
    BY <2>1
  <2>. QED BY <1>7, <2>2, <2>8, <2>9
<1>9. CASE c = "LoadVariationRiskBalancing"
  <2>1. a \in [provider : ProviderValues, watcher : STRING, margin : Nat, sensitivity : Nat]
    BY <1>9 DEF Internal
  <2>2. z = LoadVariationPointers /\ "provider" \notin DOMAIN LoadVariationPointers
    BY <1>9 DEF Pointers, LoadVariationPointers
  <2>3. /\ v.watcher = Pointer(a.watcher) /\ v.margin = Pointer(a.margin)
        /\ v.sensitivity = Pointer(a.sensitivity)
        /\ v = [f \in DOMAIN v |-> v[f]] /\ DOMAIN v = {"provider", "watcher", "margin", "sensitivity"}
    BY <2>1, <2>2 DEF ToPointers, LoadVariationPointers
  <2>4. q = [f \in DOMAIN q |-> q[f]] /\ "type" \in DOMAIN q
    BY <2>1 DEF ToPointers, ProviderValues
  <2> HIDE DEF v, q
  <2>5. /\ w.watcher = Pointer(a.watcher) /\ w.margin = Pointer(a.margin)
        /\ w.sensitivity = Pointer(a.sensitivity) /\ w.provider = q
        /\ w = [f \in DOMAIN w |-> w[f]] /\ DOMAIN w = {"provider", "watcher", "margin", "sensitivity"}
    BY <2>3
  <2> HIDE DEF w
  <2>6. /\ Deref(w.margin, -1) = a.margin /\ ~(a.margin < 0)
        /\ Deref(w.sensitivity, -1) = a.sensitivity /\ ~(a.sensitivity < 0) /\ w.watcher # Nil
    BY <1>1, <1>2, <2>1, <2>5
  <2>7. SetDefaultLoadVariationRiskBalancingArgs(w) = w
    BY <2>4, <2>5, <2>6 DEF SetDefaultLoadVariationRiskBalancingArgs
  <2>8. SetObjectDefaults(c, w) = w
    BY <1>9, <2>7 DEF SetObjectDefaults
  <2>9. a = [f \in DOMAIN a |-> a[f]] /\ "provider" \in DOMAIN a /\ a.provider \in ProviderValues
    BY <2>1
  <2>. QED BY <1>7, <2>2, <2>8, <2>9
<1>. QED BY <1>4, <1>5, <1>6, <1>8, <1>9 DEF Configured, Components

\* The arguments of a plugin whose constructor goes on.
LEMMA EffectiveAccepted ==
    ASSUME NEW c \in Configured, NEW a, a \in Undecoded \/ a \in Internal(c), ~Refuses(c, a)
    PROVE  Effective(c, a) \in Internal(c) /\ Accepted(c, Effective(c, a))
<1>1. CASE c = "LoadVariationRiskBalancing"
  <2>1. Effective(c, a) = GetLoadVariationArgs(a)
    BY <1>1 DEF Effective
  <2>2. CASE a \notin Undecoded
    BY <1>1, <2>1, <2>2 DEF GetLoadVariationArgs, Accepted
  <2>3. CASE a \in Undecoded
    <3> DEFINE d == [provider |-> [type |-> "KubernetesMetricsServer", address |-> Unset, token |-> Unset],
                     watcher |-> Unset, margin |-> 1, sensitivity |-> 1]
    <3>1. d \in [provider : ProviderValues, watcher : STRING, margin : Nat, sensitivity : Nat]
      BY StringAssumption DEF ProviderValues
    <3>2. GetLoadVariationArgs(a) = d
      BY <2>3 DEF GetLoadVariationArgs
    <3> HIDE DEF d
    <3>. QED BY <1>1, <2>1, <3>1, <3>2 DEF Internal, Accepted
  <2>. QED BY <2>2, <2>3
<1>2. CASE c = "NodeResourcesAllocatable" /\ a = Nil
  <2> DEFINE R == [name : STRING, weight : Int]
             d == [resources |-> DefaultResources, mode |-> "Least"]
  <2>1. /\ DefaultResources \in Seq(R) /\ DefaultResources # <<>>
        /\ \A i \in DOMAIN DefaultResources : DefaultResources[i].weight > 0
    BY StringAssumption DEF DefaultResources
  <2>2. "Least" \in STRING \ {Unset}
    BY StringAssumption DEF Unset
  <2>3. Effective(c, a) = d
    BY <1>2 DEF Effective, GetAllocatableArgs
  <2>4. d.resources = DefaultResources /\ d.mode = "Least"
    OBVIOUS
  <2>5. d \in [resources : Seq(R) \ {<<>>}, mode : STRING \ {Unset}]
    BY <2>1, <2>2
  <2> HIDE DEF d
  <2>. QED BY <1>2, <2>1, <2>3, <2>4, <2>5 DEF Internal, Accepted
<1>3. CASE c # "LoadVariationRiskBalancing" /\ ~(c = "NodeResourcesAllocatable" /\ a = Nil)
  <2>1. a \notin Undecoded /\ a \in Internal(c)
    BY <1>3 DEF Refuses, Undecoded
  <2>2. CASE c = "TargetLoadPacking"
    <3>1. a \in [requests : Optional(Int) \ {Nil}, multiplier : STRING, target : Nat \ {0},
                 provider : ProviderValues, watcher : STRING]
      BY <2>1, <2>2 DEF Internal
    <3>2. Effective(c, a) = GetTargetLoadPackingArgs(a)
      BY <2>2 DEF Effective
    <3>3. ~TargetLoadPackingRefuses(a)
      BY <2>1, <2>2 DEF Refuses
    <3>4. CASE a.watcher = Unset /\ a.provider.type = Unset
      <4> DEFINE q == [a.provider EXCEPT !.type = "KubernetesMetricsServer"]
      <4>1. q \in ProviderValues /\ q.type = "KubernetesMetricsServer"
        BY <3>1, StringAssumption DEF ProviderValues
      <4>2. GetTargetLoadPackingArgs(a) = [a EXCEPT !.provider = q]
        BY <3>4 DEF GetTargetLoadPackingArgs
      <4>3. a.multiplier \in Floats
        BY <3>3 DEF TargetLoadPackingRefuses
      <4> DEFINE b == [a EXCEPT !.provider = q]
      <4> HIDE DEF q
      <4>4. b \in [requests : Optional(Int) \ {Nil}, multiplier : STRING, target : Nat \ {0},
                   provider : ProviderValues, watcher : STRING]
            /\ b.provider = q /\ b.multiplier = a.multiplier
        BY <3>1, <4>1
      <4> HIDE DEF b
      <4>5. b \in Internal(c)
        BY <2>2, <4>4 DEF Internal
      <4>6. Accepted(c, b)
        BY <2>2, <4>1, <4>3, <4>4 DEF Accepted, Providers
      <4>. QED BY <3>2, <4>2, <4>5, <4>6 DEF b
    <3>5. CASE ~(a.watcher = Unset /\ a.provider.type = Unset)
      BY <2>1, <2>2, <3>2, <3>3, <3>5 DEF GetTargetLoadPackingArgs, TargetLoadPackingRefuses, Accepted
    <3>. QED BY <3>4, <3>5
  <2>3. CASE c = "NodeResourcesAllocatable"
    <3>1. a \in [resources : Seq([name : STRING, weight : Int]) \ {<<>>}, mode : STRING \ {Unset}]
      BY <2>1, <2>3 DEF Internal
    <3>2. Effective(c, a) = a
      BY <2>1, <2>3 DEF Effective, GetAllocatableArgs, Undecoded
    <3>3. ~AllocatableRefuses(a)
      BY <2>1, <2>3 DEF Refuses, Undecoded
    <3>4. ASSUME NEW i \in DOMAIN a.resources PROVE a.resources[i].weight > 0
      <4> DEFINE R == [name : STRING, weight : Int]
      <4>1. a.resources \in Seq(R)
        BY <3>1
      <4>2. i \in 1 .. Len(a.resources)
        BY <4>1
      <4>3. a.resources[i] \in R
        <5> HIDE DEF R
        <5>. QED BY <4>1, <4>2
      <4>4. ~(a.resources[i].weight <= 0)
        BY <3>3 DEF AllocatableRefuses
      <4>. QED BY <4>3, <4>4
    <3>5. a.mode \in {"Least", "Most"}
      BY <3>1, <3>3 DEF AllocatableRefuses
    <3>. QED BY <2>1, <2>3, <3>2, <3>4, <3>5 DEF Accepted
  <2>4. CASE c \notin {"TargetLoadPacking", "NodeResourcesAllocatable"}
    BY <1>3, <2>1, <2>4 DEF Effective, Accepted
  <2>. QED BY <2>2, <2>3, <2>4
<1>. QED BY <1>1, <1>2, <1>3

\* Every step keeps the arguments typed, and accepted once the check is behind.
LEMMA ArgumentsStep ==
    ASSUME Progress, Arguments, [ProcessNext]_processVars
    PROVE  Arguments'
<1>1. component' = component
  BY StepKinds
<1> SUFFICES ASSUME component \in Configured PROVE Arguments'
  BY <1>1 DEF Arguments
<1>2. Program[1].op = "check" /\ pc \in Nat /\ 1 <= pc
  BY ProgramShape DEF Progress
<1>3. ASSUME args' = args, UNCHANGED <<stage, pc>> PROVE Arguments'
  BY <1>1, <1>3 DEF Arguments
<1>4. ASSUME args' = args, stage = "constructing", Program[pc].op # "check", Advance \/ Refuse
      PROVE  Arguments'
  <2>1. stage' # "configured" /\ pc > 1
    BY <1>2, <1>4 DEF Advance, Refuse
  <2>. QED BY <1>1, <1>4, <2>1 DEF Arguments
<1>5. CASE Load
  <2>1. stage' = "constructing" /\ pc' = 1
    BY <1>5 DEF Load
  <2>2. args \in RawArgs[component]
    BY <1>5 DEF Arguments, Load
  <2>3. CASE args \in Undecoded
    BY <1>1, <1>5, <2>1, <2>3 DEF Arguments, Load
  <2>4. CASE args \notin Undecoded
    <3>1. args' = Decode(component, args)
      BY <1>5, <2>4 DEF Load
    <3>2. args \in Versioned(component)
      BY <2>2, <2>4, ConfigurationAssumption
    <3>3. args' \in Internal(component)
      BY <3>1, <3>2, DecodeTyped
    <3>. QED BY <1>1, <2>1, <3>3 DEF Arguments
  <2>. QED BY <2>3, <2>4
<1>6. CASE CheckArgs
  <2>1. stage = "constructing" /\ (args \in Undecoded \/ args \in Internal(component))
    BY <1>6 DEF CheckArgs, AtStep, Arguments
  <2>2. CASE Refuses(component, args)
    <3>1. args' = args /\ pc' = pc /\ stage' = "refused"
      BY <1>6, <2>2 DEF CheckArgs, Refuse
    <3>. QED BY <1>1, <2>1, <3>1 DEF Arguments
  <2>3. CASE ~Refuses(component, args)
    <3>1. args' = Effective(component, args) /\ Advance
      BY <1>6, <2>3 DEF CheckArgs
    <3>2. args' \in Internal(component) /\ Accepted(component, args')
      BY <2>1, <2>3, <3>1, EffectiveAccepted
    <3>3. stage' # "configured"
      BY <2>1, <3>1 DEF Advance
    <3>. QED BY <1>1, <3>2, <3>3 DEF Arguments
  <2>. QED BY <2>2, <2>3
<1>7. CASE UNCHANGED processVars
  BY <1>3, <1>7 DEF processVars
<1>8. CASE BuildClient
  BY <1>4, <1>8 DEF BuildClient, AtStep
<1>9. CASE AskForInformers
  BY <1>4, <1>9 DEF AskForInformers, AtStep
<1>10. CASE Start
  BY <1>4, <1>10 DEF Start, AtStep
<1>11. CASE WaitForCacheSync
  BY <1>4, <1>11 DEF WaitForCacheSync, AtStep
<1>12. CASE FetchMetrics
  BY <1>4, <1>12 DEF FetchMetrics, AtStep
<1>13. CASE \E i \in DOMAIN ProcessFactoryOf : SyncInformer(i)
  BY <1>3, <1>13 DEF SyncInformer
<1>14. CASE StartCycle \/ Normalize \/ UpdateMetrics
  BY <1>3, <1>14 DEF StartCycle, Normalize, UpdateMetrics
<1>15. CASE \E n \in Nodes : Score(n) \/ Nominate(n)
  BY <1>3, <1>15 DEF Score, Nominate
<1>16. CASE (\E p \in QueuePods : QueuePod(p)) \/ NextPod \/ \E g \in DOMAIN Created : ChangePodGroup(g)
  BY <1>3, <1>16 DEF QueuePod, NextPod, ChangePodGroup
<1>. QED BY <1>5, <1>6, <1>7, <1>8, <1>9, <1>10, <1>11, <1>12, <1>13, <1>14, <1>15, <1>16 DEF ProcessNext

\* Decoded arguments survive a round trip.
LEMMA ArgumentsSuffice ==
    ASSUME Arguments
    PROVE  RoundTrip
BY RoundTripOf DEF RoundTrip, Arguments

(***************************************************************************)
(* The active queue                                                        *)
(***************************************************************************)

\* What the order of two pods depends on is known of every pod.
LEMMA OrderKnown ==
    ASSUME NEW p \in QueuePods, listed \subseteq DOMAIN Created
    PROVE  /\ PodInfo[p].priority \in Int /\ PodInfo[p].stamp \in Int /\ PodInfo[p].name \in Int
           /\ PodInfo[p].qos \in {"Guaranteed", "Burstable", "BestEffort"}
           /\ QOSRank[PodInfo[p].qos] \in Int /\ Since(p) \in Int /\ GetCreationTimestamp(p) = Since(p)
<1>1. PodInfo[p] \in [priority : Int, qos : {"Guaranteed", "Burstable", "BestEffort"},
                      stamp : Int, group : DOMAIN Created \cup {NoGroup}, name : Int]
  BY QueueAssumption
<1>2. \A g \in DOMAIN Created : Created[g] \in Int
  BY QueueAssumption
<1>3. QOSRank[PodInfo[p].qos] \in Int
  BY <1>1 DEF QOSRank
<1>4. Since(p) \in Int
  BY <1>1, <1>2 DEF Since
<1>. QED BY <1>1, <1>3, <1>4 DEF Since, GetCreationTimestamp

\* Less never contradicts what has to precede what, although QOSSort says "less" of
\* two equal pods both ways.
LEMMA LessAgrees ==
    ASSUME NEW p \in QueuePods, NEW q \in QueuePods, listed \subseteq DOMAIN Created
    PROVE  /\ Less(component, p, q) => ~Precedes(component, q, p)
           /\ ~Less(component, p, q) => ~Precedes(component, p, q)
<1>1. /\ PodInfo[p].priority \in Int /\ PodInfo[p].name \in Int
      /\ PodInfo[p].qos \in {"Guaranteed", "Burstable", "BestEffort"}
      /\ Since(p) \in Int /\ GetCreationTimestamp(p) = Since(p)
  BY OrderKnown
<1>2. /\ PodInfo[q].priority \in Int /\ PodInfo[q].name \in Int
      /\ PodInfo[q].qos \in {"Guaranteed", "Burstable", "BestEffort"}
      /\ Since(q) \in Int /\ GetCreationTimestamp(q) = Since(q)
  BY OrderKnown
<1>3. CASE component = "QOSSort"
  BY <1>1, <1>2, <1>3 DEF Less, QOSLess, CompQOS, Precedes, QOSRank
<1>4. CASE component # "QOSSort"
  BY <1>1, <1>2, <1>4 DEF Less, CoschedulingLess, Precedes
<1>. QED BY <1>3, <1>4

\* A pod that need not wait for another one, which need not wait for a third, need
\* not wait for the third.
LEMMA OrderTransitive ==
    ASSUME NEW p \in QueuePods, NEW q \in QueuePods, NEW r \in QueuePods, listed \subseteq DOMAIN Created,
           ~Precedes(component, q, p), ~Precedes(component, r, q)
    PROVE  ~Precedes(component, r, p)
<1>1. \A o \in {p, q, r} : /\ PodInfo[o].priority \in Int /\ PodInfo[o].name \in Int
                           /\ QOSRank[PodInfo[o].qos] \in Int /\ Since(o) \in Int
  BY OrderKnown
<1>2. CASE component = "QOSSort"
  BY <1>1, <1>2 DEF Precedes
<1>3. CASE component # "QOSSort"
  BY <1>1, <1>3 DEF Precedes
<1>. QED BY <1>2, <1>3

\* In a heap no pod has to precede the one at the top.
LEMMA HeapOrder ==
    ASSUME NEW s \in Seq(QueuePods), listed \subseteq DOMAIN Created, InOrder(s), NEW k \in 1 .. Len(s)
    PROVE  ~Precedes(component, s[k], s[1])
<1> DEFINE Bad == {i \in 1 .. Len(s) : Precedes(component, s[i], s[1])}
<1> SUFFICES ASSUME Bad # {} PROVE FALSE
  OBVIOUS
<1>1. Bad \subseteq 1 .. Len(s) /\ Bad \in SUBSET Nat /\ IsFiniteSet(Bad)
  <2>1. IsFiniteSet(1 .. Len(s))
    BY FS_Interval
  <2>. QED BY <2>1, FS_Subset
<1>2. PICK i \in Bad : \A y \in Bad : i <= y
  <2> HIDE DEF Bad
  <2>. QED BY <1>1, Smallest
<1>3. i # 1
  <2>1. s[1] \in QueuePods /\ PodInfo[s[1]].priority \in Int /\ PodInfo[s[1]].name \in Int
        /\ QOSRank[PodInfo[s[1]].qos] \in Int /\ Since(s[1]) \in Int
    BY OrderKnown
  <2>2. ~Precedes(component, s[1], s[1])
    BY <2>1 DEF Precedes
  <2>. QED BY <1>2, <2>2
<1>4. i \div 2 \in 1 .. Len(s) /\ i \div 2 < i /\ i \in 2 .. Len(s)
  BY <1>1, <1>2, <1>3
<1>5. ~Precedes(component, s[i], s[i \div 2])
  BY <1>4 DEF InOrder
<1>6. ~Precedes(component, s[i \div 2], s[1])
  BY <1>2, <1>4
<1>7. s[i] \in QueuePods /\ s[i \div 2] \in QueuePods /\ s[1] \in QueuePods
  BY <1>4
<1>8. ~Precedes(component, s[i], s[1])
  BY <1>5, <1>6, <1>7, OrderTransitive
<1>. QED BY <1>2, <1>8

\* The way of a pod that rises: it begins at j, goes on while the pod is less than
\* the one above, and only goes from a position to the one above it.
LEMMA RisenFacts ==
    ASSUME NEW s, NEW j \in Nat, j >= 1
    PROVE  /\ Risen(component, s, j) \subseteq 1 .. j /\ j \in Risen(component, s, j)
           /\ \A c \in Risen(component, s, j) :
                /\ c > 1 /\ Less(component, s[j], s[c \div 2]) => c \div 2 \in Risen(component, s, j)
                /\ c # j => Less(component, s[j], s[c])
                /\ c # j => \E d \in Risen(component, s, j) : d > 1 /\ d \div 2 = c
<1> DEFINE Closed(C) == j \in C /\ \A c \in C : c > 1 /\ Less(component, s[j], s[c \div 2]) => c \div 2 \in C
           R == Risen(component, s, j)
<1>1. R = {p \in 1 .. j : \A C \in SUBSET (1 .. j) : Closed(C) => p \in C}
  BY DEF Risen
<1> HIDE DEF R
<1>2. R \subseteq 1 .. j /\ j \in R
  BY <1>1
<1>3. ASSUME NEW c \in R, c > 1, Less(component, s[j], s[c \div 2]) PROVE c \div 2 \in R
  <2>1. c \in 1 .. j /\ c \div 2 \in 1 .. j
    BY <1>2, <1>3
  <2>2. ASSUME NEW C \in SUBSET (1 .. j), Closed(C) PROVE c \div 2 \in C
    BY <1>1, <1>3, <2>2
  <2>. QED BY <1>1, <2>1, <2>2
<1>4. Closed(R)
  BY <1>2, <1>3
<1>5. ASSUME NEW c \in R, c # j PROVE Less(component, s[j], s[c])
  <2> DEFINE C == {j} \cup {d \in 1 .. j : Less(component, s[j], s[d])}
  <2>1. C \in SUBSET (1 .. j)
    OBVIOUS
  <2>2. ASSUME NEW d \in C, d > 1, Less(component, s[j], s[d \div 2]) PROVE d \div 2 \in C
    <3>1. d \div 2 \in 1 .. j
      BY <2>1, <2>2
    <3>. QED BY <2>2, <3>1
  <2>3. Closed(C)
    BY <2>2
  <2>4. c \in C
    <3> HIDE DEF C, Closed
    <3>. QED BY <1>1, <1>5, <2>1, <2>3
  <2>. QED BY <1>5, <2>4
<1>6. ASSUME NEW b \in R, b # j PROVE \E d \in R : d > 1 /\ d \div 2 = b
  <2> SUFFICES ASSUME ~\E d \in R : d > 1 /\ d \div 2 = b PROVE FALSE
    OBVIOUS
  <2> DEFINE C == R \ {b}
  <2>1. C \in SUBSET (1 .. j)
    BY <1>2
  <2>2. Closed(C)
    BY <1>4, <1>6
  <2>3. b \in C
    <3> HIDE DEF C, Closed
    <3>. QED BY <1>1, <1>6, <2>1, <2>2
  <2>. QED BY <2>3
<1>. QED BY <1>2, <1>3, <1>5, <1>6 DEF R

\* The positions of that way lie one above the other, without a gap.
LEMMA RisenGap ==
    ASSUME NEW s, NEW j \in Nat, j >= 1, NEW a \in Risen(component, s, j), NEW b \in Risen(component, s, j), b < a
    PROVE  b <= a \div 2 /\ a \div 2 \in Risen(component, s, j)
<1> DEFINE R == Risen(component, s, j)
<1>1. /\ R \subseteq 1 .. j /\ R \subseteq Nat
      /\ \A c \in R : c # j => \E d \in R : d > 1 /\ d \div 2 = c
  BY RisenFacts
<1>2. IsFiniteSet(R)
  <2>1. IsFiniteSet(1 .. j)
    BY FS_Interval
  <2>. QED BY <1>1, <2>1, FS_Subset
<1>3. a \in R /\ b \in R
  OBVIOUS
<1> HIDE DEF R
<1>4. ASSUME NEW S \in SUBSET R, S # {} PROVE \E x \in S : \A y \in S : y <= x
  <2> DEFINE f == [x \in S |-> x]
  <2>1. \A x \in S : f[x] = x /\ f[x] \in Int
    BY <1>1
  <2>2. IsFiniteSet(S)
    BY <1>2, FS_Subset
  <2> HIDE DEF f
  <2>3. \E x \in S : \A y \in S : f[y] <= f[x]
    BY <1>4, <2>1, <2>2, Largest
  <2>. QED BY <2>1, <2>3
<1>5. ASSUME NEW u \in R, NEW v \in R, v < u PROVE v <= u \div 2
  <2> DEFINE Bad == {y \in R : \E x \in R : y < x /\ ~(y <= x \div 2)}
  <2> SUFFICES ASSUME Bad # {} PROVE FALSE
    BY <1>5
  <2>1. PICK y \in Bad : \A z \in Bad : z <= y
    <3> HIDE DEF Bad
    <3>1. Bad \in SUBSET R
      BY DEF Bad
    <3>. QED BY <1>4, <3>1
  <2>2. PICK x \in R : y < x /\ ~(y <= x \div 2)
    BY <2>1
  <2>3. y \in R /\ y \in 1 .. j /\ x \in 1 .. j
    BY <1>1, <2>1, <2>2
  <2>4. PICK d \in R : d > 1 /\ d \div 2 = y
    BY <1>1, <2>2, <2>3
  <2>5. d \in 1 .. j /\ d > y /\ d # x
    BY <1>1, <2>2, <2>3, <2>4
  <2>6. CASE d < x
    <3>1. ~(d <= x \div 2)
      BY <2>2, <2>3, <2>5
    <3>2. d \in Bad
      BY <2>2, <2>4, <2>6, <3>1
    <3>. QED BY <2>1, <2>3, <2>5, <3>2
  <2>7. CASE x < d
    <3>1. ~(x <= d \div 2)
      BY <2>2, <2>3, <2>4
    <3>2. x \in Bad
      BY <2>2, <2>4, <2>7, <3>1
    <3>. QED BY <2>1, <2>2, <2>3, <3>2
  <2>. QED BY <2>3, <2>5, <2>6, <2>7
<1>6. a \div 2 \in R
  <2> DEFINE S == {y \in R : y < a}
  <2>1. b \in S
    BY <1>3
  <2>2. PICK y \in S : \A z \in S : z <= y
    <3> HIDE DEF S
    <3>1. S \in SUBSET R
      BY DEF S
    <3>. QED BY <1>4, <2>1, <3>1
  <2>3. y \in 1 .. j /\ a \in 1 .. j /\ y < a
    BY <1>1, <1>3, <2>2
  <2>4. PICK d \in R : d > 1 /\ d \div 2 = y
    BY <1>1, <2>2, <2>3
  <2>5. d \in 1 .. j /\ d > y
    BY <1>1, <2>3, <2>4
  <2>6. ~(d < a)
    BY <2>2, <2>3, <2>4, <2>5
  <2>7. ~(a < d)
    BY <1>3, <1>5, <2>3, <2>4, <2>5
  <2>8. d = a
    BY <2>3, <2>5, <2>6, <2>7
  <2>. QED BY <2>2, <2>4, <2>8
<1>7. b <= a \div 2
  BY <1>3, <1>5
<1>. QED BY <1>6, <1>7 DEF R

\* Different positions hold different pods.
Distinct(s) == \A i, j \in 1 .. Len(s) : s[i] = s[j] => i = j

\* A pod at the end of a heap that rises leaves a heap of the same pods.
LEMMA UpKeeps ==
    ASSUME NEW s \in Seq(QueuePods), NEW j \in Nat, j = Len(s), j >= 1, listed \subseteq DOMAIN Created, Distinct(s),
           \A i \in 2 .. j - 1 : ~Precedes(component, s[i], s[i \div 2])
    PROVE  /\ Up(component, s, j) \in Seq(QueuePods)
           /\ Distinct(Up(component, s, j)) /\ InOrder(Up(component, s, j))
<1> DEFINE R == Risen(component, s, j)
           h == Up(component, s, j)
           x == s[j]
<1>1. /\ R \subseteq 1 .. j /\ j \in R
      /\ \A c \in R : c > 1 /\ Less(component, x, s[c \div 2]) => c \div 2 \in R
      /\ \A c \in R : c # j => Less(component, x, s[c])
  BY RisenFacts
<1>2. \A a, b \in R : b < a => b <= a \div 2 /\ a \div 2 \in R
  BY RisenGap
<1>3. h = [p \in 1 .. j |-> IF p \notin R THEN s[p] ELSE IF p \div 2 \in R THEN s[p \div 2] ELSE x]
  BY DEF Up
<1>4. \A p \in 1 .. j : s[p] \in QueuePods
  OBVIOUS
<1> HIDE DEF R, h
<1>5. /\ DOMAIN h = 1 .. j
      /\ \A p \in 1 .. j : p \notin R => h[p] = s[p]
      /\ \A p \in R : p \div 2 \in R => h[p] = s[p \div 2]
      /\ \A p \in R : p \div 2 \notin R => h[p] = x
  BY <1>1, <1>3
<1>6. h \in Seq(QueuePods) /\ Len(h) = j
  <2>1. \A p \in 1 .. j : h[p] \in QueuePods
    BY <1>1, <1>4, <1>5
  <2>. QED BY <1>3, <2>1
<1>7. Distinct(h)
  <2>1. ASSUME NEW a \in 1 .. j, NEW b \in 1 .. j, h[a] = h[b], b < a PROVE FALSE
    <3>1. \A p, q \in 1 .. j : s[p] = s[q] => p = q
      BY DEF Distinct
    <3>2. CASE a \notin R /\ b \notin R
      BY <1>5, <2>1, <3>1, <3>2
    <3>3. CASE a \in R /\ b \notin R
      BY <1>1, <1>5, <2>1, <3>1, <3>3
    <3>4. CASE a \notin R /\ b \in R
      BY <1>1, <1>5, <2>1, <3>1, <3>4
    <3>5. CASE a \in R /\ b \in R
      <4>1. b <= a \div 2 /\ a \div 2 \in R /\ h[a] = s[a \div 2] /\ a \div 2 < a
        BY <1>2, <1>5, <2>1, <3>5
      <4>2. CASE b \div 2 \in R
        <5>1. a \div 2 = b \div 2
          BY <1>1, <1>5, <2>1, <3>1, <3>5, <4>1, <4>2
        <5>. QED BY <4>1, <5>1
      <4>3. CASE b \div 2 \notin R
        <5>1. s[a \div 2] = s[j] /\ a \div 2 \in 1 .. j /\ j \in 1 .. j
          BY <1>1, <1>5, <2>1, <3>5, <4>1, <4>3
        <5>2. a \div 2 = j
          BY <3>1, <5>1
        <5>. QED BY <4>1, <5>2
      <4>. QED BY <4>2, <4>3
    <3>. QED BY <3>2, <3>3, <3>4, <3>5
  <2>. QED BY <1>6, <2>1 DEF Distinct
<1>8. ASSUME NEW i \in 2 .. j PROVE ~Precedes(component, h[i], h[i \div 2])
  <2> DEFINE q == i \div 2
  <2>1. q \in 1 .. j /\ q < i /\ i \in 1 .. j /\ q # j
    OBVIOUS
  <2>2. i # j => ~Precedes(component, s[i], s[q])
    OBVIOUS
  <2>3. q > 1 => ~Precedes(component, s[q], s[q \div 2]) /\ q \div 2 \in 1 .. j
    BY <2>1
  <2>4. i \in R /\ Less(component, x, s[q]) => q \in R
    BY <1>1
  <2> HIDE DEF q
  <2>5. q \in R => ~Precedes(component, s[q], h[q]) /\ h[q] \in QueuePods
    <3> SUFFICES ASSUME q \in R PROVE ~Precedes(component, s[q], h[q]) /\ h[q] \in QueuePods
      OBVIOUS
    <3>1. CASE q \div 2 \in R
      <4>1. q > 1 /\ h[q] = s[q \div 2]
        BY <1>1, <1>5, <2>1, <3>1
      <4>. QED BY <1>4, <2>3, <4>1
    <3>2. CASE q \div 2 \notin R
      <4>1. h[q] = x /\ Less(component, x, s[q]) /\ x \in QueuePods /\ s[q] \in QueuePods
        BY <1>1, <1>4, <1>5, <2>1, <3>2
      <4>. QED BY <4>1, LessAgrees
    <3>. QED BY <3>1, <3>2
  <2>6. CASE i \notin R /\ q \notin R
    BY <1>1, <1>5, <2>1, <2>2, <2>6 DEF q
  <2>7. CASE i \in R /\ q \in R
    <3>1. h[i] = s[q]
      BY <1>5, <2>7 DEF q
    <3>. QED BY <2>5, <2>7, <3>1 DEF q
  <2>8. CASE i \in R /\ q \notin R
    <3>1. h[i] = x /\ h[q] = s[q] /\ ~Less(component, x, s[q]) /\ x \in QueuePods /\ s[q] \in QueuePods
      BY <1>1, <1>4, <1>5, <2>1, <2>4, <2>8 DEF q
    <3>2. ~Precedes(component, x, s[q])
      BY <3>1, LessAgrees
    <3>. QED BY <3>1, <3>2 DEF q
  <2>9. CASE i \notin R /\ q \in R
    <3>1. h[i] = s[i] /\ i # j /\ s[i] \in QueuePods /\ s[q] \in QueuePods
      BY <1>1, <1>4, <1>5, <2>1, <2>9
    <3>2. ~Precedes(component, s[i], s[q]) /\ ~Precedes(component, s[q], h[q]) /\ h[q] \in QueuePods
      BY <2>2, <2>5, <2>9, <3>1
    <3>3. ~Precedes(component, s[i], h[q])
      BY <3>1, <3>2, OrderTransitive
    <3>. QED BY <3>1, <3>3 DEF q
  <2>. QED BY <2>6, <2>7, <2>8, <2>9
<1>9. InOrder(h)
  BY <1>6, <1>8 DEF InOrder
<1>. QED BY <1>6, <1>7, <1>9 DEF h

\* The way of a pod that sinks: it begins at the top, goes on while the lesser child
\* is less than the pod, and only goes from a position to that child.
LEMMA SunkFacts ==
    ASSUME NEW s, NEW n \in Nat, n = Len(s), n >= 1
    PROVE  /\ Sunk(component, s) \subseteq 1 .. n /\ 1 \in Sunk(component, s)
           /\ \A c \in Sunk(component, s) :
                /\ 2 * c <= n /\ Less(component, s[Child(component, s, c)], s[1])
                        => Child(component, s, c) \in Sunk(component, s)
                /\ c # 1 => Less(component, s[c], s[1])
                /\ c # 1 => c \div 2 \in Sunk(component, s) /\ c = Child(component, s, c \div 2)
<1> DEFINE Ch(c) == Child(component, s, c)
           Closed(C) == 1 \in C /\ \A c \in C : 2 * c <= n /\ Less(component, s[Ch(c)], s[1]) => Ch(c) \in C
           R == Sunk(component, s)
<1>1. R = {p \in 1 .. n : \A C \in SUBSET (1 .. n) : Closed(C) => p \in C}
  BY DEF Sunk
<1>2. \A c \in 1 .. n : 2 * c <= n => Ch(c) \in 1 .. n /\ Ch(c) \div 2 = c
  BY DEF Child
<1> HIDE DEF R, Ch
<1>3. R \subseteq 1 .. n /\ 1 \in R
  BY <1>1
<1>4. ASSUME NEW c \in R, 2 * c <= n, Less(component, s[Ch(c)], s[1]) PROVE Ch(c) \in R
  <2>1. Ch(c) \in 1 .. n
    BY <1>2, <1>3, <1>4
  <2>2. ASSUME NEW C \in SUBSET (1 .. n), Closed(C) PROVE Ch(c) \in C
    BY <1>1, <1>4, <2>2
  <2>. QED BY <1>1, <2>1, <2>2
<1>5. Closed(R)
  BY <1>3, <1>4
<1>6. ASSUME NEW c \in R, c # 1 PROVE Less(component, s[c], s[1])
  <2> DEFINE C == {1} \cup {d \in 1 .. n : Less(component, s[d], s[1])}
  <2>1. C \in SUBSET (1 .. n)
    OBVIOUS
  <2>2. ASSUME NEW d \in C, 2 * d <= n, Less(component, s[Ch(d)], s[1]) PROVE Ch(d) \in C
    <3>1. Ch(d) \in 1 .. n
      BY <1>2, <2>1, <2>2
    <3>. QED BY <2>2, <3>1
  <2>3. Closed(C)
    BY <2>2
  <2>4. c \in C
    <3> HIDE DEF C, Closed
    <3>. QED BY <1>1, <1>6, <2>1, <2>3
  <2>. QED BY <1>6, <2>4
<1>7. ASSUME NEW b \in R, b # 1 PROVE b \div 2 \in R /\ b = Ch(b \div 2)
  <2> SUFFICES ASSUME ~(b \div 2 \in R /\ b = Ch(b \div 2)) PROVE FALSE
    OBVIOUS
  <2> DEFINE C == R \ {b}
  <2>1. C \in SUBSET (1 .. n)
    BY <1>3
  <2>2. ASSUME NEW d \in C, 2 * d <= n, Less(component, s[Ch(d)], s[1]) PROVE Ch(d) \in C
    <3>1. Ch(d) \in R /\ d \in R /\ Ch(d) \div 2 = d
      BY <1>2, <1>4, <2>1, <2>2
    <3>. QED BY <3>1
  <2>3. Closed(C)
    BY <1>3, <1>7, <2>2
  <2>4. b \in C
    <3> HIDE DEF C, Closed
    <3>. QED BY <1>1, <1>7, <2>1, <2>3
  <2>. QED BY <2>4
<1>. QED BY <1>3, <1>4, <1>6, <1>7 DEF R, Ch

\* The positions of that way lie one below the other, without a gap.
LEMMA SunkGap ==
    ASSUME NEW s, NEW n \in Nat, n = Len(s), n >= 1, NEW a \in Sunk(component, s), NEW b \in Sunk(component, s), a < b
    PROVE  Child(component, s, a) \in Sunk(component, s)
<1> DEFINE R == Sunk(component, s)
           Ch(c) == Child(component, s, c)
<1>1. /\ R \subseteq 1 .. n /\ R \subseteq Nat
      /\ \A c \in R : c # 1 => c \div 2 \in R /\ c = Ch(c \div 2)
  BY SunkFacts
<1>2. IsFiniteSet(R)
  <2>1. IsFiniteSet(1 .. n)
    BY FS_Interval
  <2>. QED BY <1>1, <2>1, FS_Subset
<1>3. a \in R /\ b \in R
  OBVIOUS
<1> HIDE DEF R, Ch
<1>4. ASSUME NEW S \in SUBSET R, S # {} PROVE \E x \in S : \A y \in S : x <= y
  <2>1. S \in SUBSET Nat /\ IsFiniteSet(S)
    BY <1>1, <1>2, FS_Subset
  <2>. QED BY <1>4, <2>1, Smallest
<1>5. ASSUME NEW u \in R, NEW v \in R, u < v PROVE u <= v \div 2
  <2> DEFINE Bad == {y \in R : \E x \in R : x < y /\ ~(x <= y \div 2)}
  <2> SUFFICES ASSUME Bad # {} PROVE FALSE
    BY <1>5
  <2>1. PICK y \in Bad : \A z \in Bad : y <= z
    <3>1. Bad \in SUBSET R
      OBVIOUS
    <3> HIDE DEF Bad
    <3>. QED BY <1>4, <3>1
  <2>2. PICK x \in R : x < y /\ ~(x <= y \div 2)
    BY <2>1
  <2>3. y \in R /\ y \in 1 .. n /\ x \in 1 .. n /\ y # 1 /\ x # 1
    BY <1>1, <2>1, <2>2
  <2> DEFINE d == y \div 2
  <2>4. d \in R /\ y = Ch(d)
    BY <1>1, <2>3
  <2>5. x \div 2 \in R /\ x = Ch(x \div 2)
    BY <1>1, <2>2, <2>3
  <2>6. d \in 1 .. n /\ d < x /\ d = y \div 2
    BY <1>1, <2>2, <2>3, <2>4
  <2> HIDE DEF d
  <2>7. CASE x \div 2 = d
    BY <2>2, <2>3, <2>4, <2>5, <2>7
  <2>8. CASE x \div 2 # d
    <3>1. ~(d <= x \div 2)
      BY <2>2, <2>3, <2>6, <2>8
    <3>2. x \in Bad
      BY <2>2, <2>4, <2>6, <3>1
    <3>. QED BY <2>1, <2>2, <2>3, <3>2
  <2>. QED BY <2>7, <2>8
<1>6. Ch(a) \in R
  <2> DEFINE S == {y \in R : a < y}
  <2>1. b \in S
    BY <1>3
  <2>2. PICK y \in S : \A z \in S : y <= z
    <3>1. S \in SUBSET R
      OBVIOUS
    <3> HIDE DEF S
    <3>. QED BY <1>4, <2>1, <3>1
  <2>3. y \in R /\ y \in 1 .. n /\ a \in 1 .. n /\ a < y /\ y # 1
    BY <1>1, <1>3, <2>2
  <2>4. y \div 2 \in R /\ y = Ch(y \div 2) /\ a <= y \div 2
    BY <1>1, <1>3, <1>5, <2>3
  <2>5. y \div 2 \in Int /\ y \div 2 < y
    BY <2>3
  <2>6. ~(a < y \div 2)
    BY <2>2, <2>3, <2>4, <2>5
  <2>7. y \div 2 = a
    BY <2>3, <2>4, <2>5, <2>6
  <2>. QED BY <2>3, <2>4, <2>7
<1>. QED BY <1>6 DEF R, Ch

\* A pod at the top of what is a heap below it that sinks leaves a heap of the same pods.
LEMMA DownKeeps ==
    ASSUME NEW s \in Seq(QueuePods), NEW n \in Nat, n = Len(s), n >= 1, listed \subseteq DOMAIN Created, Distinct(s),
           \A i \in 4 .. n : ~Precedes(component, s[i], s[i \div 2])
    PROVE  /\ Down(component, s) \in Seq(QueuePods)
           /\ Distinct(Down(component, s)) /\ InOrder(Down(component, s))
<1> DEFINE R == Sunk(component, s)
           Ch(c) == Child(component, s, c)
           h == Down(component, s)
           x == s[1]
<1>1. /\ R \subseteq 1 .. n /\ 1 \in R
      /\ \A c \in R : 2 * c <= n /\ Less(component, s[Ch(c)], x) => Ch(c) \in R
      /\ \A c \in R : c # 1 => Less(component, s[c], x)
      /\ \A c \in R : c # 1 => c \div 2 \in R /\ c = Ch(c \div 2)
  BY SunkFacts
<1>2. \A a, b \in R : a < b => Ch(a) \in R
  BY SunkGap
<1>3. h = [p \in 1 .. n |-> IF p \notin R THEN s[p] ELSE IF Ch(p) \in R THEN s[Ch(p)] ELSE x]
  BY DEF Down
<1>4. \A p \in 1 .. n : s[p] \in QueuePods
  OBVIOUS
<1>5. \A c \in Nat : Ch(c) \in {2 * c, 2 * c + 1}
  BY DEF Child
<1>6. ASSUME NEW q \in 1 .. n, NEW i \in 2 .. n, q = i \div 2
      PROVE  /\ Ch(q) \in 1 .. n
             /\ i = Ch(q) \/ ~Precedes(component, s[i], s[Ch(q)])
  <2>1. i \in {2 * q, 2 * q + 1} /\ 2 * q \in 1 .. n
    BY <1>6
  <2>2. CASE 2 * q < n /\ Less(component, s[2 * q + 1], s[2 * q])
    <3>1. Ch(q) = 2 * q + 1 /\ s[2 * q] \in QueuePods /\ s[2 * q + 1] \in QueuePods /\ 2 * q + 1 \in 1 .. n
      BY <1>4, <2>1, <2>2 DEF Child
    <3>2. ~Precedes(component, s[2 * q], s[2 * q + 1])
      BY <2>2, <3>1, LessAgrees
    <3> HIDE DEF Ch
    <3>. QED BY <2>1, <3>1, <3>2
  <2>3. CASE ~(2 * q < n /\ Less(component, s[2 * q + 1], s[2 * q]))
    <3>1. Ch(q) = 2 * q /\ s[2 * q] \in QueuePods
      BY <1>4, <2>1, <2>3 DEF Child
    <3>2. CASE i = 2 * q
      BY <2>1, <3>1, <3>2
    <3>3. CASE i = 2 * q + 1
      <4>1. s[2 * q + 1] \in QueuePods /\ ~Less(component, s[2 * q + 1], s[2 * q])
        BY <1>4, <2>3, <3>3
      <4>2. ~Precedes(component, s[2 * q + 1], s[2 * q])
        BY <3>1, <4>1, LessAgrees
      <4> HIDE DEF Ch
      <4>. QED BY <2>1, <3>1, <3>3, <4>2
    <3>. QED BY <2>1, <3>2, <3>3
  <2>. QED BY <2>2, <2>3
<1> HIDE DEF R, h, Ch
<1>7. /\ DOMAIN h = 1 .. n
      /\ \A p \in 1 .. n : p \notin R => h[p] = s[p]
      /\ \A p \in R : Ch(p) \in R => h[p] = s[Ch(p)]
      /\ \A p \in R : Ch(p) \notin R => h[p] = x
  BY <1>1, <1>3
<1>8. h \in Seq(QueuePods) /\ Len(h) = n
  <2>1. \A p \in 1 .. n : h[p] \in QueuePods
    BY <1>1, <1>4, <1>7
  <2>. QED BY <1>3, <2>1
<1>9. Distinct(h)
  <2>1. ASSUME NEW a \in 1 .. n, NEW b \in 1 .. n, h[a] = h[b], a < b PROVE FALSE
    <3>1. \A p, q \in 1 .. n : s[p] = s[q] => p = q
      BY DEF Distinct
    <3>2. CASE a \notin R /\ b \notin R
      BY <1>7, <2>1, <3>1, <3>2
    <3>3. ASSUME NEW c \in R, NEW d \in 1 .. n, d \notin R, h[c] = h[d] PROVE FALSE
      <4>1. h[d] = s[d]
        BY <1>7, <3>3
      <4>2. PICK e \in R : h[c] = s[e]
        BY <1>1, <1>7
      <4>3. e \in 1 .. n /\ s[e] = s[d]
        BY <1>1, <3>3, <4>1, <4>2
      <4>. QED BY <3>1, <3>3, <4>3
    <3>4. CASE (a \in R) # (b \in R)
      BY <2>1, <3>3, <3>4
    <3>5. CASE a \in R /\ b \in R
      <4>1. Ch(a) \in R /\ h[a] = s[Ch(a)]
        BY <1>2, <1>7, <2>1, <3>5
      <4>2. Ch(a) \in 1 .. n /\ Ch(a) \in {2 * a, 2 * a + 1} /\ Ch(b) \in {2 * b, 2 * b + 1}
        <5>1. a \in Nat /\ b \in Nat
          OBVIOUS
        <5>. QED BY <1>1, <1>5, <4>1, <5>1
      <4>3. CASE Ch(b) \in R
        <5>1. h[b] = s[Ch(b)] /\ Ch(b) \in 1 .. n
          BY <1>1, <1>7, <3>5, <4>3
        <5>2. Ch(b) = Ch(a)
          BY <2>1, <3>1, <4>1, <4>2, <5>1
        <5>. QED BY <2>1, <4>2, <5>2
      <4>4. CASE Ch(b) \notin R
        <5>1. h[b] = s[1] /\ 1 \in 1 .. n
          BY <1>7, <3>5, <4>4
        <5>2. Ch(a) = 1
          BY <2>1, <3>1, <4>1, <4>2, <5>1
        <5>. QED BY <4>2, <5>2
      <4>. QED BY <4>3, <4>4
    <3>. QED BY <3>2, <3>4, <3>5
  <2>. QED BY <1>8, <2>1 DEF Distinct
<1>10. ASSUME NEW i \in 2 .. n PROVE ~Precedes(component, h[i], h[i \div 2])
  <2> DEFINE q == i \div 2
  <2>1. q \in 1 .. n /\ q < i /\ i \in 1 .. n /\ i # 1 /\ 2 * q <= n /\ q = i \div 2
    OBVIOUS
  <2>2. q # 1 => ~Precedes(component, s[i], s[q])
    OBVIOUS
  <2> HIDE DEF q
  <2>3. Ch(q) \in 1 .. n /\ (i = Ch(q) \/ ~Precedes(component, s[i], s[Ch(q)]))
    BY <1>6, <2>1
  <2>4. CASE i \notin R /\ q \notin R
    BY <1>1, <1>7, <2>1, <2>2, <2>4
  <2>5. CASE i \in R
    <3>1. q \in R /\ i = Ch(q) /\ h[q] = s[i]
      BY <1>1, <1>7, <2>1, <2>5
    <3>2. CASE Ch(i) \in R
      <4>1. h[i] = s[Ch(i)] /\ Ch(i) \in {2 * i, 2 * i + 1} /\ Ch(i) \in 4 .. n
        <5>1. i \in Nat /\ i >= 2
          BY <2>1
        <5>2. Ch(i) \in 1 .. n
          BY <1>1, <3>2
        <5>3. Ch(i) \in {2 * i, 2 * i + 1} /\ h[i] = s[Ch(i)]
          BY <1>5, <1>7, <2>5, <3>2, <5>1
        <5>. QED BY <5>1, <5>2, <5>3
      <4>2. Ch(i) \div 2 = i
        BY <2>1, <4>1
      <4>3. ~Precedes(component, s[Ch(i)], s[i])
        BY <4>1, <4>2
      <4>. QED BY <2>1, <3>1, <4>1, <4>3
    <3>3. CASE Ch(i) \notin R
      <4>1. h[i] = x /\ Less(component, s[i], x) /\ s[i] \in QueuePods /\ x \in QueuePods
        BY <1>1, <1>4, <1>7, <2>1, <2>5, <3>3
      <4>2. ~Precedes(component, x, s[i])
        BY <4>1, LessAgrees
      <4>. QED BY <2>1, <3>1, <4>1, <4>2
    <3>. QED BY <3>2, <3>3
  <2>6. CASE i \notin R /\ q \in R
    <3>1. h[i] = s[i] /\ s[i] \in QueuePods /\ s[Ch(q)] \in QueuePods /\ x \in QueuePods
      BY <1>1, <1>4, <1>7, <2>1, <2>3, <2>6
    <3>2. CASE Ch(q) \in R
      <4>1. h[q] = s[Ch(q)] /\ i # Ch(q)
        BY <1>7, <2>6, <3>2
      <4>. QED BY <2>1, <2>3, <3>1, <4>1
    <3>3. CASE Ch(q) \notin R
      <4>1. h[q] = x /\ ~Less(component, s[Ch(q)], x)
        BY <1>1, <1>7, <2>1, <2>6, <3>3
      <4>2. ~Precedes(component, s[Ch(q)], x)
        BY <3>1, <4>1, LessAgrees
      <4>3. ~Precedes(component, s[i], x)
        <5>1. CASE i = Ch(q)
          BY <4>2, <5>1
        <5>2. CASE i # Ch(q)
          <6>1. ~Precedes(component, s[i], s[Ch(q)])
            BY <2>3, <5>2
          <6>. QED BY <3>1, <4>2, <6>1, OrderTransitive
        <5>. QED BY <5>1, <5>2
      <4>. QED BY <2>1, <3>1, <4>1, <4>3
    <3>. QED BY <3>2, <3>3
  <2>. QED BY <2>4, <2>5, <2>6
<1>11. InOrder(h)
  BY <1>8, <1>10 DEF InOrder
<1>. QED BY <1>8, <1>9, <1>11 DEF h

\* A pod that is pushed into a heap without it.
LEMMA PushedKeeps ==
    ASSUME NEW s \in Seq(QueuePods), NEW p \in QueuePods, listed \subseteq DOMAIN Created, Distinct(s), InOrder(s),
           p \notin Range(s)
    PROVE  /\ Pushed(component, s, p) \in Seq(QueuePods)
           /\ Distinct(Pushed(component, s, p)) /\ InOrder(Pushed(component, s, p))
<1> DEFINE t == Append(s, p)
           n == Len(s)
<1>1. /\ n \in Nat /\ t \in Seq(QueuePods) /\ Len(t) = n + 1 /\ t[n + 1] = p
      /\ \A i \in 1 .. n : t[i] = s[i]
  BY AppendProperties
<1>2. \A i \in 1 .. n : s[i] # p
  BY DEF Range
<1> HIDE DEF t, n
<1>3. Distinct(t)
  <2> SUFFICES ASSUME NEW i \in 1 .. n + 1, NEW k \in 1 .. n + 1, t[i] = t[k] PROVE i = k
    BY <1>1 DEF Distinct
  <2>1. CASE i = n + 1 \/ k = n + 1
    BY <1>1, <1>2, <2>1
  <2>2. CASE i \in 1 .. n /\ k \in 1 .. n
    BY <1>1, <2>2 DEF Distinct, n
  <2>. QED BY <1>1, <2>1, <2>2
<1>4. ASSUME NEW i \in 2 .. n PROVE ~Precedes(component, t[i], t[i \div 2])
  <2>1. i \in 1 .. n /\ i \div 2 \in 1 .. n
    BY <1>1
  <2>2. ~Precedes(component, s[i], s[i \div 2])
    BY DEF InOrder, n
  <2>. QED BY <1>1, <2>1, <2>2
<1> DEFINE j == n + 1
<1>5. j \in Nat /\ j = Len(t) /\ j >= 1 /\ \A i \in 2 .. j - 1 : ~Precedes(component, t[i], t[i \div 2])
  BY <1>1, <1>4
<1>6. Pushed(component, s, p) = Up(component, t, j)
  BY DEF Pushed, t, n
<1> HIDE DEF j
<1>. QED BY <1>1, <1>3, <1>5, <1>6, UpKeeps

\* What is left when the head of a heap is taken.
LEMMA PoppedKeeps ==
    ASSUME NEW s \in Seq(QueuePods), s # <<>>, listed \subseteq DOMAIN Created, Distinct(s), InOrder(s)
    PROVE  /\ Popped(component, s) \in Seq(QueuePods)
           /\ Distinct(Popped(component, s)) /\ InOrder(Popped(component, s))
<1> DEFINE m == Len(s)
           e == [s EXCEPT ![1] = s[m]]
           t == Front(e)
           n == m - 1
<1>1. m \in Nat /\ m >= 1 /\ s \in [1 .. m -> QueuePods]
  BY EmptySeq
<1>2. CASE m = 1
  <2>1. Popped(component, s) = <<>>
    BY <1>2 DEF Popped
  <2>2. <<>> \in Seq(QueuePods) /\ Len(<<>>) = 0
    OBVIOUS
  <2>. QED BY <2>1, <2>2 DEF Distinct, InOrder
<1>3. CASE m # 1
  <2>1. n \in Nat /\ n >= 1
    BY <1>1, <1>3
  <2>2. /\ e \in Seq(QueuePods) /\ Len(e) = m /\ e[1] = s[m]
        /\ \A i \in 2 .. m : e[i] = s[i]
    BY <1>1
  <2>3. Popped(component, s) = Down(component, t)
    BY <1>3 DEF Popped
  <2> HIDE DEF e
  <2>4. t = SubSeq(e, 1, n)
    BY <2>2 DEF Front
  <2>5. /\ t \in Seq(QueuePods) /\ Len(t) = n /\ \A i \in 1 .. n : t[i] = e[i]
    <3> HIDE DEF t
    <3>. QED BY <1>1, <2>1, <2>2, <2>4, SubSeqProperties
  <2> HIDE DEF t, m, n
  <2>6. m = n + 1 /\ m = Len(s)
    BY <1>1 DEF n, m
  <2>7. t[1] = s[m] /\ \A i \in 2 .. n : t[i] = s[i]
    BY <2>1, <2>2, <2>5, <2>6
  <2>8. Distinct(t)
    <3>1. \A i, k \in 1 .. m : s[i] = s[k] => i = k
      BY <2>6 DEF Distinct
    <3> SUFFICES ASSUME NEW i \in 1 .. n, NEW k \in 1 .. n, t[i] = t[k] PROVE i = k
      BY <2>5 DEF Distinct
    <3>2. i \in 1 .. m /\ k \in 1 .. m /\ i # m /\ k # m /\ m \in 1 .. m
      BY <2>1, <2>6
    <3>3. (i = 1 /\ t[i] = s[m]) \/ (i # 1 /\ t[i] = s[i])
      BY <2>1, <2>7
    <3>4. (k = 1 /\ t[k] = s[m]) \/ (k # 1 /\ t[k] = s[k])
      BY <2>1, <2>7
    <3>. QED BY <3>1, <3>2, <3>3, <3>4
  <2>9. ASSUME NEW i \in 4 .. n PROVE ~Precedes(component, t[i], t[i \div 2])
    <3>1. i \in 2 .. n /\ i \div 2 \in 2 .. n /\ i \in 2 .. Len(s)
      BY <2>1, <2>6
    <3>2. ~Precedes(component, s[i], s[i \div 2])
      BY <3>1 DEF InOrder
    <3>. QED BY <2>7, <3>1, <3>2
  <2>. QED BY <2>1, <2>3, <2>5, <2>8, <2>9, DownKeeps
<1>. QED BY <1>2, <1>3

\* Every step leaves the active queue a heap of different pods.
LEMMA QueuedStep ==
    ASSUME Progress, Queued, [ProcessNext]_processVars
    PROVE  Queued'
<1>1. component' = component
  BY StepKinds
<1>2. heap \in Seq(QueuePods) /\ Distinct(heap) /\ listed \subseteq DOMAIN Created /\ InOrder(heap)
  BY DEF Queued, QueueTypeOK, Distinct
<1>3. ASSUME UNCHANGED queueVars, Sorting => Sorting' PROVE Queued'
  BY <1>1, <1>3 DEF Queued, queueVars, QueueTypeOK, InOrder, Precedes, Since
<1>4. ASSUME UNCHANGED queueVars, ~Sorting PROVE Queued'
  <2>1. heap = <<>> /\ heap' = heap
    BY <1>4 DEF Queued, queueVars
  <2>. QED BY <1>1, <1>4, <2>1 DEF Queued, queueVars, QueueTypeOK, InOrder, Precedes, Since
<1>5. ASSUME stage = "configured" \/ stage = "constructing", UNCHANGED queueVars PROVE Queued'
  BY <1>4, <1>5 DEF Sorting
<1>6. ASSUME UNCHANGED <<component, stage>>, Sorting, listed' = listed,
             heap' \in Seq(QueuePods), Distinct(heap)', InOrder(heap')
      PROVE  Queued'
  <2>1. QueueTypeOK'
    BY <1>2, <1>6 DEF QueueTypeOK, Distinct
  <2>2. Sorting'
    BY <1>6 DEF Sorting
  <2>3. InOrder(heap)'
    BY <1>6 DEF InOrder, Precedes, Since
  <2>. QED BY <2>1, <2>2, <2>3 DEF Queued
<1>7. CASE UNCHANGED processVars
  BY <1>3, <1>7 DEF processVars, Sorting
<1>8. CASE Load
  BY <1>5, <1>8 DEF Load
<1>9. CASE CheckArgs
  BY <1>5, <1>9 DEF CheckArgs, AtStep
<1>10. CASE BuildClient
  BY <1>5, <1>10 DEF BuildClient, AtStep
<1>11. CASE AskForInformers
  BY <1>5, <1>11 DEF AskForInformers, AtStep
<1>12. CASE Start
  BY <1>5, <1>12 DEF Start, AtStep
<1>13. CASE WaitForCacheSync
  BY <1>5, <1>13 DEF WaitForCacheSync, AtStep
<1>14. CASE FetchMetrics
  BY <1>5, <1>14 DEF FetchMetrics, AtStep
<1>15. CASE \E i \in DOMAIN ProcessFactoryOf : SyncInformer(i)
  BY <1>3, <1>15 DEF SyncInformer, Sorting
<1>16. CASE StartCycle \/ Normalize \/ UpdateMetrics
  BY <1>3, <1>16 DEF StartCycle, Normalize, UpdateMetrics, Sorting
<1>17. CASE \E n \in Nodes : Score(n) \/ Nominate(n)
  BY <1>3, <1>17 DEF Score, Nominate, Sorting
<1>18. ASSUME NEW p \in QueuePods, QueuePod(p) PROVE Queued'
  <2>1. /\ UNCHANGED <<component, stage>> /\ Sorting /\ listed' = listed
        /\ p \notin Range(heap) /\ heap' = Pushed(component, heap, p)
    BY <1>18 DEF QueuePod, Push
  <2>2. heap' \in Seq(QueuePods) /\ Distinct(heap') /\ InOrder(heap')
    BY <1>2, <2>1, PushedKeeps
  <2>3. Distinct(heap)'
    BY <2>2 DEF Distinct
  <2>. QED BY <1>6, <2>1, <2>2, <2>3
<1>19. CASE NextPod
  <2>1. /\ UNCHANGED <<component, stage>> /\ Sorting /\ listed' = listed
        /\ heap # <<>> /\ heap' = Popped(component, heap)
    BY <1>19 DEF NextPod, Pop
  <2>2. heap' \in Seq(QueuePods) /\ Distinct(heap') /\ InOrder(heap')
    BY <1>2, <2>1, PoppedKeeps
  <2>3. Distinct(heap)'
    BY <2>2 DEF Distinct
  <2>. QED BY <1>6, <2>1, <2>2, <2>3
<1>20. ASSUME NEW g \in DOMAIN Created, ChangePodGroup(g) PROVE Queued'
  <2>1. /\ UNCHANGED <<component, stage>> /\ Sorting /\ heap' = heap
        /\ \A i \in DOMAIN heap : PodInfo[heap[i]].group # g
        /\ listed' = IF g \in listed THEN listed \ {g} ELSE listed \cup {g}
    BY <1>20 DEF ChangePodGroup, ListPodGroup
  <2>2. \A i \in 1 .. Len(heap) : Since(heap[i])' = Since(heap[i])
    BY <1>2, <2>1 DEF Since
  <2>3. ASSUME NEW i \in 2 .. Len(heap) PROVE ~Precedes(component, heap[i], heap[i \div 2])'
    <3>1. i \in 1 .. Len(heap) /\ i \div 2 \in 1 .. Len(heap)
      BY <1>2
    <3>2. ~Precedes(component, heap[i], heap[i \div 2])
      BY <1>2 DEF InOrder
    <3>3. Since(heap[i])' = Since(heap[i]) /\ Since(heap[i \div 2])' = Since(heap[i \div 2])
      BY <2>2, <3>1
    <3>. QED BY <2>1, <3>2, <3>3 DEF Precedes
  <2>4. InOrder(heap)'
    BY <2>1, <2>3 DEF InOrder
  <2>5. QueueTypeOK'
    BY <2>1 DEF Queued, QueueTypeOK
  <2>6. Sorting'
    BY <2>1 DEF Sorting
  <2>. QED BY <2>4, <2>5, <2>6 DEF Queued
<1>. QED BY <1>7, <1>8, <1>9, <1>10, <1>11, <1>12, <1>13, <1>14, <1>15, <1>16, <1>17, <1>18, <1>19, <1>20 DEF ProcessNext

\* The head of such a queue is one that no queued pod has to precede.
LEMMA QueuedSuffices ==
    ASSUME Queued
    PROVE  HeadIsFirst
<1> SUFFICES ASSUME NEW i \in DOMAIN heap PROVE ~Precedes(component, heap[i], heap[1])
  BY DEF HeadIsFirst
<1>1. heap \in Seq(QueuePods) /\ listed \subseteq DOMAIN Created /\ InOrder(heap)
  BY DEF Queued, QueueTypeOK
<1>2. i \in 1 .. Len(heap)
  BY <1>1
<1>. QED BY <1>1, <1>2, HeapOrder

(***************************************************************************)
(* The scores                                                              *)
(***************************************************************************)

\* What Max and Min are of a finite set of numbers.
LEMMA MaxIs ==
    ASSUME NEW S \in SUBSET Int, IsFiniteSet(S), S # {}
    PROVE  /\ Max(S) \in S /\ \A x \in S : x <= Max(S)
           /\ Min(S) \in S /\ \A x \in S : Min(S) <= x
<1>1. (\E h \in S : \A x \in S : x <= h) /\ (\E l \in S : \A x \in S : l <= x)
  BY HasExtremes
<1>2. (\E h \in S : \A x \in S : h >= x) /\ (\E l \in S : \A x \in S : l =< x)
  BY <1>1
<1>3. Max(S) \in S /\ \A x \in S : Max(S) >= x
  BY <1>2 DEF Max
<1>4. Min(S) \in S /\ \A x \in S : Min(S) =< x
  BY <1>2 DEF Min
<1>. QED BY <1>3, <1>4

\* The smaller and the larger one of two numbers.
LEMMA PairExtremes ==
    ASSUME NEW e \in Int, NEW f \in Int
    PROVE  /\ Min({e, f}) \in {e, f} /\ Min({e, f}) <= e /\ Min({e, f}) <= f
           /\ Max({e, f}) \in {e, f} /\ e <= Max({e, f}) /\ f <= Max({e, f})
<1> DEFINE S == {e, f}
<1>1. IsFiniteSet({e}) /\ IsFiniteSet({f})
  BY FS_Singleton
<1>2. IsFiniteSet({e} \cup {f})
  BY <1>1, FS_Union
<1>3. S = {e} \cup {f} /\ S \in SUBSET Int /\ S # {} /\ e \in S /\ f \in S
  OBVIOUS
<1> HIDE DEF S
<1>4. IsFiniteSet(S)
  BY <1>2, <1>3
<1>5. Max(S) \in S /\ Min(S) \in S /\ \A z \in S : z <= Max(S) /\ Min(S) <= z
  BY <1>3, <1>4, MaxIs
<1>. QED BY <1>3, <1>5 DEF S

\* A power is what the multiplications lead to.
Multiplies(p, x, n) == p = [k \in 0 .. n |-> IF k = 0 THEN 1 ELSE x * p[k - 1]]
LEMMA PowerSteps ==
    ASSUME NEW x, NEW n \in Nat
    PROVE  \E p : Multiplies(p, x, n) /\ Power(x, n) = p[n]
<1>1. Power(x, n) = (CHOOSE p : Multiplies(p, x, n))[n]
  BY DEF Power, Multiplies
<1> DEFINE Bad == {m \in 0 .. n : ~\E p : Multiplies(p, x, m)}
<1>2. ASSUME Bad # {} PROVE FALSE
  <2>1. Bad \in SUBSET Nat /\ IsFiniteSet(Bad)
    <3>1. IsFiniteSet(0 .. n) /\ 0 .. n \subseteq Nat
      BY FS_Interval
    <3>2. Bad \subseteq 0 .. n
      OBVIOUS
    <3> HIDE DEF Bad
    <3>3. IsFiniteSet(Bad)
      BY <3>1, <3>2, FS_Subset
    <3>. QED BY <3>1, <3>2, <3>3
  <2>2. PICK m \in Bad : \A k \in Bad : m <= k
    <3> HIDE DEF Bad
    <3>. QED BY <1>2, <2>1, Smallest
  <2>3. m \in 0 .. n /\ ~\E p : Multiplies(p, x, m)
    BY <2>2
  <2>4. CASE m = 0
    <3> DEFINE p == [k \in 0 .. m |-> 1]
    <3>1. \A k \in 0 .. m : k = 0
      BY <2>4
    <3>2. p = [k \in 0 .. m |-> IF k = 0 THEN 1 ELSE x * p[k - 1]]
      BY <3>1
    <3> HIDE DEF p
    <3>. QED BY <2>3, <3>2 DEF Multiplies
  <2>5. CASE m # 0
    <3>1. m - 1 \in 0 .. n /\ m - 1 < m /\ m - 1 \notin Bad
      <4> HIDE DEF Bad
      <4>1. m - 1 \in 0 .. n /\ m - 1 < m
        BY <2>3, <2>5
      <4>. QED BY <2>1, <2>2, <2>3, <4>1
    <3>2. PICK q : Multiplies(q, x, m - 1)
      BY <3>1
    <3> DEFINE p == [k \in 0 .. m |-> IF k = m THEN x * q[m - 1] ELSE q[k]]
    <3>3. \A k \in 0 .. m - 1 : q[k] = IF k = 0 THEN 1 ELSE x * q[k - 1]
      BY <3>2 DEF Multiplies
    <3>4. ASSUME NEW k \in 0 .. m PROVE p[k] = IF k = 0 THEN 1 ELSE x * p[k - 1]
      <4>1. CASE k = m
        <5>1. p[k] = x * q[m - 1] /\ p[k - 1] = q[k - 1] /\ k # 0
          BY <2>3, <2>5, <4>1
        <5>. QED BY <4>1, <5>1
      <4>2. CASE k # m
        <5>1. k \in 0 .. m - 1 /\ p[k] = q[k]
          BY <2>3, <4>2
        <5>2. k # 0 => p[k - 1] = q[k - 1]
          BY <2>3, <5>1
        <5> HIDE DEF p
        <5>. QED BY <3>3, <5>1, <5>2
      <4>. QED BY <4>1, <4>2
    <3>5. p = [k \in 0 .. m |-> p[k]]
      OBVIOUS
    <3> HIDE DEF p
    <3>6. Multiplies(p, x, m)
      BY <3>4, <3>5 DEF Multiplies
    <3>. QED BY <2>3, <3>6
  <2>. QED BY <2>4, <2>5
<1>3. \E p : Multiplies(p, x, n)
  <2>1. n \in 0 .. n
    OBVIOUS
  <2>. QED BY <1>2, <2>1
<1>. QED BY <1>1, <1>3

\* A power of a natural number is one, and 0 multiplied is 0.
LEMMA PowerTyped ==
    ASSUME NEW x \in Nat, NEW n \in Nat
    PROVE  Power(x, n) \in Nat /\ (x = 0 /\ n > 0 => Power(x, n) = 0)
<1>1. PICK p : Multiplies(p, x, n) /\ Power(x, n) = p[n]
  BY PowerSteps
<1>2. \A k \in 0 .. n : p[k] = IF k = 0 THEN 1 ELSE x * p[k - 1]
  BY <1>1 DEF Multiplies
<1> DEFINE Bad == {k \in 0 .. n : p[k] \notin Nat}
<1>3. ASSUME Bad # {} PROVE FALSE
  <2>1. Bad \in SUBSET Nat /\ IsFiniteSet(Bad)
    <3>1. IsFiniteSet(0 .. n) /\ 0 .. n \subseteq Nat
      BY FS_Interval
    <3>2. Bad \subseteq 0 .. n
      OBVIOUS
    <3> HIDE DEF Bad
    <3>3. IsFiniteSet(Bad)
      BY <3>1, <3>2, FS_Subset
    <3>. QED BY <3>1, <3>2, <3>3
  <2>2. PICK m \in Bad : \A k \in Bad : m <= k
    <3> HIDE DEF Bad
    <3>. QED BY <1>3, <2>1, Smallest
  <2>3. m \in 0 .. n /\ p[m] \notin Nat
    BY <2>2
  <2>4. m # 0
    BY <1>2, <2>3
  <2>5. m - 1 \in 0 .. n /\ m - 1 < m
    BY <2>3, <2>4
  <2>6. p[m - 1] \in Nat
    BY <2>2, <2>3, <2>5
  <2>7. p[m] = x * p[m - 1]
    BY <1>2, <2>3, <2>4
  <2>. QED BY <2>3, <2>6, <2>7
<1>4. \A k \in 0 .. n : p[k] \in Nat
  BY <1>3
<1>5. ASSUME x = 0, n > 0 PROVE p[n] = 0
  <2>1. n \in 0 .. n /\ n - 1 \in 0 .. n /\ n # 0
    BY <1>5
  <2>2. p[n] = x * p[n - 1] /\ p[n - 1] \in Nat
    BY <1>2, <1>4, <2>1
  <2>. QED BY <1>5, <2>2
<1>6. p[n] \in Nat
  BY <1>4
<1>. QED BY <1>1, <1>5, <1>6

\* The root of a percentage is one, and that of a larger percentage is no smaller.
LEMMA RootIs ==
    ASSUME NEW a \in 0 .. 100, NEW b \in 0 .. 100, NEW s \in Nat, a <= b
    PROVE  Root(a, s) \in 0 .. 100 /\ Root(b, s) \in 0 .. 100 /\ Root(a, s) <= Root(b, s)
<1>1. CASE s = 0
  BY <1>1 DEF Root
<1>2. CASE s # 0
  <2> DEFINE P == Power(100, s - 1)
             F(v) == {r \in 0 .. 100 : Power(r, s) <= v * P}
  <2>1. P \in Nat /\ Power(0, s) = 0 /\ \A r \in 0 .. 100 : Power(r, s) \in Nat
    <3>1. s - 1 \in Nat /\ 100 \in Nat /\ 0 \in Nat /\ s > 0
      BY <1>2
    <3>2. P \in Nat
      BY <3>1, PowerTyped
    <3>3. Power(0, s) = 0
      BY <3>1, PowerTyped
    <3>4. ASSUME NEW r \in 0 .. 100 PROVE Power(r, s) \in Nat
      <4>1. r \in Nat
        OBVIOUS
      <4>. QED BY <4>1, PowerTyped
    <3>. QED BY <3>2, <3>3, <3>4
  <2> HIDE DEF P
  <2>2. a * P \in Nat /\ b * P \in Nat /\ a * P <= b * P
    BY <2>1
  <2>3. Root(a, s) = Max(F(a)) /\ Root(b, s) = Max(F(b))
    BY <1>2 DEF Root, P
  <2>4. /\ F(a) \subseteq 0 .. 100 /\ F(b) \subseteq 0 .. 100 /\ F(a) \subseteq F(b)
        /\ 0 \in F(a) /\ 0 \in F(b)
    <3> DEFINE A == a * P
               B == b * P
    <3>1. A \in Nat /\ B \in Nat /\ A <= B
      BY <2>2
    <3>2. F(a) = {r \in 0 .. 100 : Power(r, s) <= A} /\ F(b) = {r \in 0 .. 100 : Power(r, s) <= B}
      OBVIOUS
    <3>3. 0 \in 0 .. 100 /\ Power(0, s) <= A /\ Power(0, s) <= B
      BY <2>1, <3>1
    <3> HIDE DEF A, B, F
    <3>4. ASSUME NEW r \in F(a) PROVE r \in F(b)
      <4>1. r \in 0 .. 100 /\ Power(r, s) <= A /\ Power(r, s) \in Nat
        BY <2>1, <3>2
      <4>2. Power(r, s) <= B
        BY <3>1, <4>1
      <4>. QED BY <3>2, <4>1, <4>2
    <3>. QED BY <3>2, <3>3, <3>4
  <2> HIDE DEF F
  <2>5. /\ F(a) \in SUBSET Int /\ IsFiniteSet(F(a)) /\ F(a) # {}
        /\ F(b) \in SUBSET Int /\ IsFiniteSet(F(b)) /\ F(b) # {}
    <3>1. 0 \in Int /\ 100 \in Int /\ 0 .. 100 \subseteq Int
      OBVIOUS
    <3>2. IsFiniteSet(0 .. 100)
      BY <3>1, FS_Interval
    <3>. QED BY <2>4, <3>1, <3>2, FS_Subset
  <2>6. Max(F(a)) \in F(a) /\ Max(F(b)) \in F(b) /\ \A x \in F(b) : x <= Max(F(b))
    BY <2>5, MaxIs
  <2>7. Max(F(a)) <= Max(F(b))
    BY <2>4, <2>6
  <2>. QED BY <2>3, <2>4, <2>6, <2>7
<1>. QED BY <1>1, <1>2

\* A resource with less load and less deviation has no worse a risk.
LEMMA ComputeScoreIs ==
    ASSUME NEW x \in [usedAvg : Int, usedStdev : Int, req : Int, capacity : Int, isValid : BOOLEAN],
           NEW y \in [usedAvg : Int, usedStdev : Int, req : Int, capacity : Int, isValid : BOOLEAN],
           NEW margin \in Nat, NEW sensitivity \in Nat,
           x.req = y.req, x.capacity = y.capacity, x.usedAvg <= y.usedAvg, x.usedStdev <= y.usedStdev
    PROVE  /\ ComputeScore(x, margin, sensitivity) \in 0 .. 200
           /\ ComputeScore(y, margin, sensitivity) \in 0 .. 200
           /\ ComputeScore(y, margin, sensitivity) <= ComputeScore(x, margin, sensitivity)
<1>1. CASE x.capacity <= 0
  BY <1>1 DEF ComputeScore
<1>2. CASE ~(x.capacity <= 0)
  <2> DEFINE req == IF x.req < 0 THEN 0 ELSE x.req
             load == (100 * req) \div x.capacity
             Mu(rs) == Clamp(Clamp(rs.usedAvg, 0, 100) + load, 0, 100)
             Std(rs) == Clamp(rs.usedStdev, 0, 100)
             Sigma(rs) == Root(Std(rs), sensitivity)
  <2>1. load \in Int
    <3>1. 100 * req \in Int /\ x.capacity \in Int /\ x.capacity > 0
      BY <1>2
    <3>. QED BY <3>1
  <2>2. Mu(x) \in 0 .. 100 /\ Mu(y) \in 0 .. 100 /\ Mu(x) <= Mu(y)
    <3> HIDE DEF load
    <3>. QED BY <2>1 DEF Clamp
  <2>3. Std(x) \in 0 .. 100 /\ Std(y) \in 0 .. 100 /\ Std(x) <= Std(y)
    BY DEF Clamp
  <2>4. ComputeScore(x, margin, sensitivity) = 200 - Mu(x) - Clamp(Sigma(x) * margin, 0, 100)
    BY <1>2 DEF ComputeScore
  <2>5. ComputeScore(y, margin, sensitivity) = 200 - Mu(y) - Clamp(Sigma(y) * margin, 0, 100)
    BY <1>2 DEF ComputeScore
  <2> HIDE DEF Mu, Std
  <2>6. Sigma(x) \in 0 .. 100 /\ Sigma(y) \in 0 .. 100 /\ Sigma(x) <= Sigma(y)
    BY <2>3, RootIs
  <2> HIDE DEF Sigma
  <2>7. Sigma(x) * margin \in Int /\ Sigma(y) * margin \in Int /\ Sigma(x) * margin <= Sigma(y) * margin
    BY <2>6
  <2>8. /\ Clamp(Sigma(x) * margin, 0, 100) \in 0 .. 100 /\ Clamp(Sigma(y) * margin, 0, 100) \in 0 .. 100
        /\ Clamp(Sigma(x) * margin, 0, 100) <= Clamp(Sigma(y) * margin, 0, 100)
    <3> DEFINE u == Sigma(x) * margin
               v == Sigma(y) * margin
    <3>1. u \in Int /\ v \in Int /\ u <= v
      BY <2>7
    <3> HIDE DEF u, v
    <3>2. Clamp(u, 0, 100) \in 0 .. 100 /\ Clamp(v, 0, 100) \in 0 .. 100 /\ Clamp(u, 0, 100) <= Clamp(v, 0, 100)
      BY <3>1 DEF Clamp
    <3>. QED BY <3>2 DEF u, v
  <2> DEFINE sx == Clamp(Sigma(x) * margin, 0, 100)
             sy == Clamp(Sigma(y) * margin, 0, 100)
             mx == Mu(x)
             my == Mu(y)
  <2>9. sx \in 0 .. 100 /\ sy \in 0 .. 100 /\ sx <= sy
    BY <2>8
  <2>10. mx \in 0 .. 100 /\ my \in 0 .. 100 /\ mx <= my
    BY <2>2
  <2>11. ComputeScore(x, margin, sensitivity) = 200 - mx - sx /\ ComputeScore(y, margin, sensitivity) = 200 - my - sy
    BY <2>4, <2>5
  <2> HIDE DEF sx, sy, mx, my
  <2>. QED BY <2>9, <2>10, <2>11
<1>. QED BY <1>1, <1>2

\* What is read of the metrics is what they report, or 0.
LEMMA LastValueIs ==
    ASSUME NEW b \in Metrics, NEW found \in SUBSET DOMAIN b
    PROVE  /\ LastValue(b, found) \in Int
           /\ found = {} => LastValue(b, found) = 0
           /\ found # {} => LastValue(b, found) \in {b[i].value : i \in found}
<1> DEFINE R == [type : STRING, operator : STRING, value : Int]
<1>1. b \in Seq(R) /\ DOMAIN b = 1 .. Len(b) /\ Len(b) \in Nat
  BY DEF Metrics
<1>2. CASE found = {}
  BY <1>2 DEF LastValue
<1>3. CASE found # {}
  <2>1. IsFiniteSet(1 .. Len(b)) /\ 1 .. Len(b) \subseteq Int
    BY <1>1, FS_Interval
  <2>2. IsFiniteSet(found) /\ found \in SUBSET Int
    BY <1>1, <2>1, FS_Subset
  <2>3. Max(found) \in found
    BY <1>3, <2>2, MaxIs
  <2>4. b[Max(found)] \in R
    <3> HIDE DEF R
    <3>. QED BY <1>1, <2>3
  <2>5. LastValue(b, found) = b[Max(found)].value
    BY <1>3 DEF LastValue
  <2>. QED BY <1>3, <2>3, <2>4, <2>5
<1>. QED BY <1>2, <1>3

\* The data of a resource is numbers, those of two lists of metrics in the order of
\* what they report.
LEMMA DataIs ==
    ASSUME NEW x \in Metrics, NEW y \in Metrics, NEW r,
           (AverageOf(x, r) = {}) = (AverageOf(y, r) = {}),
           (Reported(x, r, {"Std"}) = {}) = (Reported(y, r, {"Std"}) = {}),
           \A a \in AverageOf(x, r), b \in AverageOf(y, r) : a <= b,
           \A a \in Reported(x, r, {"Std"}), b \in Reported(y, r, {"Std"}) : a <= b
    PROVE  /\ GetResourceData(x, r).avg <= GetResourceData(y, r).avg
           /\ GetResourceData(x, r).stDev <= GetResourceData(y, r).stDev
<1> DEFINE Averages(b) == Found(b, r, {"Average"})
           Old(b) == Found(b, r, {NoOperator, "Latest"})
           Used(b) == IF Averages(b) # {} THEN Averages(b) ELSE Old(b)
           Stds(b) == Found(b, r, {"Std"})
           Values(b, found) == {b[i].value : i \in found}
<1>1. ASSUME NEW b
      PROVE  /\ Used(b) \in SUBSET DOMAIN b /\ Stds(b) \in SUBSET DOMAIN b
             /\ GetResourceData(b, r).avg = LastValue(b, Used(b))
             /\ GetResourceData(b, r).stDev = LastValue(b, Stds(b))
             /\ AverageOf(b, r) = Values(b, Used(b)) /\ Reported(b, r, {"Std"}) = Values(b, Stds(b))
  <2>1. Averages(b) \in SUBSET DOMAIN b /\ Old(b) \in SUBSET DOMAIN b /\ Stds(b) \in SUBSET DOMAIN b
    BY DEF Found
  <2>2. /\ GetResourceData(b, r).avg = LastValue(b, Used(b))
        /\ GetResourceData(b, r).stDev = LastValue(b, Stds(b))
    BY DEF GetResourceData
  <2>3. /\ Reported(b, r, {"Average"}) = Values(b, Averages(b))
        /\ Reported(b, r, {NoOperator, "Latest"}) = Values(b, Old(b))
        /\ Reported(b, r, {"Std"}) = Values(b, Stds(b))
    BY DEF Reported, Found
  <2>4. (Values(b, Averages(b)) # {}) <=> (Averages(b) # {})
    OBVIOUS
  <2> HIDE DEF Averages, Old, Stds, Values
  <2>5. AverageOf(b, r) = Values(b, Used(b))
    BY <2>3, <2>4 DEF AverageOf
  <2>. QED BY <2>1, <2>2, <2>3, <2>5
<1>2. ASSUME NEW fx \in SUBSET DOMAIN x, NEW fy \in SUBSET DOMAIN y,
             (Values(x, fx) = {}) = (Values(y, fy) = {}),
             \A a \in Values(x, fx), b \in Values(y, fy) : a <= b
      PROVE  LastValue(x, fx) <= LastValue(y, fy)
  <2>1. CASE fx = {}
    <3>1. fy = {}
      BY <1>2, <2>1
    <3>. QED BY <2>1, <3>1, LastValueIs
  <2>2. CASE fx # {}
    <3>1. fy # {}
      BY <1>2, <2>2
    <3>2. LastValue(x, fx) \in Values(x, fx) /\ LastValue(y, fy) \in Values(y, fy)
      BY <2>2, <3>1, LastValueIs
    <3>. QED BY <1>2, <3>2
  <2>. QED BY <2>1, <2>2
<1> HIDE DEF Used, Stds, Values
<1>3. LastValue(x, Used(x)) <= LastValue(y, Used(y))
  <2>1. Used(x) \in SUBSET DOMAIN x /\ Used(y) \in SUBSET DOMAIN y
    BY <1>1
  <2>2. (Values(x, Used(x)) = {}) = (Values(y, Used(y)) = {})
    BY <1>1
  <2>3. \A a \in Values(x, Used(x)), b \in Values(y, Used(y)) : a <= b
    BY <1>1
  <2>. QED BY <1>2, <2>1, <2>2, <2>3
<1>4. LastValue(x, Stds(x)) <= LastValue(y, Stds(y))
  <2>1. Stds(x) \in SUBSET DOMAIN x /\ Stds(y) \in SUBSET DOMAIN y
    BY <1>1
  <2>2. (Values(x, Stds(x)) = {}) = (Values(y, Stds(y)) = {})
    BY <1>1
  <2>3. \A a \in Values(x, Stds(x)), b \in Values(y, Stds(y)) : a <= b
    BY <1>1
  <2>. QED BY <1>2, <2>1, <2>2, <2>3
<1>. QED BY <1>1, <1>3, <1>4

\* What the pod of the cycle requests.
Requests == [r \in DOMAIN PodRequest |-> GetResourceRequested(PodRequest[r])]
LEMMA RequestsTyped ==
    ASSUME NEW r \in {"CPU", "Memory"}
    PROVE  Requests[r] \in Int
<1>1. PodRequest[r] \in PodTemplates /\ r \in DOMAIN PodRequest
  BY LoadAssumption
<1> DEFINE pod == PodRequest[r]
           together == SumFunction(pod.containers)
           S == {together} \cup Range(pod.initContainers)
<1>2. pod.containers \in Seq(Int) /\ pod.initContainers \in Seq(Int) /\ pod.overhead \in Int
  BY <1>1 DEF PodTemplates
<1>3. Requests[r] = Max(S) + pod.overhead
  BY <1>1 DEF Requests, GetResourceRequested, ComputePodResourceRequest
<1> HIDE DEF pod
<1>4. together \in Int
  <2>1. pod.containers \in [1 .. Len(pod.containers) -> Int] /\ Len(pod.containers) \in Nat
    BY <1>2
  <2>2. IsFiniteSet(1 .. Len(pod.containers))
    BY <2>1, FS_Interval
  <2>. QED BY <2>1, <2>2, SumTyped
<1> HIDE DEF together
<1>5. Range(pod.initContainers) \subseteq Int /\ IsFiniteSet(Range(pod.initContainers))
  <2> DEFINE s == pod.initContainers
             R == Range(s)
  <2>1. s \in [1 .. Len(s) -> Int] /\ Len(s) \in Nat
    BY <1>2
  <2>2. R \subseteq Int /\ s \in Surjection(1 .. Len(s), R)
    BY <2>1 DEF Range, Surjection
  <2>3. IsFiniteSet(1 .. Len(s))
    BY <2>1, FS_Interval
  <2> HIDE DEF R
  <2>4. IsFiniteSet(R)
    BY <2>2, <2>3, FS_Surjection DEF ExistsSurjection
  <2>. QED BY <2>2, <2>4 DEF R
<1>6. S \in SUBSET Int /\ IsFiniteSet(S) /\ S # {}
  <2>1. IsFiniteSet({together})
    BY FS_Singleton
  <2>. QED BY <1>4, <1>5, <2>1, FS_Union
<1> HIDE DEF S
<1>7. Max(S) \in Int
  BY <1>6, MaxIs
<1>. QED BY <1>2, <1>3, <1>7

\* The statistics of a resource of a node are numbers.
StatsOf(n, b, r) == CreateResourceStats(b, r, Capacity[n][r], Requests[r])
LEMMA StatsTyped ==
    ASSUME NEW n \in Nodes, NEW b \in Metrics, NEW r \in {"CPU", "Memory"}
    PROVE  /\ StatsOf(n, b, r) \in [usedAvg : Int, usedStdev : Int, req : Int, capacity : Int, isValid : BOOLEAN]
           /\ StatsOf(n, b, r).usedAvg = GetResourceData(b, r).avg
           /\ StatsOf(n, b, r).usedStdev = GetResourceData(b, r).stDev
           /\ StatsOf(n, b, r).req = Requests[r] /\ StatsOf(n, b, r).capacity = Capacity[n][r]
           /\ StatsOf(n, b, r).isValid = Measured(b, r)
<1>1. Capacity[n][r] \in Int /\ Requests[r] \in Int
  BY LoadAssumption, RequestsTyped
<1> DEFINE d == GetResourceData(b, r)
<1>2. d.avg \in Int
  <2> DEFINE f == IF Found(b, r, {"Average"}) # {} THEN Found(b, r, {"Average"})
                  ELSE Found(b, r, {NoOperator, "Latest"})
  <2>1. f \in SUBSET DOMAIN b
    BY DEF Found
  <2>2. d.avg = LastValue(b, f)
    BY DEF GetResourceData
  <2> HIDE DEF f, d
  <2>. QED BY <2>1, <2>2, LastValueIs
<1>3. d.stDev \in Int
  <2> DEFINE f == Found(b, r, {"Std"})
  <2>1. f \in SUBSET DOMAIN b
    BY DEF Found
  <2>2. d.stDev = LastValue(b, f)
    BY DEF GetResourceData
  <2> HIDE DEF f, d
  <2>. QED BY <2>1, <2>2, LastValueIs
<1>4. d.isValid = Measured(b, r) /\ d.isValid \in BOOLEAN
  BY DEF GetResourceData, Measured
<1>5. StatsOf(n, b, r) = [usedAvg |-> d.avg, usedStdev |-> d.stDev, req |-> Requests[r],
                          capacity |-> Capacity[n][r], isValid |-> d.isValid]
  BY DEF StatsOf, CreateResourceStats
<1> HIDE DEF d
<1>6. StatsOf(n, b, r) \in [usedAvg : Int, usedStdev : Int, req : Int, capacity : Int, isValid : BOOLEAN]
  BY <1>1, <1>2, <1>3, <1>4, <1>5
<1>. QED BY <1>4, <1>5, <1>6 DEF d

\* The risk of a node with metrics, from the risks of its resources.
RiskOf(n, b, r) ==
    IF StatsOf(n, b, r).isValid THEN ComputeScore(StatsOf(n, b, r), args.margin, args.sensitivity) ELSE 0
LEMMA RiskIs ==
    ASSUME NEW n \in Nodes, NEW b \in Metrics, b # Absent, args.margin \in Nat, args.sensitivity \in Nat
    PROVE  /\ RiskOf(n, b, "CPU") \in 0 .. 200 /\ RiskOf(n, b, "Memory") \in 0 .. 200
           /\ LoadVariationScore(n, b) \in 0 .. 100
           /\ \E total \in 0 .. 200 :
                /\ total = IF Measured(b, "CPU") /\ Measured(b, "Memory")
                           THEN Min({RiskOf(n, b, "CPU"), RiskOf(n, b, "Memory")})
                           ELSE Max({RiskOf(n, b, "CPU"), RiskOf(n, b, "Memory")})
                /\ LoadVariationScore(n, b) = (total + 1) \div 2
<1> DEFINE cpu == RiskOf(n, b, "CPU")
           memory == RiskOf(n, b, "Memory")
           total == IF Measured(b, "CPU") /\ Measured(b, "Memory")
                    THEN Min({cpu, memory}) ELSE Max({cpu, memory})
<1>1. ASSUME NEW r \in {"CPU", "Memory"} PROVE RiskOf(n, b, r) \in 0 .. 200
  <2> DEFINE x == StatsOf(n, b, r)
  <2>1. x \in [usedAvg : Int, usedStdev : Int, req : Int, capacity : Int, isValid : BOOLEAN]
    BY StatsTyped
  <2>2. x.usedAvg <= x.usedAvg /\ x.usedStdev <= x.usedStdev
    BY <2>1
  <2> HIDE DEF x
  <2>3. ComputeScore(x, args.margin, args.sensitivity) \in 0 .. 200
    BY <2>1, <2>2, ComputeScoreIs
  <2>. QED BY <2>3 DEF RiskOf, x
<1>2. cpu \in 0 .. 200 /\ memory \in 0 .. 200
  BY <1>1
<1>3. LoadVariationScore(n, b) = (total + 1) \div 2
  <2>1. StatsOf(n, b, "CPU").isValid = Measured(b, "CPU") /\ StatsOf(n, b, "Memory").isValid = Measured(b, "Memory")
    BY StatsTyped
  <2>2. LoadVariationScore(n, b) = RiskScore(b, Capacity[n], Requests, args.margin, args.sensitivity)
    BY DEF LoadVariationScore, Requests
  <2>3. RiskScore(b, Capacity[n], Requests, args.margin, args.sensitivity) = (total + 1) \div 2
    BY <2>1 DEF RiskScore, RiskOf, StatsOf
  <2>. QED BY <2>2, <2>3
<1> HIDE DEF cpu, memory
<1>4. total \in {cpu, memory}
  <2>1. cpu \in Int /\ memory \in Int
    BY <1>2
  <2>. QED BY <2>1, PairExtremes
<1>5. total \in 0 .. 200
  BY <1>2, <1>4
<1> HIDE DEF total
<1>6. (total + 1) \div 2 \in 0 .. 100
  BY <1>5
<1>. QED BY <1>2, <1>3, <1>5, <1>6 DEF cpu, memory, total

\* A node with less load and less deviation than another one of its size scores no less.
LEMMA RiskMonotone ==
    ASSUME NEW m \in Nodes, NEW n \in Nodes, NEW x \in Metrics, NEW y \in Metrics,
           x # Absent, y # Absent, Capacity[m] = Capacity[n],
           args.margin \in Nat, args.sensitivity \in Nat,
           \A r \in {"CPU", "Memory"} :
                /\ Measured(x, r) = Measured(y, r)
                /\ (AverageOf(x, r) = {}) = (AverageOf(y, r) = {})
                /\ (Reported(x, r, {"Std"}) = {}) = (Reported(y, r, {"Std"}) = {})
                /\ \A a \in AverageOf(x, r), b \in AverageOf(y, r) : a <= b
                /\ \A a \in Reported(x, r, {"Std"}), b \in Reported(y, r, {"Std"}) : a <= b
    PROVE  LoadVariationScore(n, y) <= LoadVariationScore(m, x)
<1>1. ASSUME NEW r \in {"CPU", "Memory"} PROVE RiskOf(n, y, r) <= RiskOf(m, x, r)
  <2> DEFINE u == StatsOf(m, x, r)
             v == StatsOf(n, y, r)
  <2>1. /\ u \in [usedAvg : Int, usedStdev : Int, req : Int, capacity : Int, isValid : BOOLEAN]
        /\ v \in [usedAvg : Int, usedStdev : Int, req : Int, capacity : Int, isValid : BOOLEAN]
    BY StatsTyped
  <2>2. u.req = v.req /\ u.capacity = v.capacity /\ u.isValid = v.isValid
    BY StatsTyped
  <2>3. u.usedAvg <= v.usedAvg /\ u.usedStdev <= v.usedStdev
    <3>1. /\ GetResourceData(x, r).avg <= GetResourceData(y, r).avg
          /\ GetResourceData(x, r).stDev <= GetResourceData(y, r).stDev
      BY DataIs
    <3>. QED BY <3>1, StatsTyped
  <2> HIDE DEF u, v
  <2>4. ComputeScore(v, args.margin, args.sensitivity) <= ComputeScore(u, args.margin, args.sensitivity)
    BY <2>1, <2>2, <2>3, ComputeScoreIs
  <2>5. RiskOf(m, x, r) = IF u.isValid THEN ComputeScore(u, args.margin, args.sensitivity) ELSE 0
    BY DEF RiskOf, u
  <2>6. RiskOf(n, y, r) = IF v.isValid THEN ComputeScore(v, args.margin, args.sensitivity) ELSE 0
    BY DEF RiskOf, v
  <2>. QED BY <2>2, <2>4, <2>5, <2>6
<1> DEFINE a == RiskOf(m, x, "CPU")
           b == RiskOf(m, x, "Memory")
           c == RiskOf(n, y, "CPU")
           d == RiskOf(n, y, "Memory")
           both == Measured(x, "CPU") /\ Measured(x, "Memory")
<1>2. PICK s \in 0 .. 200 : /\ s = IF both THEN Min({a, b}) ELSE Max({a, b})
                            /\ LoadVariationScore(m, x) = (s + 1) \div 2
  BY RiskIs
<1>3. PICK t \in 0 .. 200 : /\ t = IF both THEN Min({c, d}) ELSE Max({c, d})
                            /\ LoadVariationScore(n, y) = (t + 1) \div 2
  <2>1. both = (Measured(y, "CPU") /\ Measured(y, "Memory"))
    OBVIOUS
  <2>2. PICK t \in 0 .. 200 : /\ t = IF Measured(y, "CPU") /\ Measured(y, "Memory") THEN Min({c, d}) ELSE Max({c, d})
                              /\ LoadVariationScore(n, y) = (t + 1) \div 2
    BY RiskIs
  <2> HIDE DEF both
  <2>. QED BY <2>1, <2>2
<1>4. a \in 0 .. 200 /\ b \in 0 .. 200 /\ c \in 0 .. 200 /\ d \in 0 .. 200
  BY RiskIs
<1>5. c <= a /\ d <= b
  BY <1>1
<1> HIDE DEF a, b, c, d, both
<1>6. a \in Int /\ b \in Int /\ c \in Int /\ d \in Int
  BY <1>4
<1>7. t <= s
  <2>1. CASE both
    <3>1. s = Min({a, b}) /\ t = Min({c, d})
      BY <1>2, <1>3, <2>1
    <3>2. Min({a, b}) \in {a, b} /\ Min({c, d}) <= c /\ Min({c, d}) <= d
      BY <1>6, PairExtremes
    <3>. QED BY <1>4, <1>5, <3>1, <3>2
  <2>2. CASE ~both
    <3>1. s = Max({a, b}) /\ t = Max({c, d})
      BY <1>2, <1>3, <2>2
    <3>2. Max({c, d}) \in {c, d} /\ a <= Max({a, b}) /\ b <= Max({a, b})
      BY <1>6, PairExtremes
    <3>. QED BY <1>4, <1>5, <3>1, <3>2
  <2>. QED BY <2>1, <2>2
<1>. QED BY <1>2, <1>3, <1>7

\* The weights that NewAllocatable has accepted.
LEMMA WeightsIs ==
    ASSUME NEW resources \in Seq([name : STRING, weight : Int]), resources # <<>>,
           \A i \in DOMAIN resources : resources[i].weight > 0,
           NEW D, D = {resources[i].name : i \in DOMAIN resources}
    PROVE  /\ IsFiniteSet(D) /\ D # {}
           /\ ResourceToWeightMap(resources) \in [D -> Nat]
           /\ \A r \in D : ResourceToWeightMap(resources)[r] > 0
<1> DEFINE R == [name : STRING, weight : Int]
           n == Len(resources)
           Of(r) == {i \in 1 .. n : resources[i].name = r}
           last(r) == CHOOSE i \in DOMAIN resources :
                        /\ resources[i].name = r
                        /\ \A j \in DOMAIN resources : resources[j].name = r => j <= i
<1>1. n \in Nat /\ n >= 1 /\ DOMAIN resources = 1 .. n
  BY EmptySeq
<1>2. \A i \in 1 .. n : resources[i] \in R
  <2>1. resources \in Seq(R)
    OBVIOUS
  <2> HIDE DEF R
  <2>. QED BY <1>1, <2>1
<1>3. IsFiniteSet(1 .. n) /\ 1 .. n \subseteq Int
  BY <1>1, FS_Interval
<1>4. IsFiniteSet(D) /\ D # {}
  <2> DEFINE f == [i \in 1 .. n |-> resources[i].name]
  <2>1. f \in Surjection(1 .. n, D) /\ resources[1].name \in D
    BY <1>1 DEF Surjection
  <2> HIDE DEF f
  <2>. QED BY <1>3, <2>1, FS_Surjection DEF ExistsSurjection
<1>5. ASSUME NEW r \in D PROVE last(r) \in 1 .. n
  <2>1. Of(r) \in SUBSET Int /\ IsFiniteSet(Of(r)) /\ Of(r) # {}
    <3>1. Of(r) \subseteq 1 .. n /\ Of(r) # {}
      BY <1>1
    <3> HIDE DEF Of
    <3>. QED BY <1>3, <3>1, FS_Subset
  <2>2. PICK h \in Of(r) : \A j \in Of(r) : j <= h
    <3> HIDE DEF Of
    <3>. QED BY <2>1, HasExtremes
  <2>3. /\ h \in DOMAIN resources /\ resources[h].name = r
        /\ \A j \in DOMAIN resources : resources[j].name = r => j <= h
    BY <1>1, <2>2
  <2>4. \E i \in DOMAIN resources : /\ resources[i].name = r
                                    /\ \A j \in DOMAIN resources : resources[j].name = r => j <= i
    BY <2>3
  <2>. QED BY <1>1, <2>4
<1>6. ResourceToWeightMap(resources) = [r \in D |-> resources[last(r)].weight]
  BY DEF ResourceToWeightMap
<1> HIDE DEF last
<1>7. ASSUME NEW r \in D PROVE resources[last(r)].weight \in Nat /\ resources[last(r)].weight > 0
  <2>1. last(r) \in 1 .. n /\ resources[last(r)] \in R
    BY <1>2, <1>5
  <2>2. resources[last(r)].weight \in Int /\ resources[last(r)].weight > 0
    BY <1>1, <2>1
  <2>. QED BY <2>2
<1>. QED BY <1>4, <1>6, <1>7

\* The weighted mean of what a node has, with the sign of the mode, when the machine
\* integers suffice.
Mean(w, x) == SumFunction([r \in DOMAIN w |-> x[r] * w[r]]) \div SumFunction(w)
LEMMA MeanIs ==
    ASSUME NEW D, IsFiniteSet(D), D # {}, NEW w \in [D -> Nat], \A r \in D : w[r] > 0,
           NEW x \in [D -> Nat], NEW mode \in {"Least", "Most"},
           SumFunction(w) < Half, SumFunction([r \in D |-> x[r] * w[r]]) < Half
    PROVE  /\ Mean(w, x) \in 0 .. Half - 1
           /\ NodeScore(w, x, mode) = IF mode = "Most" THEN Mean(w, x) ELSE -Mean(w, x)
<1> DEFINE p == [r \in D |-> x[r] * w[r]]
           q == [r \in D |-> ResourceScore(x[r], mode) * w[r]]
           A == SumFunction(p)
           B == SumFunction(q)
           W == SumFunction(w)
<1>1. \A r \in D : x[r] \in Nat /\ w[r] \in Nat /\ x[r] * w[r] \in Nat
  OBVIOUS
<1>2. p \in [D -> Nat] /\ p \in [D -> Int] /\ \A r \in D : p[r] = x[r] * w[r]
  BY <1>1
<1>3. Half \in Nat /\ Half > 100
  BY HalfAssumption
<1>4. NodeScore(w, x, mode) = Quotient(Wrap(B), Wrap(W))
  BY DEF NodeScore
<1>5. A < Half /\ W < Half /\ Mean(w, x) = A \div W
  BY DEF Mean
<1>6. \A r \in D : q[r] = ResourceScore(x[r], mode) * w[r]
  OBVIOUS
<1>7. q = [r \in D |-> q[r]]
  OBVIOUS
<1> HIDE DEF p, q
<1>8. A \in Nat /\ W \in Nat /\ W > 0
  BY <1>2, SumPositive
<1>9. B = IF mode = "Most" THEN A ELSE -A
  <2>1. CASE mode = "Most"
    <3>1. \A r \in D : q[r] = p[r]
      BY <1>1, <1>2, <1>6, <2>1 DEF ResourceScore
    <3>2. q = p
      BY <1>2, <1>7, <3>1
    <3>. QED BY <2>1, <3>2
  <2>2. CASE mode = "Least"
    <3>1. ASSUME NEW r \in D PROVE q[r] = -p[r] /\ q[r] \in Int
      <4>1. q[r] = (-1 * x[r]) * w[r] /\ p[r] = x[r] * w[r]
        BY <1>2, <1>6, <2>2 DEF ResourceScore
      <4>2. (-1 * x[r]) * w[r] = -(x[r] * w[r])
        BY <1>1
      <4>. QED BY <1>1, <4>1, <4>2
    <3>2. q \in [D -> Int]
      BY <1>7, <3>1
    <3>3. B = -A
      BY <1>2, <3>1, <3>2, SumOpposite
    <3>. QED BY <2>2, <3>3
  <2>. QED BY <2>1, <2>2
<1> HIDE DEF A, B, W
<1>10. Wrap(W) = W
  BY <1>3, <1>5, <1>8, WrapFits DEF InWord
<1>11. B \in Int /\ Wrap(B) = B
  <2>1. B \in Int /\ InWord(B)
    BY <1>3, <1>5, <1>8, <1>9 DEF InWord
  <2>. QED BY <2>1, WrapFits
<1> DEFINE m == A \div W
<1>12. m \in Nat /\ m <= A
  BY <1>8
<1>13. m \in 0 .. Half - 1 /\ Wrap(m) = m
  <2>1. m \in Int /\ InWord(m) /\ m \in 0 .. Half - 1
    BY <1>3, <1>5, <1>8, <1>12 DEF InWord
  <2> HIDE DEF m
  <2>. QED BY <2>1, WrapFits
<1>14. CASE mode = "Most"
  <2>1. Quotient(A, W) = Wrap(m)
    BY <1>8 DEF Quotient, Abs
  <2>. QED BY <1>4, <1>5, <1>9, <1>10, <1>11, <1>13, <1>14, <2>1
<1>15. CASE mode = "Least"
  <2>1. B = -A
    BY <1>9, <1>15
  <2>2. Quotient(-A, W) = -m
    <3>1. CASE A = 0
      <4>1. m = 0
        BY <1>8, <3>1
      <4>2. -A = 0 /\ Abs(0) = 0 /\ Abs(W) = W
        <5>1. \A z \in Int : -z = 0 - z
          OBVIOUS
        <5>2. -A = 0 - A
          BY <1>8, <5>1
        <5>3. 0 - A = 0
          BY <3>1
        <5>4. -A = 0
          BY <5>2, <5>3
        <5>. QED BY <1>8, <5>4 DEF Abs
      <4>3. Quotient(0, W) = Wrap(0 \div W)
        BY <1>8, <4>2 DEF Quotient
      <4>4. 0 \div W = m
        BY <3>1
      <4>. QED BY <1>13, <4>1, <4>2, <4>3, <4>4
    <3>2. CASE A # 0
      <4>1. -A < 0 /\ ~(W < 0) /\ Abs(-A) = A /\ Abs(W) = W
        BY <1>8, <3>2 DEF Abs
      <4>. QED BY <4>1 DEF Quotient
    <3>. QED BY <3>1, <3>2
  <2>. QED BY <1>4, <1>5, <1>10, <1>11, <1>13, <1>15, <2>1, <2>2
<1>. QED BY <1>14, <1>15

\* A node that has more of everything has the larger mean.
LEMMA MeanMonotone ==
    ASSUME NEW D, IsFiniteSet(D), D # {}, NEW w \in [D -> Nat], \A r \in D : w[r] > 0,
           NEW x \in [D -> Nat], NEW y \in [D -> Nat], \A r \in D : x[r] <= y[r]
    PROVE  Mean(w, x) <= Mean(w, y)
<1> DEFINE p == [r \in D |-> x[r] * w[r]]
           q == [r \in D |-> y[r] * w[r]]
           A == SumFunction(p)
           B == SumFunction(q)
           W == SumFunction(w)
<1>1. ASSUME NEW r \in D PROVE x[r] * w[r] \in Nat /\ y[r] * w[r] \in Nat /\ x[r] * w[r] <= y[r] * w[r]
  <2>1. x[r] \in Nat /\ y[r] \in Nat /\ w[r] \in Nat /\ x[r] <= y[r]
    OBVIOUS
  <2>. QED BY <2>1
<1>2. p \in [D -> Nat] /\ q \in [D -> Nat] /\ p \in [D -> Int] /\ q \in [D -> Int] /\ \A r \in D : p[r] <= q[r]
  BY <1>1
<1>3. Mean(w, x) = A \div W /\ Mean(w, y) = B \div W
  BY DEF Mean
<1> HIDE DEF p, q
<1>4. A \in Nat /\ B \in Nat /\ W \in Nat /\ W > 0
  BY <1>2, SumPositive
<1>5. A <= B
  BY <1>2, SumMonotone
<1> HIDE DEF A, B, W
<1>6. A \div W <= B \div W
  BY <1>4, <1>5
<1>. QED BY <1>3, <1>6

\* The extremes are scores of nodes, as long as the scores are between the values
\* that the loop begins with.
LEMMA ExtremesReal ==
    ASSUME NEW S, IsFiniteSet(S), S # {}, NEW scores \in [S -> -(Half - 1) .. Half - 1]
    PROVE  \E m, n \in S : Highest(scores) = scores[m] /\ Lowest(scores) = scores[n]
<1> DEFINE up == {-(Half - 1)} \cup {scores[n] : n \in S}
           low == {Half - 1} \cup {scores[n] : n \in S}
<1>1. Half \in Nat
  BY HalfAssumption
<1>2. scores \in [S -> Int]
  BY <1>1
<1>3. /\ Lowest(scores) \in Int /\ Highest(scores) \in Int
      /\ \A n \in S : Lowest(scores) <= scores[n] /\ scores[n] <= Highest(scores)
  BY <1>2, Extremes
<1>4. Highest(scores) \in up
  <2>1. Highest(scores) = CHOOSE h \in up : \A x \in up : x <= h
    BY DEF Highest
  <2>2. \E h \in up : \A x \in up : x <= h
    <3>1. up \in SUBSET Int /\ up # {}
      BY <1>1, <1>2
    <3>2. IsFiniteSet(up)
      BY ScoresFinite
    <3> HIDE DEF up
    <3>. QED BY <3>1, <3>2, HasExtremes
  <2> HIDE DEF up
  <2>. QED BY <2>1, <2>2
<1>5. Lowest(scores) \in low
  <2>1. Lowest(scores) = CHOOSE l \in low : \A x \in low : l <= x
    BY DEF Lowest
  <2>2. \E l \in low : \A x \in low : l <= x
    <3>1. low \in SUBSET Int /\ low # {}
      BY <1>1, <1>2
    <3>2. IsFiniteSet(low)
      BY ScoresFinite
    <3> HIDE DEF low
    <3>. QED BY <3>1, <3>2, HasExtremes
  <2> HIDE DEF low
  <2>. QED BY <2>1, <2>2
<1>6. PICK z \in S : TRUE
  OBVIOUS
<1>7. scores[z] \in -(Half - 1) .. Half - 1 /\ Lowest(scores) <= scores[z] /\ scores[z] <= Highest(scores)
  BY <1>3
<1>8. \E m \in S : Highest(scores) = scores[m]
  <2>1. CASE Highest(scores) = -(Half - 1)
    <3>1. scores[z] = Highest(scores)
      BY <1>1, <1>3, <1>7, <2>1
    <3>. QED BY <3>1
  <2>2. CASE Highest(scores) # -(Half - 1)
    BY <1>4, <2>2
  <2>. QED BY <2>1, <2>2
<1>9. \E n \in S : Lowest(scores) = scores[n]
  <2>1. CASE Lowest(scores) = Half - 1
    <3>1. scores[z] = Lowest(scores)
      BY <1>1, <1>3, <1>7, <2>1
    <3>. QED BY <3>1
  <2>2. CASE Lowest(scores) # Half - 1
    BY <1>5, <2>2
  <2>. QED BY <2>1, <2>2
<1>. QED BY <1>8, <1>9

(***************************************************************************)
(* The scoring cycles                                                      *)
(***************************************************************************)

\* A step that leaves the cycle alone.
LEMMA CycleKept ==
    ASSUME Cycle, UNCHANGED <<component, stage, args, snapshot, scored, final>>,
           nominated' \in [Nodes -> 0 .. MaxNominated], metrics' \in [Nodes -> {Absent} \cup Metrics]
    PROVE  Cycle'
<1>1. \A n, b : ScoreOf(n, b)' = ScoreOf(n, b)
  BY DEF ScoreOf, AllocatableScore, LoadVariationScore
<1>2. \A n, b : Seen(n, b)' = Seen(n, b)
  BY DEF Seen
<1>3. Scoring' = Scoring /\ RawScores' = RawScores
  BY DEF Scoring, RawScores
<1>. QED BY <1>1, <1>2, <1>3 DEF Cycle

\* Before it serves, the component has scored nothing.
LEMMA NoCycle ==
    ASSUME Cycle, ~Scoring, UNCHANGED <<snapshot, scored, final>>,
           nominated' \in [Nodes -> 0 .. MaxNominated], metrics' \in [Nodes -> {Absent} \cup Metrics]
    PROVE  Cycle'
<1>1. snapshot = Nil /\ DOMAIN scored = {} /\ final = Nil
  BY DEF Cycle
<1>. QED BY <1>1 DEF Cycle

\* Every step keeps the scores those of what the nodes were seen as.
LEMMA CycleStep ==
    ASSUME Progress, Cycle, [ProcessNext]_processVars
    PROVE  Cycle'
<1>1. component' = component
  BY StepKinds
<1>2. nominated \in [Nodes -> 0 .. MaxNominated] /\ metrics \in [Nodes -> {Absent} \cup Metrics]
  BY DEF Cycle
<1>3. ASSUME stage = "configured" \/ stage = "constructing", UNCHANGED scoreVars PROVE Cycle'
  BY <1>2, <1>3, NoCycle DEF Scoring, scoreVars
<1>4. CASE UNCHANGED processVars
  BY <1>2, <1>4, CycleKept DEF processVars, scoreVars
<1>5. CASE Load
  BY <1>3, <1>5 DEF Load
<1>6. CASE CheckArgs
  BY <1>3, <1>6 DEF CheckArgs, AtStep
<1>7. CASE BuildClient
  BY <1>3, <1>7 DEF BuildClient, AtStep
<1>8. CASE AskForInformers
  BY <1>3, <1>8 DEF AskForInformers, AtStep
<1>9. CASE Start
  BY <1>3, <1>9 DEF Start, AtStep
<1>10. CASE WaitForCacheSync
  BY <1>3, <1>10 DEF WaitForCacheSync, AtStep
<1>11. CASE FetchMetrics
  <2>1. ~Scoring /\ UNCHANGED <<snapshot, scored, final, nominated>> /\ metrics' \in Responses \cup {metrics}
    BY <1>11 DEF FetchMetrics, AtStep, Scoring
  <2>2. metrics' \in [Nodes -> {Absent} \cup Metrics]
    BY <1>2, <2>1, LoadAssumption
  <2>. QED BY <1>2, <2>1, <2>2, NoCycle
<1>12. CASE \E i \in DOMAIN ProcessFactoryOf : SyncInformer(i)
  BY <1>2, <1>12, CycleKept DEF SyncInformer, scoreVars
<1>13. CASE StartCycle
  <2>1. /\ UNCHANGED <<component, stage, nominated, metrics>> /\ Scoring /\ scored' = <<>> /\ final' = Nil
        /\ \E s \in Snapshots[component] : snapshot' = Pointer(s)
    BY <1>13 DEF StartCycle
  <2>2. Scoring' /\ DOMAIN scored' = {}
    BY <2>1 DEF Scoring
  <2>. QED BY <1>2, <2>1, <2>2 DEF Cycle
<1>14. ASSUME NEW n \in Nodes, Score(n) PROVE Cycle'
  <2> DEFINE new == [basis |-> Basis(n), score |-> ScoreOf(n, Basis(n))]
  <2>1. /\ UNCHANGED <<component, stage, args, snapshot, nominated, metrics, final>>
        /\ Scoring /\ snapshot # Nil /\ n \notin DOMAIN scored
        /\ scored' = [m \in DOMAIN scored \cup {n} |-> IF m = n THEN new ELSE scored[m]]
    BY <1>14 DEF Score
  <2>2. new.basis = Basis(n) /\ new.score = ScoreOf(n, new.basis)
    OBVIOUS
  <2> HIDE DEF new
  <2>3. Seen(n, new.basis)
    <3>1. CASE component = "NodeResourcesAllocatable"
      BY <2>2, <3>1 DEF Seen, Basis
    <3>2. CASE component = "PodState"
      BY <1>2, <2>2, <3>2 DEF Seen, Basis
    <3>3. CASE component = "LoadVariationRiskBalancing"
      BY <1>2, <2>2, <3>3 DEF Seen, Basis
    <3>. QED BY <2>1, <3>1, <3>2, <3>3 DEF Scoring, Scorers
  <2>4. final = Nil
    BY <2>1 DEF Cycle
  <2>5. \A m, b : ScoreOf(m, b)' = ScoreOf(m, b)
    BY <2>1 DEF ScoreOf, AllocatableScore, LoadVariationScore
  <2>6. \A m, b : Seen(m, b)' = Seen(m, b)
    BY <2>1 DEF Seen
  <2>7. Scoring'
    BY <2>1 DEF Scoring
  <2>8. ASSUME NEW m \in DOMAIN scored'
        PROVE  Seen(m, scored'[m].basis) /\ scored'[m].score = ScoreOf(m, scored'[m].basis)
    <3>1. CASE m = n
      <4>1. scored'[m] = new
        BY <2>1, <3>1
      <4>. QED BY <2>2, <2>3, <3>1, <4>1
    <3>2. CASE m # n
      <4>1. m \in DOMAIN scored /\ scored'[m] = scored[m]
        BY <2>1, <3>2
      <4>. QED BY <4>1 DEF Cycle
    <3>. QED BY <3>1, <3>2
  <2>9. \A m \in DOMAIN scored' : Seen(m, scored[m].basis)' /\ (scored[m].score = ScoreOf(m, scored[m].basis))'
    BY <2>5, <2>6, <2>8
  <2>10. DOMAIN scored' \subseteq Nodes /\ (\E s \in Snapshots[component] : snapshot = Pointer(s))
    BY <2>1 DEF Cycle
  <2>. QED BY <1>2, <2>1, <2>4, <2>7, <2>9, <2>10 DEF Cycle
<1>15. CASE Normalize
  <2>1. /\ UNCHANGED <<component, stage, args, snapshot, nominated, metrics, scored>>
        /\ Scoring /\ DOMAIN scored = Nodes
        /\ final' = IF component = "LoadVariationRiskBalancing" THEN RawScores ELSE NormalizeScore(RawScores)
    BY <1>15 DEF Normalize, RawScores
  <2>2. \A n, b : ScoreOf(n, b)' = ScoreOf(n, b)
    BY <2>1 DEF ScoreOf, AllocatableScore, LoadVariationScore
  <2>3. \A n, b : Seen(n, b)' = Seen(n, b)
    BY <2>1 DEF Seen
  <2>4. Scoring' /\ RawScores' = RawScores
    BY <2>1 DEF Scoring, RawScores
  <2>. QED BY <1>2, <2>1, <2>2, <2>3, <2>4 DEF Cycle
<1>16. CASE UpdateMetrics
  <2>1. metrics' \in [Nodes -> {Absent} \cup Metrics]
    BY <1>16, LoadAssumption DEF UpdateMetrics
  <2>. QED BY <1>2, <1>16, <2>1, CycleKept DEF UpdateMetrics
<1>17. ASSUME NEW n \in Nodes, Nominate(n) PROVE Cycle'
  <2>1. nominated' \in [Nodes -> 0 .. MaxNominated]
    BY <1>2, <1>17 DEF Nominate
  <2>. QED BY <1>2, <1>17, <2>1, CycleKept DEF Nominate
<1>18. CASE (\E p \in QueuePods : QueuePod(p)) \/ NextPod \/ \E g \in DOMAIN Created : ChangePodGroup(g)
  BY <1>2, <1>18, CycleKept DEF QueuePod, NextPod, ChangePodGroup, scoreVars
<1>. QED BY <1>4, <1>5, <1>6, <1>7, <1>8, <1>9, <1>10, <1>11, <1>12, <1>13, <1>14, <1>15, <1>16, <1>17, <1>18 DEF ProcessNext

\* The scores of NodeResourcesAllocatable are what its arguments make of the nodes,
\* within the machine integers.
LEMMA ScoresOfAllocatable ==
    ASSUME Progress, Arguments, Cycle, component = "NodeResourcesAllocatable", final # Nil, Headroom
    PROVE  /\ \A n \in Nodes : scored[n].score \in -(Half - 1) .. Half - 1
           /\ \A m, n \in Nodes : AtLeastAsGood(m, n) => scored[n].score <= scored[m].score
<1> DEFINE weights == ResourceToWeightMap(args.resources)
           D == {args.resources[i].name : i \in DOMAIN args.resources}
           Has(n) == [r \in D |-> AllocatableOf(scored[n].basis, r)]
<1>1. Half \in Nat /\ Half > 100
  BY HalfAssumption
<1>2. /\ args.resources \in Seq([name : STRING, weight : Int]) /\ args.resources # <<>>
      /\ (\A i \in DOMAIN args.resources : args.resources[i].weight > 0) /\ args.mode \in {"Least", "Most"}
  <2>1. pc > 1 /\ component \in Configured
    BY ProgramShape DEF Progress, Cycle, Scoring, Configured, Components
  <2>2. args \in Internal(component) /\ Accepted(component, args)
    BY <2>1 DEF Arguments
  <2>3. args \in [resources : Seq([name : STRING, weight : Int]) \ {<<>>}, mode : STRING \ {Unset}]
    BY <2>2 DEF Internal
  <2>. QED BY <2>2, <2>3 DEF Accepted
<1>3. /\ IsFiniteSet(D) /\ D # {} /\ weights \in [D -> Nat] /\ DOMAIN weights = D
      /\ \A r \in D : weights[r] > 0
  <2> HIDE DEF D
  <2>1. D = {args.resources[i].name : i \in DOMAIN args.resources}
    BY DEF D
  <2>. QED BY <1>2, <2>1, WeightsIs
<1>4. ASSUME NEW n \in Nodes
      PROVE  /\ n \in DOMAIN scored /\ scored[n].basis = snapshot[1][n]
             /\ scored[n].score = NodeScore(weights, Has(n), args.mode)
             /\ Has(n) \in [D -> Nat]
             /\ SumFunction([r \in D |-> Has(n)[r] * weights[r]]) < Half /\ SumFunction(weights) < Half
  <2>1. n \in DOMAIN scored
    BY DEF Cycle
  <2>2. scored[n].basis = snapshot[1][n] /\ scored[n].score = ScoreOf(n, scored[n].basis) /\ snapshot # Nil
    BY <2>1 DEF Cycle, Seen
  <2>3. scored[n].score = NodeScore(weights, Has(n), args.mode)
    BY <1>3, <2>2 DEF ScoreOf, AllocatableScore
  <2>4. PICK s \in Snapshots["NodeResourcesAllocatable"] : snapshot = Pointer(s)
    BY <2>2 DEF Cycle
  <2>5. \A r \in DOMAIN scored[n].basis : scored[n].basis[r] \in Nat
    <3>1. scored[n].basis = s[n]
      BY <2>2, <2>4 DEF Pointer
    <3>. QED BY <3>1, ClusterAssumption
  <2>6. Has(n) \in [D -> Nat]
    BY <2>5 DEF AllocatableOf
  <2>7. /\ SumFunction(weights) < Half
        /\ SumFunction([r \in DOMAIN weights |-> AllocatableOf(snapshot[1][n], r) * weights[r]]) < Half
    BY DEF Headroom
  <2>8. [r \in D |-> Has(n)[r] * weights[r]]
            = [r \in DOMAIN weights |-> AllocatableOf(snapshot[1][n], r) * weights[r]]
    BY <1>3, <2>2
  <2> HIDE DEF D, weights, Has
  <2>. QED BY <2>1, <2>2, <2>3, <2>6, <2>7, <2>8
<1>5. \A n \in Nodes : \A r \in D : Has(n)[r] = AllocatableOf(scored[n].basis, r)
  OBVIOUS
<1> HIDE DEF weights, Has
<1>6. ASSUME NEW n \in Nodes
      PROVE  /\ Mean(weights, Has(n)) \in 0 .. Half - 1
             /\ scored[n].score = IF args.mode = "Most" THEN Mean(weights, Has(n)) ELSE -Mean(weights, Has(n))
  <2> DEFINE x == Has(n)
             mode == args.mode
  <2> HIDE DEF D
  <2>1. /\ x \in [D -> Nat] /\ mode \in {"Least", "Most"}
        /\ SumFunction(weights) < Half /\ SumFunction([r \in D |-> x[r] * weights[r]]) < Half
    BY <1>2, <1>4
  <2>2. scored[n].score = NodeScore(weights, x, mode)
    BY <1>4
  <2> HIDE DEF x, mode
  <2>3. /\ Mean(weights, x) \in 0 .. Half - 1
        /\ NodeScore(weights, x, mode) = IF mode = "Most" THEN Mean(weights, x) ELSE -Mean(weights, x)
    BY <1>3, <2>1, MeanIs
  <2>. QED BY <2>2, <2>3 DEF x, mode
<1>7. ASSUME NEW n \in Nodes PROVE scored[n].score \in -(Half - 1) .. Half - 1
  <2> DEFINE a == Mean(weights, Has(n))
  <2>1. a \in 0 .. Half - 1 /\ scored[n].score = IF args.mode = "Most" THEN a ELSE -a
    BY <1>6
  <2> HIDE DEF a
  <2>. QED BY <1>1, <2>1
<1>8. ASSUME NEW m \in Nodes, NEW n \in Nodes, AtLeastAsGood(m, n)
      PROVE  scored[n].score <= scored[m].score
  <2> DEFINE a == Mean(weights, Has(m))
             b == Mean(weights, Has(n))
  <2>1. ASSUME NEW r \in D
        PROVE  IF args.mode = "Most" THEN Has(n)[r] <= Has(m)[r] ELSE Has(m)[r] <= Has(n)[r]
    <3>1. PICK i \in DOMAIN args.resources : r = args.resources[i].name
      OBVIOUS
    <3>2. IF args.mode = "Most" THEN AllocatableOf(scored[m].basis, r) >= AllocatableOf(scored[n].basis, r)
          ELSE AllocatableOf(scored[m].basis, r) <= AllocatableOf(scored[n].basis, r)
      BY <1>8, <3>1 DEF AtLeastAsGood
    <3>3. Has(m) \in [D -> Nat] /\ Has(n) \in [D -> Nat]
      BY <1>4
    <3>4. Has(m)[r] = AllocatableOf(scored[m].basis, r) /\ Has(n)[r] = AllocatableOf(scored[n].basis, r)
      BY <1>5
    <3>5. Has(m)[r] \in Nat /\ Has(n)[r] \in Nat
      BY <3>3
    <3> HIDE DEF D
    <3>. QED BY <3>2, <3>4, <3>5
  <2> HIDE DEF D
  <2>2. Has(m) \in [D -> Nat] /\ Has(n) \in [D -> Nat]
    BY <1>4
  <2>3. a \in 0 .. Half - 1 /\ scored[m].score = IF args.mode = "Most" THEN a ELSE -a
    BY <1>6
  <2>4. b \in 0 .. Half - 1 /\ scored[n].score = IF args.mode = "Most" THEN b ELSE -b
    BY <1>6
  <2>5. CASE args.mode = "Most"
    <3>1. \A r \in D : Has(n)[r] <= Has(m)[r]
      BY <2>1, <2>5
    <3>2. b <= a
      BY <1>3, <2>2, <3>1, MeanMonotone
    <3> HIDE DEF a, b
    <3>. QED BY <2>3, <2>4, <2>5, <3>2
  <2>6. CASE args.mode # "Most"
    <3>1. \A r \in D : Has(m)[r] <= Has(n)[r]
      BY <2>1, <2>6
    <3>2. a <= b
      BY <1>3, <2>2, <3>1, MeanMonotone
    <3> HIDE DEF a, b
    <3>. QED BY <1>1, <2>3, <2>4, <2>6, <3>2
  <2>. QED BY <2>5, <2>6
<1>. QED BY <1>7, <1>8

\* The scores of PodState count pods.
LEMMA ScoresOfPodState ==
    ASSUME Cycle, component = "PodState", final # Nil
    PROVE  /\ \A n \in Nodes : scored[n].score \in -(Half - 1) .. Half - 1
           /\ \A m, n \in Nodes : AtLeastAsGood(m, n) => scored[n].score <= scored[m].score
<1>1. Half \in Nat /\ Half > 100 /\ MaxNominated \in 0 .. Half - 1
  BY HalfAssumption, ClusterAssumption
<1>2. ASSUME NEW n \in Nodes
      PROVE  /\ scored[n].basis.terminating \in 0 .. Half - 1 /\ scored[n].basis.nominated \in 0 .. Half - 1
             /\ scored[n].score = scored[n].basis.terminating - scored[n].basis.nominated
  <2>1. n \in DOMAIN scored
    BY DEF Cycle
  <2>2. /\ scored[n].basis.terminating = snapshot[1][n] /\ scored[n].basis.nominated \in 0 .. MaxNominated
        /\ scored[n].score = ScoreOf(n, scored[n].basis) /\ snapshot # Nil
    BY <2>1 DEF Cycle, Seen
  <2>3. PICK s \in Snapshots["PodState"] : snapshot = Pointer(s)
    BY <2>2 DEF Cycle
  <2>4. snapshot[1][n] \in 0 .. Half - 1
    <3>1. snapshot[1][n] = s[n]
      BY <2>3 DEF Pointer
    <3>. QED BY <3>1, ClusterAssumption
  <2>5. scored[n].score = scored[n].basis.terminating - scored[n].basis.nominated
    BY <2>2 DEF ScoreOf, PodStateScore
  <2>6. scored[n].basis.nominated \in 0 .. Half - 1
    BY <1>1, <2>2
  <2>. QED BY <2>2, <2>4, <2>5, <2>6
<1>3. ASSUME NEW n \in Nodes PROVE scored[n].score \in -(Half - 1) .. Half - 1
  BY <1>1, <1>2
<1>4. ASSUME NEW m \in Nodes, NEW n \in Nodes, AtLeastAsGood(m, n)
      PROVE  scored[n].score <= scored[m].score
  <2>1. /\ scored[m].basis.terminating >= scored[n].basis.terminating
        /\ scored[m].basis.nominated <= scored[n].basis.nominated
    BY <1>4 DEF AtLeastAsGood
  <2>. QED BY <1>1, <1>2, <2>1
<1>. QED BY <1>3, <1>4

\* The scores of LoadVariationRiskBalancing are in range as they are.
LEMMA ScoresOfLoadVariation ==
    ASSUME Progress, Arguments, Cycle, component = "LoadVariationRiskBalancing", final # Nil
    PROVE  /\ \A n \in Nodes : scored[n].score \in 0 .. 100
           /\ \A m, n \in Nodes : AtLeastAsGood(m, n) => scored[n].score <= scored[m].score
<1>1. args.margin \in Nat /\ args.sensitivity \in Nat
  <2>1. pc > 1 /\ component \in Configured
    BY ProgramShape DEF Progress, Cycle, Scoring, Configured, Components
  <2>2. args \in Internal(component)
    BY <2>1 DEF Arguments
  <2>. QED BY <2>2 DEF Internal
<1>2. ASSUME NEW n \in Nodes
      PROVE  /\ scored[n].basis \in {Absent} \cup Metrics
             /\ scored[n].score = LoadVariationScore(n, scored[n].basis)
  <2>1. n \in DOMAIN scored
    BY DEF Cycle
  <2>2. scored[n].basis \in {Absent} \cup Metrics /\ scored[n].score = ScoreOf(n, scored[n].basis)
    BY <2>1 DEF Cycle, Seen
  <2>. QED BY <2>2 DEF ScoreOf
<1>3. ASSUME NEW n \in Nodes PROVE scored[n].score \in 0 .. 100
  <2>1. CASE scored[n].basis = Absent
    <3>1. LoadVariationScore(n, scored[n].basis) = 0
      BY <2>1 DEF LoadVariationScore, MinNodeScore
    <3>. QED BY <1>2, <3>1
  <2>2. CASE scored[n].basis # Absent
    <3> DEFINE b == scored[n].basis
    <3>1. b \in Metrics /\ b # Absent /\ scored[n].score = LoadVariationScore(n, b)
      BY <1>2, <2>2
    <3> HIDE DEF b
    <3>2. LoadVariationScore(n, b) \in 0 .. 100
      BY <1>1, <3>1, RiskIs
    <3>. QED BY <3>1, <3>2
  <2>. QED BY <2>1, <2>2
<1>4. ASSUME NEW m \in Nodes, NEW n \in Nodes, AtLeastAsGood(m, n)
      PROVE  scored[n].score <= scored[m].score
  <2> DEFINE x == scored[m].basis
             y == scored[n].basis
  <2>1. /\ x # Absent /\ y # Absent /\ Capacity[m] = Capacity[n]
        /\ \A r \in {"CPU", "Memory"} :
                /\ Measured(x, r) = Measured(y, r)
                /\ (AverageOf(x, r) = {}) = (AverageOf(y, r) = {})
                /\ (Reported(x, r, {"Std"}) = {}) = (Reported(y, r, {"Std"}) = {})
                /\ \A a \in AverageOf(x, r), b \in AverageOf(y, r) : a <= b
                /\ \A a \in Reported(x, r, {"Std"}), b \in Reported(y, r, {"Std"}) : a <= b
    BY <1>4 DEF AtLeastAsGood
  <2>2. x \in Metrics /\ y \in Metrics
    BY <1>2, <2>1
  <2>3. scored[m].score = LoadVariationScore(m, x) /\ scored[n].score = LoadVariationScore(n, y)
    BY <1>2
  <2> HIDE DEF x, y
  <2>4. LoadVariationScore(n, y) <= LoadVariationScore(m, x)
    BY <1>1, <2>1, <2>2, RiskMonotone
  <2>. QED BY <2>3, <2>4
<1>. QED BY <1>3, <1>4

\* Such scores are in range and rank the nodes faithfully, normalised where the
\* plugin does that.
LEMMA ScoresSuffice ==
    ASSUME Progress, Arguments, Cycle
    PROVE  ScoresInRange /\ RanksFaithfully
<1> SUFFICES ASSUME final # Nil, Headroom
             PROVE  /\ \A n \in Nodes : final[n] \in MinNodeScore .. MaxNodeScore
                    /\ \A m, n \in Nodes : AtLeastAsGood(m, n) => final[m] >= final[n]
  BY DEF ScoresInRange, RanksFaithfully
<1>1. /\ component \in Scorers /\ DOMAIN scored = Nodes
      /\ final = IF component = "LoadVariationRiskBalancing" THEN RawScores ELSE NormalizeScore(RawScores)
  BY DEF Cycle, Scoring
<1>2. DOMAIN RawScores = Nodes /\ \A n \in Nodes : RawScores[n] = scored[n].score
  BY DEF RawScores
<1>3. CASE component = "LoadVariationRiskBalancing"
  <2>1. /\ \A n \in Nodes : scored[n].score \in 0 .. 100
        /\ \A m, n \in Nodes : AtLeastAsGood(m, n) => scored[n].score <= scored[m].score
    BY <1>3, ScoresOfLoadVariation
  <2>2. \A n \in Nodes : final[n] = scored[n].score
    BY <1>1, <1>2, <1>3
  <2>. QED BY <2>1, <2>2 DEF MinNodeScore, MaxNodeScore
<1>4. CASE component # "LoadVariationRiskBalancing"
  <2>1. /\ \A n \in Nodes : scored[n].score \in -(Half - 1) .. Half - 1
        /\ \A m, n \in Nodes : AtLeastAsGood(m, n) => scored[n].score <= scored[m].score
    BY <1>1, <1>4, ScoresOfAllocatable, ScoresOfPodState DEF Scorers
  <2>2. Half \in Nat /\ IsFiniteSet(Nodes)
    BY HalfAssumption, ClusterAssumption
  <2>3. RawScores \in [Nodes -> -(Half - 1) .. Half - 1]
    BY <2>1 DEF RawScores
  <2>4. RawScores \in [Nodes -> Int]
    BY <2>2, <2>3
  <2>5. CASE Nodes = {}
    BY <2>5
  <2>6. CASE Nodes # {}
    <3>1. PICK m, n \in Nodes : Highest(RawScores) = RawScores[m] /\ Lowest(RawScores) = RawScores[n]
      BY <2>2, <2>3, <2>6, ExtremesReal
    <3>2. 100 * (scored[m].score - scored[n].score) < Half
      BY DEF Headroom
    <3>3. 100 * (Highest(RawScores) - Lowest(RawScores)) < Half
      BY <1>2, <3>1, <3>2
    <3>4. /\ NormalizeScore(RawScores) \in [Nodes -> MinNodeScore .. MaxNodeScore]
          /\ \A a, b \in Nodes : RawScores[a] <= RawScores[b] =>
                NormalizeScore(RawScores)[a] <= NormalizeScore(RawScores)[b]
      BY <2>2, <2>4, <3>3, NormalizeScoreCorrect
    <3>5. final = NormalizeScore(RawScores)
      BY <1>1, <1>4
    <3>6. ASSUME NEW a \in Nodes, NEW b \in Nodes, AtLeastAsGood(a, b) PROVE final[a] >= final[b]
      <4>1. RawScores[b] <= RawScores[a]
        BY <1>2, <2>1, <3>6
      <4>2. final[b] <= final[a] /\ final[a] \in 0 .. 100 /\ final[b] \in 0 .. 100
        BY <3>4, <3>5, <4>1 DEF MinNodeScore, MaxNodeScore
      <4>. QED BY <4>2
    <3>. QED BY <3>4, <3>5, <3>6
  <2>. QED BY <2>5, <2>6
<1>. QED BY <1>3, <1>4

(***************************************************************************)
(* The specification                                                       *)
(***************************************************************************)

\* The invariant holds of a process that is only configured yet.
LEMMA ProcessInvInit ==
    ASSUME ProcessInit
    PROVE  ProcessInv
<1>1. Progress
  <2>1. component \in Components /\ stage = "configured" /\ pc = 1
    BY DEF ProcessInit
  <2>2. Len(Program) \in Nat /\ 1 <= Len(Program)
    BY <2>1, ProgramShape
  <2>. QED BY <2>1, <2>2 DEF Progress
<1>2. FactoryTypeOK /\ Built
  <2>1. \A k \in Nat : \A op : ~Was(k, op)
    BY DEF ProcessInit, Was
  <2>2. FactoryTypeOK
    BY DEF ProcessInit, FactoryInit, FactoryTypeOK
  <2>. QED BY <2>1, <2>2 DEF Built
<1>3. Arguments
  BY DEF ProcessInit, Arguments
<1>4. Cycle
  <2>1. snapshot = Nil /\ scored = <<>> /\ DOMAIN scored = {} /\ final = Nil
    BY DEF ProcessInit
  <2>2. nominated \in [Nodes -> 0 .. MaxNominated]
    <3>1. 0 \in 0 .. MaxNominated
      BY ClusterAssumption, HalfAssumption
    <3>. QED BY <3>1 DEF ProcessInit
  <2>3. metrics \in [Nodes -> {Absent} \cup Metrics]
    BY DEF ProcessInit
  <2>. QED BY <2>1, <2>2, <2>3 DEF Cycle
<1>5. Queued
  <2>1. heap = <<>> /\ listed = {}
    BY DEF ProcessInit, QueueInit
  <2>2. <<>> \in Seq(QueuePods) /\ Len(<<>>) = 0 /\ DOMAIN <<>> = {}
    OBVIOUS
  <2>. QED BY <2>1, <2>2 DEF Queued, QueueTypeOK, InOrder
<1>. QED BY <1>1, <1>2, <1>3, <1>4, <1>5 DEF ProcessInv

\* Every step of the process keeps it.
LEMMA ProcessInvStep ==
    ASSUME ProcessInv, [ProcessNext]_processVars
    PROVE  ProcessInv'
<1>1. Progress /\ FactoryTypeOK /\ Built /\ Arguments /\ Cycle /\ Queued
  BY DEF ProcessInv
<1>2. Progress'
  BY <1>1, ProgressStep
<1>3. FactoryTypeOK' /\ Built'
  BY <1>1, BuiltStep
<1>4. Arguments'
  BY <1>1, ArgumentsStep
<1>5. Cycle'
  BY <1>1, CycleStep
<1>6. Queued'
  BY <1>1, QueuedStep
<1>. QED BY <1>2, <1>3, <1>4, <1>5, <1>6 DEF ProcessInv

\* The inductive invariant holds all the time.
THEOREM ProcessInvariant == ProcessSpec => []ProcessInv
<1>1. ProcessInit => ProcessInv
  BY ProcessInvInit
<1>2. ProcessInv /\ [ProcessNext]_processVars => ProcessInv'
  BY ProcessInvStep
<1>. QED BY <1>1, <1>2, PTL DEF ProcessSpec

\* Every variable keeps its type: the program counter stays within the constructor,
\* only what was asked for is started and synced, no pod is queued twice, and only
\* nodes are scored.
THEOREM ProcessTypeCorrect == ProcessSpec => []ProcessTypeOK
<1>1. ProcessInv => ProcessTypeOK
  BY DEF ProcessInv, Progress, Cycle, Queued, ProcessTypeOK
<1>. QED BY <1>1, ProcessInvariant, PTL

\* No plugin of the scheduler serves from a lister whose informer has not listed
\* everything, in whatever order the informers sync and whether the factories are
\* shared or not; the controller has all PodGroups when its workers begin.  Nothing is
\* said of the controller's pods, for which it does not wait.
THEOREM PluginListersSyncedCorrect == ProcessSpec => []PluginListersSynced
<1>1. ProcessInv => PluginListersSynced
  BY ReadsSynced DEF ProcessInv
<1>. QED BY <1>1, ProcessInvariant, PTL

\* Whatever was decoded is what comes back when it is written out and read again:
\* no default changes a value that the conversion has made.
THEOREM RoundTripCorrect == ProcessSpec => []RoundTrip
<1>1. ProcessInv => RoundTrip
  BY ArgumentsSuffice DEF ProcessInv
<1>. QED BY <1>1, ProcessInvariant, PTL

\* For any number of nodes, any accepted arguments, any snapshot and any metrics,
\* and as long as the machine integers suffice, the framework is given scores in
\* its range.
THEOREM ScoresInRangeCorrect == ProcessSpec => []ScoresInRange
<1>1. ProcessInv => ScoresInRange
  BY ScoresSuffice DEF ProcessInv
<1>. QED BY <1>1, ProcessInvariant, PTL

\* Under the same conditions a node at least as good as another one ends up with at
\* least its score, although metrics and nominations change while nodes are scored.
THEOREM RanksFaithfullyCorrect == ProcessSpec => []RanksFaithfully
<1>1. ProcessInv => RanksFaithfully
  BY ScoresSuffice DEF ProcessInv
<1>. QED BY <1>1, ProcessInvariant, PTL

\* For any pods and PodGroups and any order of pushes and pops, the head of the
\* active queue is a pod that no queued pod has to precede: Less of both plugins is
\* good enough an order for the heap.
THEOREM HeadIsFirstCorrect == ProcessSpec => []HeadIsFirst
<1>1. ProcessInv => HeadIsFirst
  BY QueuedSuffices DEF ProcessInv
<1>. QED BY <1>1, ProcessInvariant, PTL

=============================================================================
