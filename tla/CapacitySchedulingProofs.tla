---------------------- MODULE CapacitySchedulingProofs ----------------------
(***************************************************************************)
(* Proofs about CapacityScheduling for any pods, namespaces and quotas and *)
(* any sequence of events.  What makes the books balance is that every     *)
(* writer of an entry goes through addPodIfNotPresent and                  *)
(* deletePodIfPresent, which look at the set of pods before they touch the *)
(* sum: the two lemmas below are about those.                              *)
(***************************************************************************)
EXTENDS QuotaPreemption, SumsProofs

\* An entry of the map whose sum matches its pods, all of namespace n.
Balanced(n, info) ==
    info # NoQuota => /\ info \in Infos
                      /\ info.used = Total[info.pods]
                      /\ \A p \in info.pods : Ns[p] = n

AllBalanced == \A n \in Namespaces : Balanced(n, infos[n])

IInv == TypeOK /\ AllBalanced

-----------------------------------------------------------------------------
\* Removing a member from a set of pods removes its request from the total.
LEMMA TotalRemove ==
    ASSUME NEW S \in SUBSET Pods, NEW p \in S
    PROVE  Total[S] = Total[S \ {p}] + Req[p]
<1>1. S \ {p} \in SUBSET Pods /\ p \notin S \ {p} /\ (S \ {p}) \cup {p} = S /\ p \in Pods
  OBVIOUS
<1> QED  BY <1>1, TotalAssumption

\* A new entry has no pods and nothing used (newElasticQuotaInfo).
LEMMA NewInfoBalanced ==
    ASSUME NEW n, NEW spec \in Specs
    PROVE  Balanced(n, NewInfo(spec))
  BY SpecAssumption, TotalAssumption DEF Balanced, NewInfo, Infos

\* addPodIfNotPresent keeps an entry balanced, however often it is called.
LEMMA AddPodBalanced ==
    ASSUME NEW p \in Pods, NEW info, Balanced(Ns[p], info)
    PROVE  Balanced(Ns[p], AddPodIfNotPresent(info, p))
<1>1. CASE info = NoQuota \/ p \in info.pods
  BY <1>1 DEF AddPodIfNotPresent
<1>2. CASE info # NoQuota /\ p \notin info.pods
  <2>1. info \in Infos /\ info.used = Total[info.pods] /\ \A q \in info.pods : Ns[q] = Ns[p]
    BY <1>2 DEF Balanced
  <2>2. Total[info.pods \cup {p}] = info.used + Req[p] /\ Req[p] \in Nat
    BY <1>2, <2>1, TotalAssumption DEF Infos
  <2> DEFINE new == [info EXCEPT !.pods = @ \cup {p}, !.used = @ + Req[p]]
  <2>3. new \in Infos /\ new.pods = info.pods \cup {p} /\ new.used = info.used + Req[p]
    <3>1. info.pods \cup {p} \in SUBSET Pods /\ info.used + Req[p] \in Nat
      BY <2>1, <2>2 DEF Infos
    <3> QED  BY <2>1, <3>1 DEF Infos
  <2>4. AddPodIfNotPresent(info, p) = new
    BY <1>2 DEF AddPodIfNotPresent
  <2> HIDE DEF new
  <2> QED  BY <2>1, <2>2, <2>3, <2>4 DEF Balanced
<1> QED  BY <1>1, <1>2

\* deletePodIfPresent keeps an entry balanced and never makes it negative.
LEMMA DeletePodBalanced ==
    ASSUME NEW p \in Pods, NEW n, NEW info, Balanced(n, info)
    PROVE  Balanced(n, DeletePodIfPresent(info, p))
<1>1. CASE info = NoQuota \/ p \notin info.pods
  BY <1>1 DEF DeletePodIfPresent
<1>2. CASE info # NoQuota /\ p \in info.pods
  <2>1. info \in Infos /\ info.used = Total[info.pods] /\ \A q \in info.pods : Ns[q] = n
    BY <1>2 DEF Balanced
  <2>2. info.pods \in SUBSET Pods /\ info.pods \ {p} \in SUBSET Pods
    BY <2>1 DEF Infos
  <2>3. info.used = Total[info.pods \ {p}] + Req[p]
    BY <1>2, <2>1, <2>2, TotalRemove
  <2>4. Total[info.pods \ {p}] \in Nat /\ Req[p] \in Nat
    BY <2>2, TotalAssumption
  <2>5. info.used - Req[p] = Total[info.pods \ {p}]
    BY <2>3, <2>4
  <2> DEFINE new == [info EXCEPT !.pods = @ \ {p}, !.used = @ - Req[p]]
  <2>6. new \in Infos /\ new.pods = info.pods \ {p} /\ new.used = info.used - Req[p]
    BY <2>1, <2>2, <2>4, <2>5 DEF Infos
  <2>7. DeletePodIfPresent(info, p) = new
    BY <1>2 DEF DeletePodIfPresent
  <2> HIDE DEF new
  <2> QED  BY <2>1, <2>5, <2>6, <2>7 DEF Balanced
<1> QED  BY <1>1, <1>2

\* A step that writes one entry keeps the books if that entry is balanced.
LEMMA SetInfoBalanced ==
    ASSUME NEW n \in Namespaces, NEW info, Balanced(n, info),
           infos \in [Namespaces -> Infos \cup {NoQuota}], AllBalanced, SetInfo(n, info)
    PROVE  AllBalanced' /\ infos' \in [Namespaces -> Infos \cup {NoQuota}]
  BY DEF AllBalanced, Balanced, SetInfo

\* Sequences of anything: what a queue of notifications does.
LEMMA QueueFacts ==
    ASSUME NEW S, NEW q \in Seq(S), NEW e \in S
    PROVE  /\ Append(q, e) \in Seq(S) /\ <<>> \in Seq(S) /\ <<e>> \in Seq(S)
           /\ q # <<>> => Head(q) \in S /\ Tail(q) \in Seq(S)
  OBVIOUS

-----------------------------------------------------------------------------
\* The type of everything but the map.
Rest ==
    /\ pod \in [Pods -> Life]
    /\ undo \subseteq Pods
    /\ told \in [Pods -> {"none", "relisted", "assigned", "terminal"}]
    /\ quota \in [Namespaces -> Quotas]
    /\ events \in [Namespaces -> Seq([old : Quotas, new : Quotas])]
    /\ adding \in [Namespaces -> Quotas]

\* A step that keeps those types and writes at most one entry, balanced.
LEMMA EntryStep ==
    ASSUME IInv, Rest', NEW n \in Namespaces, NEW info, Balanced(n, info), SetInfo(n, info)
    PROVE  IInv'
  BY SetInfoBalanced DEF IInv, TypeOK, Rest

\* A step that does not touch the map.
LEMMA NoEntryStep ==
    ASSUME IInv, Rest', UNCHANGED infos
    PROVE  IInv'
  BY DEF IInv, TypeOK, Rest, AllBalanced, Balanced

\* The initial quotas have no pods yet.
LEMMA InitInv == Init => IInv
<1> SUFFICES ASSUME Init PROVE IInv
  OBVIOUS
<1>1. Rest
  BY SpecAssumption DEF Init, Rest, Life, Quotas
<1>2. \A n \in Namespaces : /\ Balanced(n, infos[n])
                            /\ infos[n] \in Infos \cup {NoQuota}
  <2> TAKE n \in Namespaces
  <2>1. CASE InitSpec[n] = NoQuota
    BY <2>1 DEF Init, Balanced
  <2>2. CASE InitSpec[n] # NoQuota
    <3>1. InitSpec[n] \in Specs /\ infos[n] = NewInfo(InitSpec[n])
      BY <2>2, SpecAssumption DEF Init
    <3>2. Balanced(n, NewInfo(InitSpec[n]))
      BY <3>1, NewInfoBalanced
    <3> QED  BY <3>1, <3>2 DEF Balanced
  <2> QED  BY <2>1, <2>2
<1>3. infos = [n \in Namespaces |-> infos[n]]
  BY DEF Init
<1> QED  BY <1>1, <1>2, <1>3 DEF IInv, TypeOK, Rest, AllBalanced

\* The steps of the scheduling cycle, of users and of the pod handlers.
LEMMA PodStep ==
    ASSUME IInv, NEW p \in Pods,
           \/ PreFilter(p) \/ FilterFail(p) \/ Reserve(p) \/ Bind(p) \/ BindFail(p)
           \/ Unreserve(p) \/ CreatePod(p) \/ FinishPod(p) \/ DeletePod(p) \/ Handlers(p)
    PROVE  IInv'
<1> DEFINE n == Ns[p]
<1>n. n \in Namespaces
  BY PodAssumption
<1>b. Balanced(n, infos[n])
  BY <1>n DEF IInv, AllBalanced
<1>r. Rest
  BY DEF IInv, TypeOK, Rest
<1> HIDE DEF n
<1>1. CASE PreFilter(p) \/ FilterFail(p) \/ Bind(p) \/ CreatePod(p) \/ FinishPod(p)
  <2>1. Rest' /\ UNCHANGED infos
    BY <1>1, <1>r DEF Rest, PreFilter, FilterFail, Bind, CreatePod, FinishPod, SetPod, Life
  <2> QED  BY <2>1, NoEntryStep
<1>2. CASE BindFail(p) \/ DeletePod(p)
  <2>1. Rest' /\ UNCHANGED infos
    BY <1>2, <1>r DEF Rest, BindFail, DeletePod, SetPod, Life
  <2> QED  BY <2>1, NoEntryStep
<1>3. CASE Reserve(p)
  <2>1. Rest'
    BY <1>3, <1>r DEF Rest, Reserve, SetPod, Life
  <2>2. SetInfo(n, AddPodIfNotPresent(infos[n], p))
    BY <1>3 DEF Reserve, n
  <2>3. Balanced(n, AddPodIfNotPresent(infos[n], p))
    BY <1>b, AddPodBalanced DEF n
  <2> QED  BY <1>n, <2>1, <2>2, <2>3, EntryStep
<1>4. ASSUME Unreserve(p) \/ UpdatePod(p) \/ DeletePodHandler(p)
      PROVE  IInv'
  <2>1. Rest'
    BY <1>4, <1>r DEF Rest, Unreserve, UpdatePod, DeletePodHandler, SetPod, Life
  <2>2. SetInfo(n, DeletePodIfPresent(infos[n], p))
    BY <1>4 DEF Unreserve, UpdatePod, DeletePodHandler, n
  <2>3. Balanced(n, DeletePodIfPresent(infos[n], p))
    BY <1>b, DeletePodBalanced
  <2> QED  BY <1>n, <2>1, <2>2, <2>3, EntryStep
<1>5. CASE AddPod(p)
  <2> DEFINE info == IF infos[n] = NoQuota /\ quota[n] # NoQuota THEN NewInfo(quota[n])
                     ELSE infos[n]
  <2>1. Rest'
    BY <1>5, <1>r DEF Rest, AddPod
  <2>2. SetInfo(n, AddPodIfNotPresent(info, p))
    BY <1>5 DEF AddPod, n
  <2>3. Balanced(n, info)
    <3>1. CASE infos[n] = NoQuota /\ quota[n] # NoQuota
      <4>1. quota[n] \in Specs
        BY <1>n, <1>r, <3>1 DEF Rest, Quotas
      <4> QED  BY <3>1, <4>1, NewInfoBalanced
    <3>2. CASE ~(infos[n] = NoQuota /\ quota[n] # NoQuota)
      BY <3>2, <1>b
    <3> QED  BY <3>1, <3>2
  <2> HIDE DEF info
  <2>4. Balanced(n, AddPodIfNotPresent(info, p))
    BY <2>3, AddPodBalanced DEF n
  <2> QED  BY <1>n, <2>1, <2>2, <2>4, EntryStep
<1> QED  BY <1>1, <1>2, <1>3, <1>4, <1>5 DEF Handlers

\* The steps of users and of the ElasticQuota handlers on one quota.
LEMMA QuotaStep ==
    ASSUME IInv, NEW n \in Namespaces,
           \/ ChangeSpec(n) \/ CreateQuota(n) \/ DeleteQuota(n) \/ AddElasticQuota(n)
           \/ AddElasticQuotaLocked(n) \/ UpdateElasticQuota(n) \/ DeleteElasticQuota(n)
    PROVE  IInv'
<1>r. Rest
  BY DEF IInv, TypeOK, Rest
<1>b. Balanced(n, infos[n])
  BY DEF IInv, AllBalanced
<1>h. ASSUME events[n] # <<>>
      PROVE  /\ Head(events[n]) \in [old : Quotas, new : Quotas]
             /\ Tail(events[n]) \in Seq([old : Quotas, new : Quotas])
  <2>1. events[n] \in Seq([old : Quotas, new : Quotas])
    BY <1>r DEF Rest
  <2>2. [old |-> NoQuota, new |-> NoQuota] \in [old : Quotas, new : Quotas]
    BY DEF Quotas
  <2> QED  BY <1>h, <2>1, <2>2, QueueFacts
<1>1. ASSUME NEW spec \in Quotas, SetQuota(n, spec) PROVE IInv'
  <2>1. [old |-> quota[n], new |-> spec] \in [old : Quotas, new : Quotas]
    BY <1>r DEF Rest
  <2>2. Append(events[n], [old |-> quota[n], new |-> spec]) \in Seq([old : Quotas, new : Quotas])
    <3>1. events[n] \in Seq([old : Quotas, new : Quotas])
      BY <1>r DEF Rest
    <3> QED  BY <2>1, <3>1, QueueFacts
  <2>3. Rest' /\ UNCHANGED infos
    BY <1>1, <1>r, <2>2 DEF Rest, SetQuota
  <2> QED  BY <2>3, NoEntryStep
<1>2. CASE ChangeSpec(n) \/ CreateQuota(n) \/ DeleteQuota(n)
  BY <1>1, <1>2 DEF ChangeSpec, CreateQuota, DeleteQuota, Quotas
<1>3. CASE AddElasticQuota(n)
  <2>1. Rest' /\ UNCHANGED infos
    BY <1>3, <1>r, <1>h DEF Rest, AddElasticQuota, Told, Quotas
  <2> QED  BY <2>1, NoEntryStep
<1>4. CASE AddElasticQuotaLocked(n)
  <2>1. Rest' /\ SetInfo(n, NewInfo(adding[n])) /\ adding[n] \in Specs
    BY <1>4, <1>r DEF Rest, AddElasticQuotaLocked, Quotas
  <2> QED  BY <2>1, NewInfoBalanced, EntryStep
<1>5. CASE UpdateElasticQuota(n)
  <2> DEFINE spec  == Head(events[n]).new
             fresh == NewInfo(spec)
             info  == IF infos[n] = NoQuota THEN fresh
                      ELSE [fresh EXCEPT !.pods = infos[n].pods, !.used = infos[n].used]
  <2>1. Rest' /\ SetInfo(n, info) /\ spec \in Specs
    BY <1>5, <1>r, <1>h DEF Rest, UpdateElasticQuota, Told, Quotas
  <2>2. Balanced(n, info)
    <3>1. CASE infos[n] = NoQuota
      BY <3>1, <2>1, NewInfoBalanced
    <3>2. CASE infos[n] # NoQuota
      <4>1. /\ infos[n] \in Infos /\ infos[n].used = Total[infos[n].pods]
            /\ \A p \in infos[n].pods : Ns[p] = n
        BY <3>2, <1>b DEF Balanced
      <4>2. info \in Infos /\ info.pods = infos[n].pods /\ info.used = infos[n].used
        BY <3>2, <4>1, <2>1, SpecAssumption DEF Infos, NewInfo
      <4> HIDE DEF info
      <4> QED  BY <4>1, <4>2 DEF Balanced
    <3> QED  BY <3>1, <3>2
  <2> HIDE DEF info
  <2> QED  BY <2>1, <2>2, EntryStep
<1>6. CASE DeleteElasticQuota(n)
  <2>1. Rest' /\ SetInfo(n, NoQuota)
    BY <1>6, <1>r, <1>h DEF Rest, DeleteElasticQuota, Told
  <2>2. Balanced(n, NoQuota)
    BY DEF Balanced
  <2> QED  BY <2>1, <2>2, EntryStep
<1> QED  BY <1>2, <1>3, <1>4, <1>5, <1>6

\* After a restart the map is empty.
LEMMA RestartStep ==
    ASSUME IInv, Restart
    PROVE  IInv'
<1>r. Rest
  BY DEF IInv, TypeOK, Rest
<1>1. \A n \in Namespaces :
        (IF quota[n] = NoQuota THEN <<>> ELSE <<[old |-> NoQuota, new |-> quota[n]]>>)
          \in Seq([old : Quotas, new : Quotas])
  <2> TAKE n \in Namespaces
  <2>1. events[n] \in Seq([old : Quotas, new : Quotas]) /\ quota[n] \in Quotas /\ NoQuota \in Quotas
    BY <1>r DEF Rest, Quotas
  <2>2. [old |-> NoQuota, new |-> quota[n]] \in [old : Quotas, new : Quotas]
    BY <2>1
  <2> QED  BY <2>1, <2>2, QueueFacts
<1>2. Rest'
  BY <1>r, <1>1 DEF Rest, Restart, Quotas, Life, InFlight
<1> QED  BY <1>2 DEF Restart, IInv, TypeOK, Rest, AllBalanced, Balanced

-----------------------------------------------------------------------------
\* Every step keeps the types and the balance of the books.
LEMMA InvStep == IInv /\ [Next]_vars => IInv'
<1> SUFFICES ASSUME IInv, [Next]_vars PROVE IInv'
  OBVIOUS
<1>1. ASSUME UNCHANGED vars PROVE IInv'
  <2>1. Rest' /\ UNCHANGED infos
    BY <1>1 DEF IInv, TypeOK, Rest, vars
  <2> QED  BY <2>1, NoEntryStep
<1>2. ASSUME Next PROVE IInv'
  BY <1>2, PodStep, QuotaStep, RestartStep DEF Next
<1> QED  BY <1>1, <1>2

\* The types and the balance of the books hold in every reachable state.
THEOREM Invariance == Spec => []IInv
  BY InitInv, InvStep, PTL DEF Spec

\* Every variable keeps its type; in particular the used quota, computed by
\* unguarded subtraction in unreserveResource, is never negative.
THEOREM TypeCorrect == Spec => []TypeOK
<1>1. IInv => TypeOK
  BY DEF IInv
<1> QED  BY Invariance, <1>1, PTL

\* For any number of pods and quotas, what an ElasticQuotaInfo counts as used is
\* what the pods in its set request, and they are pods of its namespace.
THEOREM BooksBalance == Spec => []UsedMatchesPods
<1>1. IInv => UsedMatchesPods
  BY DEF IInv, AllBalanced, Balanced, UsedMatchesPods
<1> QED  BY Invariance, <1>1, PTL

-----------------------------------------------------------------------------
(***************************************************************************)
(* Proofs about what the quota books count and about the limits they keep, *)
(* for any pods, namespaces and quotas: first for CapacityScheduling, then *)
(* for QuotaPreemption, whose every step is a step of CapacityScheduling   *)
(* or none of its business.                                                *)
(*                                                                         *)
(* PreFilter tests the limits on the books, Reserve writes them later, and *)
(* the informers go on in between.  What makes the limits hold is that the *)
(* handlers count exactly the pods that Reserve has counted already: they  *)
(* may take a pod off the books, but never put one on them.                *)
(***************************************************************************)
-----------------------------------------------------------------------------
(***************************************************************************)
(* Which pods the books count.  ElasticQuotas may change their spec, but   *)
(* are not created or deleted, no bind is carried out and reported as      *)
(* failed, and the scheduler does not restart (after any of these a pod is *)
(* counted twice or not at all for a while).  Then a pod is counted from   *)
(* Reserve on until its Unreserve has run, or the handlers know its end.   *)
(***************************************************************************)
Steady == Faults \cap {"quota", "lostbind", "restart"} = {}

\* The handlers lag behind the API server and say nothing untrue.
ToldTrue ==
    \A p \in Pods :
        /\ told[p] # "relisted"
        /\ told[p] # "none" => pod[p] \in {"assigned", "terminal", "deleted"}
        /\ told[p] = "terminal" => pod[p] \in {"terminal", "deleted"}

\* The pods with an Unreserve to come have failed, or are gone.
UndoFailed ==
    \A p \in Pods : /\ p \in undo => pod[p] \in {"failed", "absent"}
                    /\ pod[p] = "failed" => p \in undo

\* The map has an entry for every ElasticQuota and no other.
EntryForQuota ==
    \A n \in Namespaces :
        /\ infos[n] = NoQuota <=> quota[n] = NoQuota
        /\ adding[n] = NoQuota
        /\ quota[n] = NoQuota => events[n] = <<>>
        /\ \A i \in 1 .. Len(events[n]) : events[n][i].old # NoQuota /\ events[n][i].new # NoQuota

\* A pod takes part of its quota.
Counts(p) == \/ pod[p] = "binding"
             \/ p \in undo
             \/ pod[p] \in {"assigned", "terminal", "deleted"} /\ told[p] # "terminal"

CountedExactly ==
    \A p \in Pods : infos[Ns[p]] # NoQuota => (p \in infos[Ns[p]].pods <=> Counts(p))

CountInv == ToldTrue /\ UndoFailed /\ EntryForQuota /\ CountedExactly

-----------------------------------------------------------------------------
(***************************************************************************)
(* The limits of the quotas, when their specs only grow.                   *)
(***************************************************************************)
Raising == Faults \subseteq {"raise"}

Known      == {n \in Namespaces : quota[n] # NoQuota}
SumMin     == AddUp([n \in Known |-> quota[n].min])
AllCounted == {p \in Pods : Ns[p] \in Known /\ p \in infos[Ns[p]].pods}

\* The entry, the specs of the notifications under way, the spec in the store: in
\* this order none has more than a later one.
NoMore(s, t) == s.min <= t.min /\ s.max <= t.max

SpecsBehind ==
    \A n \in Known :
        /\ NoMore(infos[n], quota[n])
        /\ \A i \in 1 .. Len(events[n]) :
              /\ NoMore(infos[n], events[n][i].new) /\ NoMore(events[n][i].new, quota[n])
              /\ \A j \in i .. Len(events[n]) : NoMore(events[n][i].new, events[n][j].new)

\* There is one scheduling cycle.
OneAdmitted == \A p, q \in Pods : pod[p] = "admitted" /\ pod[q] = "admitted" => p = q

\* What is counted is within the limits, and so it is with the admitted pod.
WithinLimits ==
    /\ \A n \in Known : Total[infos[n].pods] <= quota[n].max
    /\ Total[AllCounted] <= SumMin

AdmittedWithinLimits ==
    \A p \in Pods : pod[p] = "admitted" /\ Ns[p] \in Known =>
        /\ Total[infos[Ns[p]].pods] + Req[p] <= quota[Ns[p]].max
        /\ Total[AllCounted] + Req[p] <= SumMin

Numbers ==
    /\ AllCounted \in SUBSET Pods /\ Total[AllCounted] \in Nat /\ IsFiniteSet(Known)
    /\ [n \in Known |-> quota[n].min] \in [Known -> Nat] /\ SumMin \in Nat
    /\ \A n \in Known :
         /\ n \in Namespaces
         /\ quota[n].min \in Nat /\ quota[n].max \in Nat
         /\ infos[n] # NoQuota /\ infos[n] \in Infos
         /\ infos[n].used = Total[infos[n].pods] /\ Total[infos[n].pods] \in Nat
         /\ infos[n].pods \in SUBSET Pods /\ \A p \in infos[n].pods : Ns[p] = n

LimitInv == SpecsBehind /\ OneAdmitted /\ WithinLimits /\ AdmittedWithinLimits

-----------------------------------------------------------------------------
(***************************************************************************)
(* Preemption.  Victims are chosen on a snapshot and evicted later.  From  *)
(* the snapshot on, until the cycle is over, nothing is placed or          *)
(* nominated and no limit is lowered: the cluster gets emptier, and what   *)
(* was enough on the snapshot goes on being enough.                        *)
(***************************************************************************)
\* A map of ElasticQuotaInfos that balances.
Books(books) ==
    /\ books \in [Namespaces -> Infos \cup {NoQuota}]
    /\ \A n \in Namespaces : books[n] # NoQuota => books[n].used = Total[books[n].pods]

\* Quotas of new count no pod that they do not count in old, with no lower limit.
Within(new, old) ==
    \A n \in Namespaces :
        /\ new[n] = NoQuota <=> old[n] = NoQuota
        /\ old[n] # NoQuota => new[n].pods \subseteq old[n].pods /\ NoMore(old[n], new[n])

QTypeOK ==
    /\ where \in [Pods -> Nodes \cup {NoNode}] /\ nominated \in [Pods -> Nodes \cup {NoNode}]
    /\ cordoned \subseteq Nodes /\ terminating \subseteq Pods

\* With the pods of V gone, p can be placed on n as far as the plugin can tell.
Enough(p, n, V) ==
    /\ n \notin cordoned => Fits(Now, p, n, V)
    /\ ~OverQuota(Without(infos, V), p)

Snapshots == [infos : [Namespaces -> Infos \cup {NoQuota}], on : [Nodes -> SUBSET Pods],
              down : SUBSET Nodes, dying : SUBSET Pods, pod : Pods,
              stage : {"filter", "postfilter"}, unresolvable : SUBSET Nodes]

\* What has happened since the snapshot was taken.
SnapshotFuller ==
    /\ cycle \in Snapshots /\ Books(cycle.infos)
    /\ Within(infos, cycle.infos)
    /\ \A n \in Nodes : On(n) \subseteq cycle.on[n]

CandidatesEnough ==
    /\ cycle.pod \in Pods
    /\ \A n \in DOMAIN cycle.candidates :
         /\ n \in Nodes /\ cycle.candidates[n] \subseteq Pods
         /\ Enough(cycle.pod, n, cycle.candidates[n])

VictimsEnough ==
    /\ cycle \in [pod : Pods, stage : {"evict"}, node : Nodes, victims : SUBSET Pods, left : SUBSET Pods]
    /\ Enough(cycle.pod, cycle.node, cycle.victims)

CycleInv ==
    cycle # NoCycle =>
        \/ SnapshotFuller
        \/ cycle.stage = "select" /\ CandidatesEnough
        \/ VictimsEnough

-----------------------------------------------------------------------------
\* More pods request more.
LEMMA TotalMonotone ==
    ASSUME NEW S \in SUBSET Pods, NEW T \in SUBSET S
    PROVE  Total[T] <= Total[S]
<1> DEFINE Good == {U \in SUBSET (S \ T) : Total[T] <= Total[T \cup U]}
<1>1. IsFiniteSet(S \ T)
  BY PodAssumption, FS_Subset
<1>2. {} \in Good
  <2>1. T \cup {} = T /\ Total[T] \in Nat
    BY TotalAssumption
  <2> QED  BY <2>1
<1>3. ASSUME NEW U \in SUBSET (S \ T), NEW x \in (S \ T) \ U, U \in Good
      PROVE  U \cup {x} \in Good
  <2>1. Total[(T \cup U) \cup {x}] = Total[T \cup U] + Req[x]
    BY TotalAssumption
  <2>2. Total[T] \in Nat /\ Total[T \cup U] \in Nat /\ Req[x] \in Nat
    BY TotalAssumption
  <2>3. (T \cup U) \cup {x} = T \cup (U \cup {x}) /\ Total[T] <= Total[T \cup U]
    BY <1>3
  <2>4. Total[T \cup (U \cup {x})] = Total[T \cup U] + Req[x]
    BY <2>1, <2>3, Zenon
  <2>5. Total[T] <= Total[T \cup (U \cup {x})]
    BY <2>2, <2>3, <2>4
  <2> QED  BY <2>5
<1>4. SUBSET (S \ T) \subseteq Good
  <2> HIDE DEF Good
  <2> QED  BY <1>1, <1>2, <1>3, SetInduction
<1>5. S \ T \in Good /\ T \cup (S \ T) = S
  BY <1>4
<1> QED  BY <1>5

\* What two sets of different pods request adds up.
LEMMA TotalDisjoint ==
    ASSUME NEW S \in SUBSET Pods, NEW T \in SUBSET Pods, S \cap T = {}
    PROVE  Total[S \cup T] = Total[S] + Total[T]
<1> DEFINE Good == {U \in SUBSET T : Total[S \cup U] = Total[S] + Total[U]}
<1>1. IsFiniteSet(T)
  BY PodAssumption, FS_Subset
<1>2. {} \in Good
  <2>1. S \cup {} = S /\ Total[S] \in Nat /\ Total[{}] = 0
    BY TotalAssumption
  <2> QED  BY <2>1
<1>3. ASSUME NEW U \in SUBSET T, NEW x \in T \ U, U \in Good
      PROVE  U \cup {x} \in Good
  <2>1. Total[(S \cup U) \cup {x}] = Total[S \cup U] + Req[x] /\ Total[U \cup {x}] = Total[U] + Req[x]
    BY TotalAssumption
  <2>2. Total[S] \in Nat /\ Total[U] \in Nat /\ Req[x] \in Nat
    BY TotalAssumption
  <2>3. (S \cup U) \cup {x} = S \cup (U \cup {x}) /\ Total[S \cup U] = Total[S] + Total[U]
    BY <1>3
  <2>4. Total[S \cup (U \cup {x})] = Total[S \cup U] + Req[x]
    BY <2>1, <2>3, Zenon
  <2>5. Total[S \cup (U \cup {x})] = Total[S] + Total[U \cup {x}]
    BY <2>1, <2>2, <2>3, <2>4
  <2> QED  BY <2>5
<1>4. SUBSET T \subseteq Good
  <2> HIDE DEF Good
  <2> QED  BY <1>1, <1>2, <1>3, SetInduction
<1> QED  BY <1>4

\* What the quotas use together is what the pods they count request together.
LEMMA UsedAddsUp ==
    ASSUME IInv, EntryForQuota
    PROVE  Total[AllCounted] = AddUp([n \in Known |-> infos[n].used])
<1> DEFINE In(D)   == {p \in Pods : Ns[p] \in D /\ p \in infos[Ns[p]].pods}
           Used(D) == [n \in D |-> infos[n].used]
           Good    == {D \in SUBSET Known : Total[In(D)] = AddUp(Used(D))}
<1>1. IsFiniteSet(Known)
  BY PodAssumption, FS_Subset DEF Known
<1>2. \A n \in Known : /\ infos[n] \in Infos /\ infos[n].used = Total[infos[n].pods]
                       /\ \A p \in infos[n].pods : Ns[p] = n
  BY DEF Known, IInv, AllBalanced, Balanced, EntryForQuota
<1>3. \A D \in SUBSET Known : IsFiniteSet(D) /\ Used(D) \in [D -> Nat]
  BY <1>1, <1>2, FS_Subset DEF Infos
<1>4. {} \in Good
  <2>1. In({}) = {} /\ Total[{}] = 0
    BY TotalAssumption
  <2>2. AddUp(Used({})) = 0
    BY <1>3, AddUpStep
  <2> QED  BY <2>1, <2>2
<1>5. ASSUME NEW D \in SUBSET Known, NEW x \in Known \ D, D \in Good PROVE D \cup {x} \in Good
  <2>1. In(D \cup {x}) = In(D) \cup infos[x].pods /\ In(D) \cap infos[x].pods = {}
    BY <1>2 DEF Infos
  <2>2. In(D) \in SUBSET Pods /\ infos[x].pods \in SUBSET Pods
    BY <1>2 DEF Infos
  <2>3. Total[In(D) \cup infos[x].pods] = Total[In(D)] + Total[infos[x].pods]
    BY <2>1, <2>2, TotalDisjoint
  <2>4. Used(D \cup {x}) \in [D \cup {x} -> Nat]
    BY <1>3
  <2>5. (\A n \in D : Used(D \cup {x})[n] = Used(D)[n]) /\ Used(D \cup {x})[x] = infos[x].used
    OBVIOUS
  <2>6. IsFiniteSet(D) /\ Used(D) \in [D -> Nat] /\ x \notin D
    BY <1>3
  <2>7. Total[In(D)] = AddUp(Used(D)) /\ infos[x].used = Total[infos[x].pods]
    BY <1>2, <1>5
  <2> HIDE DEF In, Used
  <2>8. AddUp(Used(D \cup {x})) = AddUp(Used(D)) + infos[x].used
    BY <2>4, <2>5, <2>6, AddUpStep
  <2>9. Total[In(D \cup {x})] = AddUp(Used(D \cup {x}))
    BY <2>1, <2>3, <2>7, <2>8, Zenon
  <2> QED  BY <2>9
<1>6. SUBSET Known \subseteq Good
  <2> HIDE DEF Good
  <2> QED  BY <1>1, <1>4, <1>5, SetInduction
<1>7. Known \in Good /\ In(Known) = AllCounted
  BY <1>6 DEF AllCounted
<1> QED  BY <1>7

\* What addPodIfNotPresent and deletePodIfPresent do to an entry that exists.
LEMMA EntryFields ==
    ASSUME NEW p \in Pods, NEW info \in Infos
    PROVE  /\ AddPodIfNotPresent(info, p).pods = info.pods \cup {p}
           /\ DeletePodIfPresent(info, p).pods = info.pods \ {p}
           /\ AddPodIfNotPresent(info, p).min = info.min
           /\ DeletePodIfPresent(info, p).min = info.min
           /\ AddPodIfNotPresent(info, p).max = info.max
           /\ DeletePodIfPresent(info, p).max = info.max
           /\ AddPodIfNotPresent(NoQuota, p) = NoQuota /\ DeletePodIfPresent(NoQuota, p) = NoQuota
<1>1. info # NoQuota
  BY SpecAssumption
<1> QED  BY <1>1 DEF AddPodIfNotPresent, DeletePodIfPresent, Infos

\* An entry that exists goes on existing.
LEMMA EntryStays ==
    ASSUME NEW p \in Pods, NEW info \in Infos, info.used = Total[info.pods]
    PROVE  AddPodIfNotPresent(info, p) \in Infos /\ DeletePodIfPresent(info, p) \in Infos
<1>1. info # NoQuota
  BY SpecAssumption
<1>2. AddPodIfNotPresent(info, p) \in Infos
  <2>1. info.pods \cup {p} \in SUBSET Pods /\ info.used + Req[p] \in Nat
    BY TotalAssumption DEF Infos
  <2> QED  BY <1>1, <2>1 DEF AddPodIfNotPresent, Infos
<1>3. CASE p \in info.pods
  <2>1. info.pods \in SUBSET Pods /\ info.pods \ {p} \in SUBSET Pods
    BY DEF Infos
  <2>2. info.used = Total[info.pods \ {p}] + Req[p]
    BY <1>3, <2>1, TotalRemove
  <2>3. Total[info.pods \ {p}] \in Nat /\ Req[p] \in Nat
    BY <2>1, TotalAssumption
  <2>4. info.used - Req[p] \in Nat
    BY <2>2, <2>3
  <2> QED  BY <1>1, <1>2, <1>3, <2>1, <2>4 DEF DeletePodIfPresent, Infos
<1>4. CASE p \notin info.pods
  BY <1>2, <1>4 DEF DeletePodIfPresent
<1> QED  BY <1>3, <1>4

\* Taking a pod into the books, or off them, changes its entry in that respect
\* and no other; an entry neither appears nor disappears.
LEMMA EntryWritten ==
    ASSUME IInv, NEW p \in Pods, NEW S,
           \/ SetInfo(Ns[p], AddPodIfNotPresent(infos[Ns[p]], p)) /\ S = infos[Ns[p]].pods \cup {p}
           \/ SetInfo(Ns[p], DeletePodIfPresent(infos[Ns[p]], p)) /\ S = infos[Ns[p]].pods \ {p}
    PROVE  \A n \in Namespaces :
             /\ (infos'[n] = NoQuota) <=> (infos[n] = NoQuota)
             /\ infos[n] # NoQuota => /\ infos'[n].pods = IF n = Ns[p] THEN S ELSE infos[n].pods
                                      /\ infos'[n].min = infos[n].min
                                      /\ infos'[n].max = infos[n].max
<1>1. infos \in [Namespaces -> Infos \cup {NoQuota}] /\ Ns[p] \in Namespaces
  BY PodAssumption DEF IInv, TypeOK
<1>2. CASE infos[Ns[p]] = NoQuota
  <2>1. infos' = infos
    BY <1>1, <1>2 DEF SetInfo, AddPodIfNotPresent, DeletePodIfPresent
  <2> QED  BY <1>2, <2>1
<1>3. CASE infos[Ns[p]] # NoQuota
  <2> DEFINE info == infos[Ns[p]]
  <2>1. info \in Infos /\ info.used = Total[info.pods]
    BY <1>1, <1>3 DEF IInv, AllBalanced, Balanced
  <2> HIDE DEF info
  <2>2. PICK new \in Infos : /\ SetInfo(Ns[p], new)
                             /\ new.pods = S /\ new.min = info.min /\ new.max = info.max
    <3>1. CASE SetInfo(Ns[p], AddPodIfNotPresent(info, p)) /\ S = info.pods \cup {p}
      <4>1. AddPodIfNotPresent(info, p) \in Infos
        BY <2>1, EntryStays
      <4> QED  BY <2>1, <3>1, <4>1, EntryFields
    <3>2. CASE SetInfo(Ns[p], DeletePodIfPresent(info, p)) /\ S = info.pods \ {p}
      <4>1. DeletePodIfPresent(info, p) \in Infos
        BY <2>1, EntryStays
      <4> QED  BY <2>1, <3>2, <4>1, EntryFields
    <3> QED  BY <3>1, <3>2 DEF info
  <2>3. new # NoQuota
    BY SpecAssumption
  <2> QED  BY <1>1, <1>3, <2>2, <2>3 DEF SetInfo, info
<1> QED  BY <1>2, <1>3

\* The scheduling cycle, users and the pod handlers keep what is counted exact.
LEMMA CountPodStep ==
    ASSUME Steady, IInv, CountInv, NEW p \in Pods,
           \/ PreFilter(p) \/ FilterFail(p) \/ Reserve(p) \/ Bind(p) \/ BindFail(p)
           \/ Unreserve(p) \/ CreatePod(p) \/ FinishPod(p) \/ DeletePod(p) \/ Handlers(p)
    PROVE  CountInv'
<1> USE PodAssumption DEF Steady, CountInv, ToldTrue, UndoFailed, CountedExactly, Counts, SetPod
<1>t. /\ pod \in [Pods -> Life] /\ told \in [Pods -> {"none", "relisted", "assigned", "terminal"}]
      /\ undo \subseteq Pods
  BY DEF IInv, TypeOK
<1>1. CASE \/ PreFilter(p) \/ FilterFail(p) \/ Bind(p) \/ BindFail(p)
           \/ CreatePod(p) \/ FinishPod(p) \/ DeletePod(p)
  <2>1. UNCHANGED <<quota, events, adding, infos>>
    BY <1>1 DEF PreFilter, FilterFail, Bind, BindFail, CreatePod, FinishPod, DeletePod
  <2>2. EntryForQuota'
    BY <2>1 DEF EntryForQuota
  <2>3. ToldTrue' /\ UndoFailed' /\ \A q \in Pods : Counts(q)' <=> Counts(q)
    BY <1>t, <1>1 DEF PreFilter, FilterFail, Bind, BindFail, CreatePod, FinishPod, DeletePod
  <2> QED  BY <2>1, <2>2, <2>3
<1>2. CASE Reserve(p)
  <2>1. UNCHANGED <<quota, events, adding>> /\ SetInfo(Ns[p], AddPodIfNotPresent(infos[Ns[p]], p))
    BY <1>2 DEF Reserve
  <2>2. \A n \in Namespaces :
          /\ (infos'[n] = NoQuota) <=> (infos[n] = NoQuota)
          /\ infos[n] # NoQuota =>
               infos'[n].pods = IF n = Ns[p] THEN infos[Ns[p]].pods \cup {p} ELSE infos[n].pods
    BY <2>1, EntryWritten
  <2>3. EntryForQuota'
    BY <2>1, <2>2 DEF EntryForQuota
  <2>4. ToldTrue' /\ UndoFailed' /\ Counts(p)' /\ \A q \in Pods \ {p} : Counts(q)' <=> Counts(q)
    BY <1>t, <1>2 DEF Reserve
  <2> QED  BY <2>2, <2>3, <2>4
<1>3. CASE Unreserve(p) \/ UpdatePod(p) \/ DeletePodHandler(p)
  <2>1. UNCHANGED <<quota, events, adding>> /\ SetInfo(Ns[p], DeletePodIfPresent(infos[Ns[p]], p))
    BY <1>3 DEF Unreserve, UpdatePod, DeletePodHandler
  <2>2. \A n \in Namespaces :
          /\ (infos'[n] = NoQuota) <=> (infos[n] = NoQuota)
          /\ infos[n] # NoQuota =>
               infos'[n].pods = IF n = Ns[p] THEN infos[Ns[p]].pods \ {p} ELSE infos[n].pods
    BY <2>1, EntryWritten
  <2>3. EntryForQuota'
    BY <2>1, <2>2 DEF EntryForQuota
  <2>4. ToldTrue' /\ UndoFailed' /\ ~Counts(p)' /\ \A q \in Pods \ {p} : Counts(q)' <=> Counts(q)
    BY <1>t, <1>3 DEF Unreserve, UpdatePod, DeletePodHandler
  <2> QED  BY <2>2, <2>3, <2>4
<1>4. CASE AddPod(p)
  <2>1. SetInfo(Ns[p], AddPodIfNotPresent(infos[Ns[p]], p)) /\ UNCHANGED <<quota, events, adding>>
    BY <1>4 DEF AddPod, EntryForQuota
  <2>2. \A n \in Namespaces :
          /\ (infos'[n] = NoQuota) <=> (infos[n] = NoQuota)
          /\ infos[n] # NoQuota =>
               infos'[n].pods = IF n = Ns[p] THEN infos[Ns[p]].pods \cup {p} ELSE infos[n].pods
    BY <2>1, EntryWritten
  <2>3. EntryForQuota'
    BY <2>1, <2>2 DEF EntryForQuota
  <2>4. ToldTrue' /\ UndoFailed' /\ Counts(p)' /\ \A q \in Pods \ {p} : Counts(q)' <=> Counts(q)
    BY <1>t, <1>4 DEF AddPod
  <2> QED  BY <2>2, <2>3, <2>4
<1> QED  BY <1>1, <1>2, <1>3, <1>4 DEF Handlers

\* updateElasticQuota gives an entry the limits of the notification and leaves
\* its pods alone.
LEMMA UpdateKeepsPods ==
    ASSUME IInv, EntryForQuota, NEW n \in Namespaces, UpdateElasticQuota(n)
    PROVE  /\ infos[n] # NoQuota /\ infos'[n] # NoQuota
           /\ infos'[n].pods = infos[n].pods
           /\ infos'[n].min = Head(events[n]).new.min /\ infos'[n].max = Head(events[n]).new.max
           /\ \A m \in Namespaces \ {n} : infos'[m] = infos[m]
           /\ events' = [events EXCEPT ![n] = Tail(@)]
<1> DEFINE spec == Head(events[n]).new
<1>1. events[n] \in Seq([old : Quotas, new : Quotas]) /\ events[n] # <<>>
  BY DEF IInv, TypeOK, UpdateElasticQuota
<1>2. spec \in Specs
  <2>1. Head(events[n]) \in [old : Quotas, new : Quotas]
    <3>1. [old |-> NoQuota, new |-> NoQuota] \in [old : Quotas, new : Quotas]
      BY DEF Quotas
    <3> QED  BY <1>1, <3>1, QueueFacts
  <2> QED  BY <2>1 DEF UpdateElasticQuota, Quotas
<1>3. infos[n] # NoQuota /\ infos \in [Namespaces -> Infos \cup {NoQuota}]
  BY <1>1 DEF EntryForQuota, IInv, TypeOK
<1> DEFINE new == [NewInfo(spec) EXCEPT !.pods = infos[n].pods, !.used = infos[n].used]
<1>4. infos' = [infos EXCEPT ![n] = new] /\ Told(n)
  BY <1>3 DEF UpdateElasticQuota, SetInfo
<1>5. new \in Infos /\ new.pods = infos[n].pods /\ new.min = spec.min /\ new.max = spec.max
  BY <1>2, <1>3, SpecAssumption DEF NewInfo, Infos
<1>6. new # NoQuota
  BY <1>5, SpecAssumption
<1> HIDE DEF new
<1> QED  BY <1>3, <1>4, <1>5, <1>6 DEF Told

\* A change of a quota's spec, and the handler that is told, leave the pods alone.
LEMMA CountQuotaStep ==
    ASSUME Steady, IInv, CountInv, NEW n \in Namespaces,
           \/ ChangeSpec(n) \/ CreateQuota(n) \/ DeleteQuota(n) \/ AddElasticQuota(n)
           \/ AddElasticQuotaLocked(n) \/ UpdateElasticQuota(n) \/ DeleteElasticQuota(n)
    PROVE  CountInv' /\ (ChangeSpec(n) \/ UpdateElasticQuota(n))
<1>t. /\ events[n] \in Seq([old : Quotas, new : Quotas])
      /\ quota \in [Namespaces -> Quotas] /\ events \in [Namespaces -> Seq([old : Quotas, new : Quotas])]
  BY DEF IInv, TypeOK
<1>e. ASSUME events[n] # <<>>
      PROVE  Head(events[n]) = events[n][1] /\ 1 \in 1 .. Len(events[n])
  BY <1>t, <1>e
<1>1. ChangeSpec(n) \/ UpdateElasticQuota(n)
  BY <1>e DEF Steady, CreateQuota, DeleteQuota, AddElasticQuota, AddElasticQuotaLocked,
              DeleteElasticQuota, CountInv, EntryForQuota
<1>2. CASE ChangeSpec(n)
  <2>1. PICK spec \in Specs : SetQuota(n, spec) /\ quota[n] # NoQuota
    BY <1>2 DEF ChangeSpec
  <2> DEFINE e == [old |-> quota[n], new |-> spec]
  <2>2. e \in [old : Quotas, new : Quotas] /\ e.old # NoQuota /\ e.new # NoQuota /\ spec # NoQuota
    BY <1>t, <2>1, SpecAssumption DEF Quotas
  <2>3. /\ Len(Append(events[n], e)) = Len(events[n]) + 1
        /\ \A i \in 1 .. Len(events[n]) + 1 :
             Append(events[n], e)[i] = IF i <= Len(events[n]) THEN events[n][i] ELSE e
    <3> HIDE DEF e
    <3> QED  BY <1>t, <2>2
  <2>4. /\ events'[n] = Append(events[n], e) /\ quota'[n] = spec
        /\ \A m \in Namespaces \ {n} : events'[m] = events[m] /\ quota'[m] = quota[m]
        /\ UNCHANGED <<pod, undo, told, adding, infos>>
    BY <1>t, <2>1 DEF SetQuota
  <2>5. Len(events[n]) \in Nat
    BY <1>t
  <2>6. ASSUME NEW m \in Namespaces
        PROVE  /\ infos'[m] = NoQuota <=> quota'[m] = NoQuota
               /\ adding'[m] = NoQuota
               /\ quota'[m] = NoQuota => events'[m] = <<>>
               /\ \A i \in 1 .. Len(events'[m]) :
                    events'[m][i].old # NoQuota /\ events'[m][i].new # NoQuota
    <3> HIDE DEF e
    <3>1. CASE m = n
      BY <2>1, <2>2, <2>3, <2>4, <2>5, <3>1 DEF CountInv, EntryForQuota
    <3>2. CASE m # n
      BY <2>4, <3>2 DEF CountInv, EntryForQuota
    <3> QED  BY <3>1, <3>2
  <2>7. EntryForQuota'
    BY <2>6 DEF EntryForQuota
  <2>8. ToldTrue' /\ UndoFailed' /\ CountedExactly'
    BY <2>4 DEF CountInv, ToldTrue, UndoFailed, CountedExactly, Counts
  <2> QED  BY <1>1, <2>7, <2>8 DEF CountInv
<1>3. CASE UpdateElasticQuota(n)
  <2>1. /\ infos[n] # NoQuota /\ infos'[n] # NoQuota /\ infos'[n].pods = infos[n].pods
        /\ \A m \in Namespaces \ {n} : infos'[m] = infos[m]
        /\ events' = [events EXCEPT ![n] = Tail(@)]
    BY <1>3, UpdateKeepsPods DEF CountInv
  <2>2. UNCHANGED <<pod, undo, told, quota, adding>> /\ events[n] # <<>>
    BY <1>3 DEF UpdateElasticQuota
  <2>3. /\ Len(Tail(events[n])) = Len(events[n]) - 1 /\ Len(events[n]) \in Nat
        /\ \A i \in 1 .. Len(events[n]) - 1 : Tail(events[n])[i] = events[n][i + 1]
    BY <1>t, <2>2
  <2>4. \A m \in Namespaces : events'[m] = IF m = n THEN Tail(events[n]) ELSE events[m]
    BY <1>t, <2>1
  <2>5. ASSUME NEW m \in Namespaces
        PROVE  /\ infos'[m] = NoQuota <=> quota'[m] = NoQuota
               /\ adding'[m] = NoQuota
               /\ quota'[m] = NoQuota => events'[m] = <<>>
               /\ \A i \in 1 .. Len(events'[m]) :
                    events'[m][i].old # NoQuota /\ events'[m][i].new # NoQuota
    <3>1. CASE m = n
      BY <2>1, <2>2, <2>3, <2>4, <3>1 DEF CountInv, EntryForQuota
    <3>2. CASE m # n
      BY <2>1, <2>2, <2>4, <3>2 DEF CountInv, EntryForQuota
    <3> QED  BY <3>1, <3>2
  <2>6. EntryForQuota'
    BY <2>5 DEF EntryForQuota
  <2>7. ToldTrue' /\ UndoFailed' /\ CountedExactly'
    BY <2>1, <2>2, PodAssumption DEF CountInv, ToldTrue, UndoFailed, CountedExactly, Counts
  <2> QED  BY <1>1, <2>6, <2>7 DEF CountInv
<1> QED  BY <1>1, <1>2, <1>3

\* At the start every quota has an empty entry.
LEMMA CountInit == Init => CountInv
<1> SUFFICES ASSUME Init PROVE CountInv
  OBVIOUS
<1>1. \A n \in Namespaces : InitSpec[n] # NoQuota =>
         NewInfo(InitSpec[n]) # NoQuota /\ NewInfo(InitSpec[n]).pods = {}
  <2> SUFFICES ASSUME NEW n \in Namespaces, InitSpec[n] # NoQuota
               PROVE  NewInfo(InitSpec[n]) # NoQuota /\ NewInfo(InitSpec[n]).pods = {}
    OBVIOUS
  <2>1. NewInfo(InitSpec[n]) \in Infos
    BY SpecAssumption DEF NewInfo, Infos
  <2> QED  BY <2>1, SpecAssumption DEF NewInfo
<1>2. EntryForQuota
  BY <1>1 DEF Init, EntryForQuota
<1>3. ToldTrue /\ UndoFailed /\ CountedExactly
  BY <1>1, PodAssumption DEF Init, ToldTrue, UndoFailed, CountedExactly, Counts
<1> QED  BY <1>2, <1>3 DEF CountInv

\* No step of a steady scheduler miscounts.
LEMMA CountStep ==
    ASSUME Steady, IInv, CountInv, [Next]_vars
    PROVE  CountInv'
<1>1. ASSUME UNCHANGED vars PROVE CountInv'
  BY <1>1 DEF vars, CountInv, ToldTrue, UndoFailed, EntryForQuota, CountedExactly, Counts
<1>2. ASSUME Restart PROVE FALSE
  BY <1>2 DEF Restart, Steady
<1> QED  BY <1>1, <1>2, CountPodStep, CountQuotaStep DEF Next

\* In a steady scheduler the books count, at any time, exactly the pods from
\* Reserve on whose Unreserve has not run and whose end the handlers do not know.
THEOREM CountInvariance ==
    ASSUME Steady
    PROVE  Spec => [](IInv /\ CountInv)
<1>1. Init => IInv /\ CountInv
  BY InitInv, CountInit
<1>2. IInv /\ CountInv /\ [Next]_vars => (IInv /\ CountInv)'
  <2>1. IInv /\ [Next]_vars => IInv'
    BY InvStep
  <2> QED  BY <2>1, CountStep
<1> QED  BY <1>1, <1>2, PTL DEF Spec

\* A running pod that the handlers know of is counted by its quota.
THEOREM RunningCounted ==
    ASSUME Steady
    PROVE  Spec => []Accounted
<1>1. IInv /\ CountInv => Accounted
  BY DEF CountInv, CountedExactly, Counts, Accounted
<1> QED  BY <1>1, CountInvariance, PTL

\* A pod that the handlers know to have ended is not counted any more.
THEOREM EndedUncounted ==
    ASSUME Steady
    PROVE  Spec => []EndedNotCounted
<1>1. IInv /\ CountInv => EndedNotCounted
  BY DEF CountInv, ToldTrue, UndoFailed, CountedExactly, Counts, EndedNotCounted
<1> QED  BY <1>1, CountInvariance, PTL

\* Totals and limits are numbers, and the entries that exist are balanced.
LEMMA LimitTypes ==
    IInv /\ EntryForQuota => Numbers
<1> SUFFICES ASSUME IInv, EntryForQuota PROVE Numbers
  OBVIOUS
<1>1. AllCounted \in SUBSET Pods /\ Total[AllCounted] \in Nat
  BY TotalAssumption DEF AllCounted
<1>2. IsFiniteSet(Known)
  BY PodAssumption, FS_Subset DEF Known
<1>3. ASSUME NEW n \in Known
      PROVE  /\ n \in Namespaces
             /\ quota[n].min \in Nat /\ quota[n].max \in Nat
             /\ infos[n] # NoQuota /\ infos[n] \in Infos
             /\ infos[n].used = Total[infos[n].pods] /\ Total[infos[n].pods] \in Nat
             /\ infos[n].pods \in SUBSET Pods /\ \A p \in infos[n].pods : Ns[p] = n
  <2>1. n \in Namespaces /\ quota[n] \in Specs
    BY DEF Known, IInv, TypeOK, Quotas
  <2>2. quota[n].min \in Nat /\ quota[n].max \in Nat
    BY <2>1, SpecAssumption
  <2>3. /\ infos[n] # NoQuota /\ infos[n] \in Infos
        /\ infos[n].used = Total[infos[n].pods] /\ \A p \in infos[n].pods : Ns[p] = n
    BY <2>1 DEF Known, EntryForQuota, IInv, AllBalanced, Balanced
  <2>4. infos[n].pods \in SUBSET Pods
    BY <2>3 DEF Infos
  <2> QED  BY <2>1, <2>2, <2>3, <2>4, TotalAssumption
<1>4. [n \in Known |-> quota[n].min] \in [Known -> Nat]
  BY <1>3
<1>5. SumMin \in Nat
  BY <1>2, <1>4, AddUpStep DEF SumMin
<1> QED  BY <1>1, <1>2, <1>3, <1>4, <1>5 DEF Numbers

\* A step that counts no further pod, admits none and lowers no limit keeps
\* within the limits.
LEMMA LimitsKept ==
    ASSUME IInv, IInv', EntryForQuota, EntryForQuota', LimitInv, Known' = Known,
           \A n \in Known : /\ quota[n].min <= quota'[n].min /\ quota[n].max <= quota'[n].max
                            /\ infos'[n].pods \subseteq infos[n].pods,
           \A p \in Pods : pod'[p] = "admitted" => pod[p] = "admitted"
    PROVE  OneAdmitted' /\ WithinLimits' /\ AdmittedWithinLimits'
<1> DEFINE was == [n \in Known |-> quota[n].min]
           is  == [n \in Known |-> quota'[n].min]
<1>n. Numbers /\ Numbers'
  BY LimitTypes, PTL
<1>1. /\ was \in [Known -> Nat] /\ IsFiniteSet(Known) /\ SumMin = AddUp(was) /\ SumMin \in Nat
      /\ AllCounted \in SUBSET Pods /\ Total[AllCounted] \in Nat
  BY <1>n DEF SumMin, Numbers
<1>2. /\ is \in [Known -> Nat] /\ SumMin' = AddUp(is) /\ SumMin' \in Nat
      /\ Total[AllCounted'] \in Nat
  <2>1. /\ [n \in Known' |-> quota'[n].min] \in [Known' -> Nat] /\ SumMin' \in Nat
        /\ AllCounted' \in SUBSET Pods /\ Total[AllCounted'] \in Nat
    BY <1>n DEF Numbers
  <2> QED  BY <2>1 DEF SumMin
<1>3. SumMin <= SumMin'
  <2>1. \A n \in Known : was[n] <= is[n]
    OBVIOUS
  <2> HIDE DEF was, is
  <2> QED  BY <1>1, <1>2, <2>1, AddUpMonotone
<1>4. AllCounted' \subseteq AllCounted
  BY DEF AllCounted
<1>5. Total[AllCounted'] <= Total[AllCounted]
  BY <1>1, <1>4, TotalMonotone
<1>6. ASSUME NEW n \in Known
      PROVE  /\ Total[infos'[n].pods] <= Total[infos[n].pods]
             /\ Total[infos'[n].pods] \in Nat /\ Total[infos[n].pods] \in Nat
             /\ quota[n].max <= quota'[n].max /\ quota[n].max \in Nat /\ quota'[n].max \in Nat
  <2>1. Total[infos'[n].pods] \in Nat /\ quota'[n].max \in Nat
    BY <1>n DEF Numbers
  <2>2. infos[n].pods \in SUBSET Pods /\ Total[infos[n].pods] \in Nat /\ quota[n].max \in Nat
    BY <1>n DEF Numbers
  <2> QED  BY <2>1, <2>2, TotalMonotone
<1>7. WithinLimits'
  <2>1. \A n \in Known : Total[infos[n].pods] <= quota[n].max
    BY DEF LimitInv, WithinLimits
  <2>2. Total[AllCounted] <= SumMin
    BY DEF LimitInv, WithinLimits
  <2>3. \A n \in Known : Total[infos'[n].pods] <= quota'[n].max
    BY <1>6, <2>1
  <2>4. Total[AllCounted'] <= SumMin'
    BY <1>1, <1>2, <1>3, <1>5, <2>2
  <2> QED  BY <2>3, <2>4 DEF WithinLimits
<1>8. AdmittedWithinLimits'
  <2> SUFFICES ASSUME NEW p \in Pods, pod'[p] = "admitted", Ns[p] \in Known
               PROVE  /\ Total[infos'[Ns[p]].pods] + Req[p] <= quota'[Ns[p]].max
                      /\ Total[AllCounted'] + Req[p] <= SumMin'
    BY DEF AdmittedWithinLimits
  <2>1. /\ Total[infos[Ns[p]].pods] + Req[p] <= quota[Ns[p]].max
        /\ Total[AllCounted] + Req[p] <= SumMin
    BY DEF LimitInv, AdmittedWithinLimits
  <2>2. Req[p] \in Nat
    BY TotalAssumption
  <2>3. Total[infos'[Ns[p]].pods] + Req[p] <= quota'[Ns[p]].max
    BY <1>6, <2>1, <2>2
  <2>4. Total[AllCounted'] + Req[p] <= SumMin'
    BY <1>1, <1>2, <1>3, <1>5, <2>1, <2>2
  <2> QED  BY <2>3, <2>4
<1>9. OneAdmitted'
  BY DEF LimitInv, OneAdmitted
<1> QED  BY <1>7, <1>8, <1>9

\* A step that changes neither specs nor the limits of the entries.
LEMMA SpecsKept ==
    ASSUME LimitInv, UNCHANGED <<quota, events>>,
           \A n \in Known : infos'[n].min = infos[n].min /\ infos'[n].max = infos[n].max
    PROVE  SpecsBehind' /\ Known' = Known
  BY DEF LimitInv, SpecsBehind, NoMore, Known

\* PreFilter admits a pod that keeps within the limits with all that is counted.
LEMMA AdmitStep ==
    ASSUME IInv, EntryForQuota, LimitInv, NEW p \in Pods, PreFilter(p)
    PROVE  LimitInv'
<1>n. Numbers
  BY LimitTypes
<1>1. UNCHANGED <<quota, events, infos>> /\ pod' = [pod EXCEPT ![p] = "admitted"]
  BY DEF PreFilter, SetPod
<1>2. SpecsBehind' /\ Known' = Known
  BY <1>1, SpecsKept
<1>3. SumMin' = SumMin /\ AllCounted' = AllCounted
  BY <1>1, <1>2 DEF SumMin, AllCounted
<1>4. WithinLimits'
  BY <1>1, <1>2, <1>3 DEF LimitInv, WithinLimits
<1>5. OneAdmitted' /\ \A q \in Pods : pod'[q] = "admitted" => q = p
  BY <1>1 DEF PreFilter, OneAdmitted, IInv, TypeOK
<1>6. ASSUME Ns[p] \in Known
      PROVE  /\ Total[infos[Ns[p]].pods] + Req[p] <= quota[Ns[p]].max
             /\ Total[AllCounted] + Req[p] <= SumMin
  <2> DEFINE n    == Ns[p]
             used == [m \in Known |-> infos[m].used]
             min  == [m \in Known |-> infos[m].min]
             spec == [m \in Known |-> quota[m].min]
  <2>1. Known = {m \in Namespaces : infos[m] # NoQuota}
    BY DEF Known, EntryForQuota
  <2>2. infos[n].used + Req[p] <= infos[n].max /\ AddUp(used) + Req[p] <= AddUp(min)
    <3>1. infos[n] # NoQuota /\ ~OverMax(infos[n], p) /\ ~OverAggregatedMin(infos, p)
      BY <1>6, <1>n DEF PreFilter, OverQuota, Numbers
    <3>2. ~(AddUp(used) + Req[p] > AddUp(min))
      BY <2>1, <3>1 DEF OverAggregatedMin
    <3>3. ~(infos[n].used + Req[p] > infos[n].max)
      BY <3>1 DEF OverMax
    <3>4. infos[n].used \in Nat /\ infos[n].max \in Nat /\ Req[p] \in Nat
      BY <1>6, <1>n, TotalAssumption DEF Numbers, Infos
    <3>5. used \in [Known -> Nat] /\ min \in [Known -> Nat] /\ IsFiniteSet(Known)
      BY <1>n DEF Numbers, Infos
    <3>6. AddUp(used) \in Nat /\ AddUp(min) \in Nat
      <4> HIDE DEF used, min
      <4> QED  BY <3>5, AddUpStep
    <3> HIDE DEF used, min, n
    <3> QED  BY <3>2, <3>3, <3>4, <3>6
  <2>3. AddUp(min) <= SumMin /\ AddUp(min) \in Nat
    <3>1. min \in [Known -> Nat] /\ spec \in [Known -> Nat] /\ IsFiniteSet(Known)
      BY <1>n DEF Numbers, Infos
    <3>2. \A m \in Known : min[m] <= spec[m]
      BY DEF LimitInv, SpecsBehind, NoMore
    <3>3. SumMin = AddUp(spec)
      BY DEF SumMin
    <3> HIDE DEF min, spec
    <3> QED  BY <3>1, <3>2, <3>3, AddUpMonotone, AddUpStep
  <2>4. Total[AllCounted] = AddUp(used)
    BY UsedAddsUp
  <2>5. infos[n].max <= quota[n].max /\ infos[n].used = Total[infos[n].pods]
    BY <1>6, <1>n DEF LimitInv, SpecsBehind, NoMore, Numbers
  <2>6. /\ infos[n].max \in Nat /\ quota[n].max \in Nat /\ Req[p] \in Nat
        /\ Total[infos[n].pods] \in Nat /\ Total[AllCounted] \in Nat /\ SumMin \in Nat
    BY <1>6, <1>n, TotalAssumption DEF Numbers, Infos
  <2>7. Total[infos[n].pods] + Req[p] <= quota[n].max
    <3> HIDE DEF n
    <3> QED  BY <2>2, <2>5, <2>6
  <2>8. Total[AllCounted] + Req[p] <= SumMin
    <3> HIDE DEF used, min
    <3> QED  BY <2>2, <2>3, <2>4, <2>6
  <2> QED  BY <2>7, <2>8
<1>7. AdmittedWithinLimits'
  BY <1>1, <1>2, <1>3, <1>5, <1>6 DEF AdmittedWithinLimits
<1> QED  BY <1>2, <1>4, <1>5, <1>7 DEF LimitInv

\* Reserve counts the admitted pod, and there is no other.
LEMMA ReserveStep ==
    ASSUME IInv, EntryForQuota, LimitInv, NEW p \in Pods, Reserve(p)
    PROVE  LimitInv'
<1>n. Numbers
  BY LimitTypes
<1>1. /\ UNCHANGED <<quota, events>> /\ pod' = [pod EXCEPT ![p] = "binding"] /\ pod[p] = "admitted"
      /\ SetInfo(Ns[p], AddPodIfNotPresent(infos[Ns[p]], p))
  BY DEF Reserve, SetPod
<1>2. \A n \in Namespaces :
        /\ (infos'[n] = NoQuota) <=> (infos[n] = NoQuota)
        /\ infos[n] # NoQuota =>
             /\ infos'[n].pods = IF n = Ns[p] THEN infos[Ns[p]].pods \cup {p} ELSE infos[n].pods
             /\ infos'[n].min = infos[n].min /\ infos'[n].max = infos[n].max
  BY <1>1, EntryWritten
<1>3. SpecsBehind' /\ Known' = Known
  BY <1>1, <1>2, <1>n, SpecsKept DEF Numbers
<1>4. SumMin' = SumMin
  BY <1>1, <1>3 DEF SumMin
<1>5. \A q \in Pods : pod'[q] # "admitted"
  BY <1>1 DEF LimitInv, OneAdmitted, IInv, TypeOK
<1>6. ASSUME NEW S \in SUBSET Pods PROVE Total[S \cup {p}] <= Total[S] + Req[p]
  <2>1. Total[S] \in Nat /\ Req[p] \in Nat
    BY TotalAssumption
  <2>2. CASE p \in S
    <3>1. S \cup {p} = S
      BY <2>2
    <3>2. Total[S \cup {p}] = Total[S]
      BY <3>1, Zenon
    <3> QED  BY <2>1, <3>2
  <2>3. CASE p \notin S
    <3>1. Total[S \cup {p}] = Total[S] + Req[p]
      BY <2>3, TotalAssumption
    <3> QED  BY <2>1, <3>1
  <2> QED  BY <2>2, <2>3
<1>7. CASE Ns[p] \notin Known
  <2>1. \A n \in Known : infos'[n].pods = infos[n].pods
    BY <1>2, <1>7, <1>n DEF Numbers
  <2>2. AllCounted' = AllCounted
    BY <1>3, <2>1 DEF AllCounted
  <2>3. WithinLimits'
    BY <1>1, <1>3, <1>4, <2>1, <2>2 DEF LimitInv, WithinLimits
  <2> QED  BY <1>3, <1>5, <2>3 DEF LimitInv, OneAdmitted, AdmittedWithinLimits
<1>8. CASE Ns[p] \in Known
  <2>1. /\ Total[infos[Ns[p]].pods] + Req[p] <= quota[Ns[p]].max
        /\ Total[AllCounted] + Req[p] <= SumMin
    BY <1>1, <1>8 DEF LimitInv, AdmittedWithinLimits
  <2>2. \A n \in Known : infos'[n].pods = IF n = Ns[p] THEN infos[Ns[p]].pods \cup {p}
                                                       ELSE infos[n].pods
    BY <1>2, <1>n DEF Numbers
  <2>3. AllCounted' = AllCounted \cup {p}
    BY <1>3, <1>8, <2>2 DEF AllCounted
  <2>4. infos[Ns[p]].pods \cup {p} \in SUBSET Pods /\ AllCounted \cup {p} \in SUBSET Pods
    BY <1>8, <1>n DEF Numbers
  <2>5. /\ Total[infos[Ns[p]].pods \cup {p}] \in Nat /\ Total[AllCounted \cup {p}] \in Nat
        /\ Total[infos[Ns[p]].pods] \in Nat /\ Total[AllCounted] \in Nat /\ Req[p] \in Nat
        /\ quota[Ns[p]].max \in Nat /\ SumMin \in Nat
    BY <1>8, <1>n, <2>4, TotalAssumption DEF Numbers
  <2>6. /\ Total[infos[Ns[p]].pods \cup {p}] <= Total[infos[Ns[p]].pods] + Req[p]
        /\ Total[AllCounted \cup {p}] <= Total[AllCounted] + Req[p]
    BY <1>6, <1>8, <1>n DEF Numbers
  <2>7. Total[infos[Ns[p]].pods \cup {p}] <= quota[Ns[p]].max
    BY <2>1, <2>5, <2>6
  <2>8. Total[AllCounted \cup {p}] <= SumMin
    BY <2>1, <2>5, <2>6
  <2>9. \A n \in Known : Total[infos'[n].pods] <= quota[n].max
    BY <2>2, <2>7 DEF LimitInv, WithinLimits
  <2>10. WithinLimits'
    BY <1>1, <1>3, <1>4, <2>3, <2>8, <2>9 DEF WithinLimits
  <2> QED  BY <1>3, <1>5, <2>10 DEF LimitInv, OneAdmitted, AdmittedWithinLimits
<1> QED  BY <1>7, <1>8

\* What is in a queue of notifications.
LEMMA QueueItems ==
    ASSUME NEW S, NEW q \in Seq(S)
    PROVE  Len(q) \in Nat /\ \A i \in 1 .. Len(q) : q[i] \in S
  OBVIOUS

\* The scheduling cycle, users and the pod handlers keep the limits: the handler
\* of a new assigned pod finds it counted already.
LEMMA LimitPodStep ==
    ASSUME Steady, IInv, CountInv, LimitInv, IInv', CountInv', NEW p \in Pods,
           \/ PreFilter(p) \/ FilterFail(p) \/ Reserve(p) \/ Bind(p) \/ BindFail(p)
           \/ Unreserve(p) \/ CreatePod(p) \/ FinishPod(p) \/ DeletePod(p) \/ Handlers(p)
    PROVE  LimitInv'
<1>n. Numbers /\ EntryForQuota /\ EntryForQuota'
  BY LimitTypes DEF CountInv
<1>t. pod \in [Pods -> Life]
  BY DEF IInv, TypeOK
<1>1. ASSUME UNCHANGED <<quota, events>>,
             \A n \in Known : /\ infos'[n].min = infos[n].min /\ infos'[n].max = infos[n].max
                              /\ infos'[n].pods \subseteq infos[n].pods,
             \A q \in Pods : pod'[q] = "admitted" => pod[q] = "admitted"
      PROVE  LimitInv'
  <2>1. SpecsBehind' /\ Known' = Known
    BY <1>1, SpecsKept
  <2>2. \A n \in Known : quota[n].min <= quota'[n].min /\ quota[n].max <= quota'[n].max
    BY <1>n, <1>1 DEF Numbers
  <2>3. OneAdmitted' /\ WithinLimits' /\ AdmittedWithinLimits'
    BY <1>n, <1>1, <2>1, <2>2, LimitsKept
  <2> QED  BY <2>1, <2>3 DEF LimitInv
<1>2. CASE PreFilter(p)
  BY <1>n, <1>2, AdmitStep
<1>3. CASE Reserve(p)
  BY <1>n, <1>3, ReserveStep
<1>4. CASE \/ FilterFail(p) \/ Bind(p) \/ BindFail(p) \/ CreatePod(p) \/ FinishPod(p) \/ DeletePod(p)
  <2>1. UNCHANGED <<quota, events, infos>>
    BY <1>4 DEF FilterFail, Bind, BindFail, CreatePod, FinishPod, DeletePod
  <2>2. \A q \in Pods : pod'[q] = "admitted" => pod[q] = "admitted"
    BY <1>t, <1>4 DEF FilterFail, Bind, BindFail, CreatePod, FinishPod, DeletePod, SetPod
  <2> QED  BY <1>1, <2>1, <2>2
<1>5. CASE Unreserve(p) \/ UpdatePod(p) \/ DeletePodHandler(p)
  <2>1. UNCHANGED <<quota, events>> /\ SetInfo(Ns[p], DeletePodIfPresent(infos[Ns[p]], p))
    BY <1>5 DEF Unreserve, UpdatePod, DeletePodHandler
  <2>2. \A n \in Namespaces : infos[n] # NoQuota =>
          /\ infos'[n].pods = IF n = Ns[p] THEN infos[Ns[p]].pods \ {p} ELSE infos[n].pods
          /\ infos'[n].min = infos[n].min /\ infos'[n].max = infos[n].max
    BY <2>1, EntryWritten
  <2>3. \A q \in Pods : pod'[q] = "admitted" => pod[q] = "admitted"
    BY <1>t, <1>5 DEF Unreserve, UpdatePod, DeletePodHandler, SetPod
  <2>4. \A n \in Known : /\ infos'[n].min = infos[n].min /\ infos'[n].max = infos[n].max
                         /\ infos'[n].pods \subseteq infos[n].pods
    BY <1>n, <2>2 DEF Numbers
  <2> QED  BY <1>1, <2>1, <2>3, <2>4
<1>6. CASE AddPod(p)
  <2>1. SetInfo(Ns[p], AddPodIfNotPresent(infos[Ns[p]], p)) /\ UNCHANGED <<pod, quota, events>>
    BY <1>6, <1>n, PodAssumption DEF AddPod, EntryForQuota
  <2>2. \A n \in Namespaces : infos[n] # NoQuota =>
          /\ infos'[n].pods = IF n = Ns[p] THEN infos[Ns[p]].pods \cup {p} ELSE infos[n].pods
          /\ infos'[n].min = infos[n].min /\ infos'[n].max = infos[n].max
    BY <2>1, EntryWritten
  <2>3. infos[Ns[p]] # NoQuota => p \in infos[Ns[p]].pods
    BY <1>6 DEF AddPod, CountInv, ToldTrue, CountedExactly, Counts
  <2>4. \A n \in Known : /\ infos'[n].min = infos[n].min /\ infos'[n].max = infos[n].max
                         /\ infos'[n].pods \subseteq infos[n].pods
    BY <1>n, <2>2, <2>3 DEF Numbers
  <2> QED  BY <1>1, <2>1, <2>4
<1> QED  BY <1>2, <1>3, <1>4, <1>5, <1>6 DEF Handlers

\* A raised spec, and the handler that learns of it later, keep the limits.
LEMMA LimitQuotaStep ==
    ASSUME Raising, IInv, CountInv, LimitInv, IInv', CountInv', NEW n \in Namespaces,
           ChangeSpec(n) \/ UpdateElasticQuota(n)
    PROVE  LimitInv'
<1>n. Numbers /\ EntryForQuota /\ EntryForQuota'
  BY LimitTypes DEF CountInv
<1>t. /\ quota \in [Namespaces -> Quotas] /\ events \in [Namespaces -> Seq([old : Quotas, new : Quotas])]
      /\ events[n] \in Seq([old : Quotas, new : Quotas]) /\ Len(events[n]) \in Nat
  <2>1. /\ quota \in [Namespaces -> Quotas]
        /\ events \in [Namespaces -> Seq([old : Quotas, new : Quotas])]
    BY DEF IInv, TypeOK
  <2>2. events[n] \in Seq([old : Quotas, new : Quotas])
    BY <2>1
  <2> QED  BY <2>1, <2>2, QueueItems
<1>m. \A m \in Known : /\ m \in Namespaces /\ quota[m].min \in Nat /\ quota[m].max \in Nat
                       /\ infos[m].min \in Nat /\ infos[m].max \in Nat
  BY <1>n DEF Numbers, Infos
<1>s. \A m \in Known :
        /\ NoMore(infos[m], quota[m])
        /\ \A i \in 1 .. Len(events[m]) :
              /\ NoMore(infos[m], events[m][i].new) /\ NoMore(events[m][i].new, quota[m])
              /\ \A j \in i .. Len(events[m]) : NoMore(events[m][i].new, events[m][j].new)
  BY DEF LimitInv, SpecsBehind
<1>e. ASSUME NEW i \in 1 .. Len(events[n])
      PROVE  events[n][i].new.min \in Nat /\ events[n][i].new.max \in Nat
  <2>1. events[n][i].new # NoQuota
    BY <1>n DEF EntryForQuota
  <2>2. events[n][i] \in [old : Quotas, new : Quotas]
    BY <1>t, QueueItems
  <2> QED  BY <2>1, <2>2, SpecAssumption DEF Quotas
<1>1. CASE ChangeSpec(n)
  <2>1. PICK spec \in Specs : SetQuota(n, spec) /\ quota[n] # NoQuota /\ NoMore(quota[n], spec)
    BY <1>1, SpecAssumption DEF ChangeSpec, Raising, NoMore, IInv, TypeOK, Quotas
  <2> DEFINE e == [old |-> quota[n], new |-> spec]
  <2>2. /\ e \in [old : Quotas, new : Quotas] /\ e.new = spec /\ spec # NoQuota /\ n \in Known
        /\ spec.min \in Nat /\ spec.max \in Nat
    BY <1>t, <2>1, SpecAssumption DEF Quotas, Known
  <2>3. /\ events'[n] = Append(events[n], e) /\ quota'[n] = spec
        /\ \A m \in Namespaces \ {n} : events'[m] = events[m] /\ quota'[m] = quota[m]
        /\ UNCHANGED <<pod, infos>>
    BY <1>t, <2>1 DEF SetQuota
  <2>4. /\ Len(Append(events[n], e)) = Len(events[n]) + 1
        /\ \A i \in 1 .. Len(events[n]) + 1 :
             Append(events[n], e)[i] = IF i <= Len(events[n]) THEN events[n][i] ELSE e
    <3> HIDE DEF e
    <3> QED  BY <1>t, <2>2
  <2>5. Known' = Known
    BY <2>2, <2>3 DEF Known
  <2> HIDE DEF e
  <2>6. \A m \in Known : quota[m].min <= quota'[m].min /\ quota[m].max <= quota'[m].max
    BY <1>m, <2>1, <2>2, <2>3 DEF NoMore
  <2>7. OneAdmitted' /\ WithinLimits' /\ AdmittedWithinLimits'
    BY <1>n, <2>3, <2>5, <2>6, LimitsKept
  <2>8. /\ NoMore(infos[n], spec) /\ NoMore(spec, spec)
        /\ \A i \in 1 .. Len(events[n]) : NoMore(events[n][i].new, spec)
    BY <1>m, <1>s, <1>e, <2>1, <2>2 DEF NoMore
  <2>9. ASSUME NEW m \in Known
        PROVE  /\ NoMore(infos[m], quota'[m])
               /\ \A i \in 1 .. Len(events'[m]) :
                    /\ NoMore(infos[m], events'[m][i].new) /\ NoMore(events'[m][i].new, quota'[m])
                    /\ \A j \in i .. Len(events'[m]) : NoMore(events'[m][i].new, events'[m][j].new)
    <3>1. CASE m # n
      BY <1>m, <1>s, <2>3, <3>1
    <3>2. CASE m = n
      <4>1. ASSUME NEW i \in 1 .. Len(events[n]) + 1
            PROVE  /\ NoMore(infos[n], events'[n][i].new) /\ NoMore(events'[n][i].new, spec)
                   /\ \A j \in i .. Len(events[n]) + 1 : NoMore(events'[n][i].new, events'[n][j].new)
        <5>1. CASE i <= Len(events[n])
          <6>1. i \in 1 .. Len(events[n]) /\ events'[n][i] = events[n][i]
            BY <1>t, <2>3, <2>4, <5>1
          <6>2. ASSUME NEW j \in i .. Len(events[n]) + 1
                PROVE  NoMore(events'[n][i].new, events'[n][j].new)
            <7>1. CASE j <= Len(events[n])
              <8>1. j \in i .. Len(events[n]) /\ events'[n][j] = events[n][j]
                BY <1>t, <2>3, <2>4, <7>1
              <8> QED  BY <1>s, <2>2, <6>1, <8>1
            <7>2. CASE ~(j <= Len(events[n]))
              <8>1. events'[n][j].new = spec
                BY <1>t, <2>2, <2>3, <2>4, <7>2
              <8> QED  BY <2>8, <6>1, <8>1
            <7> QED  BY <7>1, <7>2
          <6> QED  BY <1>s, <2>2, <2>8, <6>1, <6>2
        <5>2. CASE ~(i <= Len(events[n]))
          <6>1. i = Len(events[n]) + 1 /\ events'[n][i].new = spec
            BY <1>t, <2>2, <2>3, <2>4, <5>2
          <6>2. \A j \in i .. Len(events[n]) + 1 : j = i
            BY <1>t, <6>1
          <6> QED  BY <2>8, <6>1, <6>2
        <5> QED  BY <5>1, <5>2
      <4>2. Len(events'[n]) = Len(events[n]) + 1 /\ quota'[n] = spec
        BY <2>3, <2>4
      <4>3. NoMore(infos[n], quota'[n])
        BY <2>8, <4>2
      <4> QED  BY <3>2, <4>1, <4>2, <4>3, Zenon
    <3> QED  BY <3>1, <3>2
  <2>10. SpecsBehind'
    BY <2>3, <2>5, <2>9 DEF SpecsBehind, NoMore
  <2> QED  BY <2>7, <2>10 DEF LimitInv
<1>2. CASE UpdateElasticQuota(n)
  <2>1. /\ infos[n] # NoQuota /\ infos'[n].pods = infos[n].pods
        /\ infos'[n].min = Head(events[n]).new.min /\ infos'[n].max = Head(events[n]).new.max
        /\ \A m \in Namespaces \ {n} : infos'[m] = infos[m]
        /\ events' = [events EXCEPT ![n] = Tail(@)]
    BY <1>2, <1>n, UpdateKeepsPods
  <2>2. UNCHANGED <<pod, quota>> /\ events[n] # <<>>
    BY <1>2 DEF UpdateElasticQuota
  <2>3. /\ Len(Tail(events[n])) = Len(events[n]) - 1
        /\ \A i \in 1 .. Len(events[n]) - 1 : Tail(events[n])[i] = events[n][i + 1]
        /\ Head(events[n]) = events[n][1] /\ 1 \in 1 .. Len(events[n])
    BY <1>t, <2>2
  <2>4. /\ events'[n] = Tail(events[n]) /\ \A m \in Namespaces \ {n} : events'[m] = events[m]
        /\ Known' = Known /\ n \in Known
    BY <1>n, <1>t, <2>1, <2>2 DEF Known, EntryForQuota
  <2>5. OneAdmitted' /\ WithinLimits' /\ AdmittedWithinLimits'
    <3>1. \A m \in Known : /\ quota[m].min <= quota'[m].min /\ quota[m].max <= quota'[m].max
                           /\ infos'[m].pods \subseteq infos[m].pods
      BY <1>m, <2>1, <2>2
    <3>2. \A q \in Pods : pod'[q] = "admitted" => pod[q] = "admitted"
      BY <2>2
    <3> QED  BY <1>n, <2>4, <3>1, <3>2, LimitsKept
  <2>6. ASSUME NEW m \in Known
        PROVE  /\ NoMore(infos'[m], quota[m])
               /\ \A i \in 1 .. Len(events'[m]) :
                    /\ NoMore(infos'[m], events'[m][i].new) /\ NoMore(events'[m][i].new, quota[m])
                    /\ \A j \in i .. Len(events'[m]) : NoMore(events'[m][i].new, events'[m][j].new)
    <3>1. CASE m # n
      BY <1>m, <1>s, <2>1, <2>4, <3>1
    <3>2. CASE m = n
      <4>1. NoMore(infos'[n], quota[n])
        BY <1>s, <2>1, <2>3, <2>4 DEF NoMore
      <4>2. ASSUME NEW i \in 1 .. Len(events[n]) - 1
            PROVE  /\ NoMore(infos'[n], events'[n][i].new) /\ NoMore(events'[n][i].new, quota[n])
                   /\ \A j \in i .. Len(events[n]) - 1 : NoMore(events'[n][i].new, events'[n][j].new)
        <5>1. i + 1 \in 1 .. Len(events[n]) /\ events'[n][i] = events[n][i + 1]
          BY <1>t, <2>3, <2>4
        <5>2. ASSUME NEW j \in i .. Len(events[n]) - 1
              PROVE  j + 1 \in i + 1 .. Len(events[n]) /\ events'[n][j] = events[n][j + 1]
          BY <1>t, <2>3, <2>4
        <5>3. NoMore(events[n][1].new, events[n][i + 1].new)
          <6>1. i + 1 \in 1 .. Len(events[n])
            BY <5>1
          <6> QED  BY <1>s, <2>3, <2>4, <6>1
        <5>4. NoMore(infos'[n], events'[n][i].new)
          BY <2>1, <2>3, <5>1, <5>3 DEF NoMore
        <5> QED  BY <1>s, <2>4, <5>1, <5>2, <5>4
      <4>3. Len(events'[n]) = Len(events[n]) - 1
        BY <2>3, <2>4
      <4> QED  BY <3>2, <4>1, <4>2, <4>3, Zenon
    <3> QED  BY <3>1, <3>2
  <2>7. SpecsBehind'
    BY <2>2, <2>4, <2>6 DEF SpecsBehind, NoMore
  <2> QED  BY <2>5, <2>7 DEF LimitInv
<1> QED  BY <1>1, <1>2

\* At the start nothing is counted.
LEMMA LimitInit == Init => LimitInv
<1> SUFFICES ASSUME Init PROVE LimitInv
  OBVIOUS
<1>1. Numbers
  BY InitInv, CountInit, LimitTypes DEF CountInv
<1>2. \A n \in Known : /\ infos[n].pods = {} /\ events[n] = <<>>
                       /\ infos[n].min = quota[n].min /\ infos[n].max = quota[n].max
  BY DEF Init, NewInfo, Known
<1>3. SpecsBehind
  BY <1>1, <1>2 DEF SpecsBehind, NoMore, Numbers
<1>4. OneAdmitted /\ AdmittedWithinLimits
  BY DEF Init, OneAdmitted, AdmittedWithinLimits
<1>5. AllCounted = {}
  BY <1>2 DEF AllCounted
<1>6. \A n \in Known : Total[infos[n].pods] = 0 /\ quota[n].max \in Nat
  BY <1>1, <1>2, TotalAssumption DEF Numbers
<1>7. Total[AllCounted] = 0 /\ SumMin \in Nat
  BY <1>1, <1>5, TotalAssumption DEF Numbers
<1>8. WithinLimits
  BY <1>6, <1>7 DEF WithinLimits
<1> QED  BY <1>3, <1>4, <1>8 DEF LimitInv

\* No step exceeds a limit, as long as the specs only grow.
LEMMA LimitStep ==
    ASSUME Raising, IInv, CountInv, LimitInv, [Next]_vars
    PROVE  LimitInv'
<1>s. Steady
  BY DEF Steady, Raising
<1>i. IInv' /\ CountInv'
  BY <1>s, InvStep, CountStep
<1>1. ASSUME UNCHANGED vars PROVE LimitInv'
  BY <1>1 DEF vars, LimitInv, SpecsBehind, OneAdmitted, WithinLimits, AdmittedWithinLimits,
              Known, SumMin, AllCounted
<1>2. ASSUME Restart PROVE FALSE
  BY <1>2 DEF Restart, Raising
<1>3. ASSUME NEW n \in Namespaces,
             \/ ChangeSpec(n) \/ CreateQuota(n) \/ DeleteQuota(n) \/ AddElasticQuota(n)
             \/ AddElasticQuotaLocked(n) \/ UpdateElasticQuota(n) \/ DeleteElasticQuota(n)
      PROVE  LimitInv'
  <2>1. ChangeSpec(n) \/ UpdateElasticQuota(n)
    BY <1>s, <1>3, CountQuotaStep
  <2> QED  BY <1>i, <2>1, LimitQuotaStep
<1> QED  BY <1>s, <1>i, <1>1, <1>2, <1>3, LimitPodStep DEF Next

\* The limits hold of all that is counted, and with the pod that PreFilter has
\* admitted, at any time.
THEOREM LimitInvariance ==
    ASSUME Raising
    PROVE  Spec => [](IInv /\ CountInv /\ LimitInv)
<1>1. Init => IInv /\ CountInv /\ LimitInv
  BY InitInv, CountInit, LimitInit
<1>2. IInv /\ CountInv /\ LimitInv /\ [Next]_vars => (IInv /\ CountInv /\ LimitInv)'
  <2>1. IInv /\ [Next]_vars => IInv'
    BY InvStep
  <2>2. Steady
    BY DEF Steady, Raising
  <2> QED  BY <2>1, <2>2, CountStep, LimitStep
<1> QED  BY <1>1, <1>2, PTL DEF Spec

\* The pods that are placed are among those that are counted.
LEMMA LimitsRespected == IInv /\ CountInv /\ LimitInv => QuotaRespected
<1> SUFFICES ASSUME IInv, CountInv, LimitInv PROVE QuotaRespected
  OBVIOUS
<1>1. Numbers
  BY LimitTypes DEF CountInv
<1>2. ASSUME NEW n \in Known PROVE Holding(n) \subseteq infos[n].pods
  BY <1>1 DEF Numbers, Holding, CountInv, ToldTrue, CountedExactly, Counts
<1>3. UNION {Holding(n) : n \in Known} \subseteq AllCounted
  BY <1>2 DEF AllCounted, Holding
<1>4. ASSUME NEW n \in Known PROVE Total[Holding(n)] <= quota[n].max
  <2>1. infos[n].pods \in SUBSET Pods /\ Total[infos[n].pods] \in Nat /\ quota[n].max \in Nat
    BY <1>1 DEF Numbers
  <2>2. Holding(n) \in SUBSET Pods
    BY DEF Holding
  <2>3. Total[Holding(n)] <= Total[infos[n].pods] /\ Total[Holding(n)] \in Nat
    BY <1>2, <2>1, <2>2, TotalMonotone, TotalAssumption
  <2>4. Total[infos[n].pods] <= quota[n].max
    BY DEF LimitInv, WithinLimits
  <2> QED  BY <2>1, <2>3, <2>4
<1>5. Total[UNION {Holding(n) : n \in Known}] <= SumMin
  <2> DEFINE held == UNION {Holding(n) : n \in Known}
  <2>1. AllCounted \in SUBSET Pods /\ Total[AllCounted] \in Nat /\ SumMin \in Nat
    BY <1>1 DEF Numbers
  <2>2. held \in SUBSET AllCounted /\ held \in SUBSET Pods
    BY <1>3, <2>1
  <2> HIDE DEF held
  <2>3. Total[held] <= Total[AllCounted] /\ Total[held] \in Nat
    BY <2>1, <2>2, TotalMonotone, TotalAssumption
  <2>4. Total[AllCounted] <= SumMin
    BY DEF LimitInv, WithinLimits
  <2>5. Total[held] <= SumMin
    BY <2>1, <2>3, <2>4
  <2> QED  BY <2>5 DEF held
<1> QED  BY <1>4, <1>5 DEF QuotaRespected, Known, SumMin

\* No quota is exceeded, however scheduling, informers and users interleave, for
\* any number of pods, namespaces and quotas whose specs only grow.
THEOREM QuotasRespected ==
    ASSUME Raising
    PROVE  Spec => []QuotaRespected
  BY LimitInvariance, LimitsRespected, PTL

\* What scheduling with preemption does to the books and to the life of the pods
\* is one of the steps of CapacityScheduling: an eviction is a deletion.
LEMMA QuotaSteps == [QNext]_qvars => [Next]_vars
<1> SUFFICES ASSUME [QNext]_qvars PROVE [Next]_vars
  OBVIOUS
<1>0. ASSUME UNCHANGED qvars PROVE UNCHANGED vars
  BY <1>0 DEF qvars
<1>1. ASSUME NEW p \in Pods, Scheduling(p) PROVE [Next]_vars
  <2>1. ASSUME \/ PreFilterRefuse(p) \/ NotEligible(p) \/ FindCandidates(p) \/ NoCandidates(p)
               \/ Nominate(p) \/ \E n \in Nodes : SelectCandidate(p, n)
        PROVE  UNCHANGED vars
    BY <2>1 DEF PreFilterRefuse, NotEligible, FindCandidates, NoCandidates, Nominate, SelectCandidate
  <2>2. ASSUME PreFilterPass(p) \/ NoNodeFits(p) \/ \E n \in Nodes : Place(p, n)
        PROVE  PreFilter(p) \/ FilterFail(p) \/ Reserve(p)
    BY <2>2 DEF PreFilterPass, NoNodeFits, Place
  <2>3. ASSUME NEW v \in Pods, Evict(p, v) PROVE DeletePod(v) \/ UNCHANGED vars
    BY <2>3 DEF Evict, AskToEnd, DeleteNow
  <2> QED  BY <1>1, <2>1, <2>2, <2>3 DEF Scheduling, Next
<1>2. ASSUME World PROVE Next
  <2>1. ASSUME NEW p \in Pods, Background(p) \/ Terminate(p)
        PROVE  Bind(p) \/ Unreserve(p) \/ Handlers(p) \/ DeletePod(p)
    BY <2>1 DEF Background, Terminate, DeleteNow
  <2>2. ASSUME NEW n \in Namespaces, QuotaHandler(n) PROVE UpdateElasticQuota(n)
    BY <2>2 DEF QuotaHandler
  <2> QED  BY <1>2, <2>1, <2>2 DEF World, Next
<1>3. ASSUME Disturbance PROVE [Next]_vars
  <2>1. ASSUME NEW p \in Pods, Create(p) \/ End(p) \/ Delete(p)
        PROVE  CreatePod(p) \/ FinishPod(p) \/ DeletePod(p)
    BY <2>1 DEF Create, End, Delete, DeleteNow
  <2>2. ASSUME NEW n \in Namespaces, Change(n) PROVE ChangeSpec(n)
    BY <2>2 DEF Change
  <2>3. ASSUME NEW n \in Nodes, Cordon(n) PROVE UNCHANGED vars
    BY <2>3 DEF Cordon
  <2> QED  BY <1>3, <2>1, <2>2, <2>3 DEF Disturbance, Next
<1> QED  BY <1>0, <1>1, <1>2, <1>3 DEF QNext

\* QuotaPreemption implements CapacityScheduling, so whatever holds of the books
\* there holds of them with preemption.
THEOREM ImplementsBooks == QSpec => Spec
<1>1. QInit => Init
  BY DEF QInit
<1> QED  BY <1>1, QuotaSteps, PTL DEF QSpec, Spec

\* With preemption too no quota is exceeded: the victims that a preemptor
\* replaces have left the books before PreFilter admits it.
THEOREM PreemptionRespectsQuotas ==
    ASSUME Raising
    PROVE  QSpec => []QuotaRespected
  BY ImplementsBooks, QuotasRespected, PTL

\* With preemption too running pods are counted, ended pods are not, and the
\* books balance.
THEOREM PreemptionCounts ==
    ASSUME Steady
    PROVE  QSpec => [](Accounted /\ EndedNotCounted /\ UsedMatchesPods)
  BY ImplementsBooks, RunningCounted, EndedUncounted, BooksBalance, PTL

\* In which order potential victims are put back is decided for any two pods.
LEMMA SoonerOrder ==
    ASSUME NEW violating \in SUBSET Pods, NEW q \in Pods, NEW r \in Pods, NEW s \in Pods
    PROVE  /\ ~Sooner(violating, q, q)
           /\ q # r => Sooner(violating, q, r) \/ Sooner(violating, r, q)
           /\ ~(Sooner(violating, q, r) /\ Sooner(violating, r, q))
           /\ Sooner(violating, q, r) /\ Sooner(violating, r, s) => Sooner(violating, q, s)
<1>1. /\ Importance[q] \in Nat /\ Importance[r] \in Nat /\ Importance[s] \in Nat
      /\ (Importance[q] = Importance[r] => q = r)
  BY NodeAssumption
<1> QED  BY <1>1 DEF Sooner

\* Some pod of a set is the last one in that order.
LEMMA LastToSpare ==
    ASSUME NEW violating \in SUBSET Pods, NEW S \in SUBSET Pods, S # {}
    PROVE  \E x \in S : \A y \in S \ {x} : Sooner(violating, y, x)
<1> DEFINE Last(x, T) == \A y \in T \ {x} : Sooner(violating, y, x)
           Good == {T \in SUBSET S : T = {} \/ \E x \in T : Last(x, T)}
<1>1. IsFiniteSet(S)
  BY PodAssumption, FS_Subset
<1>2. {} \in Good
  OBVIOUS
<1>3. ASSUME NEW T \in SUBSET S, NEW x \in S \ T, T \in Good PROVE T \cup {x} \in Good
  <2>1. CASE T = {}
    BY <2>1
  <2>2. CASE T # {}
    <3>1. PICK z \in T : Last(z, T)
      BY <1>3, <2>2
    <3>2. CASE Sooner(violating, x, z)
      BY <3>1, <3>2
    <3>3. CASE ~Sooner(violating, x, z)
      <4>1. Sooner(violating, z, x)
        BY <1>3, <3>1, <3>3, SoonerOrder
      <4>2. ASSUME NEW y \in T \ {z} PROVE Sooner(violating, y, x)
        <5>1. Sooner(violating, y, z) /\ y \in Pods /\ z \in Pods /\ x \in Pods
          BY <1>3, <3>1
        <5> QED  BY <4>1, <5>1, SoonerOrder
      <4>3. Last(x, T \cup {x})
        BY <4>1, <4>2
      <4> QED  BY <4>3
    <3> QED  BY <3>2, <3>3
  <2> QED  BY <2>1, <2>2
<1>4. SUBSET S \subseteq Good
  <2> HIDE DEF Good
  <2> QED  BY <1>1, <1>2, <1>3, SetInduction
<1> QED  BY <1>4

\* Induction in the order in which potential victims are put back.
LEMMA BySparing ==
    ASSUME NEW violating \in SUBSET Pods, NEW S \in SUBSET Pods, NEW Good, {} \in Good,
           \A T \in SUBSET S : \A x \in S \ T :
              T \in Good /\ (\A t \in T : Sooner(violating, t, x)) => T \cup {x} \in Good
    PROVE  SUBSET S \subseteq Good
<1> DEFINE Bad == (SUBSET S) \ Good
<1> SUFFICES ASSUME Bad # {} PROVE FALSE
  OBVIOUS
<1>0. IsFiniteSet(S)
  BY PodAssumption, FS_Subset
<1>1. Bad \subseteq FiniteSubsetsOf(S)
  BY <1>0, FS_Subset DEF FiniteSubsetsOf
<1>2. IsWellFoundedOn(StrictSubsetOrdering(S), FiniteSubsetsOf(S))
  BY FS_StrictSubsetOrderingWellFounded
<1>3. \E T \in Bad : \A U \in Bad : ~(<<U, T>> \in StrictSubsetOrdering(S))
  <2> HIDE DEF Bad
  <2> QED  BY <1>1, <1>2, WFMin
<1>4. PICK T \in Bad : \A U \in Bad : ~(<<U, T>> \in StrictSubsetOrdering(S))
  BY <1>3
<1>5. PICK x \in T : \A y \in T \ {x} : Sooner(violating, y, x)
  <2>1. T # {} /\ T \in SUBSET Pods
    BY <1>4
  <2> QED  BY <2>1, LastToSpare
<1>6. <<T \ {x}, T>> \in StrictSubsetOrdering(S)
  BY <1>5 DEF StrictSubsetOrdering
<1>7. T \ {x} \in Good
  BY <1>4, <1>6
<1>8. (T \ {x}) \cup {x} \in Good
  BY <1>5, <1>7
<1>9. (T \ {x}) \cup {x} = T
  BY <1>5
<1> QED  BY <1>8, <1>9

\* Who is gone from the node when pod q is put back for its test: the victims so
\* far, and those whose turn has not come.
Gone(violating, potential, q, V) ==
    {r \in V : Sooner(violating, r, q)} \cup {r \in potential : Sooner(violating, q, r)}

\* The loop that puts potential victims back comes to an end: the set that the
\* model chooses exists.
LEMMA VictimsExist ==
    ASSUME NEW violating \in SUBSET Pods, NEW potential \in SUBSET Pods, NEW EnoughSets
    PROVE  \E V \in SUBSET potential : \A q \in potential :
             q \in V <=> ~(Gone(violating, potential, q, V) \in EnoughSets)
<1> DEFINE Spared(q, V) == Gone(violating, potential, q, V) \in EnoughSets
           Good == {T \in SUBSET potential :
                      \E V \in SUBSET T : \A q \in T : q \in V <=> ~Spared(q, V)}
<1>1. {} \in Good
  OBVIOUS
<1>2. ASSUME NEW T \in SUBSET potential, NEW x \in potential \ T, T \in Good,
             \A t \in T : Sooner(violating, t, x)
      PROVE  T \cup {x} \in Good
  <2>1. PICK V \in SUBSET T : \A q \in T : q \in V <=> ~Spared(q, V)
    BY <1>2
  <2> DEFINE W == IF Spared(x, V) THEN V ELSE V \cup {x}
  <2>2. \A q \in T \cup {x} : ~Sooner(violating, x, q)
    <3>1. \A q \in T \cup {x} : q \in Pods /\ x \in Pods
      BY <1>2
    <3> QED  BY <1>2, <3>1, SoonerOrder
  <2>3. \A q \in T \cup {x} : Gone(violating, potential, q, W) = Gone(violating, potential, q, V)
    BY <2>2 DEF Gone
  <2>4. \A q \in T \cup {x} : Spared(q, W) <=> Spared(q, V)
    BY <2>3
  <2>5. W \in SUBSET (T \cup {x}) /\ (x \in W <=> ~Spared(x, V)) /\ \A q \in T : q \in W <=> q \in V
    OBVIOUS
  <2> HIDE DEF W, Spared
  <2>6. \A q \in T \cup {x} : q \in W <=> ~Spared(q, W)
    BY <2>1, <2>4, <2>5
  <2> QED  BY <2>5, <2>6
<1>3. SUBSET potential \subseteq Good
  <2>1. \A T \in SUBSET potential : \A x \in potential \ T :
          T \in Good /\ (\A t \in T : Sooner(violating, t, x)) => T \cup {x} \in Good
    BY <1>2
  <2> HIDE DEF Good
  <2> QED  BY <1>1, <2>1, BySparing
<1> QED  BY <1>3

\* Whom that loop leaves out could all go: it starts from a set that is enough,
\* and puts a pod back only if the others are enough.
LEMMA VictimsSuffice ==
    ASSUME NEW violating \in SUBSET Pods, NEW potential \in SUBSET Pods,
           NEW EnoughSets, potential \in EnoughSets, NEW V \in SUBSET potential,
           \A q \in potential : q \in V <=> ~(Gone(violating, potential, q, V) \in EnoughSets)
    PROVE  V \in EnoughSets
<1> DEFINE Closed(T) == \A t \in T, q \in potential : Sooner(violating, q, t) => q \in T
           Good == {T \in SUBSET potential :
                      Closed(T) => (V \cap T) \cup (potential \ T) \in EnoughSets}
<1>1. {} \in Good
  <2>1. (V \cap {}) \cup (potential \ {}) = potential
    OBVIOUS
  <2> QED  BY <2>1
<1>2. ASSUME NEW T \in SUBSET potential, NEW x \in potential \ T, T \in Good,
             \A t \in T : Sooner(violating, t, x), Closed(T \cup {x})
      PROVE  (V \cap (T \cup {x})) \cup (potential \ (T \cup {x})) \in EnoughSets
  <2>1. \A q \in potential :
           /\ q = x => ~Sooner(violating, q, x)
           /\ q # x => Sooner(violating, q, x) \/ Sooner(violating, x, q)
           /\ ~(Sooner(violating, q, x) /\ Sooner(violating, x, q))
    BY SoonerOrder
  <2>2. \A q \in potential : Sooner(violating, q, x) <=> q \in T
    BY <1>2, <2>1
  <2>3. Closed(T)
    BY <1>2, <2>1
  <2>4. Gone(violating, potential, x, V) = (V \cap T) \cup (potential \ (T \cup {x}))
    BY <2>1, <2>2 DEF Gone
  <2>5. CASE x \in V
    <3>1. (V \cap (T \cup {x})) \cup (potential \ (T \cup {x})) = (V \cap T) \cup (potential \ T)
      BY <2>5
    <3> QED  BY <1>2, <2>3, <3>1
  <2>6. CASE x \notin V
    <3>1. (V \cap (T \cup {x})) \cup (potential \ (T \cup {x})) = Gone(violating, potential, x, V)
      BY <2>4, <2>6
    <3> QED  BY <2>6, <3>1
  <2> QED  BY <2>5, <2>6
<1>3. SUBSET potential \subseteq Good
  <2>1. \A T \in SUBSET potential : \A x \in potential \ T :
          T \in Good /\ (\A t \in T : Sooner(violating, t, x)) => T \cup {x} \in Good
    BY <1>2
  <2> HIDE DEF Good
  <2> QED  BY <1>1, <2>1, BySparing
<1>4. potential \in Good /\ Closed(potential) /\ (V \cap potential) \cup (potential \ potential) = V
  BY <1>3
<1> QED  BY <1>4

\* On a node that is a candidate selectVictimsOnNode returns pods of the node
\* without which the preemptor fits and exceeds no quota, on the snapshot.
LEMMA SelectedSuitable ==
    ASSUME NEW view, NEW p, NEW n, NEW violating \in SUBSET Pods,
           view.on[n] \in SUBSET Pods, Preemptible(view, p, n)
    PROVE  /\ SelectVictimsOnNode(view, p, n, violating) \in SUBSET Pods
           /\ Suitable(view, p, n, SelectVictimsOnNode(view, p, n, violating))
<1> DEFINE potential == Potential(view, p, n)
           EnoughSets == {V \in SUBSET Pods : Suitable(view, p, n, V)}
           Spared(q, V) == Suitable(view, p, n, Gone(violating, potential, q, V))
           victims == CHOOSE V \in SUBSET potential : \A q \in potential : q \in V <=> ~Spared(q, V)
<1>1. SelectVictimsOnNode(view, p, n, violating) = victims
  BY DEF SelectVictimsOnNode, Gone
<1>2. potential \in SUBSET Pods /\ potential \in EnoughSets
  BY DEF Preemptible, Potential
<1>3. ASSUME NEW V \in SUBSET potential, NEW q \in potential
      PROVE  Spared(q, V) <=> Gone(violating, potential, q, V) \in EnoughSets
  <2>1. Gone(violating, potential, q, V) \in SUBSET Pods
    BY <1>2 DEF Gone
  <2> QED  BY <2>1
<1> HIDE DEF potential, EnoughSets, Spared
<1>4. \E V \in SUBSET potential : \A q \in potential : q \in V <=> ~Spared(q, V)
  <2>1. PICK V \in SUBSET potential : \A q \in potential :
               q \in V <=> ~(Gone(violating, potential, q, V) \in EnoughSets)
    BY <1>2, VictimsExist
  <2> QED  BY <1>3, <2>1
<1>5. victims \in SUBSET potential /\ \A q \in potential : q \in victims <=> ~Spared(q, victims)
  BY <1>4
<1> HIDE DEF victims
<1>6. victims \in EnoughSets
  <2>1. \A q \in potential :
           q \in victims <=> ~(Gone(violating, potential, q, victims) \in EnoughSets)
    BY <1>3, <1>5
  <2> QED  BY <1>2, <1>5, <2>1, VictimsSuffice
<1> QED  BY <1>1, <1>6 DEF EnoughSets

\* Without the pods of V an entry counts the others and keeps its limits.
LEMMA WithoutVictims ==
    ASSUME NEW books, Books(books), NEW V \in SUBSET Pods, NEW n \in Namespaces
    PROVE  /\ Without(books, V)[n] = NoQuota <=> books[n] = NoQuota
           /\ books[n] # NoQuota =>
                /\ Without(books, V)[n].used = Total[books[n].pods \ V]
                /\ Without(books, V)[n].min = books[n].min /\ Without(books, V)[n].max = books[n].max
                /\ books[n].min \in Nat /\ books[n].max \in Nat /\ Total[books[n].pods \ V] \in Nat
                /\ books[n].pods \in SUBSET Pods
<1>1. CASE books[n] = NoQuota
  BY <1>1 DEF Without
<1>2. CASE books[n] # NoQuota
  <2> DEFINE info == books[n]
             new  == [info EXCEPT !.pods = @ \ V, !.used = @ - Total[V \cap info.pods]]
  <2>1. info \in Infos /\ info.used = Total[info.pods]
    BY <1>2 DEF Books
  <2>2. info.pods \in SUBSET Pods /\ info.pods \ V \in SUBSET Pods /\ V \cap info.pods \in SUBSET Pods
    BY <2>1 DEF Infos
  <2>3. /\ (info.pods \ V) \cup (V \cap info.pods) = info.pods
        /\ (info.pods \ V) \cap (V \cap info.pods) = {}
    OBVIOUS
  <2>4. Total[info.pods] = Total[info.pods \ V] + Total[V \cap info.pods]
    <3> HIDE DEF info
    <3>1. Total[(info.pods \ V) \cup (V \cap info.pods)] = Total[info.pods \ V] + Total[V \cap info.pods]
      BY <2>2, <2>3, TotalDisjoint
    <3> QED  BY <2>3, <3>1, Zenon
  <2>5. Total[info.pods \ V] \in Nat /\ Total[V \cap info.pods] \in Nat
    BY <2>2, TotalAssumption
  <2>6. info.used - Total[V \cap info.pods] = Total[info.pods \ V]
    <3> HIDE DEF info
    <3> QED  BY <2>1, <2>4, <2>5
  <2>7. new \in Infos /\ new.used = Total[info.pods \ V] /\ new.min = info.min /\ new.max = info.max
    <3> HIDE DEF info
    <3> QED  BY <2>1, <2>2, <2>5, <2>6 DEF Infos
  <2>8. Without(books, V)[n] = new /\ new # NoQuota
    <3>1. Without(books, V)[n] = new
      BY <1>2 DEF Without
    <3> HIDE DEF new
    <3> QED  BY <2>7, <3>1, SpecAssumption
  <2>9. info.min \in Nat /\ info.max \in Nat
    BY <2>1 DEF Infos
  <2> HIDE DEF new
  <2> QED  BY <1>2, <2>2, <2>5, <2>7, <2>8, <2>9
<1> QED  BY <1>1, <1>2

\* A pod that exceeds no quota exceeds none when fewer pods are counted and the
\* limits are no lower.
LEMMA OverQuotaMonotone ==
    ASSUME NEW new, NEW old, Books(new), Books(old), Within(new, old),
           NEW V \in SUBSET Pods, NEW p \in Pods, ~OverQuota(Without(old, V), p)
    PROVE  ~OverQuota(Without(new, V), p)
<1> DEFINE O == Without(old, V)
           N == Without(new, V)
           K == {n \in Namespaces : O[n] # NoQuota}
           used(b) == [n \in K |-> b[n].used]
           min(b)  == [n \in K |-> b[n].min]
<1>1. ASSUME NEW n \in Namespaces
      PROVE  /\ N[n] = NoQuota <=> O[n] = NoQuota
             /\ O[n] # NoQuota =>
                  /\ N[n].used \in Nat /\ O[n].used \in Nat /\ N[n].used <= O[n].used
                  /\ N[n].min \in Nat /\ O[n].min \in Nat /\ O[n].min <= N[n].min
                  /\ N[n].max \in Nat /\ O[n].max \in Nat /\ O[n].max <= N[n].max
  <2>1. /\ O[n] = NoQuota <=> old[n] = NoQuota
        /\ old[n] # NoQuota =>
             /\ O[n].used = Total[old[n].pods \ V]
             /\ O[n].min = old[n].min /\ O[n].max = old[n].max
             /\ old[n].min \in Nat /\ old[n].max \in Nat /\ Total[old[n].pods \ V] \in Nat
             /\ old[n].pods \in SUBSET Pods
    BY WithoutVictims
  <2>2. /\ N[n] = NoQuota <=> new[n] = NoQuota
        /\ new[n] # NoQuota =>
             /\ N[n].used = Total[new[n].pods \ V]
             /\ N[n].min = new[n].min /\ N[n].max = new[n].max
             /\ new[n].min \in Nat /\ new[n].max \in Nat /\ Total[new[n].pods \ V] \in Nat
    BY WithoutVictims
  <2>3. /\ new[n] = NoQuota <=> old[n] = NoQuota
        /\ old[n] # NoQuota => new[n].pods \subseteq old[n].pods /\ NoMore(old[n], new[n])
    BY DEF Within
  <2> HIDE DEF O, N
  <2>4. ASSUME old[n] # NoQuota PROVE Total[new[n].pods \ V] <= Total[old[n].pods \ V]
    <3>1. old[n].pods \ V \in SUBSET Pods /\ new[n].pods \ V \in SUBSET (old[n].pods \ V)
      BY <2>1, <2>3, <2>4
    <3> QED  BY <3>1, TotalMonotone
  <2> QED  BY <2>1, <2>2, <2>3, <2>4 DEF NoMore
<1>2. Ns[p] \in Namespaces /\ Req[p] \in Nat
  BY PodAssumption, TotalAssumption
<1>3. CASE O[Ns[p]] = NoQuota
  BY <1>1, <1>2, <1>3 DEF OverQuota
<1>4. CASE O[Ns[p]] # NoQuota
  <2>1. ~OverMax(O[Ns[p]], p) /\ ~OverAggregatedMin(O, p)
    BY <1>4 DEF OverQuota
  <2>2. ~OverMax(N[Ns[p]], p)
    <3> HIDE DEF O, N
    <3> QED  BY <1>1, <1>2, <1>4, <2>1 DEF OverMax
  <2>3. K = {n \in Namespaces : N[n] # NoQuota}
    BY <1>1
  <2>4. IsFiniteSet(K) /\ K \subseteq Namespaces
    BY PodAssumption, FS_Subset
  <2>5. /\ used(O) \in [K -> Nat] /\ used(N) \in [K -> Nat] /\ \A n \in K : used(N)[n] <= used(O)[n]
        /\ min(O) \in [K -> Nat] /\ min(N) \in [K -> Nat] /\ \A n \in K : min(O)[n] <= min(N)[n]
    BY <1>1
  <2>6. ~(AddUp(used(O)) + Req[p] > AddUp(min(O)))
    BY <2>1 DEF OverAggregatedMin
  <2>7. OverAggregatedMin(N, p) <=> AddUp(used(N)) + Req[p] > AddUp(min(N))
    BY <2>3, Zenon DEF OverAggregatedMin
  <2> HIDE DEF O, N, K, used, min
  <2>8. AddUp(used(N)) <= AddUp(used(O)) /\ AddUp(min(O)) <= AddUp(min(N))
    BY <2>4, <2>5, AddUpMonotone
  <2>9. /\ AddUp(used(N)) \in Nat /\ AddUp(used(O)) \in Nat
        /\ AddUp(min(O)) \in Nat /\ AddUp(min(N)) \in Nat
    BY <2>4, <2>5, AddUpStep
  <2>10. ~(AddUp(used(N)) + Req[p] > AddUp(min(N)))
    BY <1>2, <2>6, <2>8, <2>9
  <2> QED  BY <2>2, <2>7, <2>10 DEF OverQuota, N
<1> QED  BY <1>3, <1>4

\* A pod that fits on a node fits when pods have left the node and no other pod
\* has been nominated to it.
LEMMA FitsKept ==
    ASSUME NEW view, NEW p \in Pods, NEW n \in Nodes, NEW V \in SUBSET Pods, Fits(view, p, n, V),
           view.on[n] \in SUBSET Pods, On(n)' \subseteq view.on[n], n \notin cordoned',
           \A q \in Pods \ {p} : nominated'[q] = nominated[q] \/ nominated'[q] = NoNode
    PROVE  Fits(Now, p, n, V)'
<1> DEFINE left    == view.on[n] \ V
           others  == {q \in Pods \ (left \cup {p}) : nominated[q] = n /\ Priority[q] >= Priority[p]}
           left2   == On(n)' \ V
           others2 == {q \in Pods \ (left2 \cup {p}) : nominated'[q] = n /\ Priority[q] >= Priority[p]}
<1>1. left \cup others \in SUBSET Pods /\ left2 \cup others2 \in SUBSET (left \cup others)
  BY NodeAssumption
<1>2. Total[left \cup others] + Req[p] <= Room[n]
  BY DEF Fits
<1>3. Fits(Now, p, n, V)' <=> n \notin cordoned' /\ Total[left2 \cup others2] + Req[p] <= Room[n]
  BY DEF Fits, Now
<1> HIDE DEF left, others, left2, others2
<1>4. left2 \cup others2 \in SUBSET Pods
  BY <1>1
<1>5. Total[left2 \cup others2] <= Total[left \cup others]
  BY <1>1, TotalMonotone
<1>6. /\ Total[left \cup others] \in Nat /\ Total[left2 \cup others2] \in Nat
      /\ Req[p] \in Nat /\ Room[n] \in Nat
  BY <1>1, <1>4, TotalAssumption, NodeAssumption
<1> QED  BY <1>2, <1>3, <1>5, <1>6

\* Victims that are enough go on being enough while the cluster gets emptier.
LEMMA EnoughKept ==
    ASSUME IInv, IInv', Within(infos', infos), NEW p \in Pods, NEW n \in Nodes, NEW V \in SUBSET Pods,
           \A m \in Nodes : On(m)' \subseteq On(m), cordoned \subseteq cordoned',
           \A q \in Pods \ {p} : nominated'[q] = nominated[q] \/ nominated'[q] = NoNode,
           Enough(p, n, V)
    PROVE  Enough(p, n, V)'
<1>1. Books(infos) /\ Books(infos')
  BY DEF IInv, TypeOK, AllBalanced, Balanced, Books
<1>2. ~OverQuota(Without(infos', V), p)
  BY <1>1, OverQuotaMonotone DEF Enough
<1>3. ASSUME n \notin cordoned' PROVE Fits(Now, p, n, V)'
  <2>1. Now.on[n] = On(n) /\ On(n) \in SUBSET Pods
    BY DEF Now, On
  <2>2. Fits(Now, p, n, V)
    BY <1>3 DEF Enough
  <2> QED  BY <1>3, <2>1, <2>2, FitsKept
<1>4. OverQuota(Without(infos, V), p)' <=> OverQuota(Without(infos', V), p)
  BY DEF OverQuota, Without, OverMax, OverAggregatedMin
<1> QED  BY <1>2, <1>3, <1>4 DEF Enough

\* Binding goroutines and informers count no further pod and lower no limit.
LEMMA BooksShrink ==
    ASSUME IInv, CountInv, LimitInv,
           \/ UNCHANGED infos
           \/ \E p \in Pods : Unreserve(p) \/ Handlers(p)
           \/ \E n \in Namespaces : UpdateElasticQuota(n)
    PROVE  Within(infos', infos)
<1>t. infos \in [Namespaces -> Infos \cup {NoQuota}]
  BY DEF IInv, TypeOK
<1>m. \A n \in Namespaces : infos[n] # NoQuota => NoMore(infos[n], infos[n])
  BY <1>t DEF Infos, NoMore
<1>1. CASE UNCHANGED infos
  BY <1>m, <1>1 DEF Within
<1>2. ASSUME NEW p \in Pods, Unreserve(p) \/ UpdatePod(p) \/ DeletePodHandler(p)
      PROVE  Within(infos', infos)
  <2>1. SetInfo(Ns[p], DeletePodIfPresent(infos[Ns[p]], p))
    BY <1>2 DEF Unreserve, UpdatePod, DeletePodHandler
  <2>2. \A n \in Namespaces :
          /\ (infos'[n] = NoQuota) <=> (infos[n] = NoQuota)
          /\ infos[n] # NoQuota =>
               /\ infos'[n].pods = IF n = Ns[p] THEN infos[Ns[p]].pods \ {p} ELSE infos[n].pods
               /\ infos'[n].min = infos[n].min /\ infos'[n].max = infos[n].max
    BY <2>1, EntryWritten
  <2> QED  BY <1>m, <2>2 DEF Within, NoMore
<1>3. ASSUME NEW p \in Pods, AddPod(p) PROVE Within(infos', infos)
  <2>1. SetInfo(Ns[p], AddPodIfNotPresent(infos[Ns[p]], p))
    BY <1>3, PodAssumption DEF AddPod, CountInv, EntryForQuota
  <2>2. \A n \in Namespaces :
          /\ (infos'[n] = NoQuota) <=> (infos[n] = NoQuota)
          /\ infos[n] # NoQuota =>
               /\ infos'[n].pods = IF n = Ns[p] THEN infos[Ns[p]].pods \cup {p} ELSE infos[n].pods
               /\ infos'[n].min = infos[n].min /\ infos'[n].max = infos[n].max
    BY <2>1, EntryWritten
  <2>3. infos[Ns[p]] # NoQuota => p \in infos[Ns[p]].pods
    BY <1>3 DEF AddPod, CountInv, ToldTrue, CountedExactly, Counts
  <2> QED  BY <1>m, <2>2, <2>3 DEF Within, NoMore
<1>4. ASSUME NEW n \in Namespaces, UpdateElasticQuota(n) PROVE Within(infos', infos)
  <2>1. /\ infos[n] # NoQuota /\ infos'[n] # NoQuota /\ infos'[n].pods = infos[n].pods
        /\ infos'[n].min = Head(events[n]).new.min /\ infos'[n].max = Head(events[n]).new.max
        /\ \A m \in Namespaces \ {n} : infos'[m] = infos[m]
    BY <1>4, UpdateKeepsPods DEF CountInv
  <2>2. n \in Known
    BY <2>1 DEF Known, CountInv, EntryForQuota
  <2>3. Head(events[n]) = events[n][1] /\ 1 \in 1 .. Len(events[n])
    <3>1. events[n] \in Seq([old : Quotas, new : Quotas]) /\ events[n] # <<>>
      BY <1>4 DEF IInv, TypeOK, UpdateElasticQuota
    <3> QED  BY <3>1
  <2>4. NoMore(infos[n], infos'[n])
    BY <2>1, <2>2, <2>3 DEF LimitInv, SpecsBehind, NoMore
  <2> QED  BY <1>m, <2>1, <2>4 DEF Within
<1> QED  BY <1>1, <1>2, <1>3, <1>4 DEF Handlers

\* A step that leaves the cycle alone and makes the cluster no fuller.
LEMMA CycleKept ==
    ASSUME IInv, IInv', CycleInv, UNCHANGED cycle, Within(infos', infos),
           \A m \in Nodes : On(m)' \subseteq On(m), cordoned \subseteq cordoned',
           \A q \in Pods : nominated'[q] = nominated[q] \/ nominated'[q] = NoNode
    PROVE  CycleInv'
<1> SUFFICES ASSUME cycle # NoCycle PROVE CycleInv'
  BY DEF CycleInv
<1>1. CASE SnapshotFuller
  <2>1. Within(infos', cycle.infos)
    <3>1. Within(infos, cycle.infos) /\ Books(cycle.infos)
      BY <1>1 DEF SnapshotFuller
    <3>2. Books(infos) /\ Books(infos')
      BY DEF IInv, TypeOK, AllBalanced, Balanced, Books
    <3> QED  BY <3>1, <3>2 DEF Within, NoMore, Books, Infos
  <2>2. SnapshotFuller'
    <3>1. (\A m \in Nodes : On(m) \subseteq cycle.on[m])'
      BY <1>1 DEF SnapshotFuller
    <3>2. Books(cycle.infos)' /\ Within(infos, cycle.infos)'
      BY <1>1, <2>1 DEF SnapshotFuller, Books, Within, NoMore
    <3> QED  BY <1>1, <3>1, <3>2 DEF SnapshotFuller
  <2> QED  BY <2>2 DEF CycleInv
<1>2. CASE cycle.stage = "select" /\ CandidatesEnough
  <2>1. cycle.pod \in Pods
    BY <1>2 DEF CandidatesEnough
  <2>2. ASSUME NEW n \in DOMAIN cycle.candidates
        PROVE  /\ n \in Nodes /\ cycle.candidates[n] \subseteq Pods
               /\ Enough(cycle.pod, n, cycle.candidates[n])'
    <3>1. n \in Nodes /\ cycle.candidates[n] \in SUBSET Pods /\ Enough(cycle.pod, n, cycle.candidates[n])
      BY <1>2 DEF CandidatesEnough
    <3> DEFINE p == cycle.pod
               V == cycle.candidates[n]
    <3>2. ASSUME NEW P, NEW W, P = p, W = V PROVE Enough(P, n, W)'
      <4>1. Enough(P, n, W) /\ P \in Pods /\ W \in SUBSET Pods
        BY <2>1, <3>1, <3>2
      <4> QED  BY <3>1, <4>1, EnoughKept
    <3> QED  BY <3>1, <3>2 DEF Enough, Fits, Now, OverQuota, Without
  <2>3. CandidatesEnough'
    BY <2>1, <2>2 DEF CandidatesEnough
  <2> QED  BY <1>2, <2>3 DEF CycleInv
<1>3. CASE VictimsEnough
  <2>1. cycle.pod \in Pods /\ cycle.node \in Nodes /\ cycle.victims \in SUBSET Pods
    BY <1>3 DEF VictimsEnough
  <2>2. Enough(cycle.pod, cycle.node, cycle.victims)'
    <3>1. ASSUME NEW P, NEW N, NEW W, P = cycle.pod, N = cycle.node, W = cycle.victims
          PROVE  Enough(P, N, W)'
      <4>1. Enough(P, N, W) /\ P \in Pods /\ N \in Nodes /\ W \in SUBSET Pods
        BY <1>3, <2>1, <3>1 DEF VictimsEnough
      <4> QED  BY <4>1, EnoughKept
    <3> QED  BY <3>1
  <2>3. VictimsEnough'
    BY <1>3, <2>2 DEF VictimsEnough
  <2> QED  BY <2>3 DEF CycleInv
<1> QED  BY <1>1, <1>2, <1>3 DEF CycleInv

\* When a pod's life goes on, nodes and nominations at most lose pods.
LEMMA ForgetEmpties ==
    ASSUME QTypeOK, Forget
    PROVE  /\ QTypeOK' /\ cordoned' = cordoned
           /\ \A m \in Nodes : On(m)' \subseteq On(m)
           /\ \A q \in Pods : nominated'[q] = nominated[q] \/ nominated'[q] = NoNode
  BY NodeAssumption DEF QTypeOK, Forget, On

\* In which stage a cycle is tells what is known about it.
LEMMA SnapshotStages ==
    ASSUME CycleInv, NEW p, NEW stage, InStage(p, stage)
    PROVE  /\ stage \in {"filter", "postfilter"} => SnapshotFuller
           /\ stage = "select" => CandidatesEnough
           /\ stage = "evict" => VictimsEnough
  BY DEF CycleInv, InStage, SnapshotFuller, Snapshots, VictimsEnough

\* The scheduling goroutine itself: victims that it chooses on the snapshot are
\* enough in the cluster as it is.
LEMMA SchedulingStep ==
    ASSUME IInv, IInv', CountInv, LimitInv, QTypeOK, CycleInv, NEW p \in Pods, Scheduling(p)
    PROVE  QTypeOK' /\ CycleInv'
<1>t. /\ infos \in [Namespaces -> Infos \cup {NoQuota}] /\ Books(infos) /\ Within(infos, infos)
  <2>1. infos \in [Namespaces -> Infos \cup {NoQuota}] /\ Books(infos)
    BY DEF IInv, TypeOK, AllBalanced, Balanced, Books
  <2> QED  BY <2>1 DEF Within, NoMore, Infos
<1>1. CASE PreFilterPass(p) \/ PreFilterRefuse(p)
  <2>1. UNCHANGED <<infos, where, cordoned, terminating, nominated>>
    BY <1>1 DEF PreFilterPass, PreFilterRefuse, PreFilter, vars, cluster
  <2>2. PICK stage \in {"filter", "postfilter"} : StartCycle(p, stage)
    BY <1>1 DEF PreFilterPass, PreFilterRefuse
  <2>3. QTypeOK'
    BY <2>1 DEF QTypeOK
  <2>4. cycle' \in Snapshots /\ cycle'.infos = infos /\ cycle'.on = [n \in Nodes |-> On(n)]
    <3>1. Now.on = [n \in Nodes |-> On(n)] /\ [n \in Nodes |-> On(n)] \in [Nodes -> SUBSET Pods]
      BY DEF Now, On
    <3> QED  BY <1>t, <2>2, <3>1 DEF StartCycle, Snapshots, QTypeOK
  <2>5. \A n \in Nodes : On(n)' = On(n) /\ cycle'.on[n] = On(n)
    BY <2>1, <2>4 DEF On
  <2>6. Books(cycle'.infos) /\ Within(infos', cycle'.infos)
    BY <1>t, <2>1, <2>4
  <2>7. SnapshotFuller'
    BY <2>4, <2>5, <2>6 DEF SnapshotFuller, Snapshots, Books, Within, NoMore
  <2> QED  BY <2>3, <2>7 DEF CycleInv
<1>2. CASE NoNodeFits(p)
  <2>1. UNCHANGED <<infos, where, cordoned, terminating, nominated>> /\ InStage(p, "filter")
    BY <1>2 DEF NoNodeFits, FilterFail, cluster
  <2>2. SnapshotFuller
    BY <2>1, SnapshotStages
  <2>3. cycle' \in Snapshots /\ cycle'.infos = cycle.infos /\ cycle'.on = cycle.on
    BY <1>2, <2>2 DEF NoNodeFits, SnapshotFuller, Snapshots
  <2>4. SnapshotFuller'
    BY <2>1, <2>2, <2>3 DEF SnapshotFuller, Snapshots, Books, Within, NoMore, On
  <2> QED  BY <2>1, <2>4 DEF CycleInv, QTypeOK
<1>3. CASE NotEligible(p) \/ NoCandidates(p)
  BY <1>3 DEF NotEligible, NoCandidates, CycleInv, QTypeOK, cluster
<1>4. CASE Nominate(p)
  <2>1. cycle.node \in Nodes
    BY <1>4, SnapshotStages DEF Nominate, VictimsEnough
  <2> QED  BY <1>4, <2>1 DEF Nominate, CycleInv, QTypeOK
<1>5. ASSUME NEW n \in Nodes, Place(p, n) PROVE QTypeOK' /\ CycleInv'
  BY <1>5 DEF Place, CycleInv, QTypeOK
<1>6. CASE FindCandidates(p)
  <2>0. PICK violating \in SUBSET Pods :
          cycle' = [pod |-> p, stage |-> "select",
                    candidates |-> DryRunPreemption(cycle, NodesWherePreemptionMightHelp, p, violating)]
    BY <1>6 DEF FindCandidates
  <2> DEFINE nodes == NodesWherePreemptionMightHelp
             dry   == DryRunPreemption(cycle, nodes, p, violating)
  <2>1. /\ UNCHANGED <<vars, where, cordoned, terminating>> /\ InStage(p, "postfilter")
        /\ cycle' = [pod |-> p, stage |-> "select", candidates |-> dry]
    BY <1>6, <2>0 DEF FindCandidates
  <2>2. \A q \in Pods \ {p} : nominated'[q] = nominated[q]
    BY <1>6 DEF FindCandidates, QTypeOK
  <2>3. QTypeOK'
    BY <1>6 DEF FindCandidates, QTypeOK
  <2>4. SnapshotFuller
    BY <2>1, SnapshotStages
  <2>5. ASSUME NEW n \in DOMAIN dry
        PROVE  n \in Nodes /\ dry[n] \in SUBSET Pods /\ \A V : V = dry[n] => Enough(p, n, V)'
    <3>1. n \in Nodes /\ Preemptible(cycle, p, n) /\ dry[n] = SelectVictimsOnNode(cycle, p, n, violating)
      BY DEF DryRunPreemption, NodesWherePreemptionMightHelp
    <3>2. cycle.on[n] \in SUBSET Pods /\ On(n)' \subseteq cycle.on[n]
      BY <2>1, <2>4, <3>1 DEF SnapshotFuller, Snapshots, On
    <3>3. PICK V : V = SelectVictimsOnNode(cycle, p, n, violating)
      OBVIOUS
    <3>4. V \in SUBSET Pods /\ Suitable(cycle, p, n, V)
      BY <3>1, <3>2, <3>3, SelectedSuitable
    <3>5. Fits(cycle, p, n, V) /\ ~OverQuota(Without(cycle.infos, V), p)
      BY <3>4 DEF Suitable
    <3>6. infos' = infos
      BY <2>1 DEF vars
    <3>7. ~OverQuota(Without(infos', V), p)
      BY <1>t, <2>4, <3>4, <3>5, <3>6, OverQuotaMonotone DEF SnapshotFuller
    <3>8. n \notin cordoned' => Fits(Now, p, n, V)'
      BY <2>2, <3>1, <3>2, <3>4, <3>5, FitsKept
    <3>9. OverQuota(Without(infos, V), p)' <=> OverQuota(Without(infos', V), p)
      BY DEF OverQuota, Without, OverMax, OverAggregatedMin
    <3>10. Enough(p, n, V)'
      BY <3>7, <3>8, <3>9 DEF Enough
    <3> QED  BY <3>1, <3>3, <3>4, <3>10
  <2>6. cycle'.stage = "select" /\ cycle'.pod = p /\ cycle'.candidates = dry
    BY <2>1
  <2> HIDE DEF dry
  <2>7. CandidatesEnough'
    BY <2>5, <2>6 DEF CandidatesEnough
  <2> QED  BY <2>3, <2>6, <2>7 DEF CycleInv
<1>7. ASSUME NEW n \in Nodes, SelectCandidate(p, n) PROVE QTypeOK' /\ CycleInv'
  <2>1. /\ UNCHANGED <<vars, cluster>> /\ InStage(p, "select") /\ n \in DOMAIN cycle.candidates
        /\ cycle' = [pod |-> p, stage |-> "evict", node |-> n,
                     victims |-> cycle.candidates[n], left |-> cycle.candidates[n]]
    BY <1>7 DEF SelectCandidate
  <2>2. cycle.pod = p /\ cycle.candidates[n] \in SUBSET Pods /\ Enough(p, n, cycle.candidates[n])
    BY <2>1, SnapshotStages DEF CandidatesEnough, InStage
  <2>3. ASSUME NEW W, W = cycle.candidates[n] PROVE Enough(p, n, W)'
    <3>1. UNCHANGED <<infos, where, cordoned, nominated>> /\ \A m \in Nodes : On(m)' = On(m)
      BY <2>1 DEF vars, cluster, On
    <3>2. Within(infos', infos) /\ W \in SUBSET Pods /\ Enough(p, n, W)
      BY <1>t, <2>2, <2>3, <3>1
    <3> QED  BY <3>1, <3>2, EnoughKept
  <2>4. VictimsEnough'
    <3>1. cycle' \in [pod : Pods, stage : {"evict"}, node : Nodes, victims : SUBSET Pods,
                      left : SUBSET Pods]
      BY <2>1, <2>2
    <3>2. cycle'.pod = p /\ cycle'.node = n /\ cycle'.victims = cycle.candidates[n]
      BY <2>1
    <3> QED  BY <2>3, <3>1, <3>2 DEF VictimsEnough
  <2> QED  BY <2>1, <2>4 DEF CycleInv, QTypeOK, cluster
<1>8. ASSUME NEW v \in Pods, Evict(p, v) PROVE QTypeOK' /\ CycleInv'
  <2>1. VictimsEnough
    BY <1>8, SnapshotStages DEF Evict
  <2>2. CASE cycle' = NoCycle /\ UNCHANGED <<vars, cluster>>
    BY <2>2 DEF CycleInv, QTypeOK, cluster
  <2>3. CASE /\ AskToEnd(v) \/ DeleteNow(v)
             /\ cycle' = [cycle EXCEPT !.left = @ \ {v}]
    <3>1. /\ QTypeOK' /\ cordoned \subseteq cordoned' /\ UNCHANGED infos
          /\ \A m \in Nodes : On(m)' \subseteq On(m)
          /\ \A q \in Pods : nominated'[q] = nominated[q] \/ nominated'[q] = NoNode
      <4>1. CASE AskToEnd(v)
        BY <4>1 DEF AskToEnd, QTypeOK, On, vars
      <4>2. CASE DeleteNow(v)
        BY <4>2, ForgetEmpties DEF DeleteNow, DeletePod
      <4> QED  BY <2>3, <4>1, <4>2
    <3>2. Within(infos', infos)
      BY <1>t, <3>1
    <3>3. /\ cycle' \in [pod : Pods, stage : {"evict"}, node : Nodes, victims : SUBSET Pods,
                         left : SUBSET Pods]
          /\ cycle'.pod = cycle.pod /\ cycle'.node = cycle.node /\ cycle'.victims = cycle.victims
      BY <2>1, <2>3 DEF VictimsEnough
    <3>4. ASSUME NEW P, NEW N, NEW W, P = cycle.pod, N = cycle.node, W = cycle.victims
          PROVE  Enough(P, N, W)'
      <4>1. Enough(P, N, W) /\ P \in Pods /\ N \in Nodes /\ W \in SUBSET Pods
        BY <2>1, <3>4 DEF VictimsEnough
      <4> QED  BY <3>1, <3>2, <4>1, EnoughKept
    <3>5. VictimsEnough'
      BY <3>3, <3>4 DEF VictimsEnough
    <3> QED  BY <3>1, <3>5 DEF CycleInv
  <2> QED  BY <1>8, <2>2, <2>3 DEF Evict
<1> QED  BY <1>1, <1>2, <1>3, <1>4, <1>5, <1>6, <1>7, <1>8 DEF Scheduling

\* Goroutines, informers, kubelets and users go on while the cycle is under way.
LEMMA AroundStep ==
    ASSUME IInv, IInv', CountInv, LimitInv, QTypeOK, CycleInv, World \/ Disturbance
    PROVE  QTypeOK' /\ CycleInv'
<1>1. ASSUME NEW p \in Pods,
             Background(p) \/ Terminate(p) \/ Create(p) \/ End(p) \/ Delete(p)
      PROVE  QTypeOK' /\ CycleInv'
  <2>1. Forget /\ UNCHANGED cycle /\ (UNCHANGED infos \/ Unreserve(p) \/ Handlers(p))
    BY <1>1 DEF Background, Terminate, Create, End, Delete, DeleteNow, DeletePod, Bind, CreatePod,
                FinishPod
  <2>2. Within(infos', infos)
    BY <2>1, BooksShrink
  <2> QED  BY <2>1, <2>2, ForgetEmpties, CycleKept
<1>2. ASSUME NEW n \in Namespaces, QuotaHandler(n) \/ Change(n)
      PROVE  QTypeOK' /\ CycleInv'
  <2>1. UNCHANGED <<cluster, cycle>> /\ (UNCHANGED infos \/ UpdateElasticQuota(n))
    BY <1>2 DEF QuotaHandler, Change, ChangeSpec, SetQuota
  <2>2. Within(infos', infos)
    BY <2>1, BooksShrink
  <2>3. QTypeOK' /\ \A m \in Nodes : On(m)' = On(m)
    BY <2>1 DEF cluster, QTypeOK, On
  <2> QED  BY <2>1, <2>2, <2>3, CycleKept DEF cluster
<1>3. ASSUME NEW n \in Nodes, Cordon(n) PROVE QTypeOK' /\ CycleInv'
  <2>1. UNCHANGED <<vars, where, terminating, nominated, cycle>> /\ cordoned' = cordoned \cup {n}
    BY <1>3 DEF Cordon
  <2>2. Within(infos', infos)
    BY <2>1, BooksShrink DEF vars
  <2>3. QTypeOK' /\ \A m \in Nodes : On(m)' = On(m)
    BY <2>1 DEF QTypeOK, On
  <2> QED  BY <2>1, <2>2, <2>3, CycleKept
<1> QED  BY <1>1, <1>2, <1>3 DEF World, Disturbance

\* What a scheduling cycle has decided on its snapshot stays good until it is over.
THEOREM CycleInvariance ==
    ASSUME Raising
    PROVE  QSpec => [](IInv /\ CountInv /\ LimitInv /\ QTypeOK /\ CycleInv)
<1> DEFINE Inv == IInv /\ CountInv /\ LimitInv /\ QTypeOK /\ CycleInv
<1>1. QInit => Inv
  <2>1. QInit => QTypeOK /\ CycleInv
    BY DEF QInit, QTypeOK, CycleInv
  <2> QED  BY <2>1, InitInv, CountInit, LimitInit DEF QInit
<1>2. Inv /\ [QNext]_qvars => Inv'
  <2> SUFFICES ASSUME Inv, [QNext]_qvars PROVE Inv'
    OBVIOUS
  <2>1. [Next]_vars
    BY QuotaSteps
  <2>2. IInv'
    BY <2>1, InvStep
  <2>3. CountInv' /\ LimitInv'
    <3>1. Steady
      BY DEF Steady, Raising
    <3> QED  BY <2>1, <3>1, CountStep, LimitStep
  <2>4. ASSUME UNCHANGED qvars PROVE QTypeOK' /\ CycleInv'
    <3>1. UNCHANGED <<infos, where, cordoned, terminating, nominated, cycle>>
      BY <2>4 DEF qvars, vars, cluster
    <3>2. QTypeOK' /\ \A m \in Nodes : On(m)' = On(m)
      BY <3>1 DEF QTypeOK, On
    <3>3. Within(infos', infos)
      BY <3>1, BooksShrink
    <3> QED  BY <2>2, <3>1, <3>2, <3>3, CycleKept
  <2>5. QTypeOK' /\ CycleInv'
    BY <2>2, <2>4, SchedulingStep, AroundStep DEF QNext
  <2> QED  BY <2>2, <2>3, <2>5
<1> QED  BY <1>1, <1>2, PTL DEF QSpec

\* The victims of a preemption, chosen on a snapshot and evicted one by one while
\* informers, binding goroutines and users go on, are enough at every moment: for
\* any number of pods, nodes and quotas whose specs only grow.
THEOREM VictimsAreEnough ==
    ASSUME Raising
    PROVE  QSpec => []EvictionSuffices
<1>1. CycleInv => EvictionSuffices
  BY DEF CycleInv, SnapshotFuller, Snapshots, VictimsEnough, Enough, EvictionSuffices
<1> QED  BY <1>1, CycleInvariance, PTL

=============================================================================
