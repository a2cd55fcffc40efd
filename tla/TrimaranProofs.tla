--------------------------- MODULE TrimaranProofs ---------------------------
(***************************************************************************)
(* Proofs about the cache of scheduled pods and about TargetLoadPacking,   *)
(* for any pods, nodes, capacities and intervals.                          *)
(*                                                                         *)
(* OnDelete and cleanupCache only ever thin out the entries of a node: an  *)
(* entry that is left keeps its place among the others.  So the entries    *)
(* stay in order and stay unique.  What Score needs is that the right ones *)
(* are left: the entry of a pod lives at least as long as the pod is       *)
(* recent, which the metrics cannot outrun, since their window ends in the *)
(* past.  Whole seconds are coarser than the clock of the entries: what is *)
(* recent in seconds is fresh for cleanupCache.                            *)
(***************************************************************************)
EXTENDS TargetLoadPacking, SumsProofs, SequenceTheorems

\* The entries w are those at the places h[1], h[2], ... of s.
Picks(s, w, h) ==
    /\ h \in [1 .. Len(w) -> 1 .. Len(s)]
    /\ \A j \in 1 .. Len(w) : w[j] = s[h[j]]
    /\ \A j, k \in 1 .. Len(w) : j < k => h[j] < h[k]

Thinned(s, w) == \E h : Picks(s, w, h)

\* Each entry is about the pod that the handler knows, under its node, and says
\* when the handler was told of it.
EntriesTrue ==
    \A n \in Nodes : \A i \in 1 .. Len(cache[n]) :
        /\ seen[cache[n][i].pod] = n
        /\ cache[n][i].at = since[cache[n][i].pod]

\* A pod has one entry.
OneEntry ==
    \A n \in Nodes : \A i, j \in 1 .. Len(cache[n]) :
        cache[n][i].pod = cache[n][j].pod => i = j

\* A pod of the last reporting interval has its entry.
RecentCached ==
    \A p \in Pods : seen[p] # NoNode /\ since[p] + IntervalTicks > now =>
        \E i \in 1 .. Len(cache[seen[p]]) : cache[seen[p]][i].pod = p

\* Nothing is dated later than now.
PastTimes == end <= Unix(now) /\ \A p \in Pods : since[p] <= now

InOrder ==
    \A n \in Nodes : \A i, j \in 1 .. Len(cache[n]) : i < j => cache[n][i].at <= cache[n][j].at

CacheInv == TLPTypeOK /\ PastTimes /\ EntriesTrue /\ OneEntry /\ InOrder /\ RecentCached

-----------------------------------------------------------------------------
\* Typing of a sequence.
LEMMA SeqTyped ==
    ASSUME NEW S, NEW s \in Seq(S)
    PROVE  Len(s) \in Nat /\ DOMAIN s = 1 .. Len(s) /\ \A i \in DOMAIN s : s[i] \in S
  OBVIOUS

\* Typing of a sequence of entries.
LEMMA EntrySeq ==
    ASSUME NEW s \in Seq(Entries)
    PROVE  /\ Len(s) \in Nat /\ DOMAIN s = 1 .. Len(s)
           /\ \A i \in 1 .. Len(s) : s[i] \in Entries /\ s[i].pod \in Pods /\ s[i].at \in 0 .. MaxTime
<1>1. Len(s) \in Nat /\ DOMAIN s = 1 .. Len(s) /\ \A i \in 1 .. Len(s) : s[i] \in Entries
  OBVIOUS
<1> QED  BY <1>1 DEF Entries

\* Taking out one entry thins the entries out, and leaves all the others.
LEMMA RemoveAtThins ==
    ASSUME NEW s \in Seq(Entries), NEW i \in 1 .. Len(s)
    PROVE  /\ RemoveAt(s, i) \in Seq(Entries)
           /\ \E h : /\ Picks(s, RemoveAt(s, i), h)
                     /\ \A j \in 1 .. Len(RemoveAt(s, i)) : h[j] # i
                     /\ \A k \in 1 .. Len(s) : k # i => \E j \in 1 .. Len(RemoveAt(s, i)) : h[j] = k
<1> DEFINE a == SubSeq(s, 1, i - 1)
           b == SubSeq(s, i + 1, Len(s))
           w == RemoveAt(s, i)
           L == Len(s) - 1
           h == [j \in 1 .. L |-> IF j < i THEN j ELSE j + 1]
<1>1. Len(s) \in Nat /\ i \in Int /\ i >= 1 /\ i <= Len(s) /\ \A k \in 1 .. Len(s) : s[k] \in Entries
  BY EntrySeq
<1>2. a \in Seq(Entries) /\ Len(a) = i - 1 /\ \A j \in 1 .. i - 1 : a[j] = s[j]
  <2>1. 1 \in Int /\ i - 1 \in Int /\ \A k \in 1 .. i - 1 : s[k] \in Entries
    BY <1>1
  <2>2. /\ a \in Seq(Entries) /\ Len(a) = IF 1 <= i - 1 THEN (i - 1) - 1 + 1 ELSE 0
        /\ \A j \in 1 .. (i - 1) - 1 + 1 : a[j] = s[1 + j - 1]
    BY <2>1, SubSeqProperties
  <2> HIDE DEF a
  <2>3. \A j \in 1 .. i - 1 : 1 + j - 1 = j /\ j \in 1 .. (i - 1) - 1 + 1
    BY <1>1
  <2> QED  BY <1>1, <2>2, <2>3
<1>3. b \in Seq(Entries) /\ Len(b) = Len(s) - i /\ \A j \in 1 .. Len(s) - i : b[j] = s[i + j]
  <2>1. i + 1 \in Int /\ Len(s) \in Int /\ \A k \in i + 1 .. Len(s) : s[k] \in Entries
    BY <1>1
  <2>2. /\ b \in Seq(Entries) /\ Len(b) = IF i + 1 <= Len(s) THEN Len(s) - (i + 1) + 1 ELSE 0
        /\ \A j \in 1 .. Len(s) - (i + 1) + 1 : b[j] = s[(i + 1) + j - 1]
    BY <2>1, SubSeqProperties
  <2> HIDE DEF b
  <2>3. \A j \in 1 .. Len(s) - i : (i + 1) + j - 1 = i + j /\ j \in 1 .. Len(s) - (i + 1) + 1
    BY <1>1
  <2> QED  BY <1>1, <2>2, <2>3
<1>4. w = a \o b
  BY DEF RemoveAt
<1> HIDE DEF a, b, w
<1>5. /\ w \in Seq(Entries) /\ Len(w) = Len(a) + Len(b)
      /\ \A j \in 1 .. Len(a) + Len(b) : w[j] = IF j <= Len(a) THEN a[j] ELSE b[j - Len(a)]
  BY <1>2, <1>3, <1>4, ConcatProperties
<1>6. L \in Nat /\ Len(w) = L /\ Len(a) + Len(b) = L
  BY <1>1, <1>2, <1>3, <1>5
<1>7. ASSUME NEW j \in 1 .. L PROVE h[j] \in 1 .. Len(s) /\ h[j] # i /\ w[j] = s[h[j]]
  <2>1. h[j] = IF j < i THEN j ELSE j + 1
    OBVIOUS
  <2> HIDE DEF h
  <2>2. w[j] = IF j <= Len(a) THEN a[j] ELSE b[j - Len(a)]
    BY <1>5, <1>6
  <2>3. CASE j < i
    <3>1. j \in 1 .. i - 1 /\ j <= Len(a)
      BY <1>1, <1>2, <2>3
    <3> QED  BY <1>1, <1>2, <2>1, <2>2, <2>3, <3>1
  <2>4. CASE ~(j < i)
    <3>1. j - (i - 1) \in 1 .. Len(s) - i /\ ~(j <= Len(a)) /\ i + (j - (i - 1)) = j + 1
      BY <1>1, <1>2, <2>4
    <3>2. w[j] = b[j - (i - 1)]
      BY <1>2, <2>2, <3>1
    <3>3. b[j - (i - 1)] = s[j + 1]
      BY <1>3, <3>1
    <3> QED  BY <1>1, <2>1, <2>4, <3>2, <3>3
  <2> QED  BY <2>3, <2>4
<1>8. \A j, k \in 1 .. L : j < k => h[j] < h[k]
  BY <1>1
<1>9. ASSUME NEW k \in 1 .. Len(s), k # i PROVE \E j \in 1 .. L : h[j] = k
  <2>1. CASE k < i
    <3>1. k \in 1 .. L /\ h[k] = k
      BY <1>1, <2>1
    <3> QED  BY <3>1
  <2>2. CASE k > i
    <3>1. k - 1 \in 1 .. L /\ h[k - 1] = k
      BY <1>1, <2>2
    <3> QED  BY <3>1
  <2> QED  BY <1>1, <1>9, <2>1, <2>2
<1>10. h \in [1 .. L -> 1 .. Len(s)]
  BY <1>7
<1> HIDE DEF h, L
<1>11. Picks(s, w, h)
  BY <1>6, <1>7, <1>8, <1>10, Zenon DEF Picks
<1>12. /\ \A j \in 1 .. Len(w) : h[j] # i
       /\ \A k \in 1 .. Len(s) : k # i => \E j \in 1 .. Len(w) : h[j] = k
  BY <1>6, <1>7, <1>9, Zenon
<1> QED  BY <1>5, <1>11, <1>12 DEF w

\* OnDelete takes out one entry of the pod, and no other.
LEMMA WithoutThins ==
    ASSUME NEW s \in Seq(Entries), NEW p \in Pods
    PROVE  /\ Without(s, p) \in Seq(Entries)
           /\ \E h : /\ Picks(s, Without(s, p), h)
                     /\ \A k \in 1 .. Len(s) : s[k].pod # p =>
                          \E j \in 1 .. Len(Without(s, p)) : h[j] = k
                     /\ (\A j, k \in 1 .. Len(s) : s[j].pod = s[k].pod => j = k) =>
                          \A j \in 1 .. Len(Without(s, p)) : s[h[j]].pod # p
<1> DEFINE I == {i \in 1 .. Len(s) : s[i].pod = p}
           w == Without(s, p)
<1>0. Len(s) \in Nat
  BY EntrySeq
<1>1. CASE I = {}
  <2>1. w = s
    BY <1>1 DEF Without, RemoveFirstMatch
  <2> DEFINE h == [j \in 1 .. Len(s) |-> j]
  <2>2. Picks(s, s, h)
    BY <1>0 DEF Picks
  <2>3. \A k \in 1 .. Len(s) : h[k] = k /\ s[k].pod # p
    BY <1>1
  <2> HIDE DEF h, w
  <2> QED  BY <2>1, <2>2, <2>3 DEF w
<1>2. CASE I # {}
  <2> DEFINE i == Min(I)
  <2>1. w = RemoveAt(s, i)
    BY <1>2 DEF Without, RemoveFirstMatch, SelectInSeq
  <2>2. i \in I
    <3>1. IsFiniteSet(I) /\ I \in SUBSET Nat
      <4>1. 1 \in Int /\ Len(s) \in Int /\ I \in SUBSET (1 .. Len(s))
        BY <1>0
      <4>2. IsFiniteSet(1 .. Len(s))
        BY <4>1, FS_Interval
      <4>3. IsFiniteSet(I)
        <5> HIDE DEF I
        <5> QED  BY <4>1, <4>2, FS_Subset
      <4> QED  BY <4>3, <1>0
    <3> HIDE DEF I
    <3>2. \E x \in I : \A y \in I : x <= y
      BY <1>2, <3>1, Smallest
    <3> QED  BY <3>2 DEF Min
  <2> HIDE DEF i, w
  <2>3. i \in 1 .. Len(s) /\ s[i].pod = p
    BY <2>2
  <2>4. /\ RemoveAt(s, i) \in Seq(Entries)
        /\ \E h : /\ Picks(s, RemoveAt(s, i), h)
                  /\ \A j \in 1 .. Len(RemoveAt(s, i)) : h[j] # i
                  /\ \A k \in 1 .. Len(s) : k # i => \E j \in 1 .. Len(RemoveAt(s, i)) : h[j] = k
    BY <2>3, RemoveAtThins
  <2>5. PICK h : /\ Picks(s, w, h)
                 /\ \A j \in 1 .. Len(w) : h[j] # i
                 /\ \A k \in 1 .. Len(s) : k # i => \E j \in 1 .. Len(w) : h[j] = k
    BY <2>1, <2>4
  <2>6. \A k \in 1 .. Len(s) : s[k].pod # p => \E j \in 1 .. Len(w) : h[j] = k
    BY <2>3, <2>5
  <2>7. ASSUME \A j, k \in 1 .. Len(s) : s[j].pod = s[k].pod => j = k, NEW j \in 1 .. Len(w)
        PROVE  s[h[j]].pod # p
    <3>1. h[j] \in 1 .. Len(s) /\ h[j] # i
      BY <2>5 DEF Picks
    <3> QED  BY <2>3, <2>7, <3>1
  <2> QED  BY <2>1, <2>4, <2>5, <2>6, <2>7 DEF w
<1> HIDE DEF w, I
<1> QED  BY <1>1, <1>2

\* What cleanupCache makes of the entries of a node: the search may leave stale
\* entries, and skips the node when it finds nothing fresh, but no fresh entry
\* is lost.
LEMMA CleanThins ==
    ASSUME NEW s \in Seq(Entries)
    PROVE  LET i == FirstFresh(s)
               w == IF i = Len(s) + 1 THEN s ELSE SubSeq(s, i, Len(s))
           IN  /\ w \in Seq(Entries)
               /\ \E h : /\ Picks(s, w, h)
                         /\ \A k \in 1 .. Len(s) : Fresh(s[k]) => \E j \in 1 .. Len(w) : h[j] = k
<1> DEFINE i == FirstFresh(s)
           w == IF i = Len(s) + 1 THEN s ELSE SubSeq(s, i, Len(s))
           F == {k \in 1 .. Len(s) : Fresh(s[k])}
<1>0. Len(s) \in Nat /\ DOMAIN s = 1 .. Len(s) /\ \A k \in 1 .. Len(s) : s[k] \in Entries
  BY EntrySeq
<1>1. CASE F = {}
  <2>1. i = Len(s) + 1
    BY <1>0, <1>1 DEF FirstFresh
  <2>2. w = s
    BY <2>1
  <2> DEFINE h == [j \in 1 .. Len(s) |-> j]
  <2>3. Picks(s, s, h)
    BY <1>0 DEF Picks
  <2>4. \A k \in 1 .. Len(s) : h[k] = k
    OBVIOUS
  <2>5. \E g : /\ Picks(s, w, g)
               /\ \A k \in 1 .. Len(s) : Fresh(s[k]) => \E j \in 1 .. Len(w) : g[j] = k
    <3> HIDE DEF h, w, i
    <3> QED  BY <2>2, <2>3, <2>4
  <2> HIDE DEF w
  <2> QED  BY <2>2, <2>5 DEF w
<1>2. CASE F # {}
  <2>1. i \in 1 .. Len(s) /\ \A j \in 1 .. i - 1 : ~Fresh(s[j])
    <3>1. IsFiniteSet(F) /\ F \in SUBSET Nat
      <4>1. 1 \in Int /\ Len(s) \in Int /\ F \in SUBSET (1 .. Len(s))
        BY <1>0
      <4>2. IsFiniteSet(1 .. Len(s))
        BY <4>1, FS_Interval
      <4>3. IsFiniteSet(F)
        <5> HIDE DEF F
        <5> QED  BY <4>1, <4>2, FS_Subset
      <4> QED  BY <4>3, <1>0
    <3>2. PICK x \in F : \A y \in F : x <= y
      <4> HIDE DEF F
      <4> QED  BY <1>2, <3>1, Smallest
    <3>3. x \in 1 .. Len(s) /\ Fresh(s[x])
      OBVIOUS
    <3>4. ASSUME NEW j \in 1 .. x - 1 PROVE ~Fresh(s[j])
      BY <1>0, <3>2, <3>3
    <3>5. i = CHOOSE k \in 1 .. Len(s) : Fresh(s[k]) /\ \A j \in 1 .. k - 1 : ~Fresh(s[j])
      BY <1>0, <3>3 DEF FirstFresh
    <3> HIDE DEF i
    <3> QED  BY <3>3, <3>4, <3>5
  <2> HIDE DEF i
  <2>2. w = SubSeq(s, i, Len(s)) /\ i \in Int /\ i >= 1 /\ i <= Len(s)
    BY <1>0, <2>1
  <2> DEFINE L == Len(s) - i + 1
             h == [j \in 1 .. L |-> i + j - 1]
  <2> HIDE DEF w
  <2>3. /\ w \in Seq(Entries) /\ Len(w) = L /\ L \in Nat
        /\ \A j \in 1 .. L : w[j] = s[i + j - 1]
    <3>1. Len(s) \in Int /\ i \in Int /\ \A k \in i .. Len(s) : s[k] \in Entries
      BY <1>0, <2>2
    <3>2. /\ SubSeq(s, i, Len(s)) \in Seq(Entries)
          /\ Len(SubSeq(s, i, Len(s))) = IF i <= Len(s) THEN Len(s) - i + 1 ELSE 0
          /\ \A j \in 1 .. Len(s) - i + 1 : SubSeq(s, i, Len(s))[j] = s[i + j - 1]
      BY <3>1, SubSeqProperties
    <3> QED  BY <1>0, <2>2, <3>2
  <2>4. \A j \in 1 .. L : h[j] \in 1 .. Len(s) /\ h[j] = i + j - 1
    BY <1>0, <2>2
  <2>5. \A j, k \in 1 .. L : j < k => h[j] < h[k]
    BY <1>0, <2>2
  <2>6. ASSUME NEW k \in 1 .. Len(s), Fresh(s[k]) PROVE \E j \in 1 .. L : h[j] = k
    <3>1. k >= i
      BY <1>0, <2>1, <2>2, <2>6
    <3>2. k - i + 1 \in 1 .. L /\ h[k - i + 1] = k
      BY <1>0, <2>2, <3>1
    <3> QED  BY <3>2
  <2>7. h \in [1 .. L -> 1 .. Len(s)]
    BY <2>4
  <2> HIDE DEF h, L
  <2>8. Picks(s, w, h)
    <3>1. \A j \in 1 .. L : w[j] = s[h[j]]
      BY <2>3, <2>4
    <3> QED  BY <2>3, <2>5, <2>7, <3>1, Zenon DEF Picks
  <2>9. \A k \in 1 .. Len(s) : Fresh(s[k]) => \E j \in 1 .. Len(w) : h[j] = k
    BY <2>3, <2>6, Zenon
  <2> QED  BY <2>3, <2>8, <2>9 DEF w, i
<1> HIDE DEF w, F, i
<1> QED  BY <1>1, <1>2 DEF w, i

\* Products of naturals grow with their factors.
LEMMA ProductMonotone ==
    ASSUME NEW a \in Nat, NEW b \in Nat, NEW c \in Nat, a <= b
    PROVE  /\ a * c \in Nat /\ b * c \in Nat /\ a * c <= b * c
           /\ c * a \in Nat /\ c * b \in Nat /\ c * a <= c * b
<1>1. b - a \in Nat /\ (b - a) * c \in Nat /\ (b - a) * c = b * c - a * c
  OBVIOUS
<1>2. a * c \in Nat /\ b * c \in Nat /\ c * a = a * c /\ c * b = b * c
  OBVIOUS
<1> QED  BY <1>1, <1>2

\* The second that a time is in.
LEMMA UnixBounds ==
    ASSUME NEW t \in Nat
    PROVE  /\ Unix(t) \in Nat /\ Unix(t) <= t
           /\ Unix(t) * Second <= t /\ t < (Unix(t) + 1) * Second
<1> DEFINE q == t \div Second
<1>1. Second \in Nat /\ 0 < Second
  BY TimeAssumption
<1>2. q \in Nat /\ Second * q <= t /\ t < Second * q + Second
  BY <1>1
<1>3. q * Second = Second * q /\ (q + 1) * Second = Second * q + Second
  BY <1>1, <1>2
<1> HIDE DEF q
<1>4. q * 1 <= q * Second /\ q * Second \in Nat /\ q * 1 = q
  BY <1>1, <1>2, ProductMonotone
<1>5. q <= t
  BY <1>2, <1>3, <1>4
<1> QED  BY <1>2, <1>3, <1>5 DEF q, Unix

\* What is recent in whole seconds is recent by the clock.
LEMMA WholeSeconds ==
    ASSUME NEW s \in Nat, NEW t \in Nat, Unix(s) + Interval > Unix(t)
    PROVE  s + IntervalTicks > t
<1>1. Second \in Nat /\ Interval \in Nat
  BY TimeAssumption
<1>2. Unix(s) \in Nat /\ Unix(t) \in Nat /\ Unix(s) * Second <= s /\ t < (Unix(t) + 1) * Second
  BY UnixBounds
<1>3. Unix(t) + 1 \in Nat /\ Unix(s) + Interval \in Nat /\ Unix(t) + 1 <= Unix(s) + Interval
  BY <1>1, <1>2
<1>4. (Unix(t) + 1) * Second <= (Unix(s) + Interval) * Second
  BY <1>1, <1>3, ProductMonotone
<1>5. (Unix(s) + Interval) * Second = Unix(s) * Second + Interval * Second
  BY <1>1, <1>2
<1> QED  BY <1>1, <1>2, <1>4, <1>5 DEF IntervalTicks

\* Seconds do not run backwards.
LEMMA UnixMonotone ==
    ASSUME NEW s \in Nat, NEW t \in Nat, s <= t
    PROVE  Unix(s) <= Unix(t)
<1>1. Second \in Nat /\ 0 < Second
  BY TimeAssumption
<1>2. /\ Unix(s) \in Nat /\ Unix(t) \in Nat
      /\ Unix(s) * Second <= s /\ t < (Unix(t) + 1) * Second
  BY UnixBounds
<1>3. ASSUME Unix(t) < Unix(s) PROVE FALSE
  <2>1. Unix(t) + 1 \in Nat /\ Unix(t) + 1 <= Unix(s)
    BY <1>2, <1>3
  <2>2. (Unix(t) + 1) * Second <= Unix(s) * Second
    BY <1>1, <1>2, <2>1, ProductMonotone
  <2>3. (Unix(t) + 1) * Second \in Nat /\ Unix(s) * Second \in Nat
    BY <1>1, <1>2
  <2> QED  BY <1>2, <2>2, <2>3
<1> QED  BY <1>2, <1>3

\* Typing facts of a state.
LEMMA CacheTyped ==
    ASSUME CacheInv
    PROVE  /\ now \in Nat /\ end \in Nat /\ Interval \in Nat /\ IntervalTicks \in Nat
           /\ \A p \in Pods : since[p] \in Nat /\ seen[p] \in Nodes \cup {NoNode}
           /\ \A n \in Nodes : /\ cache[n] \in Seq(Entries) /\ Len(cache[n]) \in Nat
                               /\ DOMAIN cache[n] = 1 .. Len(cache[n])
           /\ \A n \in Nodes : \A i \in 1 .. Len(cache[n]) :
                cache[n][i].pod \in Pods /\ cache[n][i].at \in 0 .. MaxTime
<1>1. TLPTypeOK /\ MaxTime \in Nat /\ Interval \in Nat /\ IntervalTicks \in Nat
  BY TimeAssumption DEF CacheInv, IntervalTicks
<1>2. /\ now \in Nat /\ end \in Nat /\ Interval \in Nat /\ IntervalTicks \in Nat
      /\ \A p \in Pods : since[p] \in Nat /\ seen[p] \in Nodes \cup {NoNode}
      /\ \A n \in Nodes : cache[n] \in Seq(Entries)
  BY <1>1 DEF TLPTypeOK, TypeOK
<1> QED  BY <1>2, EntrySeq

\* Thinning out keeps the entries in order and unique.
LEMMA ThinKeeps ==
    ASSUME CacheInv, \A n \in Nodes : \E h : Picks(cache[n], cache'[n], h)
    PROVE  OneEntry' /\ InOrder'
<1>1. ASSUME NEW n \in Nodes, NEW i \in 1 .. Len(cache'[n]), NEW j \in 1 .. Len(cache'[n])
      PROVE  /\ cache'[n][i].pod = cache'[n][j].pod => i = j
             /\ i < j => cache'[n][i].at <= cache'[n][j].at
  <2>1. PICK h : Picks(cache[n], cache'[n], h)
    OBVIOUS
  <2>2. /\ h[i] \in 1 .. Len(cache[n]) /\ h[j] \in 1 .. Len(cache[n])
        /\ cache'[n][i] = cache[n][h[i]] /\ cache'[n][j] = cache[n][h[j]]
        /\ (i < j => h[i] < h[j]) /\ (j < i => h[j] < h[i])
    BY <2>1 DEF Picks
  <2>3. /\ cache[n][h[i]].pod = cache[n][h[j]].pod => h[i] = h[j]
        /\ h[i] < h[j] => cache[n][h[i]].at <= cache[n][h[j]].at
    BY <2>2 DEF CacheInv, OneEntry, InOrder
  <2>4. i \in Int /\ j \in Int /\ h[i] \in Int /\ h[j] \in Int
    BY <2>2
  <2>5. h[i] = h[j] => i = j
    BY <2>2, <2>4
  <2> QED  BY <2>2, <2>3, <2>5
<1> QED  BY <1>1 DEF OneEntry, InOrder

\* OnDelete: the entry of the pod goes, if it is still there, and every other
\* entry stays.
LEMMA OnDeleteStep ==
    ASSUME CacheInv, NEW p \in Pods, OnDelete(p), end' = end
    PROVE  CacheInv'
<1> DEFINE m == seen[p]
<1>1. /\ m \in Nodes /\ seen' = [seen EXCEPT ![p] = NoNode] /\ since' = [since EXCEPT ![p] = 0]
      /\ cache' = [cache EXCEPT ![m] = Without(cache[m], p)]
      /\ now' = now /\ node' = node /\ cleaned' = cleaned
      /\ seen \in [Pods -> Nodes \cup {NoNode}] /\ since \in [Pods -> 0 .. MaxTime]
      /\ cache \in [Nodes -> Seq(Entries)]
  BY DEF OnDelete, CacheInv, TLPTypeOK, TypeOK
<1>2. /\ cache'[m] = Without(cache[m], p)
      /\ \A n \in Nodes : n # m => cache'[n] = cache[n]
      /\ \A q \in Pods : q # p => seen'[q] = seen[q] /\ since'[q] = since[q]
      /\ seen'[p] = NoNode /\ since'[p] = 0
  BY <1>1
<1> HIDE DEF m
<1>3. cache[m] \in Seq(Entries) /\ \A n \in Nodes : cache[n] \in Seq(Entries) /\ Len(cache[n]) \in Nat
  BY <1>1, CacheTyped
<1>4. /\ cache'[m] \in Seq(Entries)
      /\ \E h : /\ Picks(cache[m], cache'[m], h)
                /\ \A k \in 1 .. Len(cache[m]) : cache[m][k].pod # p =>
                     \E j \in 1 .. Len(cache'[m]) : h[j] = k
                /\ (\A j, k \in 1 .. Len(cache[m]) : cache[m][j].pod = cache[m][k].pod => j = k) =>
                     \A j \in 1 .. Len(cache'[m]) : cache[m][h[j]].pod # p
  <2>1. /\ Without(cache[m], p) \in Seq(Entries)
        /\ \E h : /\ Picks(cache[m], Without(cache[m], p), h)
                  /\ \A k \in 1 .. Len(cache[m]) : cache[m][k].pod # p =>
                       \E j \in 1 .. Len(Without(cache[m], p)) : h[j] = k
                  /\ (\A j, k \in 1 .. Len(cache[m]) : cache[m][j].pod = cache[m][k].pod => j = k) =>
                       \A j \in 1 .. Len(Without(cache[m], p)) : cache[m][h[j]].pod # p
    BY <1>3, WithoutThins, Zenon
  <2>2. ASSUME NEW w, w = Without(cache[m], p)
        PROVE  /\ w \in Seq(Entries)
               /\ \E h : /\ Picks(cache[m], w, h)
                         /\ \A k \in 1 .. Len(cache[m]) : cache[m][k].pod # p =>
                              \E j \in 1 .. Len(w) : h[j] = k
                         /\ (\A j, k \in 1 .. Len(cache[m]) : cache[m][j].pod = cache[m][k].pod => j = k) =>
                              \A j \in 1 .. Len(w) : cache[m][h[j]].pod # p
    BY <2>1, <2>2
  <2> QED  BY <1>2, <2>2
<1>5. PICK h : /\ Picks(cache[m], cache'[m], h)
               /\ \A k \in 1 .. Len(cache[m]) : cache[m][k].pod # p =>
                    \E j \in 1 .. Len(cache'[m]) : h[j] = k
               /\ \A j \in 1 .. Len(cache'[m]) : cache[m][h[j]].pod # p
  <2>1. \A j, k \in 1 .. Len(cache[m]) : cache[m][j].pod = cache[m][k].pod => j = k
    BY <1>1 DEF CacheInv, OneEntry
  <2> QED  BY <1>4, <2>1
<1>6. TLPTypeOK'
  <2>1. cache' \in [Nodes -> Seq(Entries)]
    BY <1>1, <1>2, <1>4
  <2>2. seen' \in [Pods -> Nodes \cup {NoNode}] /\ since' \in [Pods -> 0 .. MaxTime]
    BY <1>1, TimeAssumption
  <2> QED  BY <1>1, <2>1, <2>2 DEF CacheInv, TLPTypeOK, TypeOK
<1>7. PastTimes'
  BY <1>1, <1>2, CacheTyped DEF CacheInv, PastTimes
<1>8. \A n \in Nodes : \E g : Picks(cache[n], cache'[n], g)
  <2>1. ASSUME NEW n \in Nodes, n # m PROVE \E g : Picks(cache[n], cache'[n], g)
    <3>1. cache'[n] = cache[n] /\ Len(cache[n]) \in Nat
      BY <1>2, <1>3, <2>1
    <3> DEFINE g == [j \in 1 .. Len(cache[n]) |-> j]
    <3>2. Picks(cache[n], cache[n], g)
      BY <3>1 DEF Picks
    <3> QED  BY <3>1, <3>2
  <2> QED  BY <1>5, <2>1
<1>9. OneEntry' /\ InOrder'
  BY <1>8, ThinKeeps
<1>10. ASSUME NEW n \in Nodes, NEW i \in 1 .. Len(cache'[n])
       PROVE  seen'[cache'[n][i].pod] = n /\ cache'[n][i].at = since'[cache'[n][i].pod]
  <2>1. PICK k \in 1 .. Len(cache[n]) : cache'[n][i] = cache[n][k] /\ cache[n][k].pod # p
    <3>1. CASE n = m
      <4>1. h[i] \in 1 .. Len(cache[m]) /\ cache'[m][i] = cache[m][h[i]] /\ cache[m][h[i]].pod # p
        BY <1>5, <3>1 DEF Picks
      <4> QED  BY <3>1, <4>1
    <3>2. CASE n # m
      <4>1. cache'[n] = cache[n] /\ i \in 1 .. Len(cache[n])
        BY <1>2, <3>2
      <4>2. seen[cache[n][i].pod] = n
        BY <4>1 DEF CacheInv, EntriesTrue
      <4> QED  BY <3>2, <4>1, <4>2 DEF m
    <3> QED  BY <3>1, <3>2
  <2>2. cache[n][k].pod \in Pods /\ seen[cache[n][k].pod] = n /\ cache[n][k].at = since[cache[n][k].pod]
    BY CacheTyped DEF CacheInv, EntriesTrue
  <2> QED  BY <1>2, <2>1, <2>2
<1>11. ASSUME NEW q \in Pods, seen'[q] # NoNode, since'[q] + IntervalTicks > now'
       PROVE  \E i \in 1 .. Len(cache'[seen'[q]]) : cache'[seen'[q]][i].pod = q
  <2>1. q # p /\ seen'[q] = seen[q] /\ since'[q] = since[q] /\ seen[q] \in Nodes
    BY <1>1, <1>2, <1>11
  <2>2. PICK k \in 1 .. Len(cache[seen[q]]) : cache[seen[q]][k].pod = q
    BY <1>1, <1>11, <2>1 DEF CacheInv, RecentCached
  <2>3. CASE seen[q] = m
    <3>1. PICK j \in 1 .. Len(cache'[m]) : h[j] = k
      BY <1>5, <2>1, <2>2, <2>3
    <3>2. cache'[m][j].pod = q
      BY <1>5, <2>2, <2>3, <3>1 DEF Picks
    <3> QED  BY <2>1, <2>3, <3>2
  <2>4. CASE seen[q] # m
    BY <1>2, <2>1, <2>2, <2>4
  <2> QED  BY <2>3, <2>4
<1> QED  BY <1>6, <1>7, <1>9, <1>10, <1>11 DEF CacheInv, EntriesTrue, RecentCached

\* cleanupCache: only entries go whose pods the metrics show by now.
LEMMA CleanupStep ==
    ASSUME CacheInv, CleanupCache, end' = end
    PROVE  CacheInv'
<1>1. /\ now' = now /\ node' = node /\ seen' = seen /\ since' = since /\ cleaned' = now
      /\ cache' = [n \in Nodes |-> IF FirstFresh(cache[n]) = Len(cache[n]) + 1 THEN cache[n]
                                   ELSE SubSeq(cache[n], FirstFresh(cache[n]), Len(cache[n]))]
  BY DEF CleanupCache
<1>2. ASSUME NEW n \in Nodes
      PROVE  /\ cache'[n] \in Seq(Entries)
             /\ \E h : /\ Picks(cache[n], cache'[n], h)
                       /\ \A k \in 1 .. Len(cache[n]) : Fresh(cache[n][k]) =>
                            \E j \in 1 .. Len(cache'[n]) : h[j] = k
  <2>1. cache[n] \in Seq(Entries)
    BY CacheTyped
  <2>2. cache'[n] = IF FirstFresh(cache[n]) = Len(cache[n]) + 1 THEN cache[n]
                    ELSE SubSeq(cache[n], FirstFresh(cache[n]), Len(cache[n]))
    BY <1>1
  <2> QED  BY <2>1, <2>2, CleanThins
<1>3. TLPTypeOK'
  <2>1. cache' \in [Nodes -> Seq(Entries)]
    BY <1>1, <1>2
  <2> QED  BY <1>1, <2>1 DEF CacheInv, TLPTypeOK, TypeOK
<1>4. PastTimes'
  BY <1>1 DEF CacheInv, PastTimes
<1>5. OneEntry' /\ InOrder'
  <2>1. \A n \in Nodes : \E h : Picks(cache[n], cache'[n], h)
    BY <1>2
  <2> QED  BY <2>1, ThinKeeps
<1>6. ASSUME NEW n \in Nodes, NEW i \in 1 .. Len(cache'[n])
      PROVE  seen'[cache'[n][i].pod] = n /\ cache'[n][i].at = since'[cache'[n][i].pod]
  <2>1. PICK h : Picks(cache[n], cache'[n], h)
    BY <1>2
  <2>2. h[i] \in 1 .. Len(cache[n]) /\ cache'[n][i] = cache[n][h[i]]
    BY <2>1 DEF Picks
  <2>3. seen[cache[n][h[i]].pod] = n /\ cache[n][h[i]].at = since[cache[n][h[i]].pod]
    BY <2>2 DEF CacheInv, EntriesTrue
  <2> QED  BY <1>1, <2>2, <2>3, Zenon
<1>7. ASSUME NEW q \in Pods, seen'[q] # NoNode, since'[q] + IntervalTicks > now'
      PROVE  \E i \in 1 .. Len(cache'[seen'[q]]) : cache'[seen'[q]][i].pod = q
  <2> DEFINE n == seen[q]
  <2>1. n \in Nodes /\ since[q] + IntervalTicks > now /\ n # NoNode
    BY <1>1, <1>7, CacheTyped
  <2>2. PICK k \in 1 .. Len(cache[n]) : cache[n][k].pod = q
    BY <2>1 DEF CacheInv, RecentCached
  <2>3. Fresh(cache[n][k])
    <3>1. cache[n][k].at = since[q]
      BY <2>1, <2>2 DEF CacheInv, EntriesTrue
    <3> QED  BY <2>1, <3>1 DEF Fresh
  <2> HIDE DEF n
  <2>4. PICK h : Picks(cache[n], cache'[n], h) /\ \E j \in 1 .. Len(cache'[n]) : h[j] = k
    BY <1>2, <2>1, <2>3
  <2>5. PICK j \in 1 .. Len(cache'[n]) : h[j] = k
    BY <2>4
  <2>6. cache'[n][j].pod = q
    BY <2>2, <2>4, <2>5 DEF Picks
  <2> QED  BY <1>1, <2>6 DEF n
<1> QED  BY <1>3, <1>4, <1>5, <1>6, <1>7 DEF CacheInv, EntriesTrue, RecentCached

\* updateCache: the pod is unknown, so it has no entry, and the new one is the
\* latest.
LEMMA OnAddStep ==
    ASSUME CacheInv, NEW p \in Pods, OnAdd(p), end' = end
    PROVE  CacheInv'
<1> DEFINE m == node[p]
           e == [pod |-> p, at |-> now]
           L == Len(cache[m])
<1>1. /\ m \in Nodes /\ seen[p] = NoNode /\ seen' = [seen EXCEPT ![p] = m]
      /\ since' = [since EXCEPT ![p] = now]
      /\ cache' = [cache EXCEPT ![m] = Append(cache[m], e)]
      /\ now' = now /\ node' = node /\ cleaned' = cleaned
      /\ seen \in [Pods -> Nodes \cup {NoNode}] /\ since \in [Pods -> 0 .. MaxTime]
      /\ cache \in [Nodes -> Seq(Entries)] /\ now \in 0 .. MaxTime
  BY DEF OnAdd, CacheInv, TLPTypeOK, TypeOK
<1>2. /\ cache'[m] = Append(cache[m], e)
      /\ \A n \in Nodes : n # m => cache'[n] = cache[n]
      /\ \A q \in Pods : q # p => seen'[q] = seen[q] /\ since'[q] = since[q]
      /\ seen'[p] = m /\ since'[p] = now
  BY <1>1
<1>3. e \in Entries /\ e.pod = p /\ e.at = now /\ L \in Nat
  BY <1>1, CacheTyped DEF Entries
<1> HIDE DEF m, e
<1>4. /\ cache'[m] \in Seq(Entries) /\ Len(cache'[m]) = L + 1
      /\ \A i \in 1 .. L : cache'[m][i] = cache[m][i]
      /\ cache'[m][L + 1] = e
  BY <1>1, <1>2, <1>3, AppendProperties
<1> HIDE DEF L
<1>5. TLPTypeOK'
  <2>1. cache' \in [Nodes -> Seq(Entries)]
    BY <1>1, <1>2, <1>4
  <2>2. seen' \in [Pods -> Nodes \cup {NoNode}] /\ since' \in [Pods -> 0 .. MaxTime]
    BY <1>1
  <2> QED  BY <1>1, <2>1, <2>2 DEF CacheInv, TLPTypeOK, TypeOK
<1>6. PastTimes'
  BY <1>1, <1>2, CacheTyped DEF CacheInv, PastTimes
<1>7. ASSUME NEW n \in Nodes, NEW i \in 1 .. Len(cache'[n])
      PROVE  \/ i \in 1 .. Len(cache[n]) /\ cache'[n][i] = cache[n][i]
             \/ n = m /\ i = L + 1 /\ cache'[n][i] = e
  <2>1. CASE n = m
    <3>1. i \in 1 .. L \/ i = L + 1
      BY <1>3, <1>4, <2>1
    <3> QED  BY <1>4, <2>1, <3>1 DEF L
  <2>2. CASE n # m
    BY <1>2, <2>2
  <2> QED  BY <2>1, <2>2
<1>8. ASSUME NEW n \in Nodes, NEW i \in 1 .. Len(cache[n])
      PROVE  /\ cache[n][i].pod \in Pods /\ cache[n][i].pod # p /\ cache[n][i].at <= now
             /\ seen[cache[n][i].pod] = n /\ cache[n][i].at = since[cache[n][i].pod]
             /\ cache[n][i].at \in Nat
  <2>1. /\ cache[n][i].pod \in Pods /\ seen[cache[n][i].pod] = n
        /\ cache[n][i].at = since[cache[n][i].pod]
    BY CacheTyped DEF CacheInv, EntriesTrue
  <2> QED  BY <1>1, <2>1, NodeAssumption, CacheTyped DEF CacheInv, PastTimes
<1>9. ASSUME NEW n \in Nodes, NEW i \in 1 .. Len(cache'[n])
      PROVE  seen'[cache'[n][i].pod] = n /\ cache'[n][i].at = since'[cache'[n][i].pod]
  BY <1>2, <1>3, <1>7, <1>8
<1>10. ASSUME NEW n \in Nodes, NEW i \in 1 .. Len(cache'[n]), NEW j \in 1 .. Len(cache'[n])
       PROVE  /\ cache'[n][i].pod = cache'[n][j].pod => i = j
              /\ i < j => cache'[n][i].at <= cache'[n][j].at
  <2>1. L \in Nat /\ now \in Nat /\ i \in Int /\ j \in Int /\ (n = m => L = Len(cache[n]))
    BY <1>3, CacheTyped DEF L
  <2>2. CASE i \in 1 .. Len(cache[n]) /\ cache'[n][i] = cache[n][i]
    <3>1. CASE j \in 1 .. Len(cache[n]) /\ cache'[n][j] = cache[n][j]
      BY <2>2, <3>1 DEF CacheInv, OneEntry, InOrder
    <3>2. CASE n = m /\ j = L + 1 /\ cache'[n][j] = e
      BY <1>3, <1>8, <2>2, <3>2
    <3> QED  BY <1>7, <3>1, <3>2
  <2>3. CASE n = m /\ i = L + 1 /\ cache'[n][i] = e
    <3>1. CASE j \in 1 .. Len(cache[n]) /\ cache'[n][j] = cache[n][j]
      BY <1>3, <1>8, <2>1, <2>3, <3>1
    <3>2. CASE n = m /\ j = L + 1 /\ cache'[n][j] = e
      BY <1>3, <2>1, <2>3, <3>2
    <3> QED  BY <1>7, <3>1, <3>2
  <2> QED  BY <1>7, <2>2, <2>3
<1>11. ASSUME NEW q \in Pods, seen'[q] # NoNode, since'[q] + IntervalTicks > now'
       PROVE  \E i \in 1 .. Len(cache'[seen'[q]]) : cache'[seen'[q]][i].pod = q
  <2>1. CASE q = p
    <3>1. L + 1 \in 1 .. Len(cache'[m]) /\ cache'[m][L + 1].pod = p
      BY <1>3, <1>4
    <3> QED  BY <1>2, <2>1, <3>1
  <2>2. CASE q # p
    <3>1. seen'[q] = seen[q] /\ since'[q] = since[q] /\ seen[q] \in Nodes
      BY <1>1, <1>2, <1>11, <2>2
    <3>2. PICK k \in 1 .. Len(cache[seen[q]]) : cache[seen[q]][k].pod = q
      BY <1>1, <1>11, <3>1 DEF CacheInv, RecentCached
    <3>3. k \in 1 .. Len(cache'[seen[q]]) /\ cache'[seen[q]][k] = cache[seen[q]][k]
      <4>1. CASE seen[q] = m
        BY <1>3, <1>4, <4>1 DEF L
      <4>2. CASE seen[q] # m
        BY <1>2, <3>1, <4>2
      <4> QED  BY <4>1, <4>2
    <3> QED  BY <3>1, <3>2, <3>3
  <2> QED  BY <2>1, <2>2
<1> QED
  BY <1>5, <1>6, <1>9, <1>10, <1>11 DEF CacheInv, EntriesTrue, OneEntry, InOrder, RecentCached

\* Time passes, the API server has news, or the metrics are read.
LEMMA OtherStep ==
    ASSUME CacheInv, seen' = seen, since' = since, cache' = cache, cleaned' = cleaned,
           now' \in 0 .. MaxTime, now <= now', end' \in 0 .. Unix(now'),
           node' \in [Pods -> Nodes \cup {NoNode}]
    PROVE  CacheInv'
<1>1. TLPTypeOK' /\ PastTimes'
  <2>1. now' \in Nat /\ Unix(now') \in Nat /\ Unix(now') <= now'
    BY TimeAssumption, UnixBounds
  <2>2. end' \in 0 .. MaxTime /\ end' <= Unix(now')
    BY <2>1, TimeAssumption
  <2>3. TLPTypeOK'
    BY <2>2, TimeAssumption DEF CacheInv, TLPTypeOK, TypeOK
  <2>4. \A p \in Pods : since'[p] <= now'
    BY <2>1, CacheTyped DEF CacheInv, PastTimes
  <2> QED  BY <2>2, <2>3, <2>4 DEF PastTimes
<1>2. EntriesTrue' /\ OneEntry' /\ InOrder'
  BY DEF CacheInv, EntriesTrue, OneEntry, InOrder
<1>3. RecentCached'
  <2>1. ASSUME NEW q \in Pods, since[q] + IntervalTicks > now' PROVE since[q] + IntervalTicks > now
    BY <2>1, TimeAssumption, CacheTyped
  <2> QED  BY <2>1 DEF CacheInv, RecentCached
<1> QED  BY <1>1, <1>2, <1>3 DEF CacheInv

\* Every step keeps the invariant.
LEMMA CacheStep == CacheInv /\ [TLPNext]_allVars => CacheInv'
<1> SUFFICES ASSUME CacheInv, [TLPNext]_allVars PROVE CacheInv'
  OBVIOUS
<1>0. /\ now \in 0 .. MaxTime /\ node \in [Pods -> Nodes \cup {NoNode}] /\ MaxTime \in Nat
      /\ end \in 0 .. Unix(now)
  <2>1. now \in Nat /\ end \in Nat /\ Unix(now) \in Nat
    BY CacheTyped, UnixBounds
  <2> QED  BY <2>1, TimeAssumption DEF CacheInv, TLPTypeOK, TypeOK, PastTimes
<1>1. ASSUME NEW p \in Pods, Bind(p) \/ DeletePod(p), end' = end PROVE CacheInv'
  <2>1. /\ seen' = seen /\ since' = since /\ cache' = cache /\ cleaned' = cleaned /\ now' = now
        /\ node' \in [Pods -> Nodes \cup {NoNode}]
    BY <1>0, <1>1 DEF Bind, DeletePod
  <2> QED  BY <1>0, <1>1, <2>1, OtherStep
<1>2. ASSUME NEW p \in Pods, OnAdd(p), end' = end PROVE CacheInv'
  BY <1>2, OnAddStep
<1>3. ASSUME NEW p \in Pods, OnDelete(p), end' = end PROVE CacheInv'
  BY <1>3, OnDeleteStep
<1>4. ASSUME Tick, end' = end PROVE CacheInv'
  <2>1. /\ seen' = seen /\ since' = since /\ cache' = cache /\ cleaned' = cleaned /\ node' = node
        /\ now' = now + 1 /\ now < MaxTime
    BY <1>4 DEF Tick
  <2>2. now \in Nat /\ now' \in Nat /\ now <= now' /\ now' \in 0 .. MaxTime
    BY <1>0, <2>1
  <2>3. Unix(now) \in Nat /\ Unix(now') \in Nat /\ Unix(now) <= Unix(now')
    BY <2>2, UnixBounds, UnixMonotone
  <2>4. end' \in 0 .. Unix(now')
    BY <1>0, <1>4, <2>3
  <2> QED  BY <1>0, <2>1, <2>2, <2>4, OtherStep
<1>5. ASSUME CleanupCache, end' = end PROVE CacheInv'
  BY <1>5, CleanupStep
<1>6. ASSUME UpdateMetrics \/ UNCHANGED allVars PROVE CacheInv'
  <2>1. UNCHANGED vars /\ end' \in 0 .. Unix(now)
    BY <1>0, <1>6 DEF UpdateMetrics, allVars
  <2> QED  BY <1>0, <2>1, OtherStep DEF vars
<1> QED  BY <1>1, <1>2, <1>3, <1>4, <1>5, <1>6 DEF TLPNext, Next

\* The cache starts empty.
LEMMA CacheInit == TLPInit => CacheInv
<1> SUFFICES ASSUME TLPInit PROVE CacheInv
  OBVIOUS
<1>1. \A n \in Nodes : cache[n] = <<>> /\ Len(cache[n]) = 0
  BY DEF TLPInit, Init
<1>2. TLPTypeOK
  <2>1. <<>> \in Seq(Entries)
    OBVIOUS
  <2> QED  BY <2>1, TimeAssumption DEF TLPInit, Init, TLPTypeOK, TypeOK
<1>3. \A p \in Pods : seen[p] = NoNode /\ since[p] = 0
  BY DEF TLPInit, Init
<1>4. Unix(0) \in Nat
  BY UnixBounds
<1> QED
  BY <1>1, <1>2, <1>3, <1>4 DEF TLPInit, Init, CacheInv, PastTimes, EntriesTrue, OneEntry, InOrder, RecentCached

\* The invariant of the cache.
THEOREM CacheInvariance == TLPSpec => []CacheInv
  BY CacheInit, CacheStep, PTL DEF TLPSpec

\* The state of the handler and of the plugin has its type.
THEOREM TypeCorrect == TLPSpec => []TLPTypeOK
<1>1. CacheInv => TLPTypeOK
  BY DEF CacheInv
<1> QED  BY CacheInvariance, <1>1, PTL

\* The entries of a node are in the order of their timestamps, as the binary
\* search of cleanupCache takes for granted.
THEOREM EntriesInOrder == TLPSpec => []OldestFirst
<1>1. CacheInv => OldestFirst
  <2> SUFFICES ASSUME CacheInv PROVE OldestFirst
    OBVIOUS
  <2>1. \A n \in Nodes : DOMAIN cache[n] = 1 .. Len(cache[n])
    BY CacheTyped
  <2> QED  BY <2>1 DEF CacheInv, InOrder, OldestFirst
<1> QED  BY CacheInvariance, <1>1, PTL

\* A pod has at most one entry, under its own node, and none once its deletion
\* is handled.
THEOREM OneEntryPerPod == TLPSpec => []CachedOnce
<1>1. CacheInv => CachedOnce
  <2> SUFFICES ASSUME CacheInv PROVE CachedOnce
    OBVIOUS
  <2>1. \A n \in Nodes : DOMAIN cache[n] = 1 .. Len(cache[n])
    BY CacheTyped
  <2>2. \A p \in Pods, n \in Nodes : Cached(p, n) => seen[p] = n
    BY <2>1 DEF CacheInv, EntriesTrue, Cached
  <2>3. ASSUME NEW n \in Nodes PROVE IsInjective([i \in DOMAIN cache[n] |-> cache[n][i].pod])
    BY <2>1 DEF CacheInv, OneEntry, IsInjective
  <2> QED  BY <2>2, <2>3 DEF CachedOnce
<1> QED  BY CacheInvariance, <1>1, PTL

\* math.Round of a fraction between 0 and k is between 0 and k, and a larger
\* numerator is not rounded to less.
LEMMA RoundBounds ==
    ASSUME NEW a \in Nat, NEW b \in Nat, NEW d \in Nat, 0 < d
    PROVE  /\ Round(a, d) \in Nat
           /\ a <= b => Round(a, d) <= Round(b, d)
           /\ \A k \in Nat : a <= k * d => Round(a, d) <= k
<1>1. Round(a, d) \in Nat
  BY DEF Round
<1>2. a <= b => Round(a, d) <= Round(b, d)
  BY DEF Round
<1>3. ASSUME NEW k \in Nat, a <= k * d PROVE Round(a, d) <= k
  <2> DEFINE q == Round(a, d)
             e == 2 * d
  <2>1. q = (2 * a + d) \div e /\ e \in Nat /\ 0 < e
    BY DEF Round
  <2>2. q \in Int /\ e * q <= 2 * a + d
    BY <2>1
  <2>3. 2 * (k * d) = e * k /\ k * d \in Nat
    OBVIOUS
  <2>4. e * q < e * (k + 1)
    <3>1. e * (k + 1) = e * k + e
      BY <2>1
    <3>2. 2 * a + d <= e * k + d /\ d < e /\ e * k \in Int /\ e * q \in Int
      BY <1>3, <2>1, <2>2, <2>3
    <3> HIDE DEF q, e
    <3>3. e \in Nat /\ k + 1 \in Nat /\ e * (k + 1) \in Int
      BY <2>1
    <3> QED  BY <1>3, <2>2, <3>1, <3>2, <3>3
  <2> HIDE DEF q, e
  <2> QED  BY <2>1, <2>2, <2>4 DEF q
<1> QED  BY <1>1, <1>2, <1>3

\* A prediction is a natural number.
LEMMA UsageNat == PodUsage \in [Pods -> Nat]
<1>1. ASSUME NEW p \in Pods PROVE PodUsage[p] \in Nat
  <2> DEFINE containers == PodSpec[p].containers
             f == [i \in DOMAIN containers |-> PredictUtilisation(containers[i])]
  <2>1. /\ containers \in Seq([limit : Maybe, request : Maybe]) /\ PodSpec[p].overhead \in Nat
    BY SpecAssumption
  <2> HIDE DEF containers
  <2>2. /\ Len(containers) \in Nat /\ DOMAIN containers = 1 .. Len(containers)
        /\ \A i \in DOMAIN containers : containers[i] \in [limit : Maybe, request : Maybe]
    BY <2>1, SeqTyped
  <2>3. ASSUME NEW c \in [limit : Maybe, request : Maybe] PROVE PredictUtilisation(c) \in Nat
    <3>1. CASE c.limit # None
      BY <3>1 DEF PredictUtilisation, Maybe
    <3>2. CASE c.limit = None /\ c.request # None
      <4>1. c.request * Multiplier.num \in Nat /\ Multiplier.den \in Nat /\ 0 < Multiplier.den
        BY <3>2, ArgsAssumption DEF Maybe
      <4>2. Round(c.request * Multiplier.num, Multiplier.den) \in Nat
        BY <4>1, RoundBounds
      <4> QED  BY <3>2, <4>2 DEF PredictUtilisation
    <3>3. CASE c.limit = None /\ c.request = None
      BY <3>3, ArgsAssumption DEF PredictUtilisation
    <3> QED  BY <3>1, <3>2, <3>3
  <2>4. f \in [DOMAIN containers -> Nat]
    BY <2>2, <2>3
  <2>5. IsFiniteSet(DOMAIN containers)
    <3>1. 1 \in Int /\ Len(containers) \in Int
      BY <2>2
    <3>2. IsFiniteSet(1 .. Len(containers))
      BY <3>1, FS_Interval
    <3> QED  BY <2>2, <3>2
  <2> HIDE DEF f
  <2>6. AddUp(f) \in Nat
    BY <2>4, <2>5, AddUpStep
  <2>7. PodUsage[p] = AddUp(f) + PodSpec[p].overhead
    BY DEF PodUsage, f, containers
  <2> QED  BY <2>1, <2>6, <2>7
<1>2. PodUsage = [p \in Pods |-> PodUsage[p]]
  BY DEF PodUsage
<1> QED  BY <1>1, <1>2

\* The terms of MissingUtil: finitely many entries, each with its prediction.
LEMMA MissingFinite ==
    ASSUME CacheInv, NEW n \in Nodes
    PROVE  LET missing == {i \in DOMAIN cache[n] : Unmeasured(cache[n][i])}
               f == [i \in missing |-> PodUsage[cache[n][i].pod]]
           IN  IsFiniteSet(missing) /\ f \in [missing -> Nat] /\ MissingUtil(n) = AddUp(f)
               /\ MissingUtil(n) \in Nat
<1> DEFINE missing == {i \in DOMAIN cache[n] : Unmeasured(cache[n][i])}
           f == [i \in missing |-> PodUsage[cache[n][i].pod]]
<1>1. /\ Len(cache[n]) \in Nat /\ DOMAIN cache[n] = 1 .. Len(cache[n])
      /\ \A i \in 1 .. Len(cache[n]) : cache[n][i].pod \in Pods
  BY CacheTyped
<1>2. IsFiniteSet(missing)
  <2>1. 1 \in Int /\ Len(cache[n]) \in Int /\ missing \in SUBSET (1 .. Len(cache[n]))
    BY <1>1
  <2>2. IsFiniteSet(1 .. Len(cache[n]))
    BY <2>1, FS_Interval
  <2> HIDE DEF missing
  <2> QED  BY <2>1, <2>2, FS_Subset
<1>3. f \in [missing -> Nat]
  BY <1>1, UsageNat
<1>4. MissingUtil(n) = AddUp(f)
  BY DEF MissingUtil
<1> HIDE DEF missing, f
<1>5. AddUp(f) \in Nat
  BY <1>2, <1>3, AddUpStep
<1> QED  BY <1>2, <1>3, <1>4, <1>5 DEF missing, f

\* Score adds the prediction of every pod of the last reporting interval to what
\* was measured, none twice and none after its deletion, whatever the metrics
\* window, the deletions and the cleanups were: the entry of a recent pod is
\* there and unmeasured, and different entries belong to different pods.
THEOREM RecentPodsPredicted == TLPSpec => []RecentPredicted
<1>1. CacheInv => RecentPredicted
  <2> SUFFICES ASSUME CacheInv, NEW n \in Nodes
               PROVE  LET there  == {p \in Pods : seen[p] = n}
                          recent == {p \in there : Unix(since[p]) + Interval > Unix(now)}
                      IN  Load(recent) <= MissingUtil(n) /\ MissingUtil(n) <= Load(there)
    BY DEF RecentPredicted
  <2> DEFINE there   == {p \in Pods : seen[p] = n}
             recent  == {p \in there : Unix(since[p]) + Interval > Unix(now)}
             missing == {i \in DOMAIN cache[n] : Unmeasured(cache[n][i])}
             f == [i \in missing |-> PodUsage[cache[n][i].pod]]
             g == [p \in there |-> PodUsage[p]]
             r == [p \in recent |-> PodUsage[p]]
  <2>1. IsFiniteSet(missing) /\ f \in [missing -> Nat] /\ MissingUtil(n) = AddUp(f)
    BY MissingFinite
  <2>2. IsFiniteSet(there) /\ IsFiniteSet(recent)
    <3>1. there \in SUBSET Pods /\ recent \in SUBSET Pods
      OBVIOUS
    <3> HIDE DEF there, recent
    <3> QED  BY <3>1, NodeAssumption, FS_Subset
  <2>3. g \in [there -> Nat] /\ r \in [recent -> Nat]
    BY UsageNat
  <2>4. Load(there) = AddUp(g) /\ Load(recent) = AddUp(r)
    BY DEF Load
  <2>5. /\ DOMAIN cache[n] = 1 .. Len(cache[n])
        /\ \A i \in 1 .. Len(cache[n]) : cache[n][i].pod \in Pods
    BY CacheTyped
  <2>6. AddUp(f) <= AddUp(g)
    <3> DEFINE h == [i \in missing |-> cache[n][i].pod]
    <3>1. \A i \in missing : i \in 1 .. Len(cache[n])
      BY <2>5
    <3>2. h \in [missing -> there]
      <4>1. \A i \in missing : cache[n][i].pod \in there
        BY <2>5, <3>1 DEF CacheInv, EntriesTrue
      <4> QED  BY <4>1
    <3>3. \A i, j \in missing : h[i] = h[j] => i = j
      BY <3>1 DEF CacheInv, OneEntry
    <3>4. \A i \in missing : f[i] <= g[h[i]]
      <4>1. ASSUME NEW i \in missing PROVE f[i] <= g[h[i]]
        <5>1. f[i] = PodUsage[cache[n][i].pod] /\ h[i] = cache[n][i].pod /\ h[i] \in there
          BY <3>2
        <5>2. g[h[i]] = PodUsage[h[i]] /\ f[i] \in Nat
          BY <2>1, <5>1
        <5> HIDE DEF f, g, h
        <5> QED  BY <5>1, <5>2
      <4> QED  BY <4>1
    <3> HIDE DEF h, f, g, missing, there
    <3> QED  BY <2>1, <2>2, <2>3, <3>2, <3>3, <3>4, AddUpEmbed
  <2>7. AddUp(r) <= AddUp(f)
    <3>1. ASSUME NEW p \in recent PROVE \E i \in missing : cache[n][i].pod = p
      <4>0. p \in Pods /\ seen[p] = n /\ n # NoNode /\ Unix(since[p]) + Interval > Unix(now)
        BY NodeAssumption
      <4>1. since[p] + IntervalTicks > now
        BY <4>0, CacheTyped, WholeSeconds
      <4>2. PICK i \in 1 .. Len(cache[n]) : cache[n][i].pod = p
        BY <4>0, <4>1 DEF CacheInv, RecentCached
      <4>3. cache[n][i].at = since[p]
        BY <4>2 DEF CacheInv, EntriesTrue
      <4>4. Unmeasured(cache[n][i])
        <5>1. since[p] \in Nat /\ now \in Nat /\ end \in Nat /\ Interval \in Nat
          BY <4>0, CacheTyped
        <5>2. Unix(since[p]) \in Nat /\ Unix(now) \in Nat /\ end <= Unix(now)
          BY <5>1, UnixBounds DEF CacheInv, PastTimes
        <5> QED  BY <4>0, <4>3, <5>1, <5>2 DEF Unmeasured
      <4> QED  BY <2>5, <4>2, <4>4
    <3> DEFINE h == [p \in recent |-> CHOOSE i \in missing : cache[n][i].pod = p]
    <3>2. \A p \in recent : h[p] \in missing /\ cache[n][h[p]].pod = p
      <4> HIDE DEF missing, recent
      <4> QED  BY <3>1
    <3>3. h \in [recent -> missing]
      <4> HIDE DEF missing, recent
      <4> QED  BY <3>2
    <3>4. \A p \in recent : r[p] <= f[h[p]]
      <4>1. ASSUME NEW p \in recent PROVE r[p] <= f[h[p]]
        <5>1. h[p] \in missing /\ cache[n][h[p]].pod = p
          BY <3>2
        <5> HIDE DEF h
        <5>2. f[h[p]] = PodUsage[p] /\ r[p] = PodUsage[p] /\ r[p] \in Nat
          BY <2>3, <5>1
        <5> HIDE DEF f, r
        <5> QED  BY <5>2
      <4> QED  BY <4>1
    <3>5. \A p, q \in recent : h[p] = h[q] => p = q
      <4> HIDE DEF h, recent
      <4> QED  BY <3>2
    <3> HIDE DEF h, f, r, missing, recent
    <3> QED  BY <2>1, <2>2, <2>3, <3>3, <3>4, <3>5, AddUpEmbed
  <2> HIDE DEF there, recent, missing, f, g, r
  <2> QED  BY <2>1, <2>4, <2>6, <2>7 DEF there, recent
<1> QED  BY CacheInvariance, <1>1, PTL

\* Above the target the score falls from at most 50 to 0.
LEMMA PenaltyBounds ==
    ASSUME NEW cap \in Nat \ {0}, NEW u \in Nat, Target * cap < u, u <= 100 * cap, Target <= 100
    PROVE  /\ Target < 100 /\ (100 - Target) * cap \in Nat /\ 0 < (100 - Target) * cap
           /\ 50 * (100 * cap - u) \in Nat
           /\ 50 * (100 * cap - u) <= 50 * ((100 - Target) * cap)
<1> DEFINE tc == Target * cap
           d == (100 - Target) * cap
<1>1. Target \in Nat /\ 1 <= Target /\ Target <= 100
  BY ArgsAssumption
<1>2. tc \in Nat /\ d = 100 * cap - tc /\ tc < u
  BY <1>1
<1>3. Target # 100
  BY <1>2
<1> HIDE DEF tc, d
<1>4. 0 < d /\ d \in Nat
  BY <1>2
<1> QED  BY <1>1, <1>2, <1>3, <1>4 DEF d

\* Up to the target the score grows to at most 100.
LEMMA PackBounds ==
    ASSUME NEW cap \in Nat \ {0}, NEW u \in Nat, u <= Target * cap, Target <= 100
    PROVE  /\ Target * cap \in Nat /\ 0 < Target * cap
           /\ (100 - Target) * u + Target * Target * cap \in Nat
           /\ (100 - Target) * u + Target * Target * cap <= 100 * (Target * cap)
<1> DEFINE tc == Target * cap
           r == 100 - Target
<1>1. Target \in Nat /\ 1 <= Target /\ Target <= 100 /\ r \in Nat
  BY ArgsAssumption
<1>2. tc \in Nat /\ 1 * cap <= tc
  BY <1>1, ProductMonotone
<1>3. 0 < tc
  BY <1>2
<1>4. r * u \in Nat /\ r * u <= r * tc /\ r * tc \in Nat
  BY <1>1, <1>2, ProductMonotone
<1>5. Target * Target * cap = Target * tc /\ Target * tc \in Nat
  BY <1>1
<1>6. r * tc + Target * tc = 100 * tc
  BY <1>1, <1>2
<1>7. r * u + Target * Target * cap \in Nat /\ r * u + Target * Target * cap <= 100 * tc
  <2>1. r * u + Target * Target * cap = r * u + Target * tc
    BY <1>5
  <2> HIDE DEF r, tc
  <2> QED  BY <1>4, <1>5, <1>6, <2>1
<1> QED  BY <1>2, <1>3, <1>7

\* With a target of at most 100, the score of any usage is in the range.
LEMMA PackingScoreRange ==
    ASSUME NEW cap \in Nat \ {0}, NEW u \in Nat, Target <= 100
    PROVE  PackingScore(u, cap) \in 0 .. 100
<1>1. CASE u > 100 * cap
  <2>1. Target \in Nat /\ Target * cap <= 100 * cap /\ Target * cap \in Nat
    BY ArgsAssumption, ProductMonotone
  <2>2. u > Target * cap
    BY <1>1, <2>1
  <2> QED  BY <1>1, <2>2 DEF PackingScore, MinNodeScore
<1>2. CASE ~(u > 100 * cap) /\ u > Target * cap
  <2> DEFINE a == 50 * (100 * cap - u)
             d == (100 - Target) * cap
  <2>1. a \in Nat /\ d \in Nat /\ 0 < d /\ a <= 50 * d
    <3>1. Target * cap \in Nat
      BY ArgsAssumption
    <3>2. Target * cap < u /\ u <= 100 * cap
      BY <1>2, <3>1
    <3> QED  BY <3>2, PenaltyBounds
  <2>2. PackingScore(u, cap) = Round(a, d)
    BY <1>2 DEF PackingScore
  <2> HIDE DEF a, d
  <2>3. Round(a, d) \in Nat /\ Round(a, d) <= 50
    <3>1. Round(a, d) \in Nat /\ \A k \in Nat : a <= k * d => Round(a, d) <= k
      BY <2>1, RoundBounds
    <3> QED  BY <2>1, <3>1
  <2> QED  BY <2>2, <2>3
<1>3. CASE ~(u > 100 * cap) /\ ~(u > Target * cap)
  <2> DEFINE a == (100 - Target) * u + Target * Target * cap
             d == Target * cap
  <2>1. a \in Nat /\ d \in Nat /\ 0 < d /\ a <= 100 * d
    <3>1. Target * cap \in Nat
      BY ArgsAssumption
    <3>2. u <= Target * cap
      BY <1>3, <3>1
    <3> QED  BY <3>2, PackBounds
  <2>2. PackingScore(u, cap) = Round(a, d)
    BY <1>3 DEF PackingScore
  <2> HIDE DEF a, d
  <2>3. Round(a, d) \in Nat /\ Round(a, d) <= 100
    BY <2>1, RoundBounds
  <2> QED  BY <2>2, <2>3
<1> QED  BY <1>1, <1>2, <1>3

\* More usage scores no less up to the target, and no more above it.
LEMMA PackingScoreOrder ==
    ASSUME NEW cap \in Nat \ {0}, NEW u \in Nat, NEW v \in Nat, u <= v, Target <= 100
    PROVE  /\ v <= Target * cap => PackingScore(u, cap) <= PackingScore(v, cap)
           /\ Target * cap < u => PackingScore(u, cap) >= PackingScore(v, cap)
<1>0. Target * cap \in Nat /\ 100 * cap \in Nat /\ Target * cap <= 100 * cap
  BY ArgsAssumption, ProductMonotone
<1>1. ASSUME v <= Target * cap PROVE PackingScore(u, cap) <= PackingScore(v, cap)
  <2> DEFINE a == (100 - Target) * u + Target * Target * cap
             b == (100 - Target) * v + Target * Target * cap
             d == Target * cap
  <2>1. u <= Target * cap /\ ~(u > Target * cap) /\ ~(v > Target * cap)
        /\ ~(u > 100 * cap) /\ ~(v > 100 * cap)
    BY <1>0, <1>1
  <2>2. a \in Nat /\ b \in Nat /\ d \in Nat /\ 0 < d
    BY <1>1, <2>1, PackBounds
  <2>3. a <= b
    <3>1. 100 - Target \in Nat /\ Target \in Nat
      BY ArgsAssumption
    <3>2. (100 - Target) * u \in Nat /\ (100 - Target) * v \in Nat
          /\ (100 - Target) * u <= (100 - Target) * v
      BY <3>1, ProductMonotone
    <3>3. Target * Target * cap \in Nat
      BY <3>1
    <3> QED  BY <3>2, <3>3
  <2>4. PackingScore(u, cap) = Round(a, d) /\ PackingScore(v, cap) = Round(b, d)
    BY <2>1 DEF PackingScore
  <2> HIDE DEF a, b, d
  <2> QED  BY <2>2, <2>3, <2>4, RoundBounds
<1>2. ASSUME Target * cap < u PROVE PackingScore(u, cap) >= PackingScore(v, cap)
  <2>1. PackingScore(u, cap) \in 0 .. 100
    BY PackingScoreRange
  <2>2. CASE v > 100 * cap
    <3>0. v > Target * cap
      BY <1>0, <2>2
    <3>1. PackingScore(v, cap) = 0
      BY <2>2, <3>0 DEF PackingScore, MinNodeScore
    <3> QED  BY <2>1, <3>1
  <2>3. CASE ~(v > 100 * cap)
    <3> DEFINE a == 50 * (100 * cap - u)
               b == 50 * (100 * cap - v)
               d == (100 - Target) * cap
    <3>1. /\ u <= 100 * cap /\ v <= 100 * cap /\ Target * cap < v
          /\ u > Target * cap /\ v > Target * cap /\ ~(u > 100 * cap)
      BY <1>0, <1>2, <2>3
    <3>2. a \in Nat /\ b \in Nat /\ d \in Nat /\ 0 < d
      BY <1>2, <3>1, PenaltyBounds
    <3>3. b <= a
      BY <1>0
    <3>4. PackingScore(u, cap) = Round(a, d) /\ PackingScore(v, cap) = Round(b, d)
      BY <2>3, <3>1 DEF PackingScore
    <3> HIDE DEF a, b, d
    <3>5. Round(b, d) <= Round(a, d) /\ Round(b, d) \in Nat /\ Round(a, d) \in Nat
      BY <3>2, <3>3, RoundBounds
    <3> QED  BY <3>4, <3>5
  <2> QED  BY <2>2, <2>3
<1> QED  BY <1>1, <1>2

\* A higher measurement makes a higher predicted usage.
LEMMA UsageFacts ==
    ASSUME CacheInv, NEW n \in Nodes, NEW p \in Pods, NEW u \in Nat, NEW v \in Nat, u <= v
    PROVE  /\ PredictedUsage(n, p, u) \in Nat /\ PredictedUsage(n, p, v) \in Nat
           /\ PredictedUsage(n, p, u) <= PredictedUsage(n, p, v)
           /\ Capacity[n] \in Nat /\ (Capacity[n] = 0 => PredictedUsage(n, p, u) = 0)
<1>1. Capacity[n] \in Nat /\ PodUsage[p] \in Nat /\ MissingUtil(n) \in Nat
  BY NodesAssumption, UsageNat, MissingFinite
<1>2. /\ u * Capacity[n] \in Nat /\ v * Capacity[n] \in Nat
      /\ u * Capacity[n] <= v * Capacity[n]
  BY <1>1, ProductMonotone
<1>3. 100 * (PodUsage[p] + MissingUtil(n)) \in Nat
  BY <1>1
<1> QED  BY <1>1, <1>2, <1>3 DEF PredictedUsage

\* With a target of at most 100, which New does not ask for, and a multiplier that
\* is not negative, the score is in the range of the framework, although nothing
\* bounds what the recent pods add up to.
THEOREM ScoresInRange ==
    ASSUME Target <= 100
    PROVE  TLPSpec => []ScoreInRange
<1>1. CacheInv => ScoreInRange
  <2> SUFFICES ASSUME CacheInv, NEW n \in Nodes, NEW p \in Pods, NEW util \in Utils \cup {None}
               PROVE  Score(n, p, util) \in 0 .. 100
    BY DEF ScoreInRange, MinNodeScore, MaxNodeScore
  <2>1. CASE util = None
    BY <2>1 DEF Score, MinNodeScore
  <2>2. CASE util # None
    <3> DEFINE cap == IF Capacity[n] = 0 THEN 1 ELSE Capacity[n]
               usage == PredictedUsage(n, p, util)
    <3>1. util \in Nat /\ util <= util
      BY <2>2, NodesAssumption
    <3>2. usage \in Nat /\ Capacity[n] \in Nat
      BY <3>1, UsageFacts
    <3>3. cap \in Nat \ {0}
      BY <3>2
    <3>4. Score(n, p, util) = PackingScore(usage, cap)
      BY <2>2 DEF Score
    <3> HIDE DEF cap, usage
    <3> QED  BY <3>2, <3>3, <3>4, PackingScoreRange
  <2> QED  BY <2>1, <2>2
<1> QED  BY CacheInvariance, <1>1, PTL

\* Nodes are packed up to the target and relieved beyond it, for any target of at
\* most 100, any capacity and any load that is still to be measured; a node without
\* capacity always scores the same.
THEOREM PacksToTarget ==
    ASSUME Target <= 100
    PROVE  TLPSpec => []PackedToTarget
<1>1. CacheInv => PackedToTarget
  <2>1. ASSUME CacheInv, NEW n \in Nodes, NEW p \in Pods, NEW u \in Utils, NEW v \in Utils, u <= v
        PROVE  LET usage(w) == PredictedUsage(n, p, w)
                   limit == Target * Capacity[n]
               IN  /\ ~(usage(v) > limit) => Score(n, p, u) <= Score(n, p, v)
                   /\ usage(u) > limit => Score(n, p, u) >= Score(n, p, v)
    <3> DEFINE cap == IF Capacity[n] = 0 THEN 1 ELSE Capacity[n]
               a == PredictedUsage(n, p, u)
               b == PredictedUsage(n, p, v)
    <3>1. u \in Nat /\ v \in Nat /\ u # None /\ v # None
      BY NodesAssumption, SpecAssumption
    <3>2. a \in Nat /\ b \in Nat /\ a <= b /\ Capacity[n] \in Nat /\ (Capacity[n] = 0 => a = 0 /\ b = 0)
      <4>1. a \in Nat /\ b \in Nat /\ a <= b /\ Capacity[n] \in Nat /\ (Capacity[n] = 0 => a = 0)
        BY <2>1, <3>1, UsageFacts
      <4>2. v <= v
        BY <3>1
      <4>3. Capacity[n] = 0 => b = 0
        BY <2>1, <3>1, <4>2, UsageFacts
      <4> QED  BY <4>1, <4>3
    <3>3. cap \in Nat \ {0} /\ Target \in Nat /\ Target * cap \in Nat
      BY <3>2, ArgsAssumption
    <3>4. Score(n, p, u) = PackingScore(a, cap) /\ Score(n, p, v) = PackingScore(b, cap)
      BY <3>1 DEF Score
    <3>5. CASE Capacity[n] = 0
      <4>1. a = 0 /\ b = 0 /\ Target * Capacity[n] = 0
        BY <3>2, <3>3, <3>5
      <4> HIDE DEF cap, a, b
      <4>2. PackingScore(a, cap) \in 0 .. 100
        BY <3>2, <3>3, PackingScoreRange
      <4>3. ~(a > Target * Capacity[n]) /\ Score(n, p, u) <= Score(n, p, v)
        BY <3>4, <4>1, <4>2
      <4> QED  BY <4>3 DEF a
    <3>6. CASE Capacity[n] # 0
      <4>1. cap = Capacity[n]
        BY <3>6
      <4> HIDE DEF cap, a, b
      <4>2. /\ b <= Target * cap => PackingScore(a, cap) <= PackingScore(b, cap)
            /\ Target * cap < a => PackingScore(a, cap) >= PackingScore(b, cap)
        BY <3>2, <3>3, PackingScoreOrder
      <4>3. /\ ~(b > Target * Capacity[n]) => Score(n, p, u) <= Score(n, p, v)
            /\ a > Target * Capacity[n] => Score(n, p, u) >= Score(n, p, v)
        BY <3>2, <3>3, <3>4, <4>1, <4>2
      <4> QED  BY <4>3 DEF a, b
    <3> QED  BY <3>5, <3>6
  <2> HIDE DEF CacheInv
  <2>2. ASSUME CacheInv, NEW n \in Nodes, NEW p \in Pods
        PROVE  LET over  == {u \in Utils : PredictedUsage(n, p, u) > Target * Capacity[n]}
                   score == [u \in Utils |-> Score(n, p, u)]
               IN  \A u, v \in Utils : u <= v =>
                     /\ {u, v} \cap over = {} => score[u] <= score[v]
                     /\ {u, v} \subseteq over => score[u] >= score[v]
    BY <2>1, <2>2
  <2> QED  BY <2>2 DEF PackedToTarget
<1> QED  BY CacheInvariance, <1>1, PTL

=============================================================================
