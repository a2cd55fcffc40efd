---------------------- MODULE CrossNodePreemptionProofs ----------------------
(***************************************************************************)
(* The search of CrossNodePreemption tries every combination exactly once, *)
(* for any number of pods, although the slices of pending calls of dfs     *)
(* share arrays and append writes into them.                               *)
(*                                                                         *)
(* What saves the search is the order of the calls: of two pending calls   *)
(* that share an array the one that runs first has the longer slice, so it *)
(* writes only behind the end of the other one.  (The candidates that were *)
(* found before have no such luck: see CandidatesExecutable.)              *)
(***************************************************************************)
EXTENDS CrossNodePreemption, SumsProofs, SequenceTheorems, TLAPS

Slices == [array : Nat, len : Nat]
Calls  == [i : 1 .. NumPods + 1, path : Slices]

\* A slice of the arrays h, and the pods in it.
InHeap(h, s) ==
    /\ s \in Slices /\ s.array \in 0 .. Len(h)
    /\ s.len <= IF s.array = 0 THEN 0 ELSE Len(h[s.array])
Read(h, s) == {h[s.array][i] : i \in 1 .. s.len}

\* The combinations that a call is still to produce.
Span(h, c) == {S \in SUBSET Pods : S \cap (1 .. c.i - 1) = Read(h, c.path)}

\* Each pending call has a path of pods before its own place.
Paths ==
    \A j \in 1 .. Len(calls) :
        /\ InHeap(heap, calls[j].path)
        /\ Read(heap, calls[j].path) \subseteq 1 .. calls[j].i - 1

\* Of two calls that share an array the next one has the longer slice.
Nested ==
    \A j, k \in 1 .. Len(calls) : j < k /\ calls[j].path.array = calls[k].path.array =>
        calls[j].path.len <= calls[k].path.len

\* Every combination has been tried or is going to be, and only once.
Covered ==
    \A S \in SUBSET Pods :
        \/ \E k \in 1 .. Len(tried) : tried[k] = S
        \/ \E j \in 1 .. Len(calls) : S \in Span(heap, calls[j])
Once ==
    /\ \A k, l \in 1 .. Len(tried) : tried[k] = tried[l] => k = l
    /\ \A k \in 1 .. Len(tried), j \in 1 .. Len(calls) : tried[k] \notin Span(heap, calls[j])
    /\ \A j, k \in 1 .. Len(calls) : Span(heap, calls[j]) \cap Span(heap, calls[k]) # {} => j = k

Typed ==
    /\ heap \in Seq(Seq(Nat)) /\ calls \in Seq(Calls) /\ tried \in Seq(SUBSET Pods)

SearchInv == Typed /\ Paths /\ Nested /\ Covered /\ Once

-----------------------------------------------------------------------------
\* Typing of a sequence.
LEMMA SeqTyped ==
    ASSUME NEW S, NEW s \in Seq(S)
    PROVE  Len(s) \in Nat /\ DOMAIN s = 1 .. Len(s) /\ \A i \in 1 .. Len(s) : s[i] \in S
  OBVIOUS

\* A sequence with one member replaced.
LEMMA ReplacedSeq ==
    ASSUME NEW S, NEW s \in Seq(S), NEW k \in 1 .. Len(s), NEW x \in S
    PROVE  /\ [s EXCEPT ![k] = x] \in Seq(S) /\ Len([s EXCEPT ![k] = x]) = Len(s)
           /\ \A i \in 1 .. Len(s) : [s EXCEPT ![k] = x][i] = IF i = k THEN x ELSE s[i]
  OBVIOUS

\* A function on 1 .. n is a sequence.
LEMMA MakeSeq ==
    ASSUME NEW S, NEW n \in Nat, NEW f \in [1 .. n -> S]
    PROVE  f \in Seq(S) /\ Len(f) = n
  OBVIOUS

\* append in place: it writes behind the end of the slice.
LEMMA InPlace ==
    ASSUME heap \in Seq(Seq(Nat)), NEW s, InHeap(heap, s), s.len < Cap(s), NEW p \in Nat
    PROVE  LET h == [heap EXCEPT ![s.array][s.len + 1] = p]
           IN  /\ h \in Seq(Seq(Nat))
               /\ InHeap(h, [s EXCEPT !.len = @ + 1])
               /\ Read(h, [s EXCEPT !.len = @ + 1]) = Read(heap, s) \cup {p}
               /\ \A t : InHeap(heap, t) /\ (t.array = s.array => t.len <= s.len) =>
                    InHeap(h, t) /\ Read(h, t) = Read(heap, t)
<1> DEFINE a == s.array
           l == s.len
           h == [heap EXCEPT ![a][l + 1] = p]
           s1 == [s EXCEPT !.len = @ + 1]
<1>1. /\ Len(heap) \in Nat /\ \A i \in 1 .. Len(heap) : heap[i] \in Seq(Nat)
      /\ s \in Slices /\ a \in Nat /\ l \in Nat
  BY SeqTyped DEF InHeap, Slices
<1>2. a # 0 /\ a \in 1 .. Len(heap) /\ l < Len(heap[a])
  BY <1>1 DEF Cap, InHeap
<1>3. heap[a] \in Seq(Nat) /\ Len(heap[a]) \in Nat /\ l + 1 \in 1 .. Len(heap[a])
  BY <1>1, <1>2, SeqTyped
<1> DEFINE w == [heap[a] EXCEPT ![l + 1] = p]
<1>4. /\ w \in Seq(Nat) /\ Len(w) = Len(heap[a])
      /\ \A i \in 1 .. Len(heap[a]) : w[i] = IF i = l + 1 THEN p ELSE heap[a][i]
  BY <1>3, ReplacedSeq
<1>5. h = [heap EXCEPT ![a] = w]
  OBVIOUS
<1> HIDE DEF w, h
<1>6. /\ h \in Seq(Seq(Nat)) /\ Len(h) = Len(heap)
      /\ \A i \in 1 .. Len(heap) : h[i] = IF i = a THEN w ELSE heap[i]
  BY <1>2, <1>4, <1>5, ReplacedSeq
<1>7. s1 \in Slices /\ s1.array = a /\ s1.len = l + 1
  BY <1>1 DEF Slices
<1> HIDE DEF s1
<1>8. h[a] = w
  BY <1>2, <1>6
<1>9. InHeap(h, s1)
  BY <1>1, <1>2, <1>3, <1>4, <1>6, <1>7, <1>8 DEF InHeap
<1>10. Read(h, s1) = Read(heap, s) \cup {p}
  <2>1. Read(h, s1) = {w[i] : i \in 1 .. l + 1}
    BY <1>7, <1>8 DEF Read
  <2>2. Read(heap, s) = {heap[a][i] : i \in 1 .. l}
    BY DEF Read
  <2>3. w[l + 1] = p /\ \A i \in 1 .. l : w[i] = heap[a][i]
    <3>1. \A i \in 1 .. l : i \in 1 .. Len(heap[a]) /\ i # l + 1
      BY <1>1, <1>3
    <3> HIDE DEF a, l
    <3> QED  BY <1>3, <1>4, <3>1
  <2>4. 1 .. l + 1 = (1 .. l) \cup {l + 1}
    BY <1>1
  <2> HIDE DEF a, l
  <2> QED  BY <2>1, <2>2, <2>3, <2>4
<1>11. ASSUME NEW t, InHeap(heap, t), t.array = a => t.len <= l
       PROVE  InHeap(h, t) /\ Read(h, t) = Read(heap, t)
  <2>1. t \in Slices /\ t.array \in 0 .. Len(heap) /\ t.len \in Nat
    BY <1>11 DEF InHeap, Slices
  <2>2. CASE t.array = 0
    <3>1. t.len = 0 /\ 1 .. t.len = {}
      BY <1>11, <2>1, <2>2 DEF InHeap
    <3>2. Read(h, t) = {} /\ Read(heap, t) = {}
      BY <3>1 DEF Read
    <3> QED  BY <1>1, <1>6, <1>11, <2>1, <2>2, <3>2 DEF InHeap
  <2>3. CASE t.array = a
    <3>1. h[t.array] = w /\ heap[t.array] = heap[a] /\ t.len <= l
      BY <1>8, <1>11, <2>3
    <3>2. \A i \in 1 .. t.len : w[i] = heap[a][i]
      <4>1. \A i \in 1 .. t.len : i \in 1 .. Len(heap[a]) /\ i # l + 1
        <5> DEFINE L == Len(heap[a])
                   k == t.len
        <5>1. L \in Nat /\ l \in Nat /\ k \in Nat /\ k <= l /\ l + 1 <= L
          BY <1>1, <1>2, <1>3, <2>1, <3>1
        <5> HIDE DEF L, k, l
        <5> QED  BY <5>1 DEF L, k
      <4> HIDE DEF a, l
      <4> QED  BY <1>4, <4>1
    <3>3. Read(h, t) = Read(heap, t)
      BY <3>1, <3>2 DEF Read
    <3>4. t.array # 0 /\ t.array \in 0 .. Len(h) /\ t.len <= Len(h[t.array])
      <4>1. Len(h[t.array]) = Len(heap[a]) /\ Len(heap[a]) \in Nat
        BY <1>3, <1>4, <3>1
      <4> HIDE DEF a, l
      <4> QED  BY <1>1, <1>2, <1>6, <2>1, <2>3, <3>1, <4>1 DEF a, l
    <3> QED  BY <2>1, <3>3, <3>4 DEF InHeap
  <2>4. CASE t.array # a /\ t.array # 0
    <3>1. t.array \in 1 .. Len(heap) /\ h[t.array] = heap[t.array]
      BY <1>1, <1>6, <2>1, <2>4
    <3> QED  BY <1>6, <1>11, <3>1 DEF InHeap, Read
  <2> QED  BY <2>2, <2>3, <2>4
<1> QED  BY <1>6, <1>9, <1>10, <1>11 DEF h, s1

\* append as dfs uses it: the new slice has the old pods and one more, and a
\* slice that ends no later, or is in another array, reads as before.
Appended(s, p, s1, h) ==
    /\ h \in Seq(Seq(Nat)) /\ InHeap(h, s1)
    /\ Read(h, s1) = Read(heap, s) \cup {p}
    /\ \/ s1.array = s.array /\ s1.len = s.len + 1
       \/ s1.array = Len(heap) + 1
    /\ \A t : InHeap(heap, t) /\ (t.array = s.array => t.len <= s.len) =>
         InHeap(h, t) /\ Read(h, t) = Read(heap, t)

\* append keeps that promise, in place and into a new array.
LEMMA AppendFacts ==
    ASSUME heap \in Seq(Seq(Nat)), NEW s, InHeap(heap, s), NEW p \in Nat
    PROVE  Appended(s, p, GoAppend(s, p).slice, GoAppend(s, p).heap)
<1>0. s \in Slices /\ s.len \in Nat
  BY DEF InHeap, Slices
<1>1. CASE s.len < Cap(s)
  <2> DEFINE h == [heap EXCEPT ![s.array][s.len + 1] = p]
             s1 == [s EXCEPT !.len = @ + 1]
  <2>1. GoAppend(s, p) = [slice |-> s1, heap |-> h]
    BY <1>1 DEF GoAppend
  <2>2. s1.array = s.array /\ s1.len = s.len + 1
    BY <1>0 DEF Slices
  <2>3. /\ h \in Seq(Seq(Nat)) /\ InHeap(h, s1) /\ Read(h, s1) = Read(heap, s) \cup {p}
        /\ \A t : InHeap(heap, t) /\ (t.array = s.array => t.len <= s.len) =>
             InHeap(h, t) /\ Read(h, t) = Read(heap, t)
    BY <1>1, InPlace
  <2> HIDE DEF h, s1
  <2>4. GoAppend(s, p).heap = h /\ GoAppend(s, p).slice = s1
    BY <2>1
  <2> QED  BY <2>2, <2>3, <2>4 DEF Appended
<1>2. CASE ~(s.len < Cap(s))
  <2> DEFINE c == IF Cap(s) = 0 THEN 1 ELSE 2 * Cap(s)
             new == [i \in 1 .. c |-> IF i <= s.len THEN heap[s.array][i]
                                      ELSE IF i = s.len + 1 THEN p ELSE 0]
             h == Append(heap, new)
             s1 == [array |-> Len(heap) + 1, len |-> s.len + 1]
  <2>1. GoAppend(s, p) = [slice |-> s1, heap |-> h]
    BY <1>2 DEF GoAppend
  <2>2. Cap(s) \in Nat /\ s.len <= Cap(s)
    <3>1. CASE s.array = 0
      BY <1>0, <3>1 DEF Cap, InHeap
    <3>2. CASE s.array # 0
      <4>1. s.array \in 1 .. Len(heap) /\ Cap(s) = Len(heap[s.array]) /\ s.len <= Len(heap[s.array])
        BY <3>2 DEF Cap, InHeap, Slices
      <4> QED  BY <4>1, SeqTyped
    <3> QED  BY <3>1, <3>2
  <2>3. c \in Nat /\ c >= s.len + 1
    BY <1>0, <1>2, <2>2
  <2>4. s1.array = Len(heap) + 1
    OBVIOUS
  <2> HIDE DEF c
  <2>5. /\ h \in Seq(Seq(Nat)) /\ InHeap(h, s1) /\ Read(h, s1) = Read(heap, s) \cup {p}
        /\ \A t : InHeap(heap, t) => InHeap(h, t) /\ Read(h, t) = Read(heap, t)
    <3>1. ASSUME NEW i \in 1 .. s.len PROVE heap[s.array][i] \in Nat
      <4>1. s.array \in 1 .. Len(heap) /\ s.len <= Len(heap[s.array])
        BY <1>0 DEF InHeap, Slices
      <4>2. heap[s.array] \in Seq(Nat) /\ Len(heap[s.array]) \in Nat
        BY <4>1, SeqTyped
      <4>3. i \in 1 .. Len(heap[s.array])
        BY <1>0, <4>1, <4>2
      <4> QED  BY <4>2, <4>3, SeqTyped
    <3>2. new \in [1 .. c -> Nat]
      BY <1>0, <2>3, <3>1
    <3>3. /\ \A i \in 1 .. s.len : new[i] = heap[s.array][i]
          /\ new[s.len + 1] = p
      BY <1>0, <2>3
    <3> HIDE DEF new
    <3>4. new \in Seq(Nat) /\ Len(new) = c
      BY <2>3, <3>2, MakeSeq
    <3>5. /\ h \in Seq(Seq(Nat)) /\ Len(h) = Len(heap) + 1
          /\ \A i \in 1 .. Len(heap) : h[i] = heap[i]
          /\ h[Len(heap) + 1] = new
      BY <3>4, AppendProperties
    <3>6. s1 \in Slices /\ s1.array = Len(heap) + 1 /\ s1.len = s.len + 1
      BY <1>0, SeqTyped DEF Slices
    <3>7. Len(new) >= s.len + 1
      BY <2>3, <3>4
    <3> HIDE DEF h, s1
    <3>8. Len(heap) \in Nat /\ Len(new) \in Nat
      BY <3>4, SeqTyped
    <3>9. InHeap(h, s1)
      BY <1>0, <3>5, <3>6, <3>7, <3>8 DEF InHeap
    <3>10. Read(h, s1) = Read(heap, s) \cup {p}
      <4> DEFINE l == s.len
      <4>1. Read(h, s1) = {new[i] : i \in 1 .. l + 1}
        BY <3>5, <3>6 DEF Read
      <4>2. Read(heap, s) = {heap[s.array][i] : i \in 1 .. l}
        BY DEF Read
      <4>3. new[l + 1] = p /\ \A i \in 1 .. l : new[i] = heap[s.array][i]
        BY <3>3
      <4>4. 1 .. l + 1 = (1 .. l) \cup {l + 1}
        BY <1>0
      <4> HIDE DEF l
      <4>5. {new[i] : i \in 1 .. l} = {heap[s.array][i] : i \in 1 .. l}
        BY <4>3
      <4>6. {new[i] : i \in 1 .. l + 1} = {new[i] : i \in 1 .. l} \cup {new[l + 1]}
        BY <4>4
      <4> QED  BY <4>1, <4>2, <4>3, <4>5, <4>6
    <3>11. ASSUME NEW t, InHeap(heap, t) PROVE InHeap(h, t) /\ Read(h, t) = Read(heap, t)
      <4>1. t \in Slices /\ t.array \in 0 .. Len(heap) /\ t.len \in Nat
        BY <3>11 DEF InHeap, Slices
      <4>2. CASE t.array = 0
        <5>1. t.len = 0 /\ 1 .. t.len = {}
          BY <3>11, <4>1, <4>2 DEF InHeap
        <5>2. Read(h, t) = {} /\ Read(heap, t) = {}
          BY <5>1 DEF Read
        <5> QED  BY <3>5, <3>8, <3>11, <4>1, <4>2, <5>2 DEF InHeap
      <4>3. CASE t.array # 0
        <5>1. t.array \in 1 .. Len(heap) /\ h[t.array] = heap[t.array] /\ t.array \in 0 .. Len(h)
          BY <3>5, <3>8, <4>1, <4>3
        <5> QED  BY <3>11, <4>3, <5>1 DEF InHeap, Read
      <4> QED  BY <4>2, <4>3
    <3> QED  BY <3>5, <3>9, <3>10, <3>11
  <2> HIDE DEF h, s1, new
  <2>6. GoAppend(s, p).heap = h /\ GoAppend(s, p).slice = s1
    BY <2>1
  <2> QED  BY <2>4, <2>5, <2>6 DEF Appended
<1> QED  BY <1>1, <1>2

\* A sequence without its last member.
LEMMA PopFacts ==
    ASSUME NEW S, NEW s \in Seq(S), s # << >>
    PROVE  LET q == SubSeq(s, 1, Len(s) - 1)
           IN  /\ Len(s) \in Nat \ {0} /\ q \in Seq(S) /\ Len(q) = Len(s) - 1
               /\ \A j \in 1 .. Len(s) - 1 : q[j] = s[j]
<1> DEFINE n == Len(s) - 1
           q == SubSeq(s, 1, n)
<1>1. Len(s) \in Nat \ {0}
  BY EmptySeq
<1>2. n \in Nat /\ n \in Int /\ 1 \in Int
  BY <1>1
<1>3. \A i \in 1 .. n : s[i] \in S
  BY <1>1, SeqTyped
<1> HIDE DEF n
<1>4. /\ q \in Seq(S) /\ Len(q) = IF 1 <= n THEN n - 1 + 1 ELSE 0
      /\ \A i \in 1 .. n - 1 + 1 : q[i] = s[1 + i - 1]
  BY <1>2, <1>3, SubSeqProperties
<1> HIDE DEF q
<1>5. Len(q) = n /\ n - 1 + 1 = n /\ \A i \in 1 .. n : 1 + i - 1 = i
  BY <1>2, <1>4
<1>6. \A i \in 1 .. n : q[i] = s[i]
  BY <1>4, <1>5
<1> QED  BY <1>1, <1>4, <1>5, <1>6 DEF q, n

\* A sequence with two more members.
LEMMA PushTwo ==
    ASSUME NEW S, NEW s \in Seq(S), NEW x \in S, NEW y \in S, NEW q, q = s \o <<x, y>>
    PROVE  /\ q \in Seq(S) /\ Len(q) = Len(s) + 2
           /\ \A j \in 1 .. Len(s) : q[j] = s[j]
           /\ q[Len(s) + 1] = x /\ q[Len(s) + 2] = y
<1> DEFINE e == <<x, y>>
           n == Len(s)
<1>1. e \in Seq(S) /\ Len(e) = 2 /\ e[1] = x /\ e[2] = y /\ q = s \o e
  OBVIOUS
<1> HIDE DEF e
<1>2. n \in Nat
  BY SeqTyped
<1>3. /\ q \in Seq(S) /\ Len(q) = n + 2
      /\ \A j \in 1 .. n + 2 : q[j] = IF j <= n THEN s[j] ELSE e[j - n]
  BY <1>1, ConcatProperties
<1> HIDE DEF n
<1>4. /\ n + 1 \in 1 .. n + 2 /\ n + 2 \in 1 .. n + 2 /\ ~(n + 1 <= n) /\ ~(n + 2 <= n)
      /\ (n + 1) - n = 1 /\ (n + 2) - n = 2
      /\ \A j \in 1 .. n : j \in 1 .. n + 2 /\ j <= n
  BY <1>2
<1>5. q[n + 1] = e[(n + 1) - n] /\ q[n + 2] = e[(n + 2) - n]
  BY <1>3, <1>4, Zenon
<1>6. \A j \in 1 .. n : q[j] = s[j]
  BY <1>3, <1>4, Zenon
<1>7. q[n + 1] = x /\ q[n + 2] = y
  BY <1>1, <1>4, <1>5, Zenon
<1> QED  BY <1>3, <1>6, <1>7 DEF n

\* A call at pod i hands its combinations to two calls at pod i + 1.
LEMMA SpanSplits ==
    ASSUME NEW i \in 1 .. NumPods, NEW R, R \subseteq 1 .. i - 1, NEW S \in SUBSET Pods
    PROVE  /\ S \cap (1 .. i) = R <=> S \cap (1 .. i - 1) = R /\ i \notin S
           /\ S \cap (1 .. i) = R \cup {i} <=> S \cap (1 .. i - 1) = R /\ i \in S
<1>1. i \in Int /\ i \notin 1 .. i - 1 /\ 1 .. i = (1 .. i - 1) \cup {i}
  BY SizeAssumption
<1> DEFINE D == 1 .. i - 1
<1> HIDE DEF D
<1>2. R \subseteq D /\ i \notin D /\ 1 .. i = D \cup {i}
  BY <1>1 DEF D
<1>3. S \cap (D \cup {i}) = R <=> S \cap D = R /\ i \notin S
  BY <1>2
<1>4. S \cap (D \cup {i}) = R \cup {i} <=> S \cap D = R /\ i \in S
  BY <1>2
<1> QED  BY <1>2, <1>3, <1>4 DEF D

\* What a call of dfs that branches leaves: two calls in its place, while the
\* other ones and the slice of this one read as they did.
LEMMA BranchFacts ==
    ASSUME SearchInv, Branch
    PROVE  LET L == Len(calls)
           IN  /\ L \in Nat \ {0} /\ calls[L] \in Calls /\ calls[L].i \in 1 .. NumPods
               /\ heap' \in Seq(Seq(Nat)) /\ calls' \in Seq(Calls)
               /\ Len(calls') = L + 1
               /\ \A j \in 1 .. L - 1 : calls'[j] = calls[j]
               /\ calls'[L].i = calls[L].i + 1 /\ calls'[L].path = calls[L].path
               /\ calls'[L + 1].i = calls[L].i + 1
               /\ \A j \in 1 .. L : /\ InHeap(heap', calls[j].path)
                                    /\ Read(heap', calls[j].path) = Read(heap, calls[j].path)
               /\ InHeap(heap', calls'[L + 1].path)
               /\ Read(heap', calls'[L + 1].path)
                    = Read(heap, calls[L].path) \cup {calls[L].i}
               /\ \/ /\ calls'[L + 1].path.array = calls[L].path.array
                     /\ calls'[L + 1].path.len = calls[L].path.len + 1
                  \/ calls'[L + 1].path.array = Len(heap) + 1
<1> DEFINE L == Len(calls)
           T == calls[L]
           g == GoAppend(T.path, T.i)
           x == [i |-> T.i + 1, path |-> T.path]
           y == [i |-> T.i + 1, path |-> g.slice]
<1>1. heap \in Seq(Seq(Nat)) /\ calls \in Seq(Calls) /\ calls # << >>
  BY DEF SearchInv, Typed, Branch
<1>2. /\ L \in Nat \ {0} /\ Pop \in Seq(Calls) /\ Len(Pop) = L - 1
      /\ \A j \in 1 .. L - 1 : Pop[j] = calls[j]
  BY <1>1, PopFacts DEF Pop
<1>3. L \in 1 .. L /\ T \in Calls /\ T.i \in 1 .. NumPods /\ T.i \in Nat /\ T.path \in Slices
  <2>1. L \in 1 .. L
    BY <1>2
  <2>2. T \in Calls
    BY <1>1, <2>1, SeqTyped
  <2>3. T.i <= NumPods
    BY DEF Branch, Top
  <2> HIDE DEF T
  <2> QED  BY <2>1, <2>2, <2>3, SizeAssumption DEF Calls
<1>4. heap' = g.heap /\ calls' = Pop \o <<x, y>>
  BY DEF Branch, Top
<1>5. InHeap(heap, T.path)
  BY <1>3 DEF SearchInv, Paths
<1> HIDE DEF T
<1>6. /\ g.heap \in Seq(Seq(Nat)) /\ InHeap(g.heap, g.slice)
      /\ Read(g.heap, g.slice) = Read(heap, T.path) \cup {T.i}
      /\ \/ g.slice.array = T.path.array /\ g.slice.len = T.path.len + 1
         \/ g.slice.array = Len(heap) + 1
      /\ \A t : InHeap(heap, t) /\ (t.array = T.path.array => t.len <= T.path.len) =>
           InHeap(g.heap, t) /\ Read(g.heap, t) = Read(heap, t)
  <2>1. Appended(T.path, T.i, g.slice, g.heap)
    BY <1>1, <1>3, <1>5, AppendFacts
  <2> HIDE DEF g
  <2> QED  BY <2>1 DEF Appended
<1> HIDE DEF g
<1>7. x \in Calls /\ y \in Calls /\ x.i = T.i + 1 /\ y.i = T.i + 1 /\ x.path = T.path /\ y.path = g.slice
  BY <1>3, <1>6, SizeAssumption DEF Calls, InHeap
<1> HIDE DEF x, y
<1>8. /\ calls' \in Seq(Calls) /\ Len(calls') = Len(Pop) + 2
      /\ \A j \in 1 .. Len(Pop) : calls'[j] = Pop[j]
      /\ calls'[Len(Pop) + 1] = x /\ calls'[Len(Pop) + 2] = y
  <2>1. Pop \in Seq(Calls) /\ x \in Calls /\ y \in Calls /\ calls' = Pop \o <<x, y>>
    BY <1>2, <1>4, <1>7
  <2>2. ASSUME NEW s \in Seq(Calls), NEW a \in Calls, NEW b \in Calls, NEW q, q = s \o <<a, b>>
        PROVE  /\ q \in Seq(Calls) /\ Len(q) = Len(s) + 2
               /\ \A j \in 1 .. Len(s) : q[j] = s[j]
               /\ q[Len(s) + 1] = a /\ q[Len(s) + 2] = b
    BY <2>2, PushTwo
  <2> DEFINE P == Pop
             q == calls'
  <2>3. P \in Seq(Calls) /\ x \in Calls /\ y \in Calls /\ q = P \o <<x, y>>
    BY <2>1
  <2> HIDE DEF P, q
  <2>4. /\ q \in Seq(Calls) /\ Len(q) = Len(P) + 2
        /\ \A j \in 1 .. Len(P) : q[j] = P[j]
        /\ q[Len(P) + 1] = x /\ q[Len(P) + 2] = y
    BY <2>2, <2>3
  <2> QED  BY <2>4 DEF P, q
<1>9. /\ Len(calls') = L + 1 /\ \A j \in 1 .. L - 1 : calls'[j] = calls[j]
      /\ calls'[L] = x /\ calls'[L + 1] = y
  <2>1. Len(Pop) + 1 = L /\ Len(Pop) + 2 = L + 1
    BY <1>2
  <2> QED  BY <1>2, <1>8, <2>1
<1>10. ASSUME NEW j \in 1 .. L
       PROVE  InHeap(heap', calls[j].path) /\ Read(heap', calls[j].path) = Read(heap, calls[j].path)
  <2>1. InHeap(heap, calls[j].path)
    BY DEF SearchInv, Paths
  <2>2. calls[j].path.array = T.path.array => calls[j].path.len <= T.path.len
    <3>1. CASE j = L
      <4>1. T.path.len \in Nat
        BY <1>3 DEF Slices
      <4> QED  BY <3>1, <4>1 DEF T
    <3>2. CASE j # L
      <4>1. j < L
        BY <1>2, <3>2
      <4> QED  BY <1>3, <4>1 DEF SearchInv, Nested, T
    <3> QED  BY <3>1, <3>2
  <2> QED  BY <1>4, <1>6, <2>1, <2>2
<1> QED  BY <1>2, <1>3, <1>4, <1>6, <1>7, <1>8, <1>9, <1>10 DEF T

\* The two calls share the combinations of the one they replace.
LEMMA BranchSpans ==
    ASSUME SearchInv, Branch
    PROVE  LET L == Len(calls)
           IN  /\ \A j \in 1 .. L - 1 : Span(heap', calls'[j]) = Span(heap, calls[j])
               /\ \A S : S \in Span(heap', calls'[L])
                           <=> S \in Span(heap, calls[L]) /\ calls[L].i \notin S
               /\ \A S : S \in Span(heap', calls'[L + 1])
                           <=> S \in Span(heap, calls[L]) /\ calls[L].i \in S
<1> DEFINE L == Len(calls)
           i == calls[L].i
           R == Read(heap, calls[L].path)
<1>1. /\ L \in Nat \ {0} /\ i \in 1 .. NumPods
      /\ \A j \in 1 .. L - 1 : calls'[j] = calls[j]
      /\ calls'[L].i = i + 1 /\ calls'[L].path = calls[L].path
      /\ calls'[L + 1].i = i + 1
      /\ \A j \in 1 .. L : Read(heap', calls[j].path) = Read(heap, calls[j].path)
      /\ Read(heap', calls'[L + 1].path) = R \cup {i}
  BY BranchFacts
<1>2. \A j \in 1 .. L - 1 : j \in 1 .. L
  BY <1>1
<1>3. L \in 1 .. L /\ i + 1 - 1 = i
  BY <1>1
<1>4. R \subseteq 1 .. i - 1
  BY <1>3 DEF SearchInv, Paths
<1>5. Read(heap', calls'[L].path) = R
  BY <1>1, <1>3
<1>6. \A j \in 1 .. L - 1 : Span(heap', calls'[j]) = Span(heap, calls[j])
  BY <1>1, <1>2 DEF Span
<1>7. Span(heap', calls'[L]) = {S \in SUBSET Pods : S \cap (1 .. i) = R}
  BY <1>1, <1>3, <1>5 DEF Span
<1>8. Span(heap', calls'[L + 1]) = {S \in SUBSET Pods : S \cap (1 .. i) = R \cup {i}}
  BY <1>1, <1>3 DEF Span
<1>9. Span(heap, calls[L]) = {S \in SUBSET Pods : S \cap (1 .. i - 1) = R}
  BY DEF Span
<1> DEFINE A == Span(heap', calls'[L])
           B == Span(heap', calls'[L + 1])
           C == Span(heap, calls[L])
<1> HIDE DEF A, B, C
<1>10. /\ A = {S \in SUBSET Pods : S \cap (1 .. i) = R}
       /\ B = {S \in SUBSET Pods : S \cap (1 .. i) = R \cup {i}}
       /\ C = {S \in SUBSET Pods : S \cap (1 .. i - 1) = R}
  BY <1>7, <1>8, <1>9 DEF A, B, C
<1> HIDE DEF i, R
<1>11. ASSUME NEW S
       PROVE  (S \in A <=> S \in C /\ i \notin S) /\ (S \in B <=> S \in C /\ i \in S)
  <2>1. CASE S \in SUBSET Pods
    <3>1. /\ S \cap (1 .. i) = R <=> S \cap (1 .. i - 1) = R /\ i \notin S
          /\ S \cap (1 .. i) = R \cup {i} <=> S \cap (1 .. i - 1) = R /\ i \in S
      BY <1>1, <1>4, <2>1, SpanSplits
    <3> QED  BY <1>10, <2>1, <3>1
  <2>2. CASE S \notin SUBSET Pods
    BY <1>10, <2>2
  <2> QED  BY <2>1, <2>2
<1> QED  BY <1>6, <1>11 DEF A, B, C, i

\* dfs at a pod: the two calls cover what the one that it runs would have.
LEMMA BranchKeeps ==
    ASSUME SearchInv, Branch
    PROVE  SearchInv'
<1> DEFINE L == Len(calls)
           i == calls[L].i
           Old(j) == Span(heap, calls[j])
           New(j) == Span(heap', calls'[j])
           o(j) == IF j <= L THEN j ELSE L
<1>1. /\ L \in Nat \ {0} /\ calls[L] \in Calls /\ i \in 1 .. NumPods /\ i \in Nat
      /\ heap' \in Seq(Seq(Nat)) /\ calls' \in Seq(Calls) /\ Len(calls') = L + 1
      /\ \A j \in 1 .. L - 1 : calls'[j] = calls[j]
      /\ calls'[L].i = i + 1 /\ calls'[L].path = calls[L].path /\ calls'[L + 1].i = i + 1
  BY BranchFacts
<1>2. /\ \A j \in 1 .. L : /\ InHeap(heap', calls[j].path)
                           /\ Read(heap', calls[j].path) = Read(heap, calls[j].path)
      /\ InHeap(heap', calls'[L + 1].path)
      /\ Read(heap', calls'[L + 1].path) = Read(heap, calls[L].path) \cup {i}
      /\ \/ /\ calls'[L + 1].path.array = calls[L].path.array
            /\ calls'[L + 1].path.len = calls[L].path.len + 1
         \/ calls'[L + 1].path.array = Len(heap) + 1
  BY BranchFacts
<1>3. /\ \A j \in 1 .. L - 1 : New(j) = Old(j)
      /\ \A S : S \in New(L) <=> S \in Old(L) /\ i \notin S
      /\ \A S : S \in New(L + 1) <=> S \in Old(L) /\ i \in S
  BY BranchSpans
<1>4. tried' = tried /\ L \in 1 .. L /\ L \in 1 .. L + 1 /\ L + 1 \in 1 .. L + 1
  BY <1>1 DEF Branch
<1>5. \A j \in 1 .. L + 1 : j \in 1 .. L - 1 \/ j = L \/ j = L + 1
  BY <1>1
<1>6. \A j \in 1 .. L : calls'[j].path = calls[j].path
  <2>1. \A j \in 1 .. L : j \in 1 .. L - 1 \/ j = L
    BY <1>1
  <2> QED  BY <1>1, <2>1
<1>7. Typed'
  BY <1>1, <1>4 DEF Typed, SearchInv, Pods
<1>8. Paths'
  <2> SUFFICES ASSUME NEW j \in 1 .. L + 1
               PROVE  InHeap(heap', calls'[j].path) /\ Read(heap', calls'[j].path) \subseteq 1 .. calls'[j].i - 1
    BY <1>1 DEF Paths
  <2>0. Read(heap, calls[L].path) \subseteq 1 .. i - 1 /\ i + 1 - 1 = i /\ i \in 1 .. i
        /\ (1 .. i - 1) \subseteq 1 .. i
    BY <1>1, <1>4 DEF SearchInv, Paths
  <2>1. CASE j \in 1 .. L - 1
    <3>1. j \in 1 .. L
      BY <1>1, <2>1
    <3> QED  BY <1>1, <1>2, <2>1, <3>1 DEF SearchInv, Paths
  <2>2. CASE j = L
    BY <1>1, <1>2, <1>4, <2>0, <2>2
  <2>3. CASE j = L + 1
    BY <1>1, <1>2, <2>0, <2>3
  <2> QED  BY <1>5, <2>1, <2>2, <2>3
<1>9. Nested'
  <2> SUFFICES ASSUME NEW j \in 1 .. L + 1, NEW k \in 1 .. L + 1, j < k,
                      calls'[j].path.array = calls'[k].path.array
               PROVE  calls'[j].path.len <= calls'[k].path.len
    BY <1>1 DEF Nested
  <2>1. CASE k \in 1 .. L
    <3>1. j \in 1 .. L
      BY <1>1, <2>1
    <3> QED  BY <1>6, <2>1, <3>1 DEF SearchInv, Nested
  <2>2. CASE k = L + 1
    <3>1. j \in 1 .. L
      BY <1>1, <2>2
    <3>2. InHeap(heap, calls[j].path) /\ Len(heap) \in Nat /\ calls[j].path.array <= Len(heap)
          /\ calls[j].path.array \in Nat /\ calls[j].path.len \in Nat
      BY <3>1, SeqTyped DEF SearchInv, Typed, Paths, InHeap, Slices
    <3>3. calls'[j].path = calls[j].path
      BY <1>6, <3>1
    <3>4. calls[L].path.len \in Nat
      BY <1>1 DEF Calls, Slices
    <3>5. calls[j].path.array = calls[L].path.array => calls[j].path.len <= calls[L].path.len
      <4>1. CASE j = L
        BY <3>4, <4>1
      <4>2. CASE j # L
        <5>1. j < L
          BY <1>1, <3>1, <4>2
        <5> QED  BY <1>4, <3>1, <5>1 DEF SearchInv, Nested
      <4> QED  BY <4>1, <4>2
    <3> DEFINE a == calls[j].path.array
               l == calls[j].path.len
               m == calls[L].path.len
               n == calls'[L + 1].path.len
               b == calls'[L + 1].path.array
               H == Len(heap)
    <3>6. /\ a \in Nat /\ l \in Nat /\ m \in Nat /\ H \in Nat /\ a <= H /\ a = b
          /\ a = calls[L].path.array => l <= m
          /\ (b = calls[L].path.array /\ n = m + 1) \/ b = H + 1
      BY <1>2, <2>2, <3>2, <3>3, <3>4, <3>5
    <3> HIDE DEF a, l, m, n, b, H
    <3>7. l <= n
      BY <3>6
    <3> QED  BY <2>2, <3>3, <3>7 DEF l, n
  <2>3. k \in 1 .. L \/ k = L + 1
    <3>1. L \in Nat /\ k \in 1 .. L + 1
      BY <1>1
    <3> HIDE DEF L
    <3> QED  BY <3>1
  <2> QED  BY <2>1, <2>2, <2>3
<1>10. Covered'
  <2> SUFFICES ASSUME NEW S \in SUBSET Pods
               PROVE  \/ \E k \in 1 .. Len(tried) : tried[k] = S
                      \/ \E j \in 1 .. L + 1 : S \in New(j)
    BY <1>1, <1>4 DEF Covered, Pods
  <2>1. \/ \E k \in 1 .. Len(tried) : tried[k] = S
        \/ \E j \in 1 .. L : S \in Old(j)
    BY DEF SearchInv, Covered
  <2>2. ASSUME NEW j \in 1 .. L, S \in Old(j) PROVE \E k \in 1 .. L + 1 : S \in New(k)
    <3>1. CASE j = L
      <4> HIDE DEF L, Old, New, i
      <4> QED  BY <1>3, <1>4, <2>2, <3>1
    <3>2. CASE j # L
      <4>1. j \in 1 .. L - 1 /\ j \in 1 .. L + 1
        BY <1>1, <3>2
      <4> HIDE DEF L, Old, New, i
      <4> QED  BY <1>3, <2>2, <4>1
    <3> QED  BY <3>1, <3>2
  <2> HIDE DEF L, Old, New
  <2> QED  BY <2>1, <2>2
<1>11. Once'
  <2>1. ASSUME NEW j \in 1 .. L + 1, NEW S \in New(j)
        PROVE  o(j) \in 1 .. L /\ S \in Old(o(j))
    <3>1. CASE j \in 1 .. L - 1
      <4>1. o(j) = j /\ j \in 1 .. L
        BY <1>1, <3>1
      <4> HIDE DEF L, Old, New, i, o
      <4> QED  BY <1>3, <2>1, <3>1, <4>1
    <3>2. CASE j = L
      <4>1. o(j) = L
        BY <1>1, <3>2
      <4> HIDE DEF L, Old, New, i, o
      <4> QED  BY <1>3, <1>4, <2>1, <3>2, <4>1
    <3>3. CASE j = L + 1
      <4>1. o(j) = L
        BY <1>1, <3>3
      <4> HIDE DEF L, Old, New, i, o
      <4> QED  BY <1>3, <1>4, <2>1, <3>3, <4>1
    <3> QED  BY <1>5, <3>1, <3>2, <3>3
  <2>2. \A k, l \in 1 .. Len(tried) : tried[k] = tried[l] => k = l
    BY DEF SearchInv, Once
  <2>3. ASSUME NEW k \in 1 .. Len(tried), NEW j \in 1 .. L + 1 PROVE tried[k] \notin New(j)
    <3>1. \A m \in 1 .. L : tried[k] \notin Old(m)
      BY DEF SearchInv, Once
    <3> HIDE DEF L, Old, New, i, o
    <3> QED  BY <2>1, <3>1
  <2>4. ASSUME NEW j \in 1 .. L + 1, NEW k \in 1 .. L + 1, New(j) \cap New(k) # {}
        PROVE  j = k
    <3>1. PICK S : S \in New(j) /\ S \in New(k)
      BY <2>4
    <3>2. \A m, n \in 1 .. L : Old(m) \cap Old(n) # {} => m = n
      BY DEF SearchInv, Once
    <3>3. o(j) = o(k)
      <4>1. o(j) \in 1 .. L /\ o(k) \in 1 .. L /\ S \in Old(o(j)) /\ S \in Old(o(k))
        BY <2>1, <3>1
      <4> HIDE DEF L, Old, New, i, o
      <4> QED  BY <3>2, <4>1
    <3>4. j = k \/ (j = L /\ k = L + 1) \/ (j = L + 1 /\ k = L)
      BY <1>1, <3>3
    <3> HIDE DEF L, Old, New, i, o
    <3> QED  BY <1>3, <3>1, <3>4
  <2> QED  BY <1>1, <1>4, <2>2, <2>3, <2>4 DEF Once
<1> QED  BY <1>7, <1>8, <1>9, <1>10, <1>11 DEF SearchInv

\* dfs at the end of the pods: the call had one combination left, its own path.
LEMMA LeafKeeps ==
    ASSUME SearchInv, Leaf
    PROVE  SearchInv'
<1> DEFINE L == Len(calls)
           T == calls[L]
           X == Read(heap, T.path)
           N == Len(tried)
           Sp(j) == Span(heap, calls[j])
<1>1. /\ heap \in Seq(Seq(Nat)) /\ calls \in Seq(Calls) /\ calls # << >>
      /\ tried \in Seq(SUBSET Pods) /\ heap' = heap /\ calls' = Pop
  BY DEF SearchInv, Typed, Leaf
<1>2. /\ L \in Nat \ {0} /\ calls' \in Seq(Calls) /\ Len(calls') = L - 1
      /\ \A j \in 1 .. L - 1 : calls'[j] = calls[j]
  BY <1>1, PopFacts DEF Pop
<1>3. L \in 1 .. L /\ \A j \in 1 .. L - 1 : j \in 1 .. L /\ j # L
  BY <1>2
<1>4. T \in Calls /\ T.i > NumPods
  BY <1>1, <1>3, SeqTyped DEF Leaf, Top
<1>5. 1 .. T.i - 1 = Pods
  <2> HIDE DEF T
  <2>1. T.i = NumPods + 1
    BY <1>4, SizeAssumption DEF Calls
  <2> QED  BY <2>1, SizeAssumption DEF Pods
<1>6. X \in SUBSET Pods
  BY <1>3, <1>5 DEF SearchInv, Paths
<1>7. \A S : S \in Sp(L) <=> S = X
  BY <1>5, <1>6 DEF Span
<1>8. tried' = Append(tried, X)
  <2>1. T.path \in Slices
    BY <1>4 DEF Calls
  <2>2. Elems(T.path) = X
    BY DEF Elems, Read
  <2>3. T.path.len = 0 => X = {}
    <3>1. ASSUME T.path.len = 0 PROVE X = {}
      <4>1. 1 .. T.path.len = {}
        BY <3>1
      <4> QED  BY <4>1 DEF Read
    <3> QED  BY <3>1
  <2> HIDE DEF X
  <2> QED  BY <2>2, <2>3 DEF Leaf, Top
<1> HIDE DEF X
<1>9. /\ tried' \in Seq(SUBSET Pods) /\ Len(tried') = N + 1 /\ N \in Nat
      /\ \A k \in 1 .. N : tried'[k] = tried[k]
      /\ tried'[N + 1] = X
  BY <1>1, <1>6, <1>8, AppendProperties, SeqTyped
<1>10. \A k \in 1 .. N + 1 : k \in 1 .. N \/ k = N + 1
  BY <1>9
<1>11. N + 1 \in 1 .. N + 1 /\ \A k \in 1 .. N : k \in 1 .. N + 1 /\ k # N + 1
  BY <1>9
<1>12. \A j \in 1 .. L : j = L \/ j \in 1 .. L - 1
  BY <1>2
<1>13. \A k \in 1 .. N : tried[k] # X
  <2>1. \A k \in 1 .. N : tried[k] \notin Sp(L)
    BY <1>3 DEF SearchInv, Once
  <2> QED  BY <1>7, <2>1
<1>14. Typed'
  BY <1>1, <1>2, <1>9 DEF Typed, Pods
<1>15. Paths'
  BY <1>1, <1>2, <1>3 DEF SearchInv, Paths
<1>16. Nested'
  <2> SUFFICES ASSUME NEW j \in 1 .. L - 1, NEW k \in 1 .. L - 1, j < k,
                      calls'[j].path.array = calls'[k].path.array
               PROVE  calls'[j].path.len <= calls'[k].path.len
    BY <1>2 DEF Nested
  <2>1. calls'[j] = calls[j] /\ calls'[k] = calls[k] /\ j \in 1 .. L /\ k \in 1 .. L
    BY <1>2, <1>3
  <2> QED  BY <2>1 DEF SearchInv, Nested
<1>17. Covered'
  <2> SUFFICES ASSUME NEW S \in SUBSET Pods
               PROVE  \/ \E k \in 1 .. N + 1 : tried'[k] = S
                      \/ \E j \in 1 .. L - 1 : S \in Sp(j)
    BY <1>1, <1>2, <1>9 DEF Covered, Pods
  <2>1. (\E k \in 1 .. N : tried[k] = S) \/ (\E j \in 1 .. L : S \in Sp(j))
    BY DEF SearchInv, Covered
  <2> HIDE DEF L, N, Sp, X
  <2> QED  BY <1>7, <1>9, <1>11, <1>12, <2>1
<1>18. Once'
  <2>1. ASSUME NEW k \in 1 .. N + 1, NEW l \in 1 .. N + 1, tried'[k] = tried'[l]
        PROVE  k = l
    <3>1. \A a, b \in 1 .. N : tried[a] = tried[b] => a = b
      BY DEF SearchInv, Once
    <3> HIDE DEF L, N, Sp, X
    <3> QED  BY <1>9, <1>10, <1>13, <2>1, <3>1
  <2>2. ASSUME NEW k \in 1 .. N + 1, NEW j \in 1 .. L - 1 PROVE tried'[k] \notin Sp(j)
    <3>1. \A a \in 1 .. N, b \in 1 .. L : tried[a] \notin Sp(b)
      BY DEF SearchInv, Once
    <3>2. \A a, b \in 1 .. L : Sp(a) \cap Sp(b) # {} => a = b
      BY DEF SearchInv, Once
    <3> HIDE DEF L, N, Sp, X
    <3>3. X \notin Sp(j)
      <4>1. X \in Sp(L)
        BY <1>7
      <4> QED  BY <1>3, <3>2, <4>1
    <3> QED  BY <1>3, <1>9, <1>10, <3>1, <3>3
  <2>3. ASSUME NEW j \in 1 .. L - 1, NEW k \in 1 .. L - 1, Sp(j) \cap Sp(k) # {}
        PROVE  j = k
    BY <1>3, <2>3 DEF SearchInv, Once
  <2> QED  BY <1>1, <1>2, <1>9, <2>1, <2>2, <2>3 DEF Once
<1> QED  BY <1>14, <1>15, <1>16, <1>17, <1>18 DEF SearchInv

\* The search invariant holds from the first call of dfs on.
THEOREM SearchInvariance == Spec => []SearchInv
<1>1. Init => SearchInv
  <2> SUFFICES ASSUME Init PROVE SearchInv
    OBVIOUS
  <2> DEFINE c == [i |-> 1, path |-> NilSlice]
  <2>1. heap = << >> /\ calls = <<c>> /\ tried = << >>
    BY DEF Init
  <2>2. NilSlice \in Slices /\ NilSlice.array = 0 /\ NilSlice.len = 0
    BY DEF NilSlice, Slices
  <2>3. c \in Calls /\ c.i = 1 /\ c.path = NilSlice
    BY <2>2, SizeAssumption DEF Calls
  <2> HIDE DEF c
  <2>4. Len(calls) = 1 /\ calls[1] = c /\ Len(tried) = 0 /\ Len(heap) = 0
    BY <2>1
  <2>5. Read(heap, NilSlice) = {}
    <3>1. 1 .. NilSlice.len = {}
      BY <2>2
    <3> QED  BY <3>1 DEF Read
  <2>6. Span(heap, c) = SUBSET Pods
    <3>1. 1 .. c.i - 1 = {}
      BY <2>3
    <3> QED  BY <2>3, <2>5, <3>1 DEF Span
  <2>7. \A j \in 1 .. Len(calls) : calls[j] = c /\ j = 1
    BY <2>4
  <2>8. \A k \in 1 .. Len(tried) : FALSE
    BY <2>4
  <2>9. Typed
    BY <2>1, <2>3, EmptySeq DEF Typed
  <2>10. Paths
    BY <2>2, <2>3, <2>4, <2>5, <2>7 DEF Paths, InHeap
  <2>11. Nested
    BY <2>7 DEF Nested
  <2>12. Covered
    <3>1. 1 \in 1 .. Len(calls)
      BY <2>4
    <3> QED  BY <2>6, <2>7, <3>1 DEF Covered
  <2>13. Once
    BY <2>7, <2>8 DEF Once
  <2> QED  BY <2>9, <2>10, <2>11, <2>12, <2>13 DEF SearchInv
<1>2. SearchInv /\ [Next]_vars => SearchInv'
  <2> SUFFICES ASSUME SearchInv, [Next]_vars PROVE SearchInv'
    OBVIOUS
  <2>1. CASE Leaf
    BY <2>1, LeafKeeps
  <2>2. CASE Branch
    BY <2>2, BranchKeeps
  <2>3. CASE UNCHANGED vars
    BY <2>3 DEF vars, SearchInv, Typed, Paths, Nested, Covered, Once
  <2> QED  BY <2>1, <2>2, <2>3 DEF Next
<1> QED  BY <1>1, <1>2, PTL DEF Spec

\* bruteForceDryRunPreemption hands every combination of the pods to
\* dryRunOnePass, and none twice, whatever their number.
THEOREM SearchComplete == Spec => []AllCombinationsTried
<1>1. SearchInv => AllCombinationsTried
  <2> SUFFICES ASSUME SearchInv, calls = << >>
               PROVE  /\ {tried[i] : i \in DOMAIN tried} = SUBSET Pods
                      /\ Len(tried) = 2 ^ NumPods
    BY DEF AllCombinationsTried
  <2> DEFINE N == Len(tried)
             f == [k \in 1 .. N |-> tried[k]]
  <2>1. /\ N \in Nat /\ DOMAIN tried = 1 .. N
        /\ \A k \in 1 .. N : tried[k] \in SUBSET Pods
    BY SeqTyped DEF SearchInv, Typed
  <2>2. \A S \in SUBSET Pods : \E k \in 1 .. N : tried[k] = S
    <3>1. \A j \in 1 .. Len(calls) : FALSE
      OBVIOUS
    <3> QED  BY <3>1 DEF SearchInv, Covered
  <2>3. {tried[i] : i \in DOMAIN tried} = SUBSET Pods
    BY <2>1, <2>2
  <2>4. \A k, l \in 1 .. N : tried[k] = tried[l] => k = l
    BY DEF SearchInv, Once
  <2>5. f \in Bijection(1 .. N, SUBSET Pods)
    <3> DEFINE D == 1 .. N
               C == SUBSET Pods
    <3>1. /\ f \in [D -> C]
          /\ \A a, b \in D : f[a] = f[b] => a = b
          /\ \A c \in C : \E a \in D : f[a] = c
      BY <2>1, <2>2, <2>4
    <3> HIDE DEF D, C, f
    <3>2. f \in Injection(D, C) /\ f \in Surjection(D, C)
      BY <3>1 DEF Injection, Surjection, IsInjective
    <3> QED  BY <3>2 DEF Bijection, D, C
  <2>6. ExistsBijection(1 .. N, SUBSET Pods)
    BY <2>5 DEF ExistsBijection
  <2>7. Cardinality(SUBSET Pods) = N
    BY <2>1, <2>6, FS_CountingElements
  <2>8. NumPods \in Nat /\ NumPods \in Int /\ 1 \in Int
    BY SizeAssumption
  <2>9. IsFiniteSet(Pods) /\ Cardinality(Pods) = NumPods
    <3>1. IsFiniteSet(1 .. NumPods) /\ Cardinality(1 .. NumPods) = IF 1 > NumPods THEN 0 ELSE NumPods - 1 + 1
      BY <2>8, FS_Interval
    <3> QED  BY <2>8, <3>1 DEF Pods
  <2>10. Cardinality(SUBSET Pods) = 2 ^ NumPods
    BY <2>9, FS_SUBSET
  <2> QED  BY <2>3, <2>7, <2>10
<1> QED  BY <1>1, SearchInvariance, PTL

=============================================================================
