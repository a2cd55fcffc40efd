----------------------------- MODULE SumsProofs -----------------------------
(***************************************************************************)
(* Facts about finite sets and about sums over them that the proofs of     *)
(* several components use.  An induction over a finite set goes through    *)
(* the set Good of the subsets that are proved already.                    *)
(***************************************************************************)
EXTENDS Sums, Functions, FiniteSetTheorems, WellFoundedInduction, TLAPS

\* Induction over a finite set: what holds of the empty set and goes on holding
\* when a member is added holds of every subset.  Good is the set of subsets of
\* which it holds.
LEMMA SetInduction ==
    ASSUME NEW S, IsFiniteSet(S), NEW Good, {} \in Good,
           \A T \in SUBSET S : \A x \in S \ T : T \in Good => T \cup {x} \in Good
    PROVE  SUBSET S \subseteq Good
<1> DEFINE Bad == (SUBSET S) \ Good
<1> SUFFICES ASSUME Bad # {} PROVE FALSE
  OBVIOUS
<1>1. Bad \subseteq FiniteSubsetsOf(S)
  BY FS_Subset DEF FiniteSubsetsOf
<1>2. IsWellFoundedOn(StrictSubsetOrdering(S), FiniteSubsetsOf(S))
  BY FS_StrictSubsetOrderingWellFounded
<1>3. \E T \in Bad : \A U \in Bad : ~(<<U, T>> \in StrictSubsetOrdering(S))
  <2> HIDE DEF Bad
  <2> QED  BY <1>1, <1>2, WFMin
<1>4. PICK T \in Bad : \A U \in Bad : ~(<<U, T>> \in StrictSubsetOrdering(S))
  BY <1>3
<1>5. PICK x : x \in T
  <2>1. T # {}
    BY <1>4
  <2> QED  BY <2>1
<1>6. <<T \ {x}, T>> \in StrictSubsetOrdering(S)
  BY <1>5 DEF StrictSubsetOrdering
<1>7. T \ {x} \in Good
  BY <1>4, <1>6
<1>8. (T \ {x}) \cup {x} \in Good
  BY <1>5, <1>7
<1>9. (T \ {x}) \cup {x} = T
  BY <1>5
<1> QED  BY <1>8, <1>9

\* The sets whose sizes AddUp takes are finite together.
LEMMA PartsFinite ==
    ASSUME NEW D, IsFiniteSet(D), NEW h \in [D -> Nat]
    PROVE  IsFiniteSet(UNION {{n} \X (1 .. h[n]) : n \in D})
<1> DEFINE Part(g, n) == {n} \X (1 .. g[n])
           All(g, E)  == UNION {Part(g, n) : n \in E}
           Good == {E \in SUBSET D : IsFiniteSet(All(h, E))}
<1>1. {} \in Good
  <2>1. All(h, {}) = {}
    OBVIOUS
  <2> QED  BY <2>1, FS_EmptySet
<1>2. ASSUME NEW E \in SUBSET D, NEW x \in D \ E, E \in Good PROVE E \cup {x} \in Good
  <2>1. All(h, E \cup {x}) = All(h, E) \cup Part(h, x)
    OBVIOUS
  <2>2. h[x] \in Nat
    OBVIOUS
  <2>3. IsFiniteSet({x}) /\ IsFiniteSet(1 .. h[x])
    <3>1. 1 \in Int /\ h[x] \in Int
      BY <2>2
    <3>2. IsFiniteSet(1 .. h[x])
      BY <3>1, FS_Interval
    <3> QED  BY <3>2, FS_Singleton
  <2>4. IsFiniteSet(Part(h, x))
    BY <2>3, FS_Product
  <2>5. IsFiniteSet(All(h, E)) /\ E \cup {x} \in SUBSET D
    BY <1>2
  <2>6. IsFiniteSet(All(h, E) \cup Part(h, x))
    <3> HIDE DEF All, Part
    <3> QED  BY <2>4, <2>5, FS_Union
  <2> QED  BY <2>1, <2>5, <2>6
<1>3. SUBSET D \subseteq Good
  <2> HIDE DEF Good
  <2> QED  BY <1>1, <1>2, SetInduction
<1> QED  BY <1>3

\* AddUp is the sum: nothing adds up to 0, and one more number adds that number.
LEMMA AddUpStep ==
    ASSUME NEW f, NEW K, IsFiniteSet(K), f \in [K -> Nat]
    PROVE  /\ AddUp(f) \in Nat
           /\ K = {} => AddUp(f) = 0
           /\ \A x : \A g \in [K \cup {x} -> Nat] :
                x \notin K /\ (\A n \in K : g[n] = f[n]) => AddUp(g) = AddUp(f) + g[x]
<1> DEFINE Part(h, n) == {n} \X (1 .. h[n])
           All(h, D)  == UNION {Part(h, n) : n \in D}
<1>1. ASSUME NEW D, IsFiniteSet(D), NEW h \in [D -> Nat] PROVE IsFiniteSet(All(h, D))
  BY <1>1, PartsFinite
<1>2. AddUp(f) = Cardinality(All(f, K)) /\ IsFiniteSet(All(f, K))
  BY <1>1 DEF AddUp
<1>3. AddUp(f) \in Nat
  BY <1>2, FS_CardinalityType
<1>4. ASSUME K = {} PROVE AddUp(f) = 0
  <2>1. All(f, K) = {}
    BY <1>4
  <2> QED  BY <1>2, <2>1, FS_EmptySet
<1>5. ASSUME NEW x, NEW g \in [K \cup {x} -> Nat], x \notin K, \A n \in K : g[n] = f[n]
      PROVE  AddUp(g) = AddUp(f) + g[x]
  <2>1. All(g, K \cup {x}) = All(f, K) \cup Part(g, x)
    BY <1>5
  <2>2. All(f, K) \cap Part(g, x) = {}
    BY <1>5
  <2>3. g[x] \in Nat
    OBVIOUS
  <2>4. IsFiniteSet(Part(g, x)) /\ Cardinality(Part(g, x)) = g[x]
    <3>1. IsFiniteSet({x}) /\ Cardinality({x}) = 1
      BY FS_Singleton
    <3>2. IsFiniteSet(1 .. g[x]) /\ Cardinality(1 .. g[x]) = g[x]
      BY <2>3, FS_Interval
    <3>3. /\ IsFiniteSet({x} \X (1 .. g[x]))
          /\ Cardinality({x} \X (1 .. g[x])) = Cardinality({x}) * Cardinality(1 .. g[x])
      BY <3>1, <3>2, FS_Product
    <3>4. Cardinality({x}) * Cardinality(1 .. g[x]) = g[x]
      BY <2>3, <3>1, <3>2
    <3> QED  BY <3>3, <3>4
  <2>5. Cardinality(All(f, K) \cup Part(g, x)) = Cardinality(All(f, K)) + Cardinality(Part(g, x))
                                                 - Cardinality(All(f, K) \cap Part(g, x))
    BY <1>2, <2>4, FS_Union
  <2>6. AddUp(g) = Cardinality(All(g, K \cup {x})) /\ Cardinality({}) = 0
    BY FS_EmptySet DEF AddUp
  <2> HIDE DEF All, Part
  <2>7. AddUp(g) = Cardinality(All(f, K)) + Cardinality(Part(g, x)) - 0
    BY <2>1, <2>2, <2>5, <2>6, Zenon
  <2> QED  BY <1>2, <1>3, <2>3, <2>4, <2>7
<1> HIDE DEF All, Part
<1> QED  BY <1>3, <1>4, <1>5

\* Larger numbers add up to more.
LEMMA AddUpMonotone ==
    ASSUME NEW K, IsFiniteSet(K), NEW f \in [K -> Nat], NEW g \in [K -> Nat],
           \A n \in K : f[n] <= g[n]
    PROVE  AddUp(f) <= AddUp(g)
<1> DEFINE F(D) == [n \in D |-> f[n]]
           G(D) == [n \in D |-> g[n]]
           Good == {D \in SUBSET K : AddUp(F(D)) <= AddUp(G(D))}
<1>1. \A D \in SUBSET K : IsFiniteSet(D) /\ F(D) \in [D -> Nat] /\ G(D) \in [D -> Nat]
  BY FS_Subset
<1>2. {} \in Good
  <2>1. AddUp(F({})) = 0 /\ AddUp(G({})) = 0
    BY <1>1, AddUpStep
  <2> QED  BY <2>1
<1>3. ASSUME NEW D \in SUBSET K, NEW x \in K \ D, D \in Good PROVE D \cup {x} \in Good
  <2>1. F(D \cup {x}) \in [D \cup {x} -> Nat] /\ G(D \cup {x}) \in [D \cup {x} -> Nat]
    OBVIOUS
  <2>2. /\ \A n \in D : F(D \cup {x})[n] = F(D)[n] /\ G(D \cup {x})[n] = G(D)[n]
        /\ F(D \cup {x})[x] = f[x] /\ G(D \cup {x})[x] = g[x]
    OBVIOUS
  <2>3. IsFiniteSet(D) /\ F(D) \in [D -> Nat] /\ G(D) \in [D -> Nat] /\ x \notin D
    BY <1>1
  <2>4. AddUp(F(D)) <= AddUp(G(D)) /\ f[x] <= g[x] /\ f[x] \in Nat /\ g[x] \in Nat
    BY <1>3
  <2> HIDE DEF F, G
  <2>5. AddUp(F(D \cup {x})) = AddUp(F(D)) + f[x] /\ AddUp(F(D)) \in Nat
    <3>1. \A n \in D : F(D \cup {x})[n] = F(D)[n]
      BY <2>2
    <3>2. AddUp(F(D \cup {x})) = AddUp(F(D)) + F(D \cup {x})[x] /\ AddUp(F(D)) \in Nat
      BY <2>1, <2>3, <3>1, AddUpStep
    <3> QED  BY <2>2, <3>2
  <2>6. AddUp(G(D \cup {x})) = AddUp(G(D)) + g[x] /\ AddUp(G(D)) \in Nat
    BY <2>1, <2>2, <2>3, AddUpStep
  <2>7. AddUp(F(D \cup {x})) <= AddUp(G(D \cup {x}))
    BY <2>4, <2>5, <2>6
  <2> QED  BY <2>7
<1>4. SUBSET K \subseteq Good
  <2> HIDE DEF Good
  <2> QED  BY <1>2, <1>3, SetInduction
<1>5. F(K) = f /\ G(K) = g /\ K \in Good
  BY <1>4
<1> QED  BY <1>5

\* A finite set has a member with the largest number.
LEMMA Largest ==
    ASSUME NEW S, IsFiniteSet(S), S # {}, NEW f, \A x \in S : f[x] \in Int
    PROVE  \E x \in S : \A y \in S : f[y] <= f[x]
<1> DEFINE Good == {T \in SUBSET S : T = {} \/ \E x \in T : \A y \in T : f[y] <= f[x]}
<1>1. {} \in Good
  OBVIOUS
<1>2. ASSUME NEW T \in SUBSET S, NEW x \in S \ T, T \in Good PROVE T \cup {x} \in Good
  <2>1. CASE T = {}
    BY <2>1
  <2>2. CASE T # {}
    <3>1. PICK z \in T : \A y \in T : f[y] <= f[z]
      BY <1>2, <2>2
    <3>2. f[z] \in Int /\ f[x] \in Int /\ \A y \in T : f[y] \in Int
      OBVIOUS
    <3>3. CASE f[x] <= f[z]
      BY <3>1, <3>3
    <3>4. CASE ~(f[x] <= f[z])
      <4>1. \A y \in T \cup {x} : f[y] <= f[x]
        BY <3>1, <3>2, <3>4
      <4> QED  BY <4>1
    <3> QED  BY <3>3, <3>4
  <2> QED  BY <2>1, <2>2
<1>3. SUBSET S \subseteq Good
  <2> HIDE DEF Good
  <2> QED  BY <1>1, <1>2, SetInduction
<1> QED  BY <1>3

\* A sum is no larger than one that has a term of its own, no smaller, for each
\* of its terms.
LEMMA AddUpEmbed ==
    ASSUME NEW D, IsFiniteSet(D), NEW f \in [D -> Nat],
           NEW E, IsFiniteSet(E), NEW g \in [E -> Nat],
           NEW h \in [D -> E], \A x, y \in D : h[x] = h[y] => x = y,
           \A x \in D : f[x] <= g[h[x]]
    PROVE  AddUp(f) <= AddUp(g)
<1> DEFINE S == UNION {{n} \X (1 .. f[n]) : n \in D}
           T == UNION {{n} \X (1 .. g[n]) : n \in E}
           phi == [z \in S |-> <<h[z[1]], z[2]>>]
<1>1. IsFiniteSet(S) /\ IsFiniteSet(T)
  BY PartsFinite
<1>2. AddUp(f) = Cardinality(S) /\ AddUp(g) = Cardinality(T)
  BY DEF AddUp
<1>3. ASSUME NEW z \in S PROVE z = <<z[1], z[2]>> /\ z[1] \in D /\ z[2] \in 1 .. f[z[1]]
  BY <1>3
<1>4. ASSUME NEW z \in S PROVE <<h[z[1]], z[2]>> \in T
  <2>1. z[1] \in D /\ z[2] \in 1 .. f[z[1]] /\ h[z[1]] \in E
    BY <1>3
  <2>2. f[z[1]] \in Nat /\ g[h[z[1]]] \in Nat /\ f[z[1]] <= g[h[z[1]]]
    BY <2>1
  <2>3. z[2] \in 1 .. g[h[z[1]]]
    BY <2>1, <2>2
  <2> QED  BY <2>1, <2>3
<1>5. phi \in [S -> T]
  BY <1>4
<1>6. ASSUME NEW y \in S, NEW z \in S, phi[y] = phi[z] PROVE y = z
  <2>1. phi[y] = <<h[y[1]], y[2]>> /\ phi[z] = <<h[z[1]], z[2]>>
    OBVIOUS
  <2>2. h[y[1]] = h[z[1]] /\ y[2] = z[2]
    BY <1>6, <2>1
  <2>3. y[1] = z[1]
    BY <1>3, <2>2
  <2> QED  BY <1>3, <2>2, <2>3
<1>7. phi \in Injection(S, T)
  <2> HIDE DEF phi, S, T
  <2>1. DOMAIN phi = S
    BY <1>5
  <2> QED  BY <1>5, <1>6, <2>1 DEF Injection, IsInjective
<1> HIDE DEF S, T, phi
<1> QED  BY <1>1, <1>2, <1>7, FS_Injection

\* A set of indices has a least member.
LEMMA Smallest ==
    ASSUME NEW S \in SUBSET Nat, S # {}, IsFiniteSet(S)
    PROVE  \E x \in S : \A y \in S : x <= y
<1> DEFINE f == [x \in S |-> 0 - x]
<1>1. \A x \in S : f[x] \in Int
  OBVIOUS
<1>2. PICK x \in S : \A y \in S : f[y] <= f[x]
  <2> HIDE DEF f
  <2> QED  BY <1>1, Largest
<1>3. \A y \in S : x <= y
  BY <1>2
<1> QED  BY <1>3

\* Of the subsets of a finite set that are bad, some is not bad without any one of
\* its members.
LEMMA SetDescent ==
    ASSUME NEW S, IsFiniteSet(S), NEW Bad, Bad \in SUBSET SUBSET S, Bad # {}
    PROVE  \E T \in Bad : \A x \in T : T \ {x} \notin Bad
<1>1. Bad \subseteq FiniteSubsetsOf(S)
  BY FS_Subset DEF FiniteSubsetsOf
<1>2. PICK T \in Bad : \A U \in Bad : ~(<<U, T>> \in StrictSubsetOrdering(S))
  BY <1>1, FS_StrictSubsetOrderingWellFounded, WFMin
<1>3. ASSUME NEW x \in T PROVE T \ {x} \notin Bad
  <2>1. <<T \ {x}, T>> \in StrictSubsetOrdering(S)
    BY DEF StrictSubsetOrdering
  <2>. QED BY <1>2, <2>1
<1>. QED BY <1>3

\* SumFunction adds the numbers one by one, in an order that depends on the set of
\* those that are left only.
Picked(s) == CHOOSE x \in s : TRUE
Adds(g, f, S) ==
    g = [s \in SUBSET S |-> IF s = {} THEN 0 ELSE f[Picked(s)] + g[s \ {Picked(s)}]]
LEMMA SumSteps ==
    ASSUME NEW f, NEW S, S = DOMAIN f, IsFiniteSet(S)
    PROVE  \E g : Adds(g, f, S) /\ SumFunction(f) = g[S]
<1>1. SumFunction(f) = (CHOOSE g : Adds(g, f, S))[S]
  BY DEF SumFunction, SumFunctionOnSet, FoldFunctionOnSet, MapThenFoldSet, Adds, Picked
<1> DEFINE Next(g, s) == IF s = {} THEN 0 ELSE f[Picked(s)] + g[s \ {Picked(s)}]
           UpTo(g, n) == \A s \in SUBSET S : Cardinality(s) <= n => g[s] = Next(g, s)
           N == Cardinality(S)
<1>2. N \in Nat /\ \A s \in SUBSET S : IsFiniteSet(s) /\ Cardinality(s) \in Nat /\ Cardinality(s) <= N
  BY FS_CardinalityType, FS_Subset
<1>3. ASSUME NEW s \in SUBSET S, s # {}
      PROVE  Picked(s) \in s /\ s \ {Picked(s)} \in SUBSET S /\ Cardinality(s \ {Picked(s)}) = Cardinality(s) - 1
  <2>1. Picked(s) \in s
    BY <1>3 DEF Picked
  <2>. QED BY <1>2, <2>1, FS_RemoveElement
<1>4. \E g : Adds(g, f, S)
  <2> DEFINE Fails == {n \in 0 .. N : ~\E g : UpTo(g, n)}
  <2>1. CASE Fails = {}
    <3>1. PICK g : UpTo(g, N)
      <4> HIDE DEF UpTo
      <4>1. N \in 0 .. N /\ N \notin Fails
        BY <1>2, <2>1
      <4>. QED BY <4>1
    <3> DEFINE h == [s \in SUBSET S |-> g[s]]
    <3>2. ASSUME NEW s \in SUBSET S PROVE h[s] = Next(h, s)
      <4>1. g[s] = Next(g, s)
        BY <1>2, <3>1
      <4>2. s # {} => h[s \ {Picked(s)}] = g[s \ {Picked(s)}]
        BY <1>3
      <4>. QED BY <4>1, <4>2
    <3>3. h = [s \in SUBSET S |-> Next(h, s)]
      <4>1. h = [s \in SUBSET S |-> h[s]]
        OBVIOUS
      <4> HIDE DEF h
      <4>. QED BY <3>2, <4>1
    <3> HIDE DEF h
    <3>. QED BY <3>3 DEF Adds
  <2>2. CASE Fails # {}
    <3>1. Fails \in SUBSET Nat /\ IsFiniteSet(Fails)
      <4>1. IsFiniteSet(0 .. N)
        BY <1>2, FS_Interval
      <4>2. Fails \subseteq 0 .. N
        OBVIOUS
      <4>3. 0 .. N \subseteq Nat
        BY <1>2
      <4> HIDE DEF Fails, N
      <4>4. IsFiniteSet(Fails)
        BY <4>1, <4>2, FS_Subset
      <4>. QED BY <4>2, <4>3, <4>4
    <3>2. PICK n \in Fails : \A k \in Fails : n <= k
      <4> HIDE DEF Fails
      <4>. QED BY <2>2, <3>1, Smallest
    <3>3. n \in 0 .. N /\ ~\E g : UpTo(g, n)
      BY <3>2
    <3>4. CASE n = 0
      <4> DEFINE g == [s \in SUBSET S |-> 0]
      <4>1. ASSUME NEW s \in SUBSET S, Cardinality(s) <= 0 PROVE g[s] = Next(g, s)
        <5>1. s = {}
          BY <1>2, <4>1, FS_EmptySet
        <5>. QED BY <5>1
      <4>2. UpTo(g, n)
        BY <3>4, <4>1
      <4> HIDE DEF g, UpTo
      <4>. QED BY <3>3, <4>2
    <3>5. CASE n # 0
      <4>1. n - 1 \in 0 .. N /\ n - 1 < n
        BY <1>2, <3>3, <3>5
      <4>2. PICK g : UpTo(g, n - 1)
        <5> HIDE DEF UpTo
        <5>1. n - 1 \notin Fails
          <6> HIDE DEF Fails
          <6>. QED BY <1>2, <3>2, <3>3, <4>1
        <5>. QED BY <4>1, <5>1
      <4> DEFINE h == [s \in SUBSET S |-> Next(g, s)]
      <4>3. ASSUME NEW s \in SUBSET S, Cardinality(s) <= n - 1 PROVE h[s] = g[s]
        BY <4>2, <4>3
      <4>4. ASSUME NEW s \in SUBSET S, Cardinality(s) <= n PROVE h[s] = Next(h, s)
        <5>1. h[s] = Next(g, s)
          OBVIOUS
        <5>2. CASE s = {}
          BY <5>1, <5>2
        <5>3. CASE s # {}
          <6>1. s \ {Picked(s)} \in SUBSET S /\ Cardinality(s \ {Picked(s)}) <= n - 1
            BY <1>2, <1>3, <3>3, <4>4, <5>3
          <6>2. h[s \ {Picked(s)}] = g[s \ {Picked(s)}]
            BY <4>3, <6>1
          <6> HIDE DEF h
          <6>. QED BY <5>1, <5>3, <6>2
        <5>. QED BY <5>2, <5>3
      <4>5. UpTo(h, n)
        BY <4>4
      <4> HIDE DEF h, UpTo
      <4>. QED BY <3>3, <4>5
    <3>. QED BY <3>4, <3>5
  <2>. QED BY <2>1, <2>2
<1>. QED BY <1>1, <1>4

\* A sum of integers is an integer.
LEMMA SumTyped ==
    ASSUME NEW S, IsFiniteSet(S), NEW f \in [S -> Int]
    PROVE  SumFunction(f) \in Int
<1>1. PICK g : Adds(g, f, S) /\ SumFunction(f) = g[S]
  BY SumSteps
<1> DEFINE Bad == {s \in SUBSET S : g[s] \notin Int}
<1>2. ASSUME Bad # {} PROVE FALSE
  <2>1. PICK s \in Bad : \A x \in s : s \ {x} \notin Bad
    <3>1. Bad \in SUBSET SUBSET S
      OBVIOUS
    <3> HIDE DEF Bad
    <3>. QED BY <1>2, <3>1, SetDescent
  <2>2. CASE s = {}
    BY <1>1, <2>1, <2>2 DEF Adds
  <2>3. CASE s # {}
    <3>1. Picked(s) \in s /\ s \in SUBSET S
      BY <2>1, <2>3 DEF Picked
    <3>2. g[s] = f[Picked(s)] + g[s \ {Picked(s)}]
      BY <1>1, <2>3, <3>1 DEF Adds
    <3>3. g[s \ {Picked(s)}] \in Int
      BY <2>1, <3>1
    <3>. QED BY <2>1, <3>1, <3>2, <3>3
  <2>. QED BY <2>2, <2>3
<1>. QED BY <1>1, <1>2

\* Larger numbers have a larger sum.
LEMMA SumMonotone ==
    ASSUME NEW S, IsFiniteSet(S), NEW e \in [S -> Int], NEW f \in [S -> Int], \A x \in S : e[x] <= f[x]
    PROVE  SumFunction(e) <= SumFunction(f)
<1>1. PICK g : Adds(g, e, S) /\ SumFunction(e) = g[S]
  BY SumSteps
<1>2. PICK h : Adds(h, f, S) /\ SumFunction(f) = h[S]
  BY SumSteps
<1> DEFINE Bad == {s \in SUBSET S : ~(g[s] \in Int /\ h[s] \in Int /\ g[s] <= h[s])}
<1>3. ASSUME Bad # {} PROVE FALSE
  <2>1. PICK s \in Bad : \A x \in s : s \ {x} \notin Bad
    <3>1. Bad \in SUBSET SUBSET S
      OBVIOUS
    <3> HIDE DEF Bad
    <3>. QED BY <1>3, <3>1, SetDescent
  <2>2. CASE s = {}
    BY <1>1, <1>2, <2>1, <2>2 DEF Adds
  <2>3. CASE s # {}
    <3>1. Picked(s) \in s /\ s \in SUBSET S
      BY <2>1, <2>3 DEF Picked
    <3>2. g[s] = e[Picked(s)] + g[s \ {Picked(s)}] /\ h[s] = f[Picked(s)] + h[s \ {Picked(s)}]
      BY <1>1, <1>2, <2>3, <3>1 DEF Adds
    <3>3. g[s \ {Picked(s)}] \in Int /\ h[s \ {Picked(s)}] \in Int /\ g[s \ {Picked(s)}] <= h[s \ {Picked(s)}]
      BY <2>1, <3>1
    <3>4. e[Picked(s)] \in Int /\ f[Picked(s)] \in Int /\ e[Picked(s)] <= f[Picked(s)]
      BY <3>1
    <3>. QED BY <2>1, <3>2, <3>3, <3>4
  <2>. QED BY <2>2, <2>3
<1>. QED BY <1>1, <1>2, <1>3

\* The opposite numbers have the opposite sum.
LEMMA SumOpposite ==
    ASSUME NEW S, IsFiniteSet(S), NEW e \in [S -> Int], NEW f \in [S -> Int], \A x \in S : e[x] = -f[x]
    PROVE  SumFunction(e) = -SumFunction(f)
<1>1. PICK g : Adds(g, e, S) /\ SumFunction(e) = g[S]
  BY SumSteps
<1>2. PICK h : Adds(h, f, S) /\ SumFunction(f) = h[S]
  BY SumSteps
<1> DEFINE Bad == {s \in SUBSET S : ~(g[s] \in Int /\ h[s] \in Int /\ g[s] = -h[s])}
<1>3. ASSUME Bad # {} PROVE FALSE
  <2>1. PICK s \in Bad : \A x \in s : s \ {x} \notin Bad
    <3>1. Bad \in SUBSET SUBSET S
      OBVIOUS
    <3> HIDE DEF Bad
    <3>. QED BY <1>3, <3>1, SetDescent
  <2>2. CASE s = {}
    <3>1. g[s] = 0 /\ h[s] = 0
      BY <1>1, <1>2, <2>2 DEF Adds
    <3>. QED BY <2>1, <3>1
  <2>3. CASE s # {}
    <3>1. Picked(s) \in s /\ s \in SUBSET S
      BY <2>1, <2>3 DEF Picked
    <3>2. g[s] = e[Picked(s)] + g[s \ {Picked(s)}] /\ h[s] = f[Picked(s)] + h[s \ {Picked(s)}]
      BY <1>1, <1>2, <2>3, <3>1 DEF Adds
    <3>3. g[s \ {Picked(s)}] \in Int /\ h[s \ {Picked(s)}] \in Int /\ g[s \ {Picked(s)}] = -h[s \ {Picked(s)}]
      BY <2>1, <3>1
    <3>4. e[Picked(s)] \in Int /\ f[Picked(s)] \in Int /\ e[Picked(s)] = -f[Picked(s)]
      BY <3>1
    <3>. QED BY <2>1, <3>2, <3>3, <3>4
  <2>. QED BY <2>2, <2>3
<1>. QED BY <1>1, <1>2, <1>3

\* Numbers that are not negative have such a sum, and positive ones a positive sum.
LEMMA SumPositive ==
    ASSUME NEW S, IsFiniteSet(S), NEW f \in [S -> Nat]
    PROVE  /\ SumFunction(f) \in Nat
           /\ S # {} /\ (\A x \in S : f[x] > 0) => SumFunction(f) > 0
<1>1. PICK g : Adds(g, f, S) /\ SumFunction(f) = g[S]
  BY SumSteps
<1> DEFINE Bad == {s \in SUBSET S : g[s] \notin Nat}
<1>2. ASSUME Bad # {} PROVE FALSE
  <2>1. PICK s \in Bad : \A x \in s : s \ {x} \notin Bad
    <3>1. Bad \in SUBSET SUBSET S
      OBVIOUS
    <3> HIDE DEF Bad
    <3>. QED BY <1>2, <3>1, SetDescent
  <2>2. CASE s = {}
    BY <1>1, <2>1, <2>2 DEF Adds
  <2>3. CASE s # {}
    <3>1. Picked(s) \in s /\ s \in SUBSET S
      BY <2>1, <2>3 DEF Picked
    <3>2. g[s] = f[Picked(s)] + g[s \ {Picked(s)}]
      BY <1>1, <2>3, <3>1 DEF Adds
    <3>3. g[s \ {Picked(s)}] \in Nat
      BY <2>1, <3>1
    <3>. QED BY <2>1, <3>1, <3>2, <3>3
  <2>. QED BY <2>2, <2>3
<1>3. \A s \in SUBSET S : g[s] \in Nat
  BY <1>2
<1>4. ASSUME S # {}, \A x \in S : f[x] > 0 PROVE g[S] > 0
  <2>1. Picked(S) \in S
    BY <1>4 DEF Picked
  <2>2. g[S] = f[Picked(S)] + g[S \ {Picked(S)}]
    BY <1>1, <1>4 DEF Adds
  <2>3. f[Picked(S)] \in Nat /\ f[Picked(S)] > 0 /\ g[S \ {Picked(S)}] \in Nat
    BY <1>3, <1>4, <2>1
  <2>. QED BY <2>2, <2>3
<1>. QED BY <1>1, <1>3, <1>4

=============================================================================
