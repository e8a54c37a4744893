--------------------------- MODULE RgbChannelLemmas ---------------------------
(***************************************************************************)
(* The inductive invariant of RgbChannel, and what the pieces of the       *)
(* channel's methods do to it: sums of amounts, HTLCs that move on, new    *)
(* HTLCs, revocations, disconnections, the holding cell and the messages a *)
(* node writes.  RgbChannelProofs puts them together.                      *)
(***************************************************************************)
EXTENDS RgbChannel, FiniteSetsExt, Functions, FiniteSetTheorems,
        WellFoundedInduction, TLAPS

-----------------------------------------------------------------------------
(* What the folds of the community modules compute: sums of a function     *)
(* over a finite set (SumFunctionOnSet, MapThenSumSet) and folds over a    *)
(* sequence (FoldLeft).  The library defines them by recursive functions,  *)
(* over the subsets of a set or of the positions of a sequence; each lemma *)
(* is an induction over those subsets, by the well-foundedness of the      *)
(* strict inclusion.                                                       *)

\* The element the fold takes out of a set.
Taken(s) == CHOOSE x \in s : TRUE

\* The recursive function behind SumFunctionOnSet.
IsSum(f, S, g) ==
    g = [s \in SUBSET S |-> IF s = {} THEN 0 ELSE f[Taken(s)] + g[s \ {Taken(s)}]]

\* The fold, unfolded.
LEMMA SumUnfolded ==
    ASSUME NEW f, NEW S
    PROVE  SumFunctionOnSet(f, S) = (CHOOSE g : IsSum(f, S, g))[S]
  BY DEF SumFunctionOnSet, FoldFunctionOnSet, MapThenFoldSet, IsSum, Taken

\* Induction over the subsets of a finite set: of the subsets with a property,
\* one has no strict subset with it.
LEMMA SmallestSubset ==
    ASSUME NEW S, IsFiniteSet(S), NEW Bad, Bad \subseteq SUBSET S, Bad # {}
    PROVE  \E s \in Bad : \A t \in Bad : ~(t \subseteq s /\ t # s)
<1>1. IsWellFoundedOn(StrictSubsetOrdering(S), SUBSET S)
  BY FS_StrictSubsetOrderingWellFounded, FS_FiniteSubsetsOfFinite
<1>2. PICK s \in Bad : \A t \in Bad : <<t, s>> \notin StrictSubsetOrdering(S)
  BY <1>1, WFMin
<1> QED BY <1>2 DEF StrictSubsetOrdering

\* Two such functions agree where both are defined.
LEMMA SumUnique ==
    ASSUME NEW f, NEW S, NEW T, NEW g, NEW h, IsFiniteSet(S),
           IsSum(f, S, g), IsSum(f, T, h)
    PROVE  \A s \in SUBSET (S \cap T) : g[s] = h[s]
<1> DEFINE Bad == {s \in SUBSET S : s \subseteq T /\ g[s] # h[s]}
<1> SUFFICES ASSUME Bad # {} PROVE FALSE
  OBVIOUS
<1>1. PICK s \in Bad : \A t \in Bad : ~(t \subseteq s /\ t # s)
  <2> HIDE DEF Bad
  <2>1. Bad \subseteq SUBSET S
    BY DEF Bad
  <2> QED BY <2>1, SmallestSubset
<1>2. g[s] = IF s = {} THEN 0 ELSE f[Taken(s)] + g[s \ {Taken(s)}]
  BY DEF IsSum
<1>3. h[s] = IF s = {} THEN 0 ELSE f[Taken(s)] + h[s \ {Taken(s)}]
  BY DEF IsSum
<1>4. s # {} => Taken(s) \in s
  BY DEF Taken
<1>5. s # {} => g[s \ {Taken(s)}] = h[s \ {Taken(s)}]
  BY <1>1, <1>4
<1> QED BY <1>1, <1>2, <1>3, <1>5

\* The function exists, and its values are integers.
LEMMA SumExists ==
    ASSUME NEW S, IsFiniteSet(S), NEW f, \A x \in S : f[x] \in Int
    PROVE  \E g \in [SUBSET S -> Int] : IsSum(f, S, g)
<1> DEFINE Good(s) == \E g \in [SUBSET s -> Int] : IsSum(f, s, g)
           Bad == {s \in SUBSET S : ~Good(s)}
<1> SUFFICES ASSUME Bad # {} PROVE FALSE
  OBVIOUS
<1>1. PICK s \in Bad : \A t \in Bad : ~(t \subseteq s /\ t # s)
  <2> HIDE DEF Bad
  <2>1. Bad \subseteq SUBSET S
    BY DEF Bad
  <2> QED BY <2>1, SmallestSubset
<1>2. \A t \in SUBSET s : t # s => Good(t)
  BY <1>1
<1> DEFINE G(t) == CHOOSE g \in [SUBSET t -> Int] : IsSum(f, t, g)
           top == IF s = {} THEN 0
                  ELSE f[Taken(s)] + G(s \ {Taken(s)})[s \ {Taken(s)}]
           g == [t \in SUBSET s |-> IF t = s THEN top ELSE G(t)[t]]
<1>3. \A t \in SUBSET s : t # s => G(t) \in [SUBSET t -> Int] /\ IsSum(f, t, G(t))
  BY <1>2
<1>4. \A t \in SUBSET s : t # {} => Taken(t) \in t
  BY DEF Taken
<1>5. \A t \in SUBSET s : IsFiniteSet(t)
  BY FS_Subset
<1>6. ASSUME NEW t \in SUBSET s, t # s, NEW u \in SUBSET t
      PROVE  G(t)[u] = G(u)[u]
  <2>1. u # s /\ u \in SUBSET s
    BY <1>6
  <2>2. IsSum(f, t, G(t)) /\ IsSum(f, u, G(u))
    BY <1>3, <1>6, <2>1
  <2> HIDE DEF G
  <2> QED BY <1>5, <2>2, SumUnique
<1>7. top \in Int
  <2>1. CASE s # {}
    <3>1. Taken(s) \in s /\ s \ {Taken(s)} \in SUBSET s /\ s \ {Taken(s)} # s
      BY <1>4, <2>1
    <3>2. f[Taken(s)] \in Int
      BY <3>1
    <3>3. G(s \ {Taken(s)})[s \ {Taken(s)}] \in Int
      BY <1>3, <3>1
    <3> HIDE DEF G
    <3> QED BY <3>2, <3>3
  <2> QED BY <2>1
<1>8. g \in [SUBSET s -> Int]
  <2> HIDE DEF top, G
  <2>1. \A t \in SUBSET s : t # s => G(t)[t] \in Int
    BY <1>3
  <2> QED BY <1>7, <2>1
<1>9. IsSum(f, s, g)
  <2>1. ASSUME NEW t \in SUBSET s
        PROVE  g[t] = IF t = {} THEN 0 ELSE f[Taken(t)] + g[t \ {Taken(t)}]
    <3> DEFINE u == t \ {Taken(t)}
    <3>1. t # {} => u \in SUBSET t /\ u \in SUBSET s /\ u # s
      BY <1>4
    <3>2. CASE t = s
      <4> HIDE DEF G
      <4> QED BY <3>1, <3>2
    <3>3. CASE t # s
      <4>1. G(t)[t] = IF t = {} THEN 0 ELSE f[Taken(t)] + G(t)[u]
        <5>1. IsSum(f, t, G(t))
          BY <1>3, <3>3
        <5> HIDE DEF G
        <5> QED BY <5>1 DEF IsSum
      <4>2. t # {} => G(t)[u] = G(u)[u]
        <5> HIDE DEF G, u
        <5> QED BY <1>6, <3>1, <3>3
      <4> HIDE DEF G
      <4> QED BY <3>1, <3>3, <4>1, <4>2
    <3> QED BY <3>2, <3>3
  <2> HIDE DEF g
  <2> QED BY <1>8, <2>1 DEF IsSum
<1> HIDE DEF g
<1> QED BY <1>1, <1>8, <1>9

\* SumFunctionOnSet is the value of any such function.
LEMMA SumIs ==
    ASSUME NEW S, IsFiniteSet(S), NEW f, \A x \in S : f[x] \in Int,
           NEW T \in SUBSET S, NEW g, IsSum(f, S, g)
    PROVE  SumFunctionOnSet(f, T) = g[T]
<1> DEFINE h == CHOOSE h : IsSum(f, T, h)
<1>1. IsFiniteSet(T)
  BY FS_Subset
<1>2. IsSum(f, T, h)
  BY <1>1, SumExists
<1>3. SumFunctionOnSet(f, T) = h[T]
  BY SumUnfolded
<1> HIDE DEF h
<1> QED BY <1>1, <1>2, <1>3, SumUnique

\* The sum of nothing is zero.
LEMMA SumEmpty == ASSUME NEW f PROVE SumFunctionOnSet(f, {}) = 0
<1>1. IsFiniteSet({})
  BY FS_EmptySet
<1>2. PICK g : IsSum(f, {}, g)
  BY <1>1, SumExists
<1>3. SumFunctionOnSet(f, {}) = g[{}]
  BY <1>1, <1>2, SumIs
<1> QED BY <1>2, <1>3 DEF IsSum

\* Sums of integers are integers.
LEMMA SumInt ==
    ASSUME NEW S, IsFiniteSet(S), NEW f, \A x \in S : f[x] \in Int
    PROVE  SumFunctionOnSet(f, S) \in Int
<1>1. PICK g \in [SUBSET S -> Int] : IsSum(f, S, g)
  BY SumExists
<1>2. SumFunctionOnSet(f, S) = g[S]
  BY <1>1, SumIs
<1> QED BY <1>1, <1>2

\* Any element may be taken out first.
LEMMA SumTakes ==
    ASSUME NEW S, IsFiniteSet(S), NEW f, \A x \in S : f[x] \in Int,
           NEW g, IsSum(f, S, g), \A s \in SUBSET S : g[s] \in Int
    PROVE  \A s, x : s \subseteq S /\ x \in s => g[s] = f[x] + g[s \ {x}]
<1> DEFINE Bad == {s \in SUBSET S : \E x \in s : g[s] # f[x] + g[s \ {x}]}
<1> SUFFICES ASSUME Bad # {} PROVE FALSE
  OBVIOUS
<1>1. PICK s \in Bad : \A t \in Bad : ~(t \subseteq s /\ t # s)
  <2> HIDE DEF Bad
  <2>1. Bad \subseteq SUBSET S
    BY DEF Bad
  <2> QED BY <2>1, SmallestSubset
<1>2. PICK x \in s : g[s] # f[x] + g[s \ {x}]
  BY <1>1
<1> DEFINE y == Taken(s)
<1>3. y \in s /\ g[s] = f[y] + g[s \ {y}]
  BY <1>2 DEF IsSum, Taken
<1> HIDE DEF y
<1>4. x # y
  BY <1>2, <1>3
<1> DEFINE r == s \ {x, y}
<1>5. g[s \ {y}] = f[x] + g[r]
  <2>1. s \ {y} \in SUBSET S /\ s \ {y} \notin Bad /\ x \in s \ {y}
    BY <1>1, <1>2, <1>3, <1>4
  <2>2. g[s \ {y}] = f[x] + g[(s \ {y}) \ {x}]
    BY <2>1
  <2>3. (s \ {y}) \ {x} = r
    OBVIOUS
  <2> QED BY <2>2, <2>3
<1>6. g[s \ {x}] = f[y] + g[r]
  <2>1. s \ {x} \in SUBSET S /\ s \ {x} \notin Bad /\ y \in s \ {x}
    BY <1>1, <1>2, <1>3, <1>4
  <2>2. g[s \ {x}] = f[y] + g[(s \ {x}) \ {y}]
    BY <2>1
  <2>3. (s \ {x}) \ {y} = r
    OBVIOUS
  <2> QED BY <2>2, <2>3
<1>7. f[x] \in Int /\ f[y] \in Int /\ g[r] \in Int
  BY <1>2, <1>3
<1> HIDE DEF r, Bad
<1> QED BY <1>2, <1>3, <1>5, <1>6, <1>7

\* An element more adds its value.
LEMMA SumAdd ==
    ASSUME NEW S, IsFiniteSet(S), NEW f, \A x \in S : f[x] \in Int,
           NEW a, a \notin S, f[a] \in Int
    PROVE  SumFunctionOnSet(f, S \cup {a}) = SumFunctionOnSet(f, S) + f[a]
<1> DEFINE T == S \cup {a}
<1>1. IsFiniteSet(T) /\ \A x \in T : f[x] \in Int
  BY FS_AddElement
<1> HIDE DEF T
<1>2. PICK g \in [SUBSET T -> Int] : IsSum(f, T, g)
  BY <1>1, SumExists
<1>3. T \ {a} = S /\ a \in T /\ S \in SUBSET T /\ T \in SUBSET T
  BY DEF T
<1>4. g[T] = f[a] + g[S]
  <2>1. IsFiniteSet(T) /\ (\A x \in T : f[x] \in Int) 
        /\ IsSum(f, T, g) /\ (\A s \in SUBSET T : g[s] \in Int)
    BY <1>1, <1>2
  <2>2. \A s, x : s \subseteq T /\ x \in s => g[s] = f[x] + g[s \ {x}]
    BY <2>1, SumTakes
  <2> QED BY <1>3, <2>2
<1>5. SumFunctionOnSet(f, T) = g[T] /\ SumFunctionOnSet(f, S) = g[S]
  BY <1>1, <1>2, <1>3, SumIs
<1>6. g[S] \in Int
  BY <1>2, <1>3
<1> QED BY <1>4, <1>5, <1>6 DEF T

\* Sums over disjoint sets add up.
LEMMA SumUnion ==
    ASSUME NEW S, IsFiniteSet(S), NEW T, IsFiniteSet(T), S \cap T = {},
           NEW f, \A x \in S \cup T : f[x] \in Int
    PROVE  SumFunctionOnSet(f, S \cup T) = SumFunctionOnSet(f, S) + SumFunctionOnSet(f, T)
<1> DEFINE Bad == {t \in SUBSET T :
                SumFunctionOnSet(f, S \cup t) # SumFunctionOnSet(f, S) + SumFunctionOnSet(f, t)}
<1> SUFFICES ASSUME Bad # {} PROVE FALSE
  OBVIOUS
<1>1. PICK t \in Bad : \A u \in Bad : ~(u \subseteq t /\ u # t)
  <2> HIDE DEF Bad
  <2>1. Bad \subseteq SUBSET T
    BY DEF Bad
  <2> QED BY <2>1, SmallestSubset
<1>2. SumFunctionOnSet(f, S) \in Int
  BY SumInt
<1>3. t # {}
  <2>1. SumFunctionOnSet(f, {}) = 0
    BY SumEmpty
  <2>2. SUFFICES ASSUME t = {} PROVE FALSE
    OBVIOUS
  <2>3. S \cup t = S
    BY <2>2
  <2>4. SumFunctionOnSet(f, S \cup t) # SumFunctionOnSet(f, S) + SumFunctionOnSet(f, t)
    BY <1>1
  <2> HIDE DEF Bad
  <2> QED BY <1>2, <2>1, <2>2, <2>3, <2>4
<1>4. PICK a \in t : TRUE
  BY <1>3
<1> DEFINE u == t \ {a}
<1>5. u \subseteq T /\ u \subseteq t /\ u # t /\ a \notin u /\ a \notin S /\ a \in T
  BY <1>1, <1>4
<1>6. t = u \cup {a} /\ S \cup t = (S \cup u) \cup {a}
  BY <1>4
<1> HIDE DEF u
<1>7. IsFiniteSet(u) /\ IsFiniteSet(S \cup u)
  BY <1>5, FS_Subset, FS_Union
<1>8. SumFunctionOnSet(f, S \cup u) = SumFunctionOnSet(f, S) + SumFunctionOnSet(f, u)
  BY <1>1, <1>5
<1>9. SumFunctionOnSet(f, t) = SumFunctionOnSet(f, u) + f[a]
  BY <1>5, <1>6, <1>7, SumAdd
<1>10. SumFunctionOnSet(f, S \cup t) = SumFunctionOnSet(f, S \cup u) + f[a]
  <2>1. a \notin S \cup u /\ \A x \in S \cup u : f[x] \in Int
    BY <1>5
  <2>2. SumFunctionOnSet(f, (S \cup u) \cup {a}) = SumFunctionOnSet(f, S \cup u) + f[a]
    <3> DEFINE V == S \cup u
    <3>1. IsFiniteSet(V) /\ a \notin V /\ (\A x \in V : f[x] \in Int) /\ f[a] \in Int
      BY <1>5, <1>7, <2>1
    <3> HIDE DEF V
    <3>2. SumFunctionOnSet(f, V \cup {a}) = SumFunctionOnSet(f, V) + f[a]
      BY <3>1, SumAdd
    <3> QED BY <3>2 DEF V
  <2> QED BY <1>6, <2>2
<1>11. SumFunctionOnSet(f, u) \in Int /\ f[a] \in Int
  BY <1>5, <1>7, SumInt
<1> QED BY <1>1, <1>2, <1>8, <1>9, <1>10, <1>11

\* A sum over a set is the sum over its image, when nothing is hit twice.
LEMMA SumImage ==
    ASSUME NEW S, IsFiniteSet(S), NEW p, \A x, y \in S : p[x] = p[y] => x = y,
           NEW f, NEW g, \A x \in S : f[x] = g[p[x]] /\ g[p[x]] \in Int
    PROVE  SumFunctionOnSet(f, S) = SumFunctionOnSet(g, {p[x] : x \in S})
<1> DEFINE Bad == {s \in SUBSET S :
                SumFunctionOnSet(f, s) # SumFunctionOnSet(g, {p[x] : x \in s})}
<1> SUFFICES ASSUME Bad # {} PROVE FALSE
  OBVIOUS
<1>1. PICK s \in Bad : \A u \in Bad : ~(u \subseteq s /\ u # s)
  <2> HIDE DEF Bad
  <2>1. Bad \subseteq SUBSET S
    BY DEF Bad
  <2> QED BY <2>1, SmallestSubset
<1>2. s # {}
  <2>1. SumFunctionOnSet(f, {}) = 0 /\ SumFunctionOnSet(g, {}) = 0
    BY SumEmpty
  <2>2. {p[x] : x \in {}} = {}
    OBVIOUS
  <2> QED BY <1>1, <2>1, <2>2
<1>3. PICK a \in s : TRUE
  BY <1>2
<1> DEFINE u == s \ {a}
           I == {p[x] : x \in u}
<1>4. u \subseteq S /\ u \subseteq s /\ u # s /\ a \notin u /\ a \in S /\ s = u \cup {a}
  BY <1>1, <1>3
<1>5. {p[x] : x \in s} = I \cup {p[a]}
  BY <1>3
<1>6. p[a] \notin I
  BY <1>4
<1>7. \A z \in I : g[z] \in Int
  BY <1>4
<1>8. SumFunctionOnSet(f, u) = SumFunctionOnSet(g, I)
  BY <1>1, <1>4
<1>9. IsFiniteSet(u)
  BY <1>4, FS_Subset
<1>10. IsFiniteSet(I)
  <2>1. [x \in u |-> p[x]] \in Surjection(u, I)
    BY DEF Surjection
  <2> QED BY <1>9, <2>1, FS_Surjection
<1> HIDE DEF u, I
<1>11. SumFunctionOnSet(f, s) = SumFunctionOnSet(f, u) + f[a]
  BY <1>4, <1>9, SumAdd
<1>12. SumFunctionOnSet(g, I \cup {p[a]}) = SumFunctionOnSet(g, I) + g[p[a]]
  BY <1>4, <1>6, <1>7, <1>10, SumAdd
<1> QED BY <1>1, <1>4, <1>5, <1>8, <1>11, <1>12

-----------------------------------------------------------------------------
(* Folds over the positions of a sequence (SequencesExt!FoldLeft). *)

\* A set of naturals that is not empty has a least element.
LEMMA LeastNatural ==
    ASSUME NEW B, B \subseteq Nat, B # {}
    PROVE  \E i \in B : \A j \in B : i <= j
<1>1. PICK i \in B : \A j \in B : <<j, i>> \notin OpToRel(<, Nat)
  BY NatLessThanWellFounded, WFMin
<1>2. \A j, k \in Nat : j < k => <<j, k>> \in OpToRel(<, Nat)
  BY DEF OpToRel
<1>3. i \in Nat /\ \A j \in B : j \in Nat /\ ~(j < i)
  BY <1>1, <1>2
<1> QED BY <1>3

\* A finite set of integers that is not empty has a maximum.
LEMMA MaxIn ==
    ASSUME NEW S, IsFiniteSet(S), S \subseteq Int, S # {}
    PROVE  Max(S) \in S /\ \A y \in S : Max(S) >= y
<1> DEFINE HasMax(s) == \E x \in s : \A y \in s : x >= y
           Bad == {s \in SUBSET S : s # {} /\ ~HasMax(s)}
<1>0. SUFFICES ASSUME Bad # {} PROVE FALSE
  <2>1. Bad = {} => HasMax(S)
    OBVIOUS
  <2> QED BY <2>1 DEF Max
<1>1. PICK s \in Bad : \A t \in Bad : ~(t \subseteq s /\ t # s)
  <2> HIDE DEF Bad
  <2>1. Bad \subseteq SUBSET S
    BY DEF Bad
  <2>2. IsFiniteSet(S)
    OBVIOUS
  <2> QED BY ONLY <1>0, <2>1, <2>2, SmallestSubset
<1>2. PICK a \in s : TRUE
  BY <1>1
<1> DEFINE u == s \ {a}
<1>3. u \in SUBSET S /\ u \subseteq s /\ u # s /\ a \in Int
  BY <1>1, <1>2
<1>4. u = {} \/ HasMax(u)
  BY <1>1, <1>3
<1>5. CASE u = {}
  BY <1>1, <1>2, <1>3, <1>5
<1>6. CASE HasMax(u)
  <2>1. PICK b \in u : \A y \in u : b >= y
    BY <1>6
  <2>2. b \in Int /\ \A y \in s : y \in Int /\ (y = a \/ y \in u)
    BY <1>1, <1>3, <2>1
  <2>3. IF a >= b THEN \A y \in s : a >= y ELSE \A y \in s : b >= y
    BY <1>3, <2>1, <2>2
  <2>4. b \in s
    BY <2>1
  <2> QED BY <1>1, <1>2, <2>3, <2>4
<1> QED BY <1>4, <1>5, <1>6

\* The recursive function behind FoldLeft, on the positions D, with the step F.
IsFold(base, F, D, g) ==
    g = [s \in SUBSET D |-> IF s = {} THEN base ELSE F[<<g[s \ {Max(s)}], Max(s)>>]]

\* Two such functions agree where both are defined.
LEMMA FoldUnique ==
    ASSUME NEW D, NEW E, NEW base, NEW F, NEW g, NEW h, IsFiniteSet(D),
           \A s \in SUBSET D : s # {} => Max(s) \in s,
           IsFold(base, F, D, g), IsFold(base, F, E, h)
    PROVE  \A s \in SUBSET (D \cap E) : g[s] = h[s]
<1> DEFINE Bad == {s \in SUBSET D : s \subseteq E /\ g[s] # h[s]}
<1>0. SUFFICES ASSUME Bad # {} PROVE FALSE
  OBVIOUS
<1>1. PICK s \in Bad : \A t \in Bad : ~(t \subseteq s /\ t # s)
  <2> HIDE DEF Bad
  <2>1. Bad \subseteq SUBSET D
    BY DEF Bad
  <2>2. IsFiniteSet(D)
    OBVIOUS
  <2> QED BY ONLY <1>0, <2>1, <2>2, SmallestSubset
<1>2. g[s] = IF s = {} THEN base ELSE F[<<g[s \ {Max(s)}], Max(s)>>]
  BY DEF IsFold
<1>3. h[s] = IF s = {} THEN base ELSE F[<<h[s \ {Max(s)}], Max(s)>>]
  BY DEF IsFold
<1>4. s # {} => Max(s) \in s
  OBVIOUS
<1>5. s # {} => g[s \ {Max(s)}] = h[s \ {Max(s)}]
  BY <1>1, <1>4
<1> QED BY <1>1, <1>2, <1>3, <1>5

\* The function exists, and its values stay in the set the step stays in.
LEMMA FoldExists ==
    ASSUME NEW D, IsFiniteSet(D), D \subseteq Int, NEW V, NEW base \in V,
           NEW F, \A v \in V : \A i \in D : F[<<v, i>>] \in V
    PROVE  \E g \in [SUBSET D -> V] : IsFold(base, F, D, g)
<1> DEFINE Good(s) == \E g \in [SUBSET s -> V] : IsFold(base, F, s, g)
           Bad == {s \in SUBSET D : ~Good(s)}
<1>0. SUFFICES ASSUME Bad # {} PROVE FALSE
  OBVIOUS
<1>1. PICK s \in Bad : \A t \in Bad : ~(t \subseteq s /\ t # s)
  <2> HIDE DEF Bad
  <2>1. Bad \subseteq SUBSET D
    BY DEF Bad
  <2>2. IsFiniteSet(D)
    OBVIOUS
  <2> QED BY ONLY <1>0, <2>1, <2>2, SmallestSubset
<1>2. \A t \in SUBSET s : t # s => Good(t)
  BY <1>1
<1> DEFINE G(t) == CHOOSE g \in [SUBSET t -> V] : IsFold(base, F, t, g)
           top == IF s = {} THEN base ELSE F[<<G(s \ {Max(s)})[s \ {Max(s)}], Max(s)>>]
           g == [t \in SUBSET s |-> IF t = s THEN top ELSE G(t)[t]]
<1>3. \A t \in SUBSET s : t # s => G(t) \in [SUBSET t -> V] /\ IsFold(base, F, t, G(t))
  BY <1>2
<1>5. \A t \in SUBSET s : IsFiniteSet(t) /\ t \subseteq Int
  BY FS_Subset
<1>4. \A t \in SUBSET s : t # {} => Max(t) \in t
  BY <1>5, MaxIn
<1>6. ASSUME NEW t \in SUBSET s, t # s, NEW u \in SUBSET t
      PROVE  G(t)[u] = G(u)[u]
  <2>1. u # s /\ u \in SUBSET s
    BY <1>6
  <2>2. IsFold(base, F, t, G(t)) /\ IsFold(base, F, u, G(u))
    BY <1>3, <1>6, <2>1
  <2>3. /\ IsFiniteSet(t) /\ u \in SUBSET (t \cap u)
        /\ \A w \in SUBSET t : w # {} => Max(w) \in w
    BY <1>4, <1>5
  <2>4. \A x, y : IsFold(base, F, t, x) /\ IsFold(base, F, u, y) => x[u] = y[u]
    <3>1. SUFFICES ASSUME NEW x, NEW y, IsFold(base, F, t, x), IsFold(base, F, u, y)
                   PROVE  x[u] = y[u]
      OBVIOUS
    <3>2. \A w \in SUBSET (t \cap u) : x[w] = y[w]
      BY ONLY <2>3, <3>1, FoldUnique
    <3> QED BY <2>3, <3>2
  <2> HIDE DEF G
  <2> QED BY <2>2, <2>4
<1>7. top \in V
  <2>1. CASE s # {}
    <3>1. Max(s) \in s /\ s \ {Max(s)} \in SUBSET s /\ s \ {Max(s)} # s
      BY <1>4, <2>1
    <3>2. G(s \ {Max(s)})[s \ {Max(s)}] \in V
      BY <1>3, <3>1
    <3> HIDE DEF G
    <3>3. Max(s) \in D
      BY <3>1
    <3> QED BY <2>1, <3>2, <3>3
  <2> QED BY <2>1
<1>8. g \in [SUBSET s -> V]
  <2> HIDE DEF top, G
  <2>1. \A t \in SUBSET s : t # s => G(t)[t] \in V
    BY <1>3
  <2> QED BY <1>7, <2>1
<1>9. IsFold(base, F, s, g)
  <2>1. ASSUME NEW t \in SUBSET s
        PROVE  g[t] = IF t = {} THEN base ELSE F[<<g[t \ {Max(t)}], Max(t)>>]
    <3> DEFINE u == t \ {Max(t)}
    <3>1. t # {} => u \in SUBSET t /\ u \in SUBSET s /\ u # s
      BY <1>4
    <3>2. CASE t = s
      <4> HIDE DEF G
      <4> QED BY <3>1, <3>2
    <3>3. CASE t # s
      <4>1. G(t)[t] = IF t = {} THEN base ELSE F[<<G(t)[u], Max(t)>>]
        <5>1. IsFold(base, F, t, G(t))
          BY <1>3, <3>3
        <5> HIDE DEF G
        <5> QED BY <5>1 DEF IsFold
      <4>2. t # {} => G(t)[u] = G(u)[u]
        <5> HIDE DEF G, u
        <5> QED BY <1>6, <3>1, <3>3
      <4> HIDE DEF G
      <4> QED BY <3>1, <3>3, <4>1, <4>2
    <3> QED BY <3>2, <3>3
  <2> HIDE DEF g
  <2> QED BY <1>8, <2>1 DEF IsFold
<1> HIDE DEF g
<1> QED BY <1>1, <1>8, <1>9

\* The fold of the first i positions takes position i last.
LEMMA FoldSteps ==
    ASSUME NEW len \in Nat, NEW base, NEW F, NEW g, IsFold(base, F, 1 .. len, g)
    PROVE  /\ g[{}] = base
           /\ \A i \in 1 .. len : g[1 .. i] = F[<<g[1 .. i - 1], i>>]
<1>1. g[{}] = base
  BY DEF IsFold
<1>2. ASSUME NEW i \in 1 .. len PROVE g[1 .. i] = F[<<g[1 .. i - 1], i>>]
  <2>1. IsFiniteSet(1 .. i) /\ 1 .. i \subseteq Int /\ 1 .. i # {}
    <3>1. 1 \in Int /\ i \in Int /\ i \in 1 .. i
      OBVIOUS
    <3>2. IsFiniteSet(1 .. i)
      BY <3>1, FS_Interval, Zenon
    <3> QED BY <3>1, <3>2
  <2>2. Max(1 .. i) \in 1 .. i /\ \A y \in 1 .. i : Max(1 .. i) >= y
    BY <2>1, MaxIn
  <2>3. Max(1 .. i) = i
    BY <2>2
  <2>4. (1 .. i) \ {i} = 1 .. i - 1
    OBVIOUS
  <2>5. 1 .. i \in SUBSET (1 .. len)
    OBVIOUS
  <2>6. g[1 .. i] = F[<<g[(1 .. i) \ {Max(1 .. i)}], Max(1 .. i)>>]
    BY <2>1, <2>5 DEF IsFold
  <2> QED BY <2>3, <2>4, <2>6
<1> QED BY <1>1, <1>2

-----------------------------------------------------------------------------
(* The invariant.  I is the ledger of HTLC ids: I[p] is the id under which *)
(* the payer placed p's HTLC, or -1 before it did.  The other parameters   *)
(* are a node's channel c and the sets of payments that were started (S),  *)
(* are claimable (L), claimed (C) and refused (R).                         *)

\* The messages of the channel.
Messages ==
    [t : {"add"}, id : Nat, pay : Payments] \cup [t : {"fulfil", "fail"}, id : Nat]
    \cup [t : {"cs"}, tx : Txs] \cup [t : {"raa"}, num : Int] \cup [t : {"shutdown"}]
    \cup [t : {"reestablish"}, nextLocal : Int, nextRemote : Int] \cup Closings

\* Ids are given once, in order, to payments that were started.
IdsOK(I, K, S) ==
    /\ I \in [Payments -> Int]
    /\ IsFiniteSet(S)
    /\ \A p \in Payments : I[p] # -1 => /\ I[p] >= 0 /\ p \in S
                                        /\ I[p] < K[PayFrom[p]].nextId
    /\ \A p, q \in Payments : I[p] = I[q] /\ I[p] # -1 /\ PayFrom[p] = PayFrom[q] => p = q

\* The outcome an HTLC carries is the payee's decision.
Decided(h, C, R) == \/ h.out = "fulfil" /\ h.pay \in C
                    \/ h.out = "fail" /\ h.pay \in R

(* The payer's HTLCs: each placed once, removed only as decided, and there *)
(* for as long as nothing is decided.                                      *)
OutOK(n, c, I, C, R) ==
    /\ IsFiniteSet(c.out)
    /\ \A h \in c.out :
        /\ PayFrom[h.pay] = n /\ h.id = I[h.pay]
        /\ h.st \in {"LocalAnnounced", "Committed"} => h.out = "none"
        /\ h.st \notin {"LocalAnnounced", "Committed"} => Decided(h, C, R)
    /\ \A g, h \in c.out : g.pay = h.pay => g = h
    /\ \A p \in Payments : PayFrom[p] = n /\ I[p] # -1 /\ p \notin C \cup R
            => \E h \in c.out : h.pay = p
    /\ c.pendFails \subseteq R

\* The states of an HTLC on its way in.
Arriving == {"RemoteAnnounced", "AwaitingRemoteRevokeToAnnounce",
             "AwaitingAnnouncedRemoteRevoke"}

\* The payee's HTLCs: what is on its way in was not handed to the user yet.
InOK(n, c, I, L, C, R) ==
    /\ IsFiniteSet(c.inb)
    /\ \A h \in c.inb :
        /\ PayTo(h.pay) = n /\ h.id = I[h.pay]
        /\ h.st = "LocalRemoved" => Decided(h, C, R)
        /\ h.st # "LocalRemoved" => h.out = "none"
        /\ h.st \in Arriving => h.pay \notin c.pendAdds \cup L \cup C \cup R
    /\ \A g, h \in c.inb : g.pay = h.pay => g = h
    /\ \A p \in c.pendAdds : PayTo(p) = n /\ I[p] # -1 /\ p \notin L \cup C \cup R

(* What a disconnection makes the payee forget is the tail of the ids it   *)
(* has seen: from k on.  Whatever went further has an id below k.          *)
SeenOK(n, c, I, L, C, R, k) ==
    /\ k \in Nat /\ k <= c.nextCpId
    /\ \A i \in k .. c.nextCpId - 1 : \E h \in c.inb : h.id = i /\ h.st = "RemoteAnnounced"
    /\ \A h \in c.inb : h.st = "RemoteAnnounced" => h.id >= k /\ h.id < c.nextCpId
    /\ \A h \in c.inb : h.st # "RemoteAnnounced" => h.id < k
    /\ \A p \in c.pendAdds \cup L \cup C \cup R : PayTo(p) = n => I[p] < k

\* The updates that may wait in the holding cell.
Waiting(n, I, S, C, R) ==
    {u \in Updates :
        /\ u.op = "add" => u.pay \in S /\ PayFrom[u.pay] = n /\ I[u.pay] = -1
        /\ u.op = "claim" => \E p \in C : PayTo(p) = n /\ I[p] = u.id
        /\ u.op = "fail" => \E p \in R : PayTo(p) = n /\ I[p] = u.id}

\* The holding cell: an addition waits there once.
CellOK(n, cell, I, S, C, R) ==
    /\ cell \in Seq(Waiting(n, I, S, C, R))
    /\ \A i, j \in 1 .. Len(cell) :
            cell[i] = cell[j] /\ cell[i].op = "add" => i = j

\* What holds of a node's channel.
NodeOK(n, c, I, S, L, C, R) ==
    /\ c \in Channel
    /\ OutOK(n, c, I, C, R)
    /\ InOK(n, c, I, L, C, R)
    /\ \E k \in Nat : SeenOK(n, c, I, L, C, R, k)
    /\ CellOK(n, c.cell, I, S, C, R)

\* The messages that may be on their way to n.
Deliverable(n, I, C, R) ==
    {m \in Messages :
        /\ m.t = "add" => PayTo(m.pay) = n /\ I[m.pay] = m.id
        /\ m.t = "fulfil" => \E p \in C : PayFrom[p] = n /\ I[p] = m.id
        /\ m.t = "fail" => \E p \in R : PayFrom[p] = n /\ I[p] = m.id}

\* A payment is decided once, after it was placed.
DecidedOK(I, L, C, R) ==
    /\ L \subseteq Payments /\ C \subseteq Payments /\ R \subseteq Payments
    /\ \A p \in L \cup C \cup R : I[p] # -1
    /\ L \cap C = {} /\ L \cap R = {} /\ C \cap R = {}

(* The payer hears "sent" of what was claimed, and "failed" of what was    *)
(* refused or never left its holding cell.                                 *)
ToldOK(I, K, S, C, R, T) ==
    /\ T \in [Payments -> SUBSET {"sent", "failed"}]
    /\ \A p \in Payments : "sent" \in T[p] => p \in C
    /\ \A p \in Payments : "failed" \in T[p] =>
            \/ p \in R
            \/ p \in S /\ I[p] = -1 /\ p \notin AddsIn(K[PayFrom[p]])

\* All of it, of the states K of the channels and N of the links.
Decision(I, K, N, S, L, C, R, T) ==
    /\ K = [n \in Nodes |-> K[n]] /\ N = [n \in Nodes |-> N[n]]
    /\ S \subseteq Payments
    /\ IdsOK(I, K, S)
    /\ DecidedOK(I, L, C, R)
    /\ \A n \in Nodes : NodeOK(n, K[n], I, S, L, C, R)
    /\ \A n \in Nodes : N[n] \in Seq(Deliverable(n, I, C, R))
    /\ ToldOK(I, K, S, C, R, T)

\* The inductive invariant: some ledger of ids explains the state.
DecisionInv ==
    /\ \E I : Decision(I, ch, net, started, claimable, claimed, refused, told)
    /\ conn \in BOOLEAN /\ drops \in 0 .. MaxDrops

-----------------------------------------------------------------------------
(* Sums of amounts. *)

\* What a set of payments is worth.
Worth(S) == SumFunctionOnSet(Amount, S)

\* MapThenSumSet unfolds to the recursive function behind SumFunctionOnSet.
LEMMA WorthIsMapped ==
    ASSUME NEW S
    PROVE  MapThenSumSet(LAMBDA p : Amount[p], S) = Worth(S)
<1>1. Worth(S) = (CHOOSE g : IsSum(Amount, S, g))[S]
  BY SumUnfolded DEF Worth
<1>2. MapThenSumSet(LAMBDA p : Amount[p], S) = (CHOOSE g : IsSum(Amount, S, g))[S]
  BY DEF MapThenSumSet, MapThenFoldSet, IsSum, Taken
<1> QED BY <1>1, <1>2

\* SumAmounts adds up a function on its HTLCs.
LEMMA SumAmountsIsSum ==
    ASSUME NEW S, IsFiniteSet(S), \A h \in S : h.pay \in Payments
    PROVE  /\ SumAmounts(S) = SumFunctionOnSet([h \in S |-> Amount[h.pay]], S)
           /\ SumAmounts(S) \in Int
<1> DEFINE f == [h \in S |-> Amount[h.pay]]
           Is(g) == g = [s \in SUBSET S |-> IF s = {} THEN 0
                            ELSE Amount[Taken(s).pay] + g[s \ {Taken(s)}]]
<1>1. SumAmounts(S) = (CHOOSE g : Is(g))[S]
  BY DEF SumAmounts, MapThenSumSet, MapThenFoldSet, Taken
<1>2. \A h \in S : f[h] \in Int
  BY ChannelAssumption
<1>3. \A g : Is(g) <=> IsSum(f, S, g)
  <2>1. \A s \in SUBSET S : s # {} => f[Taken(s)] = Amount[Taken(s).pay]
    BY DEF Taken
  <2> HIDE DEF f
  <2>2. ASSUME NEW g PROVE
          [s \in SUBSET S |-> IF s = {} THEN 0
                ELSE Amount[Taken(s).pay] + g[s \ {Taken(s)}]]
          = [s \in SUBSET S |-> IF s = {} THEN 0 ELSE f[Taken(s)] + g[s \ {Taken(s)}]]
    BY <2>1
  <2> QED BY <2>2 DEF IsSum
<1> HIDE DEF f
<1>4. PICK g \in [SUBSET S -> Int] : IsSum(f, S, g)
  BY <1>2, SumExists
<1>5. Is(CHOOSE g0 : Is(g0))
  BY <1>3, <1>4
<1>6. IsSum(f, S, CHOOSE g0 : Is(g0))
  BY <1>3, <1>5
<1> HIDE DEF Is
<1>7. SumFunctionOnSet(f, S) = (CHOOSE g0 : Is(g0))[S]
  <2>1. S \in SUBSET S
    OBVIOUS
  <2> QED BY <1>2, <1>6, <2>1, SumIs
<1>8. SumFunctionOnSet(f, S) \in Int
  BY <1>2, SumInt
<1> QED BY <1>1, <1>7, <1>8 DEF f

\* HTLCs of different payments are worth what their payments are worth.
LEMMA SumAmountsIsWorth ==
    ASSUME NEW S, IsFiniteSet(S), \A h \in S : h.pay \in Payments,
           \A g, h \in S : g.pay = h.pay => g = h
    PROVE  SumAmounts(S) = Worth({h.pay : h \in S})
<1> DEFINE f == [h \in S |-> Amount[h.pay]]
           p == [h \in S |-> h.pay]
<1>1. SumAmounts(S) = SumFunctionOnSet(f, S)
  BY SumAmountsIsSum
<1>2. \A x, y \in S : p[x] = p[y] => x = y
  OBVIOUS
<1>3. \A x \in S : f[x] = Amount[p[x]] /\ Amount[p[x]] \in Int
  BY ChannelAssumption
<1>4. {p[x] : x \in S} = {h.pay : h \in S}
  OBVIOUS
<1> HIDE DEF f, p
<1>5. SumFunctionOnSet(f, S) = SumFunctionOnSet(Amount, {p[x] : x \in S})
  BY <1>2, <1>3, SumImage
<1> QED BY <1>1, <1>4, <1>5 DEF Worth

\* Worth is an integer, additive over disjoint sets, and zero on the empty set.
LEMMA WorthAdds ==
    /\ Worth({}) = 0
    /\ \A S : S \subseteq Payments /\ IsFiniteSet(S) => Worth(S) \in Int
    /\ \A S, T : /\ S \subseteq Payments /\ IsFiniteSet(S)
                 /\ T \subseteq Payments /\ IsFiniteSet(T) /\ S \cap T = {}
                 => Worth(S \cup T) = Worth(S) + Worth(T)
    /\ \A p \in Payments : Worth({p}) = Amount[p]
<1>1. Worth({}) = 0
  BY SumEmpty DEF Worth
<1>2. ASSUME NEW S, S \subseteq Payments, IsFiniteSet(S) PROVE Worth(S) \in Int
  <2>1. \A x \in S : Amount[x] \in Int
    BY <1>2, ChannelAssumption
  <2> QED BY <1>2, <2>1, SumInt DEF Worth
<1>3. ASSUME NEW S, S \subseteq Payments, IsFiniteSet(S),
             NEW T, T \subseteq Payments, IsFiniteSet(T), S \cap T = {}
      PROVE  Worth(S \cup T) = Worth(S) + Worth(T)
  <2>1. \A x \in S \cup T : Amount[x] \in Int
    BY <1>3, ChannelAssumption
  <2> QED BY <1>3, <2>1, SumUnion DEF Worth
<1>4. ASSUME NEW p \in Payments PROVE Worth({p}) = Amount[p]
  <2>1. IsFiniteSet({}) /\ Amount[p] \in Int
    BY FS_EmptySet, ChannelAssumption
  <2>2. SumFunctionOnSet(Amount, {} \cup {p}) = SumFunctionOnSet(Amount, {}) + Amount[p]
    <3> DEFINE E == {}
    <3>1. IsFiniteSet(E) /\ p \notin E /\ \A x \in E : Amount[x] \in Int
      BY <2>1
    <3> HIDE DEF E
    <3>2. SumFunctionOnSet(Amount, E \cup {p}) = SumFunctionOnSet(Amount, E) + Amount[p]
      BY <2>1, <3>1, SumAdd
    <3> QED BY <3>2 DEF E
  <2>3. {} \cup {p} = {p}
    OBVIOUS
  <2> QED BY <1>1, <2>1, <2>2, <2>3 DEF Worth
<1> QED BY <1>1, <1>2, <1>3, <1>4
-----------------------------------------------------------------------------
(* What the pieces of the channel's methods keep. *)

\* The HTLCs, ids and holding cell are the same.
SameBooks(c, d) ==
    /\ d.inb = c.inb /\ d.out = c.out /\ d.cell = c.cell /\ d.toSelf = c.toSelf
    /\ d.pendAdds = c.pendAdds /\ d.pendFails = c.pendFails
    /\ d.nextId = c.nextId /\ d.nextCpId = c.nextCpId

\* The payments of a set of HTLCs.
Pays(htlcs) == {h.pay : h \in htlcs}

\* The two channels agree on everything the ledger of payments sees.
SameMoney(c, d) ==
    /\ d.cell = c.cell /\ d.toSelf = c.toSelf /\ d.nextId = c.nextId
    /\ Pays(d.inb) = Pays(c.inb) /\ Pays(d.out) = Pays(c.out)

\* They agree on it as far as the claimed payments C are concerned.
Still(c, d, C) ==
    /\ d.cell = c.cell /\ d.toSelf = c.toSelf /\ d.nextId = c.nextId
    /\ Pays(d.out) = Pays(c.out)
    /\ \A p \in C : p \in Pays(d.inb) <=> p \in Pays(c.inb)

\* Ending a channel keeps its books.
LEMMA EndsKeeps ==
    ASSUME NEW c \in Channel, NEW why \in {"open", "closed"} \cup Errors
    PROVE  Ends(c, why) \in Channel /\ SameBooks(c, Ends(c, why))
  BY DEF Ends, SameBooks, Channel

\* So does a monitor update.
LEMMA PausedKeeps ==
    ASSUME NEW c \in Channel, NEW raa \in BOOLEAN, NEW cs \in BOOLEAN
    PROVE  /\ monitor_updating_paused(c, raa, cs) \in Channel
           /\ SameBooks(c, monitor_updating_paused(c, raa, cs))
           /\ monitor_updating_paused(c, raa, cs).fate = c.fate
  BY DEF monitor_updating_paused, SameBooks, Channel

\* The invariant of a node depends on its books only.
LEMMA BooksDecide ==
    ASSUME NEW n, NEW c, NEW d \in Channel, NEW I, NEW S, NEW L, NEW C, NEW R,
           NodeOK(n, c, I, S, L, C, R), SameBooks(c, d)
    PROVE  NodeOK(n, d, I, S, L, C, R) /\ SameMoney(c, d)
<1>1. OutOK(n, d, I, C, R)
  BY DEF NodeOK, OutOK, SameBooks
<1>2. InOK(n, d, I, L, C, R)
  BY DEF NodeOK, InOK, SameBooks
<1>3. PICK k \in Nat : SeenOK(n, c, I, L, C, R, k)
  BY DEF NodeOK
<1>4. SeenOK(n, d, I, L, C, R, k)
  BY <1>3 DEF SeenOK, SameBooks
<1> QED BY <1>1, <1>2, <1>4 DEF NodeOK, SameBooks, SameMoney

\* The image of a finite set is finite.
LEMMA ImageFinite ==
    ASSUME NEW S, IsFiniteSet(S), NEW r
    PROVE  IsFiniteSet({r[h] : h \in S})
<1>1. [h \in S |-> r[h]] \in Surjection(S, {r[h] : h \in S})
  BY DEF Surjection
<1> QED BY <1>1, FS_Surjection

\* HTLCs rewritten one by one, ids and payments kept.
LEMMA Rewritten ==
    ASSUME NEW S, IsFiniteSet(S), \A g, h \in S : g.pay = h.pay => g = h,
           NEW r, \A h \in S : r[h].pay = h.pay,
           NEW T, T = {r[h] : h \in S}
    PROVE  /\ IsFiniteSet(T) /\ Pays(T) = Pays(S)
           /\ \A g, h \in T : g.pay = h.pay => g = h
  BY ImageFinite DEF Pays

\* Promote changes the state of some HTLCs and nothing else.
LEMMA PromoteFacts ==
    ASSUME NEW S, IsFiniteSet(S), \A g, h \in S : g.pay = h.pay => g = h,
           NEW from, NEW to,
           \/ S \subseteq InHtlcs /\ to \in InStates
           \/ S \subseteq OutHtlcs /\ to \in OutStates
    PROVE  /\ S \subseteq InHtlcs /\ to \in InStates => Promote(S, from, to) \subseteq InHtlcs
           /\ S \subseteq OutHtlcs /\ to \in OutStates => Promote(S, from, to) \subseteq OutHtlcs
           /\ IsFiniteSet(Promote(S, from, to)) /\ Pays(Promote(S, from, to)) = Pays(S)
           /\ \A g, h \in Promote(S, from, to) : g.pay = h.pay => g = h
           /\ \A g \in Promote(S, from, to) : \E h \in S :
                /\ g.id = h.id /\ g.pay = h.pay /\ g.out = h.out
                /\ g.st = IF h.st = from THEN to ELSE h.st
           /\ \A h \in S : \E g \in Promote(S, from, to) :
                /\ g.id = h.id /\ g.pay = h.pay /\ g.out = h.out
                /\ g.st = IF h.st = from THEN to ELSE h.st
<1> DEFINE r == [h \in S |-> IF h.st = from THEN [h EXCEPT !.st = to] ELSE h]
<1>1. Promote(S, from, to) = {r[h] : h \in S}
  BY DEF Promote
<1>2. \A h \in S : /\ r[h].pay = h.pay /\ r[h].id = h.id /\ r[h].out = h.out
                   /\ r[h].st = IF h.st = from THEN to ELSE h.st
                   /\ S \subseteq InHtlcs /\ to \in InStates => r[h] \in InHtlcs
                   /\ S \subseteq OutHtlcs /\ to \in OutStates => r[h] \in OutHtlcs
  BY DEF InHtlcs, OutHtlcs
<1> HIDE DEF r
<1>3. /\ IsFiniteSet(Promote(S, from, to)) /\ Pays(Promote(S, from, to)) = Pays(S)
      /\ \A g, h \in Promote(S, from, to) : g.pay = h.pay => g = h
  BY <1>1, <1>2, Rewritten
<1> QED BY <1>1, <1>2, <1>3

\* Sums over HTLCs of a channel are integers.
LEMMA SumsTyped ==
    ASSUME NEW c \in Channel, IsFiniteSet(c.inb), IsFiniteSet(c.out)
    PROVE  \A X : X \subseteq c.inb \/ X \subseteq c.out => SumAmounts(X) \in Int
<1>1. ASSUME NEW X, X \subseteq c.inb \/ X \subseteq c.out
      PROVE  IsFiniteSet(X) /\ \A h \in X : h.pay \in Payments
  BY <1>1, FS_Subset DEF Channel, InHtlcs, OutHtlcs
<1> QED BY <1>1, SumAmountsIsSum

\* A commitment transaction is well typed.
LEMMA TxTyped ==
    ASSUME NEW c \in Channel, IsFiniteSet(c.inb), IsFiniteSet(c.out),
           NEW n \in Nodes, NEW num \in Nat, NEW byUs \in BOOLEAN
    PROVE  /\ BalanceBeforeHtlcs(c, byUs) \in Int
           /\ build_commitment_transaction(n, c, num, byUs) \in Txs
<1> DEFINE ins == {h \in c.inb : InIncluded(h, byUs)}
           outs == {h \in c.out : OutIncluded(h, byUs)}
           inDone == {h \in c.inb : ~InIncluded(h, byUs) /\ h.out = "fulfil"}
           outDone == {h \in c.out : ~OutIncluded(h, byUs) /\ h.out = "fulfil"}
           before == BalanceBeforeHtlcs(c, byUs)
<1>1. /\ SumAmounts(ins) \in Int /\ SumAmounts(outs) \in Int
      /\ SumAmounts(inDone) \in Int /\ SumAmounts(outDone) \in Int
  BY SumsTyped
<1>2. c.toSelf \in Int
  BY DEF Channel
<1>3. before \in Int
  BY <1>1, <1>2 DEF BalanceBeforeHtlcs
<1>4. {h.pay : h \in ins \cup outs} \in SUBSET Payments
  BY DEF Channel, InHtlcs, OutHtlcs
<1>5. build_commitment_transaction(n, c, num, byUs) =
        [num |-> num,
         bal |-> [m \in Nodes |-> IF m = n THEN before - SumAmounts(outs)
                                  ELSE Funding - before - SumAmounts(ins)],
         htlcs |-> {h.pay : h \in ins \cup outs}]
  BY DEF build_commitment_transaction
<1> HIDE DEF ins, outs, inDone, outDone, before
<1>6. Funding \in Int
  BY ChannelAssumption
<1> QED BY <1>1, <1>3, <1>4, <1>5, <1>6 DEF Txs, before

Removing == {"RemoteRemoved", "AwaitingRemoteRevokeToRemove", "AwaitingRemovedRemoteRevoke"}

(* HTLCs that move on, on their way in or out, keep the invariant of the   *)
(* node (build_commitment_no_status_check, commitment_signed).             *)
LEMMA PromoteKeeps ==
    ASSUME NEW n, NEW c, NEW d \in Channel, NEW I \in [Payments -> Int], NEW S,
           NEW L \in SUBSET Payments, NEW C \in SUBSET Payments, NEW R \in SUBSET Payments,
           NodeOK(n, c, I, S, L, C, R),
           NEW f1 \in Arriving, NEW t1 \in Arriving, t1 # "RemoteAnnounced",
           NEW f2 \in Removing, NEW t2 \in Removing,
           d.inb = Promote(c.inb, f1, t1), d.out = Promote(c.out, f2, t2),
           d.cell = c.cell, d.toSelf = c.toSelf, d.nextId = c.nextId,
           d.nextCpId = c.nextCpId, d.pendAdds = c.pendAdds, d.pendFails = c.pendFails
    PROVE  NodeOK(n, d, I, S, L, C, R) /\ SameMoney(c, d)
<1>1. c.inb \subseteq InHtlcs /\ c.out \subseteq OutHtlcs /\ c.nextCpId \in Nat
  BY DEF NodeOK, Channel
<1>2. /\ IsFiniteSet(d.inb) /\ Pays(d.inb) = Pays(c.inb)
      /\ \A g, h \in d.inb : g.pay = h.pay => g = h
      /\ \A g \in d.inb : \E h \in c.inb :
            /\ g.id = h.id /\ g.pay = h.pay /\ g.out = h.out
            /\ g.st = IF h.st = f1 THEN t1 ELSE h.st
      /\ \A h \in c.inb : \E g \in d.inb :
            /\ g.id = h.id /\ g.pay = h.pay /\ g.out = h.out
            /\ g.st = IF h.st = f1 THEN t1 ELSE h.st
  <2>1. IsFiniteSet(c.inb) /\ \A g, h \in c.inb : g.pay = h.pay => g = h
    BY DEF NodeOK, InOK
  <2>2. t1 \in InStates
    BY DEF Arriving, InStates
  <2> QED BY <1>1, <2>1, <2>2, PromoteFacts
<1>3. /\ IsFiniteSet(d.out) /\ Pays(d.out) = Pays(c.out)
      /\ \A g, h \in d.out : g.pay = h.pay => g = h
      /\ \A g \in d.out : \E h \in c.out :
            /\ g.id = h.id /\ g.pay = h.pay /\ g.out = h.out
            /\ g.st = IF h.st = f2 THEN t2 ELSE h.st
      /\ \A h \in c.out : \E g \in d.out :
            /\ g.id = h.id /\ g.pay = h.pay /\ g.out = h.out
            /\ g.st = IF h.st = f2 THEN t2 ELSE h.st
  <2>1. IsFiniteSet(c.out) /\ \A g, h \in c.out : g.pay = h.pay => g = h
    BY DEF NodeOK, OutOK
  <2>2. t2 \in OutStates
    BY DEF Removing, OutStates
  <2> QED BY <1>1, <2>1, <2>2, PromoteFacts
<1>4. OutOK(n, d, I, C, R)
  <2>1. OutOK(n, c, I, C, R)
    BY DEF NodeOK
  <2>2. ASSUME NEW g \in d.out
        PROVE  /\ PayFrom[g.pay] = n /\ g.id = I[g.pay]
               /\ g.st \in {"LocalAnnounced", "Committed"} => g.out = "none"
               /\ g.st \notin {"LocalAnnounced", "Committed"} => Decided(g, C, R)
    <3>1. PICK h \in c.out : /\ g.id = h.id /\ g.pay = h.pay /\ g.out = h.out
                             /\ g.st = IF h.st = f2 THEN t2 ELSE h.st
      BY <1>3
    <3> QED BY <2>1, <3>1 DEF OutOK, Removing, Decided
  <2>3. \A p \in Payments : PayFrom[p] = n /\ I[p] # -1 /\ p \notin C \cup R
            => \E h \in d.out : h.pay = p
    BY <1>3, <2>1 DEF OutOK
  <2> QED BY <1>3, <2>1, <2>2, <2>3 DEF OutOK
<1>5. InOK(n, d, I, L, C, R)
  <2>1. InOK(n, c, I, L, C, R)
    BY DEF NodeOK
  <2>2. ASSUME NEW g \in d.inb
        PROVE  /\ PayTo(g.pay) = n /\ g.id = I[g.pay]
               /\ g.st = "LocalRemoved" => Decided(g, C, R)
               /\ g.st # "LocalRemoved" => g.out = "none"
               /\ g.st \in Arriving => g.pay \notin d.pendAdds \cup L \cup C \cup R
    <3>1. PICK h \in c.inb : /\ g.id = h.id /\ g.pay = h.pay /\ g.out = h.out
                             /\ g.st = IF h.st = f1 THEN t1 ELSE h.st
      BY <1>2
    <3> QED BY <2>1, <3>1 DEF InOK, Arriving, Decided
  <2> QED BY <1>2, <2>1, <2>2 DEF InOK
<1>6. \E k \in Nat : SeenOK(n, d, I, L, C, R, k)
  <2>1. PICK k \in Nat : SeenOK(n, c, I, L, C, R, k)
    BY DEF NodeOK
  <2>2. \A h \in c.inb : h.id \in Nat
    BY <1>1 DEF InHtlcs
  <2>3. CASE f1 = "RemoteAnnounced"
    <3>1. SeenOK(n, d, I, L, C, R, c.nextCpId)
      <4>1. \A g \in d.inb : g.st # "RemoteAnnounced" /\ g.id < c.nextCpId
        BY <1>1, <1>2, <2>1, <2>2, <2>3 DEF SeenOK
      <4>2. \A p \in c.pendAdds \cup L \cup C \cup R : PayTo(p) = n => I[p] < k
        BY <2>1 DEF SeenOK
      <4>3. \A p \in d.pendAdds \cup L \cup C \cup R : PayTo(p) = n => I[p] < c.nextCpId
        <5> SUFFICES ASSUME NEW p \in d.pendAdds \cup L \cup C \cup R, PayTo(p) = n
                     PROVE  I[p] < c.nextCpId
          OBVIOUS
        <5>1. I[p] < k /\ k <= c.nextCpId
          BY <2>1, <4>2 DEF SeenOK
        <5>2. I[p] \in Int
          BY DEF Channel
        <5> QED BY <1>1, <5>1, <5>2
      <4> QED BY <1>1, <4>1, <4>3 DEF SeenOK
    <3> QED BY <1>1, <3>1
  <2>4. CASE f1 # "RemoteAnnounced"
    <3>1. SeenOK(n, d, I, L, C, R, k)
      BY <1>1, <1>2, <2>1, <2>4 DEF SeenOK
    <3> QED BY <3>1
  <2> QED BY <2>3, <2>4
<1> QED BY <1>2, <1>3, <1>4, <1>5, <1>6 DEF NodeOK, SameMoney

\* Signing a new commitment keeps the invariant of the node and its money.
LEMMA BuildKeeps ==
    ASSUME NEW n \in Nodes, NEW c, NEW I \in [Payments -> Int], NEW S,
           NEW L \in SUBSET Payments, NEW C \in SUBSET Payments, NEW R \in SUBSET Payments,
           NodeOK(n, c, I, S, L, C, R)
    PROVE  /\ NodeOK(n, build_commitment_no_status_check(n, c), I, S, L, C, R)
           /\ SameMoney(c, build_commitment_no_status_check(n, c))
           /\ build_commitment_no_status_check(n, c).pendAdds = c.pendAdds
<1> DEFINE f1 == "AwaitingRemoteRevokeToAnnounce"
           t1 == "AwaitingAnnouncedRemoteRevoke"
           f2 == "AwaitingRemoteRevokeToRemove"
           t2 == "AwaitingRemovedRemoteRevoke"
           d == [c EXCEPT !.inb = Promote(@, f1, t1), !.out = Promote(@, f2, t2),
                          !.order = "RevokeAndACKFirst", !.awaitRaa = TRUE]
           e == build_commitment_no_status_check(n, c)
<1>1. c \in Channel /\ c.inb \subseteq InHtlcs /\ c.out \subseteq OutHtlcs
  BY DEF NodeOK, Channel
<1>2. Promote(c.inb, f1, t1) \in SUBSET InHtlcs /\ Promote(c.out, f2, t2) \in SUBSET OutHtlcs
  <2>1. IsFiniteSet(c.inb) /\ \A g, h \in c.inb : g.pay = h.pay => g = h
    BY DEF NodeOK, InOK
  <2>2. IsFiniteSet(c.out) /\ \A g, h \in c.out : g.pay = h.pay => g = h
    BY DEF NodeOK, OutOK
  <2>3. t1 \in InStates /\ t2 \in OutStates
    BY DEF InStates, OutStates
  <2>4. Promote(c.inb, f1, t1) \in SUBSET InHtlcs
    BY <1>1, <2>1, <2>3, PromoteFacts
  <2>5. Promote(c.out, f2, t2) \in SUBSET OutHtlcs
    BY <1>1, <2>2, <2>3, PromoteFacts
  <2> QED BY <2>4, <2>5
<1>3. /\ d \in Channel
      /\ d.inb = Promote(c.inb, f1, t1) /\ d.out = Promote(c.out, f2, t2)
      /\ d.cell = c.cell /\ d.toSelf = c.toSelf /\ d.nextId = c.nextId
      /\ d.nextCpId = c.nextCpId /\ d.pendAdds = c.pendAdds /\ d.pendFails = c.pendFails
  BY <1>1, <1>2 DEF Channel
<1>4. f1 \in Arriving /\ t1 \in Arriving /\ t1 # "RemoteAnnounced" /\ f2 \in Removing /\ t2 \in Removing
  BY DEF Arriving, Removing
<1>5. e = IF BuildAsserts(n, d, TRUE) THEN d ELSE Ends(d, "assert")
  BY DEF build_commitment_no_status_check
<1> HIDE DEF d, e, f1, t1, f2, t2
<1>6. NodeOK(n, d, I, S, L, C, R) /\ SameMoney(c, d)
  BY <1>3, <1>4, PromoteKeeps
<1>7. "assert" \in {"open", "closed"} \cup Errors
  BY DEF Errors
<1>8. Ends(d, "assert") \in Channel /\ SameBooks(d, Ends(d, "assert"))
  BY <1>3, <1>7, EndsKeeps
<1>9. NodeOK(n, Ends(d, "assert"), I, S, L, C, R)
  BY <1>6, <1>8, BooksDecide
<1>10. NodeOK(n, e, I, S, L, C, R) /\ SameMoney(c, e) /\ e.pendAdds = c.pendAdds
  BY <1>3, <1>5, <1>6, <1>8, <1>9 DEF SameBooks, SameMoney
<1> QED BY <1>10 DEF e

\* So does signing it and starting the monitor update.
LEMMA BuildAndPauseKeeps ==
    ASSUME NEW n \in Nodes, NEW c, NEW I \in [Payments -> Int], NEW S,
           NEW L \in SUBSET Payments, NEW C \in SUBSET Payments, NEW R \in SUBSET Payments,
           NodeOK(n, c, I, S, L, C, R)
    PROVE  /\ NodeOK(n, BuildAndPause(n, c), I, S, L, C, R)
           /\ SameMoney(c, BuildAndPause(n, c))
<1> DEFINE e == build_commitment_no_status_check(n, c)
           d == monitor_updating_paused(e, FALSE, TRUE)
<1>1. NodeOK(n, e, I, S, L, C, R) /\ SameMoney(c, e)
  BY BuildKeeps
<1> HIDE DEF e
<1>2. e \in Channel
  BY <1>1 DEF NodeOK
<1>3. d \in Channel /\ SameBooks(e, d)
  BY <1>2, PausedKeeps
<1> HIDE DEF d
<1>4. NodeOK(n, d, I, S, L, C, R) /\ SameMoney(e, d)
  BY <1>1, <1>3, BooksDecide
<1>5. SameMoney(c, d)
  BY <1>1, <1>4 DEF SameMoney
<1> QED BY <1>4, <1>5 DEF BuildAndPause, d, e

\* A good commitment_signed keeps the invariant of the node and its money.
LEMMA SignedKeeps ==
    ASSUME NEW n \in Nodes, NEW c, NEW I \in [Payments -> Int], NEW S,
           NEW L \in SUBSET Payments, NEW C \in SUBSET Payments, NEW R \in SUBSET Payments,
           NodeOK(n, c, I, S, L, C, R), NEW tx \in Txs
    PROVE  /\ NodeOK(n, commitment_signed_update_monitor(n, c, tx), I, S, L, C, R)
           /\ SameMoney(c, commitment_signed_update_monitor(n, c, tx))
<1> DEFINE f1 == "RemoteAnnounced"
           t1 == "AwaitingRemoteRevokeToAnnounce"
           f2 == "RemoteRemoved"
           t2 == "AwaitingRemoteRevokeToRemove"
           need == \/ \E h \in c.inb : h.st = "RemoteAnnounced"
                   \/ \E h \in c.out : h.st = "RemoteRemoved"
           commit == need /\ ~c.awaitRaa
           txs == [prev |-> c.txs.cur, cur |-> tx]
           num == c.holderNum + 1
           c1 == [c EXCEPT !.holderNum = num, !.txs = txs]
           c2 == [c1 EXCEPT !.inb = Promote(@, f1, t1), !.out = Promote(@, f2, t2)]
           d == [c2 EXCEPT !.expCs = FALSE, !.order = "CommitmentFirst"]
           e == IF commit THEN build_commitment_no_status_check(n, d) ELSE d
           f == monitor_updating_paused(e, TRUE, commit)
<1>0. f = commitment_signed_update_monitor(n, c, tx)
  BY DEF commitment_signed_update_monitor
<1>1. c \in Channel /\ c.inb \subseteq InHtlcs /\ c.out \subseteq OutHtlcs
  BY DEF NodeOK, Channel
<1>2. Promote(c.inb, f1, t1) \in SUBSET InHtlcs /\ Promote(c.out, f2, t2) \in SUBSET OutHtlcs
  <2>1. IsFiniteSet(c.inb) /\ \A g, h \in c.inb : g.pay = h.pay => g = h
    BY DEF NodeOK, InOK
  <2>2. IsFiniteSet(c.out) /\ \A g, h \in c.out : g.pay = h.pay => g = h
    BY DEF NodeOK, OutOK
  <2>3. t1 \in InStates /\ t2 \in OutStates
    BY DEF InStates, OutStates
  <2>4. Promote(c.inb, f1, t1) \in SUBSET InHtlcs
    BY <1>1, <2>1, <2>3, PromoteFacts
  <2>5. Promote(c.out, f2, t2) \in SUBSET OutHtlcs
    BY <1>1, <2>2, <2>3, PromoteFacts
  <2> QED BY <2>4, <2>5
<1>3. txs \in [prev : Txs, cur : Txs]
  BY <1>1 DEF Channel
<1> HIDE DEF txs
<1>4. /\ d \in Channel
      /\ d.inb = Promote(c.inb, f1, t1) /\ d.out = Promote(c.out, f2, t2)
      /\ d.cell = c.cell /\ d.toSelf = c.toSelf /\ d.nextId = c.nextId
      /\ d.nextCpId = c.nextCpId /\ d.pendAdds = c.pendAdds /\ d.pendFails = c.pendFails
  <2>0. c \in Channel /\ num \in Nat
    BY <1>1 DEF Channel
  <2> HIDE DEF num
  <2>1. c1 \in Channel /\ SameBooks(c, c1)
    BY <1>3, <2>0 DEF Channel, SameBooks
  <2> HIDE DEF c1
  <2>2. /\ c2 \in Channel
        /\ c2.inb = Promote(c.inb, f1, t1) /\ c2.out = Promote(c.out, f2, t2)
        /\ c2.cell = c1.cell /\ c2.toSelf = c1.toSelf /\ c2.nextId = c1.nextId
        /\ c2.nextCpId = c1.nextCpId /\ c2.pendAdds = c1.pendAdds
        /\ c2.pendFails = c1.pendFails
    BY <1>2, <2>1 DEF Channel, SameBooks
  <2> HIDE DEF c2
  <2>3. d \in Channel /\ SameBooks(c2, d)
    BY <2>2 DEF Channel, SameBooks
  <2> QED BY <2>1, <2>2, <2>3 DEF SameBooks
<1>5. f1 \in Arriving /\ t1 \in Arriving /\ t1 # "RemoteAnnounced" /\ f2 \in Removing /\ t2 \in Removing
  BY DEF Arriving, Removing
<1>6. commit \in BOOLEAN
  BY <1>1 DEF Channel
<1> HIDE DEF d, num, c1, c2, f1, t1, f2, t2, need, commit
<1>7. NodeOK(n, d, I, S, L, C, R) /\ SameMoney(c, d)
  BY <1>4, <1>5, PromoteKeeps
<1>8. NodeOK(n, e, I, S, L, C, R) /\ SameMoney(c, e)
  <2>1. /\ NodeOK(n, build_commitment_no_status_check(n, d), I, S, L, C, R)
        /\ SameMoney(d, build_commitment_no_status_check(n, d))
    BY <1>7, BuildKeeps
  <2> QED BY <1>7, <2>1 DEF SameMoney
<1> HIDE DEF e
<1>9. f \in Channel /\ SameBooks(e, f)
  BY <1>6, <1>8, PausedKeeps DEF NodeOK
<1> HIDE DEF f
<1>10. NodeOK(n, f, I, S, L, C, R) /\ SameMoney(e, f)
  BY <1>8, <1>9, BooksDecide
<1>11. SameMoney(c, f)
  BY <1>8, <1>10 DEF SameMoney
<1> QED BY <1>0, <1>10, <1>11

\* Ids are given once by each payer.
IdsUnique(I) ==
    \A p, q \in Payments : I[p] = I[q] /\ I[p] # -1 /\ PayFrom[p] = PayFrom[q] => p = q

\* What decides whether a new commitment may be built is the same.
SameFlags(c, d) == d.awaitRaa = c.awaitRaa /\ d.monBusy = c.monBusy /\ d.disc = c.disc

\* Two nodes: who is not the payer is the payee.
LEMMA PeerFacts ==
    /\ \A n \in Nodes : Peer(n) \in Nodes /\ Peer(n) # n /\ Peer(Peer(n)) = n
    /\ \A p \in Payments : PayFrom[p] \in Nodes /\ PayTo(p) \in Nodes
    /\ \A n \in Nodes : \A p \in Payments : PayTo(p) = n <=> PayFrom[p] = Peer(n)
    /\ \A n \in Nodes : \A p \in Payments : PayTo(p) = n <=> PayFrom[p] # n
    /\ \A p, q \in Payments : PayTo(p) = PayTo(q) <=> PayFrom[p] = PayFrom[q]
    /\ \A n, m \in Nodes : m # n => m = Peer(n)
  BY ChannelAssumption DEF Nodes, Peer, PayTo

\* An HTLC removed as its payee decided keeps the invariant of the payee.
LEMMA LocalRemoveKeeps ==
    ASSUME NEW n \in Nodes, NEW c, NEW I \in [Payments -> Int], NEW S,
           NEW L \in SUBSET Payments, NEW C \in SUBSET Payments, NEW R \in SUBSET Payments,
           NodeOK(n, c, I, S, L, C, R), IdsUnique(I),
           NEW id \in Nat, NEW outcome, NEW p \in Payments, PayTo(p) = n, I[p] = id,
           \/ outcome = "fulfil" /\ p \in C
           \/ outcome = "fail" /\ p \in R
    PROVE  /\ NodeOK(n, LocalRemove(c, id, outcome), I, S, L, C, R)
           /\ SameMoney(c, LocalRemove(c, id, outcome))
           /\ SameFlags(c, LocalRemove(c, id, outcome))
<1> DEFINE r == [h \in c.inb |-> IF h.id = id
                                 THEN [h EXCEPT !.st = "LocalRemoved", !.out = outcome]
                                 ELSE h]
           T == {r[h] : h \in c.inb}
           d == [c EXCEPT !.inb = T]
<1>1. c \in Channel /\ c.inb \subseteq InHtlcs /\ c.nextCpId \in Nat
  BY DEF NodeOK, Channel
<1>2. \A h \in c.inb :
        /\ r[h] \in InHtlcs /\ r[h].id = h.id /\ r[h].pay = h.pay
        /\ h.id # id => r[h] = h
        /\ h.id = id => r[h].st = "LocalRemoved" /\ r[h].out = outcome
  BY <1>1 DEF InHtlcs, InStates, Outcomes
<1>3. LocalRemove(c, id, outcome) = d
  BY DEF LocalRemove
<1> HIDE DEF r
<1>4. T \in SUBSET InHtlcs
  BY <1>2
<1>5. IsFiniteSet(T) /\ Pays(T) = Pays(c.inb) /\ \A g, h \in T : g.pay = h.pay => g = h
  <2>1. IsFiniteSet(c.inb) /\ \A g, h \in c.inb : g.pay = h.pay => g = h
    BY DEF NodeOK, InOK
  <2> QED BY <1>2, <2>1, Rewritten
<1>6. \A g \in T : \E h \in c.inb : g = r[h]
  OBVIOUS
<1>7. \A h \in c.inb : r[h] \in T
  OBVIOUS
<1> HIDE DEF T
<1>8. /\ d \in Channel /\ d.inb = T /\ d.out = c.out /\ d.cell = c.cell
      /\ d.toSelf = c.toSelf /\ d.nextId = c.nextId /\ d.nextCpId = c.nextCpId
      /\ d.pendAdds = c.pendAdds /\ d.pendFails = c.pendFails /\ SameFlags(c, d)
  <2>1. c \in Channel
    BY <1>1
  <2> QED BY <1>4, <2>1 DEF Channel, SameFlags
<1> HIDE DEF d
<1>9. \A h \in c.inb : h.id = id => h.pay = p
  <2> SUFFICES ASSUME NEW h \in c.inb, h.id = id PROVE h.pay = p
    OBVIOUS
  <2>1. h.pay \in Payments /\ PayTo(h.pay) = n /\ I[h.pay] = id
    BY <1>1 DEF NodeOK, InOK, InHtlcs
  <2>2. PayFrom[h.pay] = PayFrom[p]
    BY <2>1, PeerFacts
  <2> QED BY <2>1, <2>2 DEF IdsUnique
<1>10. InOK(n, d, I, L, C, R)
  <2>1. InOK(n, c, I, L, C, R)
    BY DEF NodeOK
  <2>2. ASSUME NEW g \in T
        PROVE  /\ PayTo(g.pay) = n /\ g.id = I[g.pay]
               /\ g.st = "LocalRemoved" => Decided(g, C, R)
               /\ g.st # "LocalRemoved" => g.out = "none"
               /\ g.st \in Arriving => g.pay \notin c.pendAdds \cup L \cup C \cup R
    <3>1. PICK h \in c.inb : g = r[h]
      BY <1>6
    <3>2. CASE h.id # id
      BY <1>2, <2>1, <3>1, <3>2 DEF InOK
    <3>3. CASE h.id = id
      <4>1. g.pay = p /\ g.st = "LocalRemoved" /\ g.out = outcome /\ g.id = h.id
        BY <1>2, <1>9, <3>1, <3>3
      <4> QED BY <3>3, <4>1 DEF Decided, Arriving
    <3> QED BY <3>2, <3>3
  <2> QED BY <1>5, <1>8, <2>1, <2>2 DEF InOK
<1>11. PICK k \in Nat : SeenOK(n, c, I, L, C, R, k)
  BY DEF NodeOK
<1>12. id < k
  BY <1>11 DEF SeenOK
<1>13. SeenOK(n, d, I, L, C, R, k)
  <2>1. \A i \in k .. c.nextCpId - 1 : \E h \in T : h.id = i /\ h.st = "RemoteAnnounced"
    <3> SUFFICES ASSUME NEW i \in k .. c.nextCpId - 1
                 PROVE  \E h \in T : h.id = i /\ h.st = "RemoteAnnounced"
      OBVIOUS
    <3>1. PICK h \in c.inb : h.id = i /\ h.st = "RemoteAnnounced"
      BY <1>11 DEF SeenOK
    <3>2. r[h] = h
      BY <1>1, <1>2, <1>12, <3>1
    <3> QED BY <1>7, <3>1, <3>2
  <2>2. \A g \in T : /\ g.st = "RemoteAnnounced" => g.id >= k /\ g.id < c.nextCpId
                     /\ g.st # "RemoteAnnounced" => g.id < k
    BY <1>2, <1>6, <1>11, <1>12 DEF SeenOK
  <2> QED BY <1>8, <1>11, <2>1, <2>2 DEF SeenOK
<1>14. OutOK(n, d, I, C, R)
  BY <1>8 DEF NodeOK, OutOK
<1>15. CellOK(n, d.cell, I, S, C, R)
  BY <1>8 DEF NodeOK
<1> QED BY <1>3, <1>5, <1>8, <1>10, <1>13, <1>14, <1>15 DEF NodeOK, SameMoney

\* The HTLC with this id, if there is one, is the payment's.
OnlyPays(c, id, p) == PaysOf(c, id) \subseteq {p}

\* An HTLC the peer removes as it decided keeps the invariant of the payer.
LEMMA RemoteRemoveKeeps ==
    ASSUME NEW n \in Nodes, NEW c, NEW I \in [Payments -> Int], NEW S,
           NEW L \in SUBSET Payments, NEW C \in SUBSET Payments, NEW R \in SUBSET Payments,
           NodeOK(n, c, I, S, L, C, R), IdsUnique(I),
           NEW id \in Nat, NEW outcome, NEW p \in Payments, PayFrom[p] = n, I[p] = id,
           \/ outcome = "fulfil" /\ p \in C
           \/ outcome = "fail" /\ p \in R
    PROVE  /\ NodeOK(n, RemoteRemove(c, id, outcome), I, S, L, C, R)
           /\ SameMoney(c, RemoteRemove(c, id, outcome))
           /\ OnlyPays(c, id, p)
<1> DEFINE r == [h \in c.out |-> IF h.id = id
                                 THEN [h EXCEPT !.st = "RemoteRemoved", !.out = outcome]
                                 ELSE h]
           T == {r[h] : h \in c.out}
           d == [c EXCEPT !.out = T]
<1>1. c \in Channel /\ c.out \subseteq OutHtlcs
  BY DEF NodeOK, Channel
<1>2. \A h \in c.out :
        /\ r[h] \in OutHtlcs /\ r[h].id = h.id /\ r[h].pay = h.pay
        /\ h.id # id => r[h] = h
        /\ h.id = id => r[h].st = "RemoteRemoved" /\ r[h].out = outcome
  BY <1>1 DEF OutHtlcs, OutStates, Outcomes
<1>3. RemoteRemove(c, id, outcome) = IF \E h \in c.out : h.id = id /\ h.st = "Committed"
                                     THEN d ELSE Ends(c, "removed_twice")
  BY DEF RemoteRemove
<1> HIDE DEF r
<1>4. T \in SUBSET OutHtlcs
  BY <1>2
<1>5. IsFiniteSet(T) /\ Pays(T) = Pays(c.out) /\ \A g, h \in T : g.pay = h.pay => g = h
  <2>1. IsFiniteSet(c.out) /\ \A g, h \in c.out : g.pay = h.pay => g = h
    BY DEF NodeOK, OutOK
  <2> QED BY <1>2, <2>1, Rewritten
<1>6. \A g \in T : \E h \in c.out : g = r[h]
  OBVIOUS
<1>7. \A h \in c.out : r[h] \in T
  OBVIOUS
<1> HIDE DEF T
<1>8. /\ d \in Channel /\ d.inb = c.inb /\ d.out = T /\ d.cell = c.cell
      /\ d.toSelf = c.toSelf /\ d.nextId = c.nextId /\ d.nextCpId = c.nextCpId
      /\ d.pendAdds = c.pendAdds /\ d.pendFails = c.pendFails
  <2>1. c \in Channel
    BY <1>1
  <2> QED BY <1>4, <2>1 DEF Channel
<1> HIDE DEF d
<1>9. \A h \in c.out : h.id = id => h.pay = p
  <2> SUFFICES ASSUME NEW h \in c.out, h.id = id PROVE h.pay = p
    OBVIOUS
  <2>1. h.pay \in Payments /\ PayFrom[h.pay] = n /\ I[h.pay] = id
    BY <1>1 DEF NodeOK, OutOK, OutHtlcs
  <2> QED BY <2>1 DEF IdsUnique
<1>10. OutOK(n, d, I, C, R)
  <2>1. OutOK(n, c, I, C, R)
    BY DEF NodeOK
  <2>2. ASSUME NEW g \in T
        PROVE  /\ PayFrom[g.pay] = n /\ g.id = I[g.pay]
               /\ g.st \in {"LocalAnnounced", "Committed"} => g.out = "none"
               /\ g.st \notin {"LocalAnnounced", "Committed"} => Decided(g, C, R)
    <3>1. PICK h \in c.out : g = r[h]
      BY <1>6
    <3>2. CASE h.id # id
      BY <1>2, <2>1, <3>1, <3>2 DEF OutOK
    <3>3. CASE h.id = id
      <4>1. g.pay = p /\ g.st = "RemoteRemoved" /\ g.out = outcome /\ g.id = h.id
        BY <1>2, <1>9, <3>1, <3>3
      <4> QED BY <3>3, <4>1 DEF Decided
    <3> QED BY <3>2, <3>3
  <2>3. \A q \in Payments : PayFrom[q] = n /\ I[q] # -1 /\ q \notin C \cup R
            => \E h \in T : h.pay = q
    BY <1>2, <1>7, <2>1 DEF OutOK
  <2> QED BY <1>5, <1>8, <2>1, <2>2, <2>3 DEF OutOK
<1>11. InOK(n, d, I, L, C, R)
  BY <1>8 DEF NodeOK, InOK
<1>12. PICK k \in Nat : SeenOK(n, c, I, L, C, R, k)
  BY DEF NodeOK
<1>13. SeenOK(n, d, I, L, C, R, k)
  BY <1>8, <1>12 DEF SeenOK
<1>14. NodeOK(n, d, I, S, L, C, R) /\ SameMoney(c, d)
  BY <1>5, <1>8, <1>10, <1>11, <1>13 DEF NodeOK, SameMoney
<1>15. "removed_twice" \in {"open", "closed"} \cup Errors
  BY DEF Errors
<1>16. NodeOK(n, Ends(c, "removed_twice"), I, S, L, C, R) /\ SameMoney(c, Ends(c, "removed_twice"))
  BY <1>1, <1>15, EndsKeeps, BooksDecide
<1>17. OnlyPays(c, id, p)
  BY <1>9 DEF PaysOf, OnlyPays
<1> QED BY <1>3, <1>14, <1>16, <1>17

(* What happens to other payments keeps the invariant of a node: new       *)
(* payments are started, its peer places HTLCs and decides, and what is    *)
(* claimable at the node itself is decided.                                *)
LEMMA OthersKeep ==
    ASSUME NEW n \in Nodes, NEW c,
           NEW I \in [Payments -> Int], NEW S, NEW L \in SUBSET Payments,
           NEW C \in SUBSET Payments, NEW R \in SUBSET Payments,
           NodeOK(n, c, I, S, L, C, R),
           NEW J \in [Payments -> Int], NEW S2, NEW L2 \in SUBSET Payments,
           NEW C2 \in SUBSET Payments, NEW R2 \in SUBSET Payments,
           \A p \in Payments : I[p] # -1 \/ PayFrom[p] = n => J[p] = I[p],
           \A p \in L \cup C \cup R : I[p] # -1,
           S \subseteq S2, C \subseteq C2, R \subseteq R2,
           \A p \in Payments : PayTo(p) = n =>
                (p \in L2 \cup C2 \cup R2 <=> p \in L \cup C \cup R)
    PROVE  NodeOK(n, c, J, S2, L2, C2, R2)
<1>1. c \in Channel
  BY DEF NodeOK
<1>2. c.inb \subseteq InHtlcs /\ c.out \subseteq OutHtlcs /\ c.pendAdds \subseteq Payments
  BY <1>1 DEF Channel
<1>3. OutOK(n, c, J, C2, R2)
  <2>1. OutOK(n, c, I, C, R)
    BY DEF NodeOK
  <2>2. \A h \in c.out : h.pay \in Payments
    BY <1>2 DEF OutHtlcs
  <2> QED BY <2>1, <2>2 DEF OutOK, Decided
<1>4. InOK(n, c, J, L2, C2, R2)
  <2>1. InOK(n, c, I, L, C, R)
    BY DEF NodeOK
  <2>2. \A h \in c.inb : h.pay \in Payments /\ h.id \in Nat
    BY <1>2 DEF InHtlcs
  <2>3. \A h \in c.inb : I[h.pay] # -1 /\ J[h.pay] = I[h.pay]
    BY <2>1, <2>2 DEF InOK
  <2>4. \A p \in c.pendAdds : J[p] = I[p]
    BY <1>2, <2>1 DEF InOK
  <2> QED BY <1>2, <2>1, <2>2, <2>3, <2>4 DEF InOK, Decided
<1>5. \E k \in Nat : SeenOK(n, c, J, L2, C2, R2, k)
  <2>1. PICK k \in Nat : SeenOK(n, c, I, L, C, R, k)
    BY DEF NodeOK
  <2>2. \A p \in c.pendAdds \cup L \cup C \cup R : p \in Payments /\ I[p] # -1
    BY <1>2 DEF NodeOK, InOK
  <2>3. \A p \in c.pendAdds \cup L2 \cup C2 \cup R2 : PayTo(p) = n => J[p] < k
    BY <1>2, <2>1, <2>2 DEF SeenOK
  <2>4. SeenOK(n, c, J, L2, C2, R2, k)
    BY <2>1, <2>3 DEF SeenOK
  <2> QED BY <2>4
<1>6. CellOK(n, c.cell, J, S2, C2, R2)
  <2>1. CellOK(n, c.cell, I, S, C, R)
    BY DEF NodeOK
  <2>2. Waiting(n, I, S, C, R) \subseteq Waiting(n, J, S2, C2, R2)
    <3> SUFFICES ASSUME NEW u \in Waiting(n, I, S, C, R)
                 PROVE  u \in Waiting(n, J, S2, C2, R2)
      OBVIOUS
    <3>1. CASE u.op = "add"
      <4>1. u.pay \in Payments
        BY <3>1 DEF Waiting, Updates
      <4> QED BY <3>1, <4>1 DEF Waiting
    <3>2. CASE u.op = "claim"
      <4>1. u.id \in Nat
        BY <3>2 DEF Waiting, Updates
      <4>2. PICK p \in C : PayTo(p) = n /\ I[p] = u.id
        BY <3>2 DEF Waiting
      <4>3. J[p] = u.id
        BY <4>1, <4>2
      <4> QED BY <3>2, <4>2, <4>3 DEF Waiting
    <3>3. CASE u.op = "fail"
      <4>1. u.id \in Nat
        BY <3>3 DEF Waiting, Updates
      <4>2. PICK p \in R : PayTo(p) = n /\ I[p] = u.id
        BY <3>3 DEF Waiting
      <4>3. J[p] = u.id
        BY <4>1, <4>2
      <4> QED BY <3>3, <4>2, <4>3 DEF Waiting
    <3>4. u.op \in {"add", "claim", "fail"}
      BY DEF Waiting, Updates
    <3> QED BY <3>1, <3>2, <3>3, <3>4
  <2> QED BY <2>1, <2>2 DEF CellOK
<1> QED BY <1>1, <1>3, <1>4, <1>5, <1>6 DEF NodeOK

\* So are the messages under way still to the point.
LEMMA OthersDeliver ==
    ASSUME NEW n \in Nodes, NEW I \in [Payments -> Int], NEW J \in [Payments -> Int],
           NEW C \in SUBSET Payments, NEW R \in SUBSET Payments, NEW C2, NEW R2,
           \A p \in Payments : I[p] # -1 => J[p] = I[p],
           C \subseteq C2, R \subseteq R2
    PROVE  Seq(Deliverable(n, I, C, R)) \subseteq Seq(Deliverable(n, J, C2, R2))
<1>1. ASSUME NEW m \in Deliverable(n, I, C, R)
      PROVE  m \in Deliverable(n, J, C2, R2)
  <2>1. m \in Messages
    BY DEF Deliverable
  <2>2. CASE m.t = "add"
    <3>1. m.id \in Nat /\ m.pay \in Payments
      BY <2>1, <2>2 DEF Messages, Closings
    <3> QED BY <2>1, <2>2, <3>1 DEF Deliverable
  <2>3. CASE m.t = "fulfil"
    <3>1. m.id \in Nat
      BY <2>1, <2>3 DEF Messages, Closings
    <3>2. PICK p \in C : PayFrom[p] = n /\ I[p] = m.id
      BY <2>3 DEF Deliverable
    <3>3. J[p] = m.id
      BY <3>1, <3>2
    <3> QED BY <2>1, <2>3, <3>2, <3>3 DEF Deliverable
  <2>4. CASE m.t = "fail"
    <3>1. m.id \in Nat
      BY <2>1, <2>4 DEF Messages, Closings
    <3>2. PICK p \in R : PayFrom[p] = n /\ I[p] = m.id
      BY <2>4 DEF Deliverable
    <3>3. J[p] = m.id
      BY <3>1, <3>2
    <3> QED BY <2>1, <2>4, <3>2, <3>3 DEF Deliverable
  <2>5. CASE m.t \notin {"add", "fulfil", "fail"}
    BY <2>1, <2>5 DEF Deliverable
  <2> QED BY <2>2, <2>3, <2>4, <2>5
<1>2. Deliverable(n, I, C, R) \subseteq Deliverable(n, J, C2, R2)
  BY <1>1
<1> QED BY <1>2

\* The ledger of ids when p's HTLC is placed.
Placed(I, p, id) == [I EXCEPT ![p] = id]

\* The channel d is c with p's HTLC placed.
Offered(c, d, p) ==
    /\ d.cell = c.cell /\ d.toSelf = c.toSelf /\ d.nextId = c.nextId + 1
    /\ Pays(d.inb) = Pays(c.inb)
    /\ Pays(d.out) = Pays(c.out) \cup {p} /\ p \notin Pays(c.out)
    /\ SameFlags(c, d)

\* A new HTLC of the payer, with the next id.
LEMMA PlaceKeeps ==
    ASSUME NEW n \in Nodes, NEW c, NEW I \in [Payments -> Int], NEW S,
           NEW L \in SUBSET Payments, NEW C \in SUBSET Payments, NEW R \in SUBSET Payments,
           NodeOK(n, c, I, S, L, C, R), \A q \in L \cup C \cup R : I[q] # -1,
           NEW p \in Payments, PayFrom[p] = n, I[p] = -1, p \notin AddsIn(c),
           can_generate_new_commitment(c),
           NEW e, e = PlaceHtlc(c, p)
    PROVE  NodeOK(n, e, Placed(I, p, c.nextId), S, L, C, R) /\ Offered(c, e, p)
<1> DEFINE new == [id |-> c.nextId, pay |-> p, st |-> "LocalAnnounced", out |-> "none"]
           T == c.out \cup {new}
           num == c.nextId + 1
           d == [c EXCEPT !.out = T, !.nextId = num]
           J == [I EXCEPT ![p] = c.nextId]
<1>1. c \in Channel /\ c.nextId \in Nat
  BY DEF NodeOK, Channel
<1>2. c.inb \subseteq InHtlcs /\ c.out \subseteq OutHtlcs /\ c.pendAdds \subseteq Payments
  BY <1>1 DEF Channel
<1>3. PlaceHtlc(c, p) = d
  BY DEF PlaceHtlc
<1>4. new \in OutHtlcs /\ new.pay = p /\ new.id = c.nextId /\ new.st = "LocalAnnounced" /\ new.out = "none"
  BY <1>1 DEF OutHtlcs, OutStates, Outcomes
<1> HIDE DEF new
<1>5. T \in SUBSET OutHtlcs
  BY <1>2, <1>4
<1>6. OutOK(n, c, I, C, R) /\ InOK(n, c, I, L, C, R) /\ CellOK(n, c.cell, I, S, C, R)
  BY DEF NodeOK
<1>7. \A h \in c.out : h.pay \in Payments /\ h.pay # p /\ J[h.pay] = I[h.pay]
  BY <1>2, <1>6 DEF OutOK, OutHtlcs
<1>8. \A h \in c.inb : h.pay \in Payments /\ h.pay # p /\ J[h.pay] = I[h.pay]
  BY <1>2, <1>6 DEF InOK, InHtlcs
<1>9. J \in [Payments -> Int] /\ J[p] = c.nextId /\ \A q \in Payments : q # p => J[q] = I[q]
  BY <1>1
<1> HIDE DEF J
<1>10. Pays(T) = Pays(c.out) \cup {p} /\ p \notin Pays(c.out)
  BY <1>4, <1>7 DEF Pays
<1>11. /\ IsFiniteSet(T) /\ \A g, h \in T : g.pay = h.pay => g = h
  <2>1. IsFiniteSet(T)
    BY <1>6, FS_AddElement DEF OutOK
  <2> QED BY <1>4, <1>6, <1>7, <2>1 DEF OutOK
<1>12. \A h \in T : h = new \/ h \in c.out
  OBVIOUS
<1>13. new \in T /\ c.out \subseteq T
  OBVIOUS
<1> HIDE DEF T
<1>14. /\ d \in Channel /\ d.inb = c.inb /\ d.out = T /\ d.cell = c.cell
       /\ d.toSelf = c.toSelf /\ d.nextId = num /\ d.nextCpId = c.nextCpId
       /\ d.pendAdds = c.pendAdds /\ d.pendFails = c.pendFails /\ SameFlags(c, d)
  <2>1. c \in Channel /\ num \in Nat
    BY <1>1
  <2> HIDE DEF num
  <2> QED BY <1>5, <2>1 DEF Channel, SameFlags
<1> HIDE DEF d
<1>15. OutOK(n, d, J, C, R)
  <2>1. ASSUME NEW h \in T
        PROVE  /\ PayFrom[h.pay] = n /\ h.id = J[h.pay]
               /\ h.st \in {"LocalAnnounced", "Committed"} => h.out = "none"
               /\ h.st \notin {"LocalAnnounced", "Committed"} => Decided(h, C, R)
    <3>1. CASE h = new
      BY <1>4, <1>9, <3>1
    <3>2. CASE h \in c.out
      BY <1>6, <1>7, <3>2 DEF OutOK
    <3> QED BY <1>12, <3>1, <3>2
  <2>2. \A q \in Payments : PayFrom[q] = n /\ J[q] # -1 /\ q \notin C \cup R
            => \E h \in T : h.pay = q
    BY <1>4, <1>6, <1>9, <1>13 DEF OutOK
  <2> QED BY <1>6, <1>11, <1>14, <2>1, <2>2 DEF OutOK
<1>16. \A q \in c.pendAdds \cup L \cup C \cup R : q \in Payments /\ q # p
  BY <1>2, <1>6 DEF InOK
<1>17. InOK(n, d, J, L, C, R)
  BY <1>6, <1>8, <1>9, <1>14, <1>16 DEF InOK
<1>18. \E k \in Nat : SeenOK(n, d, J, L, C, R, k)
  <2>1. PICK k \in Nat : SeenOK(n, c, I, L, C, R, k)
    BY DEF NodeOK
  <2>2. SeenOK(n, d, J, L, C, R, k)
    BY <1>9, <1>14, <1>16, <2>1 DEF SeenOK
  <2> QED BY <2>2
<1>19. CellOK(n, d.cell, J, S, C, R)
  <2>1. c.cell \in Seq(Waiting(n, I, S, C, R))
    BY <1>6 DEF CellOK
  <2>2. ASSUME NEW i \in 1 .. Len(c.cell) PROVE c.cell[i] \in Waiting(n, J, S, C, R)
    <3> DEFINE u == c.cell[i]
    <3>1. u \in Waiting(n, I, S, C, R)
      BY <2>1
    <3>2. u.op = "add" => u.pay # p
      BY <2>1 DEF AddsIn, CellAdds, ToSet
    <3>3. \A q \in C \cup R : J[q] = I[q]
      BY <1>9, <1>16
    <3>4. u.op = "add" => u.pay \in Payments
      BY <3>1 DEF Waiting, Updates
    <3> HIDE DEF u
    <3>5. u \in Waiting(n, J, S, C, R)
      BY <1>9, <3>1, <3>2, <3>3, <3>4 DEF Waiting
    <3> QED BY <3>5 DEF u
  <2>3. c.cell \in Seq(Waiting(n, J, S, C, R))
    BY <2>1, <2>2
  <2> QED BY <1>6, <1>14, <2>3 DEF CellOK
<1> QED BY <1>3, <1>10, <1>14, <1>15, <1>17, <1>18, <1>19 DEF NodeOK, J, Placed, Offered

Gone(c) == {h \in c.inb : h.st = "LocalRemoved"}
Resolved(c) == {h \in c.out : h.st = "AwaitingRemovedRemoteRevoke"}
Success(htlcs) == {h \in htlcs : h.out = "fulfil"}
Arrived(c) == {h \in c.inb : h.st = "AwaitingAnnouncedRemoteRevoke"}

\* How revoke_and_ack moves an inbound and an outbound HTLC on.
InAfter(st) == CASE st = "AwaitingAnnouncedRemoteRevoke" -> "Committed"
                 [] st = "AwaitingRemoteRevokeToAnnounce" -> "AwaitingAnnouncedRemoteRevoke"
                 [] OTHER -> st
OutAfter(st) == CASE st = "LocalAnnounced" -> "Committed"
                  [] st = "AwaitingRemoteRevokeToRemove" -> "AwaitingRemovedRemoteRevoke"
                  [] OTHER -> st

\* Every HTLC of T comes from one of S, and the other way round.
MovedOn(S, T, inwards) ==
    /\ \A g \in T : \E h \in S :
        /\ g.id = h.id /\ g.pay = h.pay /\ g.out = h.out
        /\ g.st = IF inwards THEN InAfter(h.st) ELSE OutAfter(h.st)
    /\ \A h \in S : \E g \in T :
        /\ g.id = h.id /\ g.pay = h.pay /\ g.out = h.out
        /\ g.st = IF inwards THEN InAfter(h.st) ELSE OutAfter(h.st)

\* The fields of a channel after revoke_and_ack.
LEMMA RevokedFields ==
    ASSUME NEW n \in Nodes, NEW c, NEW I \in [Payments -> Int], NEW S,
           NEW L \in SUBSET Payments, NEW C \in SUBSET Payments, NEW R \in SUBSET Payments,
           NodeOK(n, c, I, S, L, C, R), NEW d, d = ApplyRevocation(c)
    PROVE  /\ d \in Channel
           /\ MovedOn(c.inb \ Gone(c), d.inb, TRUE) /\ MovedOn(c.out \ Resolved(c), d.out, FALSE)
           /\ IsFiniteSet(d.inb) /\ IsFiniteSet(d.out)
           /\ \A g, h \in d.inb : g.pay = h.pay => g = h
           /\ \A g, h \in d.out : g.pay = h.pay => g = h
           /\ d.cell = c.cell /\ d.nextId = c.nextId /\ d.nextCpId = c.nextCpId
           /\ d.toSelf = c.toSelf + SumAmounts(Success(Gone(c)))
                                  - SumAmounts(Success(Resolved(c)))
           /\ d.pendAdds = c.pendAdds \cup {h.pay : h \in Arrived(c)}
           /\ d.pendFails = c.pendFails
                    \cup {h.pay : h \in Resolved(c) \ Success(Resolved(c))}
<1> DEFINE s0 == "LocalAnnounced"
           s1 == "AwaitingRemoteRevokeToAnnounce"
           s2 == "AwaitingAnnouncedRemoteRevoke"
           s3 == "AwaitingRemoteRevokeToRemove"
           s4 == "AwaitingRemovedRemoteRevoke"
           X1 == c.inb \ Gone(c)
           X2 == Promote(X1, s2, "Committed")
           X3 == Promote(X2, s1, s2)
           Y1 == c.out \ Resolved(c)
           Y2 == Promote(Y1, s0, "Committed")
           Y3 == Promote(Y2, s3, s4)
           num == c.cpNum + 1
           bal == c.toSelf + SumAmounts(Success(Gone(c))) - SumAmounts(Success(Resolved(c)))
           exp == c.expCs \/ Gone(c) # {} \/ {h \in c.out : h.st = "LocalAnnounced"} # {}
           adds == c.pendAdds \cup {h.pay : h \in Arrived(c)}
           fails == c.pendFails \cup {h.pay : h \in Resolved(c) \ Success(Resolved(c))}
           e == [c EXCEPT !.awaitRaa = FALSE, !.cpNum = num, !.toSelf = bal,
                          !.inb = X3, !.out = Y3, !.expCs = exp,
                          !.pendAdds = adds, !.pendFails = fails]
<1>1. d = e
  BY DEF ApplyRevocation, RevocationApplied, Gone, Resolved, Success, Arrived
<1>2. c \in Channel
  BY DEF NodeOK
<1>3. /\ c.inb \subseteq InHtlcs /\ c.out \subseteq OutHtlcs
      /\ c.pendAdds \subseteq Payments /\ c.pendFails \subseteq Payments
      /\ c.expCs \in BOOLEAN /\ c.cpNum \in Nat /\ c.toSelf \in Int
  BY <1>2 DEF Channel
<1>4. /\ IsFiniteSet(c.inb) /\ \A g, h \in c.inb : g.pay = h.pay => g = h
      /\ IsFiniteSet(c.out) /\ \A g, h \in c.out : g.pay = h.pay => g = h
  BY DEF NodeOK, InOK, OutOK
<1>5. /\ X1 \subseteq c.inb /\ IsFiniteSet(X1) /\ X1 \subseteq InHtlcs
      /\ \A g, h \in X1 : g.pay = h.pay => g = h
  BY <1>3, <1>4, FS_Subset
<1>6. /\ Y1 \subseteq c.out /\ IsFiniteSet(Y1) /\ Y1 \subseteq OutHtlcs
      /\ \A g, h \in Y1 : g.pay = h.pay => g = h
  BY <1>3, <1>4, FS_Subset
<1>7. "Committed" \in InStates \cap OutStates /\ s2 \in InStates /\ s4 \in OutStates
  BY DEF InStates, OutStates
<1>8. bal \in Int
  <2>1. Success(Gone(c)) \subseteq c.inb /\ Success(Resolved(c)) \subseteq c.out
    BY DEF Success, Gone, Resolved
  <2>2. SumAmounts(Success(Gone(c))) \in Int /\ SumAmounts(Success(Resolved(c))) \in Int
    BY <1>2, <1>4, <2>1, SumsTyped
  <2> QED BY <1>3, <2>2
<1>9. num \in Nat /\ exp \in BOOLEAN
  BY <1>3
<1>10. adds \in SUBSET Payments
  BY <1>3 DEF Arrived, InHtlcs
<1>11. fails \in SUBSET Payments
  BY <1>3 DEF Resolved, OutHtlcs
<1> HIDE DEF X1, Y1
<1>12. /\ X2 \subseteq InHtlcs /\ IsFiniteSet(X2)
       /\ \A g, h \in X2 : g.pay = h.pay => g = h
       /\ \A g \in X2 : \E h \in X1 :
            /\ g.id = h.id /\ g.pay = h.pay /\ g.out = h.out
            /\ g.st = IF h.st = s2 THEN "Committed" ELSE h.st
       /\ \A h \in X1 : \E g \in X2 :
            /\ g.id = h.id /\ g.pay = h.pay /\ g.out = h.out
            /\ g.st = IF h.st = s2 THEN "Committed" ELSE h.st
  BY <1>5, <1>7, PromoteFacts
<1>13. /\ Y2 \subseteq OutHtlcs /\ IsFiniteSet(Y2)
       /\ \A g, h \in Y2 : g.pay = h.pay => g = h
       /\ \A g \in Y2 : \E h \in Y1 :
            /\ g.id = h.id /\ g.pay = h.pay /\ g.out = h.out
            /\ g.st = IF h.st = s0 THEN "Committed" ELSE h.st
       /\ \A h \in Y1 : \E g \in Y2 :
            /\ g.id = h.id /\ g.pay = h.pay /\ g.out = h.out
            /\ g.st = IF h.st = s0 THEN "Committed" ELSE h.st
  BY <1>6, <1>7, PromoteFacts
<1> HIDE DEF X2, Y2
<1>14. /\ X3 \in SUBSET InHtlcs /\ IsFiniteSet(X3)
       /\ \A g, h \in X3 : g.pay = h.pay => g = h
       /\ \A g \in X3 : \E h \in X2 :
            /\ g.id = h.id /\ g.pay = h.pay /\ g.out = h.out
            /\ g.st = IF h.st = s1 THEN s2 ELSE h.st
       /\ \A h \in X2 : \E g \in X3 :
            /\ g.id = h.id /\ g.pay = h.pay /\ g.out = h.out
            /\ g.st = IF h.st = s1 THEN s2 ELSE h.st
  BY <1>12, <1>7, PromoteFacts
<1>15. /\ Y3 \in SUBSET OutHtlcs /\ IsFiniteSet(Y3)
       /\ \A g, h \in Y3 : g.pay = h.pay => g = h
       /\ \A g \in Y3 : \E h \in Y2 :
            /\ g.id = h.id /\ g.pay = h.pay /\ g.out = h.out
            /\ g.st = IF h.st = s3 THEN s4 ELSE h.st
       /\ \A h \in Y2 : \E g \in Y3 :
            /\ g.id = h.id /\ g.pay = h.pay /\ g.out = h.out
            /\ g.st = IF h.st = s3 THEN s4 ELSE h.st
  BY <1>13, <1>7, PromoteFacts
<1> HIDE DEF X3, Y3
<1>16. MovedOn(X1, X3, TRUE)
  <2>1. ASSUME NEW g \in X3 PROVE \E h \in X1 :
            /\ g.id = h.id /\ g.pay = h.pay /\ g.out = h.out /\ g.st = InAfter(h.st)
    <3>1. PICK f \in X2 : /\ g.id = f.id /\ g.pay = f.pay /\ g.out = f.out
                          /\ g.st = IF f.st = s1 THEN s2 ELSE f.st
      BY <1>14
    <3>2. PICK h \in X1 : /\ f.id = h.id /\ f.pay = h.pay /\ f.out = h.out
                          /\ f.st = IF h.st = s2 THEN "Committed" ELSE h.st
      BY <1>12
    <3> QED BY <3>1, <3>2 DEF InAfter
  <2>2. ASSUME NEW h \in X1 PROVE \E g \in X3 :
            /\ g.id = h.id /\ g.pay = h.pay /\ g.out = h.out /\ g.st = InAfter(h.st)
    <3>1. PICK f \in X2 : /\ f.id = h.id /\ f.pay = h.pay /\ f.out = h.out
                          /\ f.st = IF h.st = s2 THEN "Committed" ELSE h.st
      BY <1>12
    <3>2. PICK g \in X3 : /\ g.id = f.id /\ g.pay = f.pay /\ g.out = f.out
                          /\ g.st = IF f.st = s1 THEN s2 ELSE f.st
      BY <1>14
    <3> QED BY <3>1, <3>2 DEF InAfter
  <2> QED BY <2>1, <2>2 DEF MovedOn
<1>17. MovedOn(Y1, Y3, FALSE)
  <2>1. ASSUME NEW g \in Y3 PROVE \E h \in Y1 :
            /\ g.id = h.id /\ g.pay = h.pay /\ g.out = h.out /\ g.st = OutAfter(h.st)
    <3>1. PICK f \in Y2 : /\ g.id = f.id /\ g.pay = f.pay /\ g.out = f.out
                          /\ g.st = IF f.st = s3 THEN s4 ELSE f.st
      BY <1>15
    <3>2. PICK h \in Y1 : /\ f.id = h.id /\ f.pay = h.pay /\ f.out = h.out
                          /\ f.st = IF h.st = s0 THEN "Committed" ELSE h.st
      BY <1>13
    <3> QED BY <3>1, <3>2 DEF OutAfter
  <2>2. ASSUME NEW h \in Y1 PROVE \E g \in Y3 :
            /\ g.id = h.id /\ g.pay = h.pay /\ g.out = h.out /\ g.st = OutAfter(h.st)
    <3>1. PICK f \in Y2 : /\ f.id = h.id /\ f.pay = h.pay /\ f.out = h.out
                          /\ f.st = IF h.st = s0 THEN "Committed" ELSE h.st
      BY <1>13
    <3>2. PICK g \in Y3 : /\ g.id = f.id /\ g.pay = f.pay /\ g.out = f.out
                          /\ g.st = IF f.st = s3 THEN s4 ELSE f.st
      BY <1>15
    <3> QED BY <3>1, <3>2 DEF OutAfter
  <2> QED BY <2>1, <2>2 DEF MovedOn
<1>18. /\ e \in Channel /\ e.inb = X3 /\ e.out = Y3 /\ e.cell = c.cell
       /\ e.nextId = c.nextId /\ e.nextCpId = c.nextCpId
       /\ e.toSelf = bal /\ e.pendAdds = adds /\ e.pendFails = fails
  <2> DEFINE c1 == [c EXCEPT !.awaitRaa = FALSE, !.cpNum = num, !.toSelf = bal]
             c2 == [c1 EXCEPT !.inb = X3, !.out = Y3, !.expCs = exp]
  <2>1. X3 \in SUBSET InHtlcs /\ Y3 \in SUBSET OutHtlcs
    BY <1>14, <1>15
  <2>2. e = [c2 EXCEPT !.pendAdds = adds, !.pendFails = fails]
    OBVIOUS
  <2> HIDE DEF num, bal, exp, adds, fails, e
  <2>3. /\ c1 \in Channel /\ c1.cell = c.cell /\ c1.nextId = c.nextId
        /\ c1.nextCpId = c.nextCpId /\ c1.toSelf = bal
    BY <1>2, <1>8, <1>9 DEF Channel
  <2> HIDE DEF c1
  <2>4. /\ c2 \in Channel /\ c2.inb = X3 /\ c2.out = Y3 /\ c2.cell = c1.cell
        /\ c2.nextId = c1.nextId /\ c2.nextCpId = c1.nextCpId /\ c2.toSelf = c1.toSelf
    BY <1>9, <2>1, <2>3 DEF Channel
  <2> HIDE DEF c2
  <2>5. /\ e \in Channel /\ e.inb = c2.inb /\ e.out = c2.out /\ e.cell = c2.cell
        /\ e.nextId = c2.nextId /\ e.nextCpId = c2.nextCpId /\ e.toSelf = c2.toSelf
        /\ e.pendAdds = adds /\ e.pendFails = fails
    <3>1. c2 \in Channel
      BY <2>4
    <3> QED BY <1>10, <1>11, <2>2, <3>1 DEF Channel
  <2> QED BY <2>3, <2>4, <2>5
<1>19. /\ d.toSelf = c.toSelf + SumAmounts(Success(Gone(c)))
                              - SumAmounts(Success(Resolved(c)))
       /\ d.pendAdds = c.pendAdds \cup {h.pay : h \in Arrived(c)}
       /\ d.pendFails = c.pendFails
                    \cup {h.pay : h \in Resolved(c) \ Success(Resolved(c))}
  <2>1. d.toSelf = bal /\ d.pendAdds = adds /\ d.pendFails = fails
    <3> HIDE DEF e, bal, adds, fails
    <3> QED BY <1>1, <1>18
  <2> QED BY <2>1
<1>20. MovedOn(c.inb \ Gone(c), X3, TRUE) /\ MovedOn(c.out \ Resolved(c), Y3, FALSE)
  BY <1>16, <1>17 DEF X1, Y1
<1> HIDE DEF e, num, bal, exp, adds, fails
<1> QED BY <1>1, <1>14, <1>15, <1>18, <1>19, <1>20

\* A revocation keeps the invariant of the node that receives it.
LEMMA RevokedKeeps ==
    ASSUME NEW n \in Nodes, NEW c, NEW I \in [Payments -> Int], NEW S,
           NEW L \in SUBSET Payments, NEW C \in SUBSET Payments, NEW R \in SUBSET Payments,
           NodeOK(n, c, I, S, L, C, R)
    PROVE  NodeOK(n, ApplyRevocation(c), I, S, L, C, R)
<1> DEFINE d == ApplyRevocation(c)
           IN1 == c.inb \ Gone(c)
           OUT1 == c.out \ Resolved(c)
<1>1. /\ d \in Channel
      /\ MovedOn(IN1, d.inb, TRUE) /\ MovedOn(OUT1, d.out, FALSE)
      /\ IsFiniteSet(d.inb) /\ IsFiniteSet(d.out)
      /\ \A g, h \in d.inb : g.pay = h.pay => g = h
      /\ \A g, h \in d.out : g.pay = h.pay => g = h
      /\ d.cell = c.cell /\ d.nextCpId = c.nextCpId
      /\ d.pendAdds = c.pendAdds \cup {h.pay : h \in Arrived(c)}
      /\ d.pendFails = c.pendFails \cup {h.pay : h \in Resolved(c) \ Success(Resolved(c))}
  BY RevokedFields
<1> HIDE DEF d
<1>2. c.inb \subseteq InHtlcs /\ c.out \subseteq OutHtlcs /\ c.nextCpId \in Nat
  BY DEF NodeOK, Channel
<1>3. OutOK(n, c, I, C, R) /\ InOK(n, c, I, L, C, R) /\ CellOK(n, c.cell, I, S, C, R)
  BY DEF NodeOK
<1>4. OutOK(n, d, I, C, R)
  <2>1. ASSUME NEW g \in d.out
        PROVE  /\ PayFrom[g.pay] = n /\ g.id = I[g.pay]
               /\ g.st \in {"LocalAnnounced", "Committed"} => g.out = "none"
               /\ g.st \notin {"LocalAnnounced", "Committed"} => Decided(g, C, R)
    <3>1. PICK h \in OUT1 : /\ g.id = h.id /\ g.pay = h.pay /\ g.out = h.out
                            /\ g.st = OutAfter(h.st)
      BY <1>1 DEF MovedOn
    <3>2. h \in c.out
      BY <3>1
    <3> HIDE DEF OUT1
    <3> QED BY <1>3, <3>1, <3>2 DEF OutOK, OutAfter, Decided
  <2>2. ASSUME NEW p \in Payments, PayFrom[p] = n, I[p] # -1, p \notin C \cup R
        PROVE  \E g \in d.out : g.pay = p
    <3>1. PICK h \in c.out : h.pay = p
      BY <1>3, <2>2 DEF OutOK
    <3>2. h \in OUT1
      BY <1>3, <2>2, <3>1 DEF OutOK, Resolved, Decided
    <3> HIDE DEF OUT1
    <3> QED BY <1>1, <3>1, <3>2 DEF MovedOn
  <2>3. d.pendFails \subseteq R
    BY <1>1, <1>3 DEF OutOK, Resolved, Success, Decided
  <2> QED BY <1>1, <2>1, <2>2, <2>3 DEF OutOK
<1>5. InOK(n, d, I, L, C, R)
  <2>1. ASSUME NEW g \in d.inb
        PROVE  /\ PayTo(g.pay) = n /\ g.id = I[g.pay]
               /\ g.st = "LocalRemoved" => Decided(g, C, R)
               /\ g.st # "LocalRemoved" => g.out = "none"
               /\ g.st \in Arriving => g.pay \notin d.pendAdds \cup L \cup C \cup R
    <3>1. PICK h \in IN1 : /\ g.id = h.id /\ g.pay = h.pay /\ g.out = h.out
                           /\ g.st = InAfter(h.st)
      BY <1>1 DEF MovedOn
    <3>2. h \in c.inb /\ h.st # "LocalRemoved"
      BY <3>1 DEF Gone
    <3> HIDE DEF IN1
    <3>3. /\ PayTo(g.pay) = n /\ g.id = I[g.pay]
          /\ g.st # "LocalRemoved" /\ g.out = "none"
      BY <1>3, <3>1, <3>2 DEF InOK, InAfter
    <3>4. ASSUME g.st \in Arriving PROVE g.pay \notin d.pendAdds \cup L \cup C \cup R
      <4>1. h.st \in Arriving /\ h.st # "AwaitingAnnouncedRemoteRevoke"
        BY <3>1, <3>4 DEF InAfter, Arriving
      <4>2. \A f \in Arrived(c) : f.pay # h.pay
        BY <1>3, <3>2, <4>1 DEF InOK, Arrived
      <4> QED BY <1>1, <1>3, <3>1, <3>2, <4>1, <4>2 DEF InOK
    <3> QED BY <3>3, <3>4
  <2>2. \A p \in d.pendAdds : PayTo(p) = n /\ I[p] # -1 /\ p \notin L \cup C \cup R
    <3>1. ASSUME NEW h \in Arrived(c)
          PROVE  PayTo(h.pay) = n /\ I[h.pay] # -1 /\ h.pay \notin L \cup C \cup R
      <4>1. h \in c.inb /\ h.st \in Arriving /\ h.id \in Nat
        BY <1>2 DEF Arrived, Arriving, InHtlcs
      <4> QED BY <1>3, <4>1 DEF InOK
    <3> QED BY <1>1, <1>3, <3>1 DEF InOK
  <2> QED BY <1>1, <2>1, <2>2 DEF InOK
<1>6. \E k \in Nat : SeenOK(n, d, I, L, C, R, k)
  <2>1. PICK k \in Nat : SeenOK(n, c, I, L, C, R, k)
    BY DEF NodeOK
  <2>2. \A i \in k .. d.nextCpId - 1 : \E g \in d.inb : g.id = i /\ g.st = "RemoteAnnounced"
    <3> SUFFICES ASSUME NEW i \in k .. c.nextCpId - 1
                 PROVE  \E g \in d.inb : g.id = i /\ g.st = "RemoteAnnounced"
      BY <1>1
    <3>1. PICK h \in c.inb : h.id = i /\ h.st = "RemoteAnnounced"
      BY <2>1 DEF SeenOK
    <3>2. h \in IN1
      BY <3>1 DEF Gone
    <3>3. InAfter(h.st) = "RemoteAnnounced"
      BY <3>1 DEF InAfter
    <3> HIDE DEF IN1
    <3> QED BY <1>1, <3>1, <3>2, <3>3 DEF MovedOn
  <2>3. ASSUME NEW g \in d.inb
        PROVE  /\ g.st = "RemoteAnnounced" => g.id >= k /\ g.id < c.nextCpId
               /\ g.st # "RemoteAnnounced" => g.id < k
    <3>1. PICK h \in IN1 : g.id = h.id /\ g.st = InAfter(h.st)
      BY <1>1 DEF MovedOn
    <3>2. h \in c.inb
      BY <3>1
    <3>3. g.st = "RemoteAnnounced" <=> h.st = "RemoteAnnounced"
      BY <3>1 DEF InAfter
    <3> QED BY <2>1, <3>1, <3>2, <3>3 DEF SeenOK
  <2>4. \A p \in d.pendAdds \cup L \cup C \cup R : PayTo(p) = n => I[p] < k
    <3>1. ASSUME NEW h \in Arrived(c) PROVE I[h.pay] < k
      <4>1. h \in c.inb /\ h.st # "RemoteAnnounced"
        BY DEF Arrived
      <4> QED BY <1>3, <2>1, <4>1 DEF InOK, SeenOK
    <3> QED BY <1>1, <2>1, <3>1 DEF SeenOK
  <2>5. SeenOK(n, d, I, L, C, R, k)
    BY <1>1, <2>1, <2>2, <2>3, <2>4 DEF SeenOK
  <2> QED BY <2>5
<1> QED BY <1>1, <1>3, <1>4, <1>5, <1>6 DEF NodeOK, d

\* What a revocation moves: the HTLCs that are gone, with their money.
Revoked(c, d, C, R) ==
    /\ d.toSelf = c.toSelf + Worth(Pays(Gone(c)) \cap C) - Worth(Pays(Resolved(c)) \cap C)
    /\ Pays(d.inb) = Pays(c.inb) \ Pays(Gone(c)) /\ Pays(Gone(c)) \subseteq Pays(c.inb)
    /\ Pays(d.out) = Pays(c.out) \ Pays(Resolved(c))
    /\ Pays(Resolved(c)) \subseteq Pays(c.out)
    /\ Pays(Gone(c)) \subseteq C \cup R /\ Pays(Resolved(c)) \subseteq C \cup R
    /\ d.cell = c.cell /\ d.nextId = c.nextId

\* What a revocation moves: what was claimed among the HTLCs that are gone.
LEMMA RevokedMoney ==
    ASSUME NEW n \in Nodes, NEW c, NEW I \in [Payments -> Int], NEW S,
           NEW L \in SUBSET Payments, NEW C \in SUBSET Payments, NEW R \in SUBSET Payments,
           NodeOK(n, c, I, S, L, C, R), C \cap R = {}, NEW d, d = ApplyRevocation(c)
    PROVE  Revoked(c, d, C, R)
<1>1. /\ MovedOn(c.inb \ Gone(c), d.inb, TRUE) /\ MovedOn(c.out \ Resolved(c), d.out, FALSE)
      /\ d.cell = c.cell /\ d.nextId = c.nextId
      /\ d.toSelf = c.toSelf + SumAmounts(Success(Gone(c))) - SumAmounts(Success(Resolved(c)))
  BY RevokedFields
<1>2. c.inb \subseteq InHtlcs /\ c.out \subseteq OutHtlcs
  BY DEF NodeOK, Channel
<1>3. OutOK(n, c, I, C, R) /\ InOK(n, c, I, L, C, R)
  BY DEF NodeOK
<1>4. /\ Gone(c) \subseteq c.inb /\ Success(Gone(c)) \subseteq c.inb
      /\ Resolved(c) \subseteq c.out /\ Success(Resolved(c)) \subseteq c.out
  BY DEF Gone, Resolved, Success
<1>5. \A h \in Gone(c) : Decided(h, C, R)
  BY <1>3 DEF InOK, Gone
<1>6. \A h \in Resolved(c) : Decided(h, C, R)
  BY <1>3 DEF OutOK, Resolved
<1>7. Pays(Success(Gone(c))) = Pays(Gone(c)) \cap C
  BY <1>5 DEF Pays, Success, Decided
<1>8. Pays(Success(Resolved(c))) = Pays(Resolved(c)) \cap C
  BY <1>6 DEF Pays, Success, Decided
<1>9. SumAmounts(Success(Gone(c))) = Worth(Pays(Success(Gone(c))))
  <2> DEFINE X == Success(Gone(c))
  <2>1. /\ IsFiniteSet(X) /\ \A h \in X : h.pay \in Payments
        /\ \A g, h \in X : g.pay = h.pay => g = h
    BY <1>2, <1>3, <1>4, FS_Subset DEF InOK, InHtlcs
  <2> HIDE DEF X
  <2>2. SumAmounts(X) = Worth({h.pay : h \in X})
    BY <2>1, SumAmountsIsWorth
  <2> QED BY <2>2 DEF X, Pays
<1>10. SumAmounts(Success(Resolved(c))) = Worth(Pays(Success(Resolved(c))))
  <2> DEFINE X == Success(Resolved(c))
  <2>1. /\ IsFiniteSet(X) /\ \A h \in X : h.pay \in Payments
        /\ \A g, h \in X : g.pay = h.pay => g = h
    BY <1>2, <1>3, <1>4, FS_Subset DEF OutOK, OutHtlcs
  <2> HIDE DEF X
  <2>2. SumAmounts(X) = Worth({h.pay : h \in X})
    BY <2>1, SumAmountsIsWorth
  <2> QED BY <2>2 DEF X, Pays
<1>11. Pays(d.inb) = Pays(c.inb) \ Pays(Gone(c))
  <2>1. Pays(d.inb) = Pays(c.inb \ Gone(c))
    BY <1>1 DEF Pays, MovedOn
  <2>2. Pays(c.inb \ Gone(c)) = Pays(c.inb) \ Pays(Gone(c))
    BY <1>3, <1>4 DEF Pays, InOK
  <2> QED BY <2>1, <2>2
<1>12. Pays(d.out) = Pays(c.out) \ Pays(Resolved(c))
  <2>1. Pays(d.out) = Pays(c.out \ Resolved(c))
    BY <1>1 DEF Pays, MovedOn
  <2>2. Pays(c.out \ Resolved(c)) = Pays(c.out) \ Pays(Resolved(c))
    BY <1>3, <1>4 DEF Pays, OutOK
  <2> QED BY <2>1, <2>2
<1>13. /\ Pays(Gone(c)) \subseteq Pays(c.inb) /\ Pays(Resolved(c)) \subseteq Pays(c.out)
       /\ Pays(Gone(c)) \subseteq C \cup R /\ Pays(Resolved(c)) \subseteq C \cup R
  BY <1>4, <1>5, <1>6 DEF Pays, Decided
<1> QED BY <1>1, <1>7, <1>8, <1>9, <1>10, <1>11, <1>12, <1>13 DEF Revoked

(* A disconnection: the payee forgets exactly the tail of ids from k on,   *)
(* and is ready to see k again; the payer forgets announced removals.      *)
LEMMA DroppedKeeps ==
    ASSUME NEW n \in Nodes, NEW c, NEW I \in [Payments -> Int], NEW S,
           NEW L \in SUBSET Payments, NEW C \in SUBSET Payments, NEW R \in SUBSET Payments,
           NodeOK(n, c, I, S, L, C, R), IdsUnique(I), NEW d,
           d = remove_uncommitted_htlcs_and_mark_paused(c)
    PROVE  NodeOK(n, d, I, S, L, C, R) /\ Still(c, d, C)
<1> DEFINE dropped == {h \in c.inb : h.st = "RemoteAnnounced"}
           r == [h \in c.out |-> IF h.st = "RemoteRemoved"
                                 THEN [h EXCEPT !.st = "Committed", !.out = "none"]
                                 ELSE h]
           T == {r[h] : h \in c.out}
           U == c.inb \ dropped
           num == c.nextCpId - Cardinality(dropped)
           e == [c EXCEPT !.feeSent = 0, !.pendClosing = NoClosing, !.inb = U,
                          !.nextCpId = num, !.out = T, !.disc = TRUE]
<1>1. c \in Channel
  BY DEF NodeOK
<1>2. c.inb \subseteq InHtlcs /\ c.out \subseteq OutHtlcs /\ c.nextCpId \in Nat
  BY <1>1 DEF Channel
<1>3. d = IF c.disc THEN c ELSE e
  BY DEF remove_uncommitted_htlcs_and_mark_paused, UncommittedRemoved
<1>4. OutOK(n, c, I, C, R) /\ InOK(n, c, I, L, C, R) /\ CellOK(n, c.cell, I, S, C, R)
  BY DEF NodeOK
<1>5. PICK k \in Nat : SeenOK(n, c, I, L, C, R, k)
  BY DEF NodeOK
<1>6. num = k
  <2> DEFINE f == [h \in dropped |-> h.id]
             K == k .. c.nextCpId - 1
  <2>1. IsFiniteSet(dropped)
    BY <1>4, FS_Subset DEF InOK
  <2>2. f \in [dropped -> K]
    BY <1>2, <1>5 DEF SeenOK, InHtlcs
  <2>3. \A i \in K : \E h \in dropped : f[h] = i
    BY <1>5 DEF SeenOK
  <2>4. ASSUME NEW g \in dropped, NEW h \in dropped, g.id = h.id PROVE g = h
    <3>1. /\ g.pay \in Payments /\ h.pay \in Payments /\ PayTo(g.pay) = n /\ PayTo(h.pay) = n
          /\ I[g.pay] = g.id /\ I[h.pay] = h.id /\ g.id \in Nat
      BY <1>2, <1>4 DEF InOK, InHtlcs
    <3>2. PayFrom[g.pay] = PayFrom[h.pay]
      BY <3>1, PeerFacts
    <3>3. g.pay = h.pay
      BY <2>4, <3>1, <3>2 DEF IdsUnique
    <3> QED BY <1>4, <3>3 DEF InOK
  <2>5. f \in Bijection(dropped, K)
    BY <2>2, <2>3, <2>4 DEF Bijection, Injection, Surjection, IsInjective
  <2>6. ExistsBijection(dropped, K)
    BY <2>5 DEF ExistsBijection
  <2>7. k \in Int /\ c.nextCpId - 1 \in Int /\ k <= c.nextCpId
    BY <1>2, <1>5 DEF SeenOK
  <2> HIDE DEF f, dropped
  <2>8. Cardinality(K) = Cardinality(dropped)
    BY <2>1, <2>6, FS_Bijection
  <2>9. Cardinality(K) = IF k > c.nextCpId - 1 THEN 0 ELSE c.nextCpId - 1 - k + 1
    BY <2>7, FS_Interval
  <2> HIDE DEF K
  <2> QED BY <1>2, <2>7, <2>8, <2>9
<1>7. \A h \in c.out :
        /\ r[h] \in OutHtlcs /\ r[h].id = h.id /\ r[h].pay = h.pay
        /\ h.st # "RemoteRemoved" => r[h] = h
        /\ h.st = "RemoteRemoved" => r[h].st = "Committed" /\ r[h].out = "none"
  BY <1>2 DEF OutHtlcs, OutStates, Outcomes
<1> HIDE DEF r
<1>8. IsFiniteSet(T) /\ Pays(T) = Pays(c.out) /\ \A g, h \in T : g.pay = h.pay => g = h
  <2>1. IsFiniteSet(c.out) /\ \A g, h \in c.out : g.pay = h.pay => g = h
    BY <1>4 DEF OutOK
  <2> QED BY <1>7, <2>1, Rewritten
<1>9. /\ T \in SUBSET OutHtlcs /\ U \in SUBSET InHtlcs
      /\ \A g \in T : \E h \in c.out : g = r[h]
      /\ \A h \in c.out : r[h] \in T
      /\ U \subseteq c.inb /\ \A h \in c.inb : h.st # "RemoteAnnounced" => h \in U
      /\ \A h \in U : h.st # "RemoteAnnounced"
  BY <1>2, <1>7
<1> HIDE DEF T, U, dropped, num
<1>10. /\ e \in Channel /\ e.inb = U /\ e.out = T /\ e.cell = c.cell
       /\ e.nextId = c.nextId /\ e.nextCpId = k /\ e.toSelf = c.toSelf
       /\ e.pendAdds = c.pendAdds /\ e.pendFails = c.pendFails
  <2> DEFINE c1 == [c EXCEPT !.feeSent = 0, !.pendClosing = NoClosing, !.inb = U]
  <2>1. e = [c1 EXCEPT !.nextCpId = num, !.out = T, !.disc = TRUE]
    OBVIOUS
  <2> HIDE DEF e
  <2>2. U \in SUBSET InHtlcs /\ T \in SUBSET OutHtlcs /\ num \in Nat
    BY <1>6, <1>9
  <2>3. /\ c1 \in Channel /\ c1.inb = U /\ c1.cell = c.cell /\ c1.nextId = c.nextId
        /\ c1.toSelf = c.toSelf /\ c1.pendAdds = c.pendAdds /\ c1.pendFails = c.pendFails
    BY <1>1, <2>2 DEF Channel
  <2> HIDE DEF c1
  <2>4. c1 \in Channel
    BY <2>3
  <2>5. /\ e \in Channel /\ e.inb = c1.inb /\ e.out = T /\ e.cell = c1.cell
        /\ e.nextId = c1.nextId /\ e.nextCpId = num /\ e.toSelf = c1.toSelf
        /\ e.pendAdds = c1.pendAdds /\ e.pendFails = c1.pendFails
    BY <2>1, <2>2, <2>4 DEF Channel
  <2> QED BY <1>6, <2>3, <2>5
<1> HIDE DEF e
<1>11. OutOK(n, e, I, C, R)
  <2>1. ASSUME NEW g \in T
        PROVE  /\ PayFrom[g.pay] = n /\ g.id = I[g.pay]
               /\ g.st \in {"LocalAnnounced", "Committed"} => g.out = "none"
               /\ g.st \notin {"LocalAnnounced", "Committed"} => Decided(g, C, R)
    <3>1. PICK h \in c.out : g = r[h]
      BY <1>9
    <3> QED BY <1>4, <1>7, <3>1 DEF OutOK
  <2>2. \A p \in Payments : PayFrom[p] = n /\ I[p] # -1 /\ p \notin C \cup R
            => \E h \in T : h.pay = p
    BY <1>4, <1>7, <1>9 DEF OutOK
  <2> QED BY <1>4, <1>8, <1>10, <2>1, <2>2 DEF OutOK
<1>12. InOK(n, e, I, L, C, R)
  <2>1. IsFiniteSet(U)
    BY <1>4, <1>9, FS_Subset DEF InOK
  <2> QED BY <1>4, <1>9, <1>10, <2>1 DEF InOK
<1>13. SeenOK(n, e, I, L, C, R, k)
  BY <1>5, <1>9, <1>10 DEF SeenOK
<1>14. NodeOK(n, e, I, S, L, C, R)
  BY <1>4, <1>10, <1>11, <1>12, <1>13 DEF NodeOK
<1>15. \A p \in Payments : p \in C => (p \in Pays(U) <=> p \in Pays(c.inb))
  <2>1. \A h \in c.inb : h.pay \in C => h.st # "RemoteAnnounced"
    BY <1>4 DEF InOK, Arriving
  <2> QED BY <1>9, <2>1 DEF Pays
<1>16. Still(c, e, C)
  BY <1>8, <1>10, <1>15 DEF Still
<1>17. Still(c, c, C)
  BY DEF Still
<1> QED BY <1>3, <1>14, <1>16, <1>17

\* The channel with the HTLC that update_add_htlc pushes.
Received(c, id, pay) ==
    [c EXCEPT !.nextCpId = @ + 1,
              !.inb = @ \cup {[id |-> id, pay |-> pay,
                               st |-> "RemoteAnnounced", out |-> "none"]}]

\* The payee is told of an HTLC it has not seen.
LEMMA AddKeeps ==
    ASSUME NEW n \in Nodes, NEW c, NEW I \in [Payments -> Int], NEW S,
           NEW L \in SUBSET Payments, NEW C \in SUBSET Payments, NEW R \in SUBSET Payments,
           NodeOK(n, c, I, S, L, C, R),
           NEW id, NEW pay \in Payments, PayTo(pay) = n, I[pay] = id, id = c.nextCpId,
           NEW d, d = Received(c, id, pay)
    PROVE  NodeOK(n, d, I, S, L, C, R) /\ Still(c, d, C)
<1> DEFINE new == [id |-> id, pay |-> pay, st |-> "RemoteAnnounced", out |-> "none"]
           T == c.inb \cup {new}
           num == c.nextCpId + 1
           e == [c EXCEPT !.nextCpId = num, !.inb = T]
<1>1. c \in Channel
  BY DEF NodeOK
<1>2. c.inb \subseteq InHtlcs /\ c.nextCpId \in Nat
  BY <1>1 DEF Channel
<1>3. d = e
  BY DEF Received
<1>4. OutOK(n, c, I, C, R) /\ InOK(n, c, I, L, C, R) /\ CellOK(n, c.cell, I, S, C, R)
  BY DEF NodeOK
<1>5. PICK k \in Nat : SeenOK(n, c, I, L, C, R, k)
  BY DEF NodeOK
<1>6. new \in InHtlcs /\ new.id = id /\ new.pay = pay /\ new.st = "RemoteAnnounced" /\ new.out = "none"
  BY <1>2 DEF InHtlcs, InStates, Outcomes
<1> HIDE DEF new
<1>7. T \in SUBSET InHtlcs /\ num \in Nat
  BY <1>2, <1>6
<1>8. pay \notin c.pendAdds \cup L \cup C \cup R
  BY <1>2, <1>5 DEF SeenOK
<1>9. \A h \in c.inb : h.pay # pay /\ h.id < id
  <2>1. \A h \in c.inb : h.id \in Nat /\ h.id < c.nextCpId
    BY <1>2, <1>5 DEF SeenOK, InHtlcs
  <2> QED BY <1>2, <1>4, <2>1 DEF InOK
<1>10. IsFiniteSet(T) /\ \A g, h \in T : g.pay = h.pay => g = h
  <2>1. IsFiniteSet(T)
    BY <1>4, FS_AddElement DEF InOK
  <2> QED BY <1>4, <1>6, <1>9, <2>1 DEF InOK
<1>11. /\ Pays(T) = Pays(c.inb) \cup {pay} /\ new \in T /\ c.inb \subseteq T
       /\ \A h \in T : h = new \/ h \in c.inb
  BY <1>6 DEF Pays
<1> HIDE DEF T
<1>12. /\ e \in Channel /\ e.inb = T /\ e.out = c.out /\ e.cell = c.cell
       /\ e.nextId = c.nextId /\ e.nextCpId = num /\ e.toSelf = c.toSelf
       /\ e.pendAdds = c.pendAdds /\ e.pendFails = c.pendFails
  <2> HIDE DEF num
  <2> QED BY <1>1, <1>7 DEF Channel
<1> HIDE DEF e
<1>13. OutOK(n, e, I, C, R)
  BY <1>4, <1>12 DEF OutOK
<1>14. InOK(n, e, I, L, C, R)
  <2>1. ASSUME NEW h \in T
        PROVE  /\ PayTo(h.pay) = n /\ h.id = I[h.pay]
               /\ h.st = "LocalRemoved" => Decided(h, C, R)
               /\ h.st # "LocalRemoved" => h.out = "none"
               /\ h.st \in Arriving => h.pay \notin c.pendAdds \cup L \cup C \cup R
    <3>1. CASE h = new
      BY <1>6, <1>8, <3>1
    <3>2. CASE h \in c.inb
      BY <1>4, <3>2 DEF InOK
    <3> QED BY <1>11, <3>1, <3>2
  <2> QED BY <1>4, <1>10, <1>12, <2>1 DEF InOK
<1>15. SeenOK(n, e, I, L, C, R, k)
  <2>1. ASSUME NEW i \in k .. num - 1
        PROVE  \E h \in T : h.id = i /\ h.st = "RemoteAnnounced"
    <3>1. CASE i = id
      BY <1>6, <1>11, <3>1
    <3>2. CASE i # id
      <4>1. i \in k .. c.nextCpId - 1
        BY <1>2, <3>2
      <4> QED BY <1>5, <1>11, <4>1 DEF SeenOK
    <3> QED BY <3>1, <3>2
  <2>2. ASSUME NEW h \in T
        PROVE  /\ h.st = "RemoteAnnounced" => h.id >= k /\ h.id < num
               /\ h.st # "RemoteAnnounced" => h.id < k
    <3>1. CASE h = new
      BY <1>2, <1>5, <1>6, <3>1 DEF SeenOK
    <3>2. CASE h \in c.inb
      <4>1. h.id \in Nat
        BY <1>2, <3>2 DEF InHtlcs
      <4> QED BY <1>2, <1>5, <3>2, <4>1 DEF SeenOK
    <3> QED BY <1>11, <3>1, <3>2
  <2>3. k <= num
    BY <1>2, <1>5 DEF SeenOK
  <2> HIDE DEF num
  <2> QED BY <1>5, <1>12, <2>1, <2>2, <2>3 DEF SeenOK
<1>16. Still(c, d, C)
  BY <1>3, <1>6, <1>8, <1>11, <1>12 DEF Still, Pays
<1> QED BY <1>3, <1>4, <1>12, <1>13, <1>14, <1>15, <1>16 DEF NodeOK

-----------------------------------------------------------------------------
(* What a closing channel keeps of its holding cell. *)

\* One step of WithoutAdds.
KeptAfter(kept, u) == IF u.op = "add" THEN kept ELSE Append(kept, u)

\* The recursive function behind WithoutAdds.
IsWithout(cell, g) ==
    g = [s \in SUBSET DOMAIN cell |->
            IF s = {} THEN <<>> ELSE KeptAfter(g[s \ {Max(s)}], cell[Max(s)])]

\* The fold, unfolded.
LEMMA WithoutUnfolded ==
    ASSUME NEW cell
    PROVE  WithoutAdds(cell) = (CHOOSE g : IsWithout(cell, g))[DOMAIN cell]
  BY DEF WithoutAdds, FoldLeft, MapThenFoldSet, IsWithout, KeptAfter

\* WithoutAdds goes through the cell from the first update to the last.
LEMMA WithoutChain ==
    ASSUME NEW X, NEW cell \in Seq(X)
    PROVE  \E a : /\ a[0] = <<>> /\ WithoutAdds(cell) = a[Len(cell)]
                  /\ \A i \in 1 .. Len(cell) : a[i] = KeptAfter(a[i - 1], cell[i])
<1> DEFINE D == 1 .. Len(cell)
           F == [x \in Seq(X) \X D |-> KeptAfter(x[1], cell[x[2]])]
<1>1. DOMAIN cell = D /\ Len(cell) \in Nat /\ \A i \in D : cell[i] \in X
  OBVIOUS
<1>2. IsFiniteSet(D) /\ D \subseteq Int
  <2>1. 1 \in Int /\ Len(cell) \in Int
    OBVIOUS
  <2>2. IsFiniteSet(D)
    BY <2>1, FS_Interval, Zenon
  <2> QED BY <2>2
<1>3. \A v \in Seq(X) : \A i \in D : F[<<v, i>>] \in Seq(X)
  BY <1>1 DEF KeptAfter
<1>4. \A s \in SUBSET D : s # {} => Max(s) \in D
  <2>1. ASSUME NEW s \in SUBSET D, s # {} PROVE Max(s) \in D
    <3>1. IsFiniteSet(s) /\ s \subseteq Int
      BY <1>2, FS_Subset
    <3> QED BY <2>1, <3>1, MaxIn
  <2> QED BY <2>1
<1>5. \E g : IsWithout(cell, g)
  <2> <<>> \in Seq(X)
    OBVIOUS
  <2> HIDE DEF F, D
  <2>1. PICK g \in [SUBSET D -> Seq(X)] : IsFold(<<>>, F, D, g)
    BY <1>2, <1>3, FoldExists
  <2>2. \A s \in SUBSET D : s # {} =>
            F[<<g[s \ {Max(s)}], Max(s)>>] = KeptAfter(g[s \ {Max(s)}], cell[Max(s)])
    BY <1>4, <2>1 DEF F
  <2>3. g = [s \in SUBSET D |->
            IF s = {} THEN <<>> ELSE KeptAfter(g[s \ {Max(s)}], cell[Max(s)])]
    BY <2>1, <2>2 DEF IsFold
  <2> QED BY <1>1, <2>3 DEF IsWithout
<1>6. PICK g : IsWithout(cell, g) /\ WithoutAdds(cell) = g[D]
  BY <1>1, <1>5, WithoutUnfolded
<1> DEFINE V == {g[s] : s \in SUBSET D}
           H == [x \in V \X D |-> KeptAfter(x[1], cell[x[2]])]
<1>7. IsFold(<<>>, H, D, g)
  <2> HIDE DEF D
  <2>1. \A s \in SUBSET D : s # {} =>
            H[<<g[s \ {Max(s)}], Max(s)>>] = KeptAfter(g[s \ {Max(s)}], cell[Max(s)])
    BY <1>4
  <2> HIDE DEF H
  <2>2. g = [s \in SUBSET D |->
            IF s = {} THEN <<>> ELSE KeptAfter(g[s \ {Max(s)}], cell[Max(s)])]
    BY <1>1, <1>6 DEF IsWithout
  <2>3. g = [s \in SUBSET D |->
            IF s = {} THEN <<>> ELSE H[<<g[s \ {Max(s)}], Max(s)>>]]
    BY <2>1, <2>2
  <2> QED BY <2>3 DEF IsFold
<1>8. /\ g[{}] = <<>>
      /\ \A i \in D : g[1 .. i] = H[<<g[1 .. i - 1], i>>]
  <2> HIDE DEF H
  <2> QED BY <1>1, <1>7, FoldSteps
<1>9. \A i \in D : g[1 .. i] = KeptAfter(g[1 .. i - 1], cell[i])
  <2>1. \A i \in D : (1 .. i - 1) \in SUBSET D
    OBVIOUS
  <2> QED BY <1>8, <2>1
<1> DEFINE a == [i \in 0 .. Len(cell) |-> g[1 .. i]]
<1>10. a[0] = <<>>
  <2>1. 1 .. 0 = {}
    OBVIOUS
  <2> QED BY <1>1, <1>8, <2>1
<1>11. WithoutAdds(cell) = a[Len(cell)]
  BY <1>1, <1>6
<1>12. ASSUME NEW i \in 1 .. Len(cell)
       PROVE  a[i] = KeptAfter(a[i - 1], cell[i])
  BY <1>1, <1>9
<1> HIDE DEF a
<1> QED BY <1>10, <1>11, <1>12

\* A closing channel keeps the removals that wait, and no addition.
LEMMA WithoutAddsKeeps ==
    ASSUME NEW n, NEW I, NEW S, NEW C, NEW R, NEW cell, CellOK(n, cell, I, S, C, R)
    PROVE  /\ CellOK(n, WithoutAdds(cell), I, S, C, R)
           /\ \A i \in 1 .. Len(WithoutAdds(cell)) : WithoutAdds(cell)[i].op # "add"
<1> DEFINE W == Waiting(n, I, S, C, R)
           V == {u \in W : u.op # "add"}
<1>1. cell \in Seq(W)
  BY DEF CellOK
<1>2. PICK a : /\ a[0] = <<>> /\ WithoutAdds(cell) = a[Len(cell)]
               /\ \A i \in 1 .. Len(cell) : a[i] = KeptAfter(a[i - 1], cell[i])
  <2> HIDE DEF W
  <2> QED BY <1>1, WithoutChain
<1>3. \A i \in 0 .. Len(cell) : a[i] \in Seq(V)
  <2> DEFINE B == {i \in 0 .. Len(cell) : a[i] \notin Seq(V)}
  <2>0. SUFFICES ASSUME B # {} PROVE FALSE
    OBVIOUS
  <2>1. B \subseteq Nat
    OBVIOUS
  <2>2. PICK i \in B : \A j \in B : i <= j
    <3> HIDE DEF B
    <3> QED BY ONLY <2>0, <2>1, LeastNatural
  <2>3. i # 0
    <3>1. <<>> \in Seq(V)
      OBVIOUS
    <3> QED BY <1>2, <2>2, <3>1
  <2>4. i \in 1 .. Len(cell) /\ i - 1 \in 0 .. Len(cell)
    BY <1>1, <2>2, <2>3
  <2>5. i - 1 \notin B
    BY <2>2, <2>4
  <2>6. a[i - 1] \in Seq(V) /\ a[i] = KeptAfter(a[i - 1], cell[i]) /\ cell[i] \in W
    BY <1>1, <1>2, <2>4, <2>5
  <2>7. a[i] \in Seq(V)
    <3> HIDE DEF W
    <3> QED BY <2>6 DEF KeptAfter
  <2> QED BY <2>2, <2>7
<1>4. WithoutAdds(cell) \in Seq(V)
  <2>1. Len(cell) \in 0 .. Len(cell)
    BY <1>1
  <2> QED BY <1>2, <1>3, <2>1
<1>5. \A i \in 1 .. Len(WithoutAdds(cell)) : WithoutAdds(cell)[i] \in V
  BY <1>4
<1>6. WithoutAdds(cell) \in Seq(W)
  <2>1. V \subseteq W
    OBVIOUS
  <2> HIDE DEF V, W
  <2> QED BY <1>4, <2>1
<1> QED BY <1>5, <1>6 DEF CellOK

-----------------------------------------------------------------------------
(* Freeing the holding cell. *)

\* The accumulators of free_holding_cell_htlcs,
Accs == [c : Channel, failed : SUBSET Payments, did : BOOLEAN]

\* and the one it starts from.
FreeBase(c) == [c |-> [c EXCEPT !.cell = <<>>], failed |-> {}, did |-> FALSE]

\* The recursive function behind free_holding_cell_htlcs.
IsFreed(c, tight, g) ==
    g = [s \in SUBSET DOMAIN c.cell |->
            IF s = {} THEN FreeBase(c)
            ELSE FreeUpdate(g[s \ {Max(s)}], c.cell[Max(s)], tight)]

\* The fold, unfolded.
LEMMA FreedUnfolded ==
    ASSUME NEW n, NEW c, NEW tight
    PROVE  free_holding_cell_htlcs(n, c, tight) =
            LET freed == (CHOOSE g : IsFreed(c, tight, g))[DOMAIN c.cell]
            IN IF freed.did THEN [freed EXCEPT !.c = BuildAndPause(n, @)] ELSE freed
  BY DEF free_holding_cell_htlcs, FoldLeft, MapThenFoldSet, IsFreed, FreeBase

\* Each update leaves a channel behind.
LEMMA FreeUpdateTyped ==
    ASSUME NEW acc \in Accs, NEW u \in Updates, NEW tight
    PROVE  FreeUpdate(acc, u, tight) \in Accs
<1>0. acc.c \in Channel /\ acc.failed \in SUBSET Payments /\ acc.did \in BOOLEAN
  BY DEF Accs
<1>1. CASE u.op = "add"
  <2>1. u.pay \in Payments
    BY <1>1 DEF Updates
  <2>2. PlaceHtlc(acc.c, u.pay) \in Channel
    <3> DEFINE c == acc.c
               h == [id |-> c.nextId, pay |-> u.pay, st |-> "LocalAnnounced", out |-> "none"]
               num == c.nextId + 1
               outs == c.out \cup {h}
               cell == Append(c.cell, [op |-> "add", pay |-> u.pay])
    <3>1. c.nextId \in Nat /\ c.out \in SUBSET OutHtlcs /\ c.cell \in Seq(Updates)
      BY <1>0 DEF Channel
    <3>2. h \in OutHtlcs
      BY <2>1, <3>1 DEF OutHtlcs, OutStates, Outcomes
    <3>3. num \in Nat /\ outs \in SUBSET OutHtlcs
      BY <3>1, <3>2
    <3>4. cell \in Seq(Updates)
      <4>1. [op |-> "add", pay |-> u.pay] \in Updates
        BY <2>1 DEF Updates
      <4> QED BY <3>1, <4>1
    <3>5. c \in Channel
      BY <1>0
    <3>6. PlaceHtlc(c, u.pay) = IF can_generate_new_commitment(c)
                THEN [c EXCEPT !.out = outs, !.nextId = num] ELSE [c EXCEPT !.cell = cell]
      BY DEF PlaceHtlc
    <3> HIDE DEF c, num, outs, cell
    <3>7. [c EXCEPT !.out = outs, !.nextId = num] \in Channel
      BY ONLY <3>3, <3>5 DEF Channel
    <3>8. [c EXCEPT !.cell = cell] \in Channel
      BY ONLY <3>4, <3>5 DEF Channel
    <3> QED BY <3>6, <3>7, <3>8 DEF c
  <2> HIDE DEF PlaceHtlc, SendRefused
  <2>3. FreeUpdate(acc, u, tight) = IF u.pay \in tight \/ SendRefused(acc.c, u.pay)
            THEN [acc EXCEPT !.failed = @ \cup {u.pay}]
            ELSE [acc EXCEPT !.c = PlaceHtlc(@, u.pay), !.did = TRUE]
    BY <1>1 DEF FreeUpdate
  <2> QED BY <2>1, <2>2, <2>3 DEF Accs
<1>2. CASE u.op # "add"
  <2>1. u.op \in {"claim", "fail"} /\ u.id \in Nat
    BY <1>2 DEF Updates
  <2> DEFINE o == IF u.op = "claim" THEN "fulfil" ELSE "fail"
  <2>2. LocalRemove(acc.c, u.id, o) \in Channel
    <3> DEFINE c == acc.c
               ins == {IF h.id = u.id THEN [h EXCEPT !.st = "LocalRemoved", !.out = o]
                       ELSE h : h \in c.inb}
    <3>1. c \in Channel /\ o \in Outcomes
      BY <1>0 DEF Outcomes
    <3>2. c.inb \in SUBSET InHtlcs
      BY <3>1 DEF Channel
    <3>3. ins \in SUBSET InHtlcs
      <4> HIDE DEF c, o
      <4> QED BY <3>1, <3>2 DEF InHtlcs, InStates
    <3>4. LocalRemove(c, u.id, o) = [c EXCEPT !.inb = ins]
      BY DEF LocalRemove
    <3> HIDE DEF c, ins, o
    <3>5. [c EXCEPT !.inb = ins] \in Channel
      BY ONLY <3>1, <3>3 DEF Channel
    <3> QED BY <3>4, <3>5 DEF c
  <2>3. Ends(acc.c, "unreachable") \in Channel
    BY <1>0, EndsKeeps DEF Errors
  <2>4. FreeUpdate(acc, u, tight) =
            IF Resolvable(acc.c, u.id)
            THEN [acc EXCEPT !.did = TRUE, !.c = LocalRemove(@, u.id, o)]
            ELSE IF u.op = "claim" THEN [acc EXCEPT !.c = Ends(@, "unreachable")] ELSE acc
    <3> HIDE DEF Resolvable, LocalRemove, Ends
    <3> QED BY <2>1 DEF FreeUpdate
  <2> HIDE DEF o
  <2> QED BY <2>2, <2>3, <2>4 DEF Accs
<1> QED BY <1>1, <1>2

\* a[i] is what the first i updates of the cell made of the channel c.
FreeRun(n, c, tight, a) ==
    /\ a[0] = FreeBase(c)
    /\ \A i \in 1 .. Len(c.cell) : a[i] = FreeUpdate(a[i - 1], c.cell[i], tight)
    /\ free_holding_cell_htlcs(n, c, tight) =
        LET freed == a[Len(c.cell)]
        IN IF freed.did THEN [freed EXCEPT !.c = BuildAndPause(n, @)] ELSE freed

\* free_holding_cell_htlcs goes through the cell from the first update to the last.
LEMMA FreeChain ==
    ASSUME NEW n, NEW c \in Channel, NEW tight
    PROVE  \E a : FreeRun(n, c, tight, a)
<1> DEFINE cell == c.cell
           D == 1 .. Len(cell)
           F == [x \in Accs \X D |-> FreeUpdate(x[1], cell[x[2]], tight)]
           base == FreeBase(c)
<1>0. cell \in Seq(Updates)
  BY DEF Channel
<1>1. DOMAIN cell = D /\ Len(cell) \in Nat /\ \A i \in D : cell[i] \in Updates
  BY <1>0
<1>2. IsFiniteSet(D) /\ D \subseteq Int
  <2>1. 1 \in Int /\ Len(cell) \in Int
    BY <1>1
  <2>2. IsFiniteSet(D)
    BY <2>1, FS_Interval, Zenon
  <2> QED BY <2>2
<1>3. \A v \in Accs : \A i \in D : F[<<v, i>>] \in Accs
  BY <1>1, FreeUpdateTyped
<1>4. \A s \in SUBSET D : s # {} => Max(s) \in D
  <2>1. ASSUME NEW s \in SUBSET D, s # {} PROVE Max(s) \in D
    <3>1. IsFiniteSet(s) /\ s \subseteq Int
      BY <1>2, FS_Subset
    <3> QED BY <2>1, <3>1, MaxIn
  <2> QED BY <2>1
<1>b. base \in Accs
  <2>1. [c EXCEPT !.cell = <<>>] \in Channel
    <3>1. <<>> \in Seq(Updates)
      OBVIOUS
    <3> QED BY <3>1 DEF Channel
  <2> QED BY <2>1 DEF Accs, FreeBase
<1>5. \E g : IsFreed(c, tight, g)
  <2> HIDE DEF F, D, base, cell
  <2>1. PICK g \in [SUBSET D -> Accs] : IsFold(base, F, D, g)
    BY <1>2, <1>3, <1>b, FoldExists
  <2>2. \A s \in SUBSET D : s # {} =>
            F[<<g[s \ {Max(s)}], Max(s)>>] = FreeUpdate(g[s \ {Max(s)}], cell[Max(s)], tight)
    BY <1>4, <2>1 DEF F
  <2>3. g = [s \in SUBSET D |->
            IF s = {} THEN base ELSE FreeUpdate(g[s \ {Max(s)}], cell[Max(s)], tight)]
    BY <2>1, <2>2 DEF IsFold
  <2> QED BY <1>1, <2>3 DEF IsFreed, base, cell
<1>6. PICK g : /\ IsFreed(c, tight, g)
               /\ free_holding_cell_htlcs(n, c, tight) =
                        LET freed == g[D]
                        IN IF freed.did THEN [freed EXCEPT !.c = BuildAndPause(n, @)]
                           ELSE freed
  <2> DEFINE g == CHOOSE g : IsFreed(c, tight, g)
  <2>1. IsFreed(c, tight, g)
    BY <1>5
  <2>2. free_holding_cell_htlcs(n, c, tight) =
                        LET freed == g[DOMAIN c.cell]
                        IN IF freed.did THEN [freed EXCEPT !.c = BuildAndPause(n, @)]
                           ELSE freed
    BY FreedUnfolded
  <2>3. DOMAIN c.cell = D
    BY <1>1
  <2> HIDE DEF g, D
  <2> QED BY <2>1, <2>2, <2>3
<1> DEFINE V == {g[s] : s \in SUBSET D}
           H == [x \in V \X D |-> FreeUpdate(x[1], cell[x[2]], tight)]
<1>7. IsFold(base, H, D, g)
  <2> HIDE DEF D, cell
  <2>1. \A s \in SUBSET D : s # {} =>
            H[<<g[s \ {Max(s)}], Max(s)>>] = FreeUpdate(g[s \ {Max(s)}], cell[Max(s)], tight)
    BY <1>4
  <2> HIDE DEF H, base
  <2>2. g = [s \in SUBSET D |->
            IF s = {} THEN base ELSE FreeUpdate(g[s \ {Max(s)}], cell[Max(s)], tight)]
    BY <1>1, <1>6 DEF IsFreed, cell, base
  <2>3. g = [s \in SUBSET D |->
            IF s = {} THEN base ELSE H[<<g[s \ {Max(s)}], Max(s)>>]]
    BY <2>1, <2>2
  <2> QED BY <2>3 DEF IsFold
<1>8. /\ g[{}] = base
      /\ \A i \in D : g[1 .. i] = H[<<g[1 .. i - 1], i>>]
  <2> HIDE DEF H, base, cell
  <2> QED BY <1>1, <1>7, FoldSteps
<1>9. \A i \in D : g[1 .. i] = FreeUpdate(g[1 .. i - 1], cell[i], tight)
  <2>1. \A i \in D : (1 .. i - 1) \in SUBSET D
    OBVIOUS
  <2> QED BY <1>8, <2>1
<1> DEFINE a == [i \in 0 .. Len(cell) |-> g[1 .. i]]
<1>10. a[0] = base
  <2>1. 1 .. 0 = {}
    OBVIOUS
  <2> HIDE DEF base, cell
  <2> QED BY <1>1, <1>8, <2>1
<1>11. a[Len(cell)] = g[D]
  BY <1>1
<1>12. ASSUME NEW i \in 1 .. Len(cell)
       PROVE  a[i] = FreeUpdate(a[i - 1], cell[i], tight)
  <2> HIDE DEF cell
  <2> QED BY <1>1, <1>9
<1> HIDE DEF a, D
<1> QED BY <1>6, <1>10, <1>11, <1>12 DEF FreeRun

(* The holding cell of c has been freed up to the additions A, of which    *)
(* acc.failed were refused and the others were placed: J is the ledger of  *)
(* ids afterwards.                                                         *)
Freed(n, c, A, acc, I, J, S, L, C, R) ==
    /\ NodeOK(n, acc.c, J, S, L, C, R)
    /\ acc.c.cell = <<>> /\ acc.c.toSelf = c.toSelf
    /\ Pays(acc.c.inb) = Pays(c.inb)
    /\ Pays(acc.c.out) = Pays(c.out) \cup (A \ acc.failed)
    /\ acc.failed \subseteq A
    /\ J \in [Payments -> Int] /\ IdsUnique(J)
    /\ \A p \in Payments : p \notin A => J[p] = I[p]
    /\ \A p \in A : J[p] # -1 <=> p \notin acc.failed
    /\ \A p \in Payments : J[p] # -1 =>
            J[p] >= 0 /\ p \in S /\ (PayFrom[p] = n => J[p] < acc.c.nextId)

\* One update of the holding cell.
LEMMA FreeStep ==
    ASSUME NEW n \in Nodes, NEW c, NEW acc \in Accs, NEW I \in [Payments -> Int], NEW S,
           NEW L \in SUBSET Payments, NEW C \in SUBSET Payments, NEW R \in SUBSET Payments,
           \A q \in L \cup C \cup R : I[q] # -1,
           NEW A \in SUBSET Payments, \A p \in A : PayFrom[p] = n /\ I[p] = -1,
           NEW J, Freed(n, c, A, acc, I, J, S, L, C, R),
           can_generate_new_commitment(acc.c),
           NEW u \in Waiting(n, I, S, C, R), u.op = "add" => u.pay \notin A,
           NEW tight, NEW e, e = FreeUpdate(acc, u, tight)
    PROVE  \E J2 : /\ Freed(n, c, IF u.op = "add" THEN A \cup {u.pay} ELSE A,
                            e, I, J2, S, L, C, R)
                   /\ can_generate_new_commitment(e.c)
<1>1. /\ u \in Updates /\ u.op \in {"add", "claim", "fail"}
      /\ u.op = "add" => /\ u.pay \in S /\ PayFrom[u.pay] = n /\ I[u.pay] = -1
                         /\ u.pay \in Payments
      /\ u.op # "add" => u.id \in Nat
      /\ u.op = "claim" => \E p \in C : PayTo(p) = n /\ I[p] = u.id
      /\ u.op = "fail" => \E p \in R : PayTo(p) = n /\ I[p] = u.id
  BY DEF Waiting, Updates
<1>2. J \in [Payments -> Int] /\ IdsUnique(J) /\ NodeOK(n, acc.c, J, S, L, C, R)
  BY DEF Freed
<1>3. /\ acc = [c |-> acc.c, failed |-> acc.failed, did |-> acc.did] /\ acc.c \in Channel
      /\ acc.failed \subseteq Payments
  BY DEF Accs
<1>4. CASE u.op = "add" /\ (u.pay \in tight \/ SendRefused(acc.c, u.pay))
  <2>1. e = [acc EXCEPT !.failed = @ \cup {u.pay}]
    BY <1>4 DEF FreeUpdate
  <2>2. e.c = acc.c /\ e.failed = acc.failed \cup {u.pay}
    BY <1>3, <2>1
  <2>3. J[u.pay] = -1
    BY <1>1, <1>4 DEF Freed
  <2>4. Freed(n, c, A \cup {u.pay}, e, I, J, S, L, C, R)
    BY <1>4, <2>2, <2>3 DEF Freed
  <2> QED BY <1>4, <2>2, <2>4
<1>5. CASE u.op = "add" /\ ~(u.pay \in tight \/ SendRefused(acc.c, u.pay))
  <2>p. PICK p : p = u.pay
    OBVIOUS
  <2> DEFINE d == PlaceHtlc(acc.c, p)
             J2 == [J EXCEPT ![p] = acc.c.nextId]
             B == A \cup {p}
  <2>1. e = [acc EXCEPT !.c = d, !.did = TRUE]
    BY <1>5, <2>p DEF FreeUpdate
  <2>2. e.c = d /\ e.failed = acc.failed
    <3> HIDE DEF d
    <3> QED BY <1>3, <2>1
  <2>3. p \in Payments /\ PayFrom[p] = n /\ I[p] = -1 /\ p \in S /\ p \notin A /\ J[p] = -1
    BY <1>1, <1>5, <2>p DEF Freed
  <2>4. \A q \in L \cup C \cup R : q \in Payments /\ q \notin A /\ J[q] # -1
    BY DEF Freed
  <2>5. p \notin AddsIn(acc.c)
    BY DEF Freed, AddsIn, CellAdds, ToSet
  <2>6. /\ NodeOK(n, d, J2, S, L, C, R)
        /\ d.cell = acc.c.cell /\ d.toSelf = acc.c.toSelf
        /\ d.nextId = acc.c.nextId + 1
        /\ Pays(d.inb) = Pays(acc.c.inb)
        /\ Pays(d.out) = Pays(acc.c.out) \cup {p}
        /\ SameFlags(acc.c, d)
    <3>1. \A q \in L \cup C \cup R : J[q] # -1
      BY <2>4
    <3>2. NodeOK(n, d, Placed(J, p, acc.c.nextId), S, L, C, R) /\ Offered(acc.c, d, p)
      BY <1>2, <2>3, <2>5, <3>1, PlaceKeeps
    <3> HIDE DEF d
    <3> QED BY <3>2 DEF Placed, Offered
  <2> HIDE DEF d
  <2>7. acc.c.nextId \in Nat /\ acc.failed \subseteq A
    BY <1>3 DEF Channel, Freed
  <2>8. /\ J2 \in [Payments -> Int] /\ J2[p] = acc.c.nextId
        /\ \A q \in Payments : q # p => J2[q] = J[q]
    BY <1>2, <2>3, <2>7
  <2> HIDE DEF J2
  <2>9. Pays(e.c.out) = Pays(c.out) \cup (B \ e.failed)
    BY <2>2, <2>3, <2>6, <2>7 DEF Freed
  <2>10. IdsUnique(J2)
    <3>1. \A q \in Payments : PayFrom[q] = n /\ J[q] # -1 => J[q] < acc.c.nextId
      BY DEF Freed
    <3> QED BY <1>2, <2>3, <2>7, <2>8, <3>1 DEF IdsUnique
  <2>11. \A q \in Payments : J2[q] # -1 =>
            J2[q] >= 0 /\ q \in S /\ (PayFrom[q] = n => J2[q] < d.nextId)
    BY <1>2, <2>3, <2>6, <2>7, <2>8 DEF Freed
  <2>12. \A q \in B : J2[q] # -1 <=> q \notin e.failed
    BY <2>2, <2>3, <2>7, <2>8 DEF Freed
  <2>13. \A q \in Payments : q \notin B => J2[q] = I[q]
    BY <2>8 DEF Freed
  <2>14. Freed(n, c, B, e, I, J2, S, L, C, R)
    <3>1. /\ e.c.cell = <<>> /\ e.c.toSelf = c.toSelf
          /\ Pays(e.c.inb) = Pays(c.inb) /\ e.failed \subseteq B
      BY <2>2, <2>6, <2>7 DEF Freed
    <3> QED BY <2>2, <2>6, <2>8, <2>9, <2>10, <2>11, <2>12, <2>13, <3>1 DEF Freed
  <2>15. can_generate_new_commitment(e.c)
    BY <2>2, <2>6 DEF can_generate_new_commitment, SameFlags
  <2> QED BY <1>5, <2>p, <2>14, <2>15
<1>6. ASSUME NEW d, NodeOK(n, d, J, S, L, C, R), SameMoney(acc.c, d), SameFlags(acc.c, d),
             e.c = d, e.failed = acc.failed, u.op # "add"
      PROVE  \E J2 : /\ Freed(n, c, IF u.op = "add" THEN A \cup {u.pay} ELSE A,
                              e, I, J2, S, L, C, R)
                     /\ can_generate_new_commitment(e.c)
  <2>1. Freed(n, c, A, e, I, J, S, L, C, R)
    BY <1>6 DEF Freed, SameMoney
  <2>2. can_generate_new_commitment(e.c)
    BY <1>6 DEF can_generate_new_commitment, SameFlags
  <2> QED BY <1>6, <2>1, <2>2
<1>7. CASE u.op # "add" /\ Resolvable(acc.c, u.id)
  <2> DEFINE o == IF u.op = "claim" THEN "fulfil" ELSE "fail"
             d == LocalRemove(acc.c, u.id, o)
  <2>1. e = [acc EXCEPT !.did = TRUE, !.c = d]
    <3> HIDE DEF Resolvable, LocalRemove
    <3> QED BY <1>1, <1>7 DEF FreeUpdate
  <2>2. PICK p \in Payments : /\ PayTo(p) = n /\ I[p] = u.id
                              /\ \/ o = "fulfil" /\ p \in C
                                 \/ o = "fail" /\ p \in R
    BY <1>1, <1>7
  <2>3. J[p] = u.id
    <3>1. PayFrom[p] # n
      BY <2>2, PeerFacts
    <3> QED BY <2>2, <3>1 DEF Freed
  <2> HIDE DEF o
  <2>4. NodeOK(n, d, J, S, L, C, R) /\ SameMoney(acc.c, d) /\ SameFlags(acc.c, d)
    BY <1>1, <1>2, <1>7, <2>2, <2>3, LocalRemoveKeeps
  <2> HIDE DEF d
  <2>5. e.c = d /\ e.failed = acc.failed
    BY <1>3, <2>1
  <2> QED BY <1>6, <1>7, <2>4, <2>5
<1>8. CASE u.op = "claim" /\ ~Resolvable(acc.c, u.id)
  <2> DEFINE d == Ends(acc.c, "unreachable")
  <2>1. e = [acc EXCEPT !.c = d]
    BY <1>8 DEF FreeUpdate
  <2>2. d \in Channel /\ SameBooks(acc.c, d)
    BY <1>3, EndsKeeps DEF Errors
  <2>3. SameFlags(acc.c, d)
    BY <1>3 DEF Ends, SameFlags, Channel
  <2> HIDE DEF d
  <2>4. NodeOK(n, d, J, S, L, C, R) /\ SameMoney(acc.c, d)
    BY <1>2, <2>2, BooksDecide
  <2>5. e.c = d /\ e.failed = acc.failed
    BY <1>3, <2>1
  <2> QED BY <1>6, <1>8, <2>3, <2>4, <2>5
<1>9. CASE u.op = "fail" /\ ~Resolvable(acc.c, u.id)
  <2>1. e = acc
    BY <1>9 DEF FreeUpdate
  <2> QED BY <1>2, <1>6, <1>9, <2>1 DEF SameMoney, SameFlags
<1> QED BY <1>1, <1>4, <1>5, <1>7, <1>8, <1>9

\* The additions among the first i updates of the cell.
FirstAdds(cell, i) == {p \in Payments : \E j \in 1 .. i : cell[j].op = "add" /\ cell[j].pay = p}

\* Freeing the whole cell.
LEMMA FreeKeeps ==
    ASSUME NEW n \in Nodes, NEW c, NEW I \in [Payments -> Int], NEW S,
           NEW L \in SUBSET Payments, NEW C \in SUBSET Payments, NEW R \in SUBSET Payments,
           \A q \in L \cup C \cup R : I[q] # -1,
           NodeOK(n, c, I, S, L, C, R), IdsUnique(I), can_generate_new_commitment(c),
           \A p \in Payments : I[p] # -1 =>
                I[p] >= 0 /\ p \in S /\ (PayFrom[p] = n => I[p] < c.nextId),
           NEW tight, NEW e, e = free_holding_cell_htlcs(n, c, tight)
    PROVE  /\ \E J : Freed(n, c, AddsIn(c), e, I, J, S, L, C, R)
           /\ e \in [c : Channel, failed : SUBSET Payments, did : BOOLEAN]
<1>1. c \in Channel /\ CellOK(n, c.cell, I, S, C, R)
  BY DEF NodeOK
<1>2. PICK a : FreeRun(n, c, tight, a)
  BY <1>1, FreeChain
<1> DEFINE cell == c.cell
           W == Waiting(n, I, S, C, R)
<1> HIDE DEF cell, W
<1>3. cell \in Seq(W) /\ Len(cell) \in Nat /\ \A i \in 1 .. Len(cell) : cell[i] \in W
  <2>1. cell \in Seq(W)
    BY <1>1 DEF CellOK, W, cell
  <2> QED BY <2>1
<1>4. \A u \in W : /\ u \in Updates
                   /\ u.op = "add" => /\ u.pay \in Payments /\ PayFrom[u.pay] = n
                                      /\ I[u.pay] = -1 /\ u = [op |-> "add", pay |-> u.pay]
  BY DEF W, Waiting, Updates
<1> DEFINE Good(i) == /\ a[i] \in Accs /\ can_generate_new_commitment(a[i].c)
                      /\ \E J : Freed(n, c, FirstAdds(cell, i), a[i], I, J, S, L, C, R)
<1>5. Good(0)
  <2> DEFINE d == [c EXCEPT !.cell = <<>>]
  <2>1. /\ d \in Channel /\ SameFlags(c, d) /\ d.cell = <<>> /\ d.toSelf = c.toSelf
        /\ d.inb = c.inb /\ d.out = c.out /\ d.nextId = c.nextId /\ d.nextCpId = c.nextCpId
        /\ d.pendAdds = c.pendAdds /\ d.pendFails = c.pendFails
    <3>1. <<>> \in Seq(Updates)
      OBVIOUS
    <3> QED BY <1>1, <3>1 DEF Channel, SameFlags
  <2>2. a[0] = [c |-> d, failed |-> {}, did |-> FALSE]
    BY <1>2 DEF FreeBase, FreeRun
  <2> HIDE DEF d
  <2>3. a[0] \in Accs /\ a[0].c = d /\ a[0].failed = {}
    BY <2>1, <2>2 DEF Accs
  <2>4. NodeOK(n, d, I, S, L, C, R)
    <3>1. OutOK(n, d, I, C, R) /\ InOK(n, d, I, L, C, R)
      BY <2>1 DEF NodeOK, OutOK, InOK
    <3>2. \E k \in Nat : SeenOK(n, d, I, L, C, R, k)
      <4>1. PICK k \in Nat : SeenOK(n, c, I, L, C, R, k)
        BY DEF NodeOK
      <4>2. SeenOK(n, d, I, L, C, R, k)
        BY <2>1, <4>1 DEF SeenOK
      <4> QED BY <4>2
    <3>3. CellOK(n, <<>>, I, S, C, R)
      BY DEF CellOK
    <3> QED BY <2>1, <3>1, <3>2, <3>3 DEF NodeOK
  <2>5. FirstAdds(cell, 0) = {}
    BY DEF FirstAdds
  <2>6. Freed(n, c, {}, a[0], I, I, S, L, C, R)
    BY <2>1, <2>3, <2>4 DEF Freed
  <2>7. can_generate_new_commitment(a[0].c)
    BY <2>1, <2>3 DEF can_generate_new_commitment, SameFlags
  <2> QED BY <2>3, <2>5, <2>6, <2>7
<1>6. ASSUME NEW i \in 1 .. Len(cell), Good(i - 1) PROVE Good(i)
  <2> DEFINE A == FirstAdds(cell, i - 1)
             u == cell[i]
             acc == a[i - 1]
             e2 == a[i]
  <2>1. PICK J : Freed(n, c, A, acc, I, J, S, L, C, R)
    BY <1>6
  <2>2. A \in SUBSET Payments /\ \A p \in A : PayFrom[p] = n /\ I[p] = -1
    <3>1. \A j \in 1 .. i - 1 : cell[j] \in W
      BY <1>3
    <3> QED BY <1>4, <3>1 DEF FirstAdds
  <2>3. u \in W /\ u \in Updates
    BY <1>3, <1>4
  <2>4. u.op = "add" => u.pay \notin A
    <3>1. SUFFICES ASSUME u.op = "add", u.pay \in A PROVE FALSE
      OBVIOUS
    <3>2. PICK j \in 1 .. i - 1 : cell[j].op = "add" /\ cell[j].pay = u.pay
      BY <3>1 DEF FirstAdds
    <3>3. cell[j] = [op |-> "add", pay |-> cell[j].pay] /\ u = [op |-> "add", pay |-> u.pay]
      BY <1>3, <1>4, <2>3, <3>1, <3>2
    <3>4. cell[j] = cell[i] /\ j # i /\ j \in 1 .. Len(cell)
      BY <3>2, <3>3
    <3> QED BY <1>1, <3>1, <3>4 DEF CellOK, cell, u
  <2>5. FirstAdds(cell, i) = IF u.op = "add" THEN A \cup {u.pay} ELSE A
    <3>1. \A j : j \in 1 .. i <=> j \in 1 .. i - 1 \/ j = i
      OBVIOUS
    <3>2. u.op = "add" => u.pay \in Payments
      BY <1>4, <2>3
    <3> QED BY <3>1, <3>2 DEF FirstAdds
  <2>6. e2 = FreeUpdate(acc, u, tight) /\ acc \in Accs /\ can_generate_new_commitment(acc.c)
    BY <1>2, <1>6 DEF FreeRun, cell
  <2>7. e2 \in Accs
    BY <2>3, <2>6, FreeUpdateTyped
  <2> HIDE DEF A, u, acc, e2
  <2>8. \E J2 : /\ Freed(n, c, IF u.op = "add" THEN A \cup {u.pay} ELSE A,
                         e2, I, J2, S, L, C, R)
                /\ can_generate_new_commitment(e2.c)
    <3>1. u \in Waiting(n, I, S, C, R)
      BY <2>3 DEF W
    <3> QED BY <2>1, <2>2, <2>4, <2>6, <3>1, FreeStep
  <2> QED BY <2>5, <2>7, <2>8 DEF e2
<1>7. Good(Len(cell))
  <2> DEFINE B == {i \in 0 .. Len(cell) : ~Good(i)}
  <2>0. SUFFICES ASSUME B # {} PROVE FALSE
    BY <1>3
  <2>1. B \subseteq Nat
    OBVIOUS
  <2>2. PICK i \in B : \A j \in B : i <= j
    <3> HIDE DEF B
    <3> QED BY ONLY <2>0, <2>1, LeastNatural
  <2> HIDE DEF Good
  <2>3. i # 0
    BY <1>5, <2>2
  <2>4. i \in 1 .. Len(cell) /\ i - 1 \in 0 .. Len(cell)
    BY <1>3, <2>2, <2>3
  <2>5. Good(i - 1)
    BY <2>2, <2>4
  <2> QED BY <1>6, <2>2, <2>4, <2>5
<1>8. FirstAdds(cell, Len(cell)) = AddsIn(c)
  <2>1. \A i \in 1 .. Len(cell) : cell[i].op = "add" => cell[i].pay \in Payments
    BY <1>3, <1>4
  <2>2. DOMAIN cell = 1 .. Len(cell)
    BY <1>3
  <2>3. FirstAdds(cell, Len(cell)) \subseteq AddsIn(c)
    BY <2>2 DEF FirstAdds, AddsIn, CellAdds, ToSet, cell
  <2>4. AddsIn(c) \subseteq FirstAdds(cell, Len(cell))
    BY <2>1, <2>2 DEF FirstAdds, AddsIn, CellAdds, ToSet, cell
  <2> QED BY <2>3, <2>4
<1> DEFINE f == a[Len(cell)]
<1>9. PICK J : Freed(n, c, AddsIn(c), f, I, J, S, L, C, R)
  BY <1>7, <1>8
<1>10. f \in Accs
  BY <1>7
<1>11. e = IF f.did THEN [f EXCEPT !.c = BuildAndPause(n, @)] ELSE f
  BY <1>2 DEF FreeRun, cell
<1> HIDE DEF f
<1>12. CASE ~f.did
  BY <1>9, <1>10, <1>11, <1>12 DEF Accs
<1>13. CASE f.did
  <2> DEFINE d == BuildAndPause(n, f.c)
  <2>1. NodeOK(n, f.c, J, S, L, C, R) /\ J \in [Payments -> Int]
    BY <1>9 DEF Freed
  <2>2. NodeOK(n, d, J, S, L, C, R) /\ SameMoney(f.c, d)
    BY <2>1, BuildAndPauseKeeps
  <2>3. d \in Channel
    BY <2>2 DEF NodeOK
  <2>4. e = [f EXCEPT !.c = d]
    BY <1>11, <1>13
  <2> HIDE DEF d
  <2>5. e.c = d /\ e.failed = f.failed /\ e \in Accs
    BY <1>10, <2>3, <2>4 DEF Accs
  <2>6. Freed(n, c, AddsIn(c), e, I, J, S, L, C, R)
    BY <1>9, <2>2, <2>5 DEF Freed, SameMoney
  <2> QED BY <2>5, <2>6 DEF Accs
<1> QED BY <1>12, <1>13

-----------------------------------------------------------------------------
(* The messages a node writes. *)

\* HTLCs with different ids can be put in the order of their ids.
LEMMA ByIdSorts ==
    ASSUME NEW S, IsFiniteSet(S), \A h \in S : h.id \in Int,
           \A g, h \in S : g.id = h.id => g = h
    PROVE  /\ ById(S) \in [1 .. Cardinality(S) -> S]
           /\ \A i, j \in 1 .. Cardinality(S) : i < j => ById(S)[i].id < ById(S)[j].id
<1> DEFINE Sorts(s, q) == /\ q \in [1 .. Cardinality(s) -> s]
                          /\ \A i, j \in 1 .. Cardinality(s) : i < j => q[i].id < q[j].id
           Good(s) == \E q : Sorts(s, q)
           Bad == {s \in SUBSET S : ~Good(s)}
<1>0. SUFFICES ASSUME Bad # {} PROVE FALSE
  <2>1. Good(S)
    BY <1>0
  <2> QED BY <2>1 DEF ById
<1>1. Bad \subseteq SUBSET S /\ IsFiniteSet(S)
  OBVIOUS
<1>2. PICK s \in Bad : \A t \in Bad : ~(t \subseteq s /\ t # s)
  <2> HIDE DEF Bad
  <2> QED BY ONLY <1>0, <1>1, SmallestSubset
<1>3. IsFiniteSet(s) /\ s \subseteq S
  BY <1>2, FS_Subset
<1>4. s # {}
  <2>1. Cardinality({}) = 0 /\ 1 .. 0 = {}
    BY FS_EmptySet
  <2>2. Sorts({}, [i \in {} |-> i])
    BY <2>1
  <2> QED BY <1>2, <2>2
<1>5. PICK a \in s : \A h \in s : h.id <= a.id
  <2> DEFINE r == [h \in s |-> h.id]
             X == {r[h] : h \in s}
  <2>1. IsFiniteSet(X)
    <3> HIDE DEF r
    <3> QED BY <1>3, ImageFinite
  <2>2. X # {} /\ X \subseteq Int
    BY <1>3, <1>4
  <2>3. Max(X) \in X /\ \A y \in X : Max(X) >= y
    <3> HIDE DEF X
    <3> QED BY <2>1, <2>2, MaxIn
  <2>4. PICK a \in s : Max(X) = a.id
    BY <2>3
  <2>5. ASSUME NEW h \in s PROVE h.id <= a.id
    <3>1. h.id \in X /\ h.id \in Int /\ a.id \in Int
      BY <1>3
    <3> QED BY <2>3, <2>4, <3>1
  <2> QED BY <2>5
<1> DEFINE t == s \ {a}
           k == Cardinality(t)
<1>6. t \subseteq s /\ t # s /\ t \in SUBSET S /\ IsFiniteSet(t) /\ s = t \cup {a} /\ a \notin t
  BY <1>3, <1>5, FS_Subset
<1>7. Cardinality(s) = k + 1 /\ k \in Nat
  BY <1>6, FS_AddElement, FS_CardinalityType
<1>8. PICK q : Sorts(t, q)
  BY <1>2, <1>6
<1> HIDE DEF t, k
<1> DEFINE p == [i \in 1 .. k + 1 |-> IF i = k + 1 THEN a ELSE q[i]]
<1>9. \A i \in 1 .. k : q[i] \in t /\ p[i] = q[i] /\ q[i].id < a.id
  <2>1. \A i \in 1 .. k : q[i] \in t /\ p[i] = q[i]
    BY <1>7, <1>8 DEF k
  <2>2. \A h \in t : h.id < a.id
    <3>1. \A h \in t : h \in s /\ h # a /\ h.id \in Int /\ a.id \in Int
      BY <1>3, <1>6
    <3>2. \A h \in t : h.id # a.id
      BY <1>3, <1>6, <3>1
    <3> QED BY <1>5, <3>1, <3>2
  <2> QED BY <2>1, <2>2
<1>10. p[k + 1] = a /\ p \in [1 .. k + 1 -> s]
  BY <1>6, <1>7, <1>9
<1>11. \A i, j \in 1 .. k + 1 : i < j => p[i].id < p[j].id
  <2>1. SUFFICES ASSUME NEW i \in 1 .. k + 1, NEW j \in 1 .. k + 1, i < j
                 PROVE  p[i].id < p[j].id
    OBVIOUS
  <2>2. i \in 1 .. k
    BY <1>7, <2>1
  <2>3. CASE j = k + 1
    BY <1>9, <1>10, <2>2, <2>3
  <2>4. CASE j \in 1 .. k
    <3>1. q[i].id < q[j].id
      BY <1>8, <2>1, <2>2, <2>4 DEF k
    <3> QED BY <1>9, <2>2, <2>4, <3>1
  <2> QED BY <1>7, <2>3, <2>4
<1> HIDE DEF p
<1>12. Sorts(s, p)
  BY <1>7, <1>10, <1>11
<1> QED BY <1>2, <1>12

\* What a node sends is an HTLC it placed or a removal it decided.
LEMMA UpdateDeliverable ==
    ASSUME NEW n \in Nodes, NEW c, NEW I \in [Payments -> Int], NEW S,
           NEW L \in SUBSET Payments, NEW C \in SUBSET Payments, NEW R \in SUBSET Payments,
           NodeOK(n, c, I, S, L, C, R), IdsUnique(I)
    PROVE  get_last_commitment_update_for_send(n, c) \in Seq(Deliverable(Peer(n), I, C, R))
<1> DEFINE D == Deliverable(Peer(n), I, C, R)
<1>1. c \in Channel /\ OutOK(n, c, I, C, R) /\ InOK(n, c, I, L, C, R)
  BY DEF NodeOK
<1>2. c.inb \subseteq InHtlcs /\ c.out \subseteq OutHtlcs /\ c.cpNum \in Nat
  BY <1>1 DEF Channel
<1>3. ASSUME NEW X, X \subseteq c.out \/ X \subseteq c.inb
      PROVE  /\ Cardinality(X) \in Nat /\ ById(X) \in [1 .. Cardinality(X) -> X]
  <2>1. IsFiniteSet(X)
    BY <1>1, <1>3, FS_Subset DEF OutOK, InOK
  <2>2. \A h \in X : h.id \in Int /\ h.pay \in Payments /\ h.id = I[h.pay]
    BY <1>1, <1>2, <1>3 DEF OutOK, InOK, InHtlcs, OutHtlcs
  <2>3. \A g, h \in X : g.id = h.id => g = h
    <3>1. SUFFICES ASSUME NEW g \in X, NEW h \in X, g.id = h.id PROVE g = h
      OBVIOUS
    <3>2. I[g.pay] = I[h.pay] /\ g.id \in Nat
      BY <1>2, <1>3, <2>2, <3>1 DEF InHtlcs, OutHtlcs
    <3>3. PayFrom[g.pay] = PayFrom[h.pay]
      BY <1>1, <1>3, <2>2, PeerFacts DEF OutOK, InOK
    <3>4. g.pay = h.pay
      BY <2>2, <3>2, <3>3 DEF IdsUnique
    <3> QED BY <1>1, <1>3, <3>4 DEF OutOK, InOK
  <2> QED BY <2>1, <2>2, <2>3, ByIdSorts, FS_CardinalityType
<1> DEFINE XA == {h \in c.out : h.st = "LocalAnnounced"}
           XR(o) == {h \in c.inb : h.st = "LocalRemoved" /\ h.out = o}
           adds == ById(XA)
           gone(o) == ById(XR(o))
           removals(o) == [i \in DOMAIN gone(o) |-> [t |-> o, id |-> gone(o)[i].id]]
           A == [i \in DOMAIN adds |-> [t |-> "add", id |-> adds[i].id, pay |-> adds[i].pay]]
           cs == [t |-> "cs", tx |-> build_commitment_transaction(n, c, c.cpNum, TRUE)]
<1>4. get_last_commitment_update_for_send(n, c) =
        A \o removals("fulfil") \o removals("fail") \o <<cs>>
  BY DEF get_last_commitment_update_for_send
<1>5. A \in Seq(D)
  <2>1. adds \in [1 .. Cardinality(XA) -> XA] /\ Cardinality(XA) \in Nat
    BY <1>3
  <2>2. \A h \in XA : [t |-> "add", id |-> h.id, pay |-> h.pay] \in D
    <3>1. SUFFICES ASSUME NEW h \in XA
                   PROVE  [t |-> "add", id |-> h.id, pay |-> h.pay] \in D
      OBVIOUS
    <3>2. h.id \in Nat /\ h.pay \in Payments /\ PayFrom[h.pay] = n /\ h.id = I[h.pay]
      BY <1>1, <1>2 DEF OutOK, OutHtlcs
    <3>3. PayTo(h.pay) = Peer(n)
      BY <3>2, PeerFacts
    <3> DEFINE m == [t |-> "add", id |-> h.id, pay |-> h.pay]
    <3>4. m \in Messages /\ m.t = "add" /\ m.id = h.id /\ m.pay = h.pay
      BY <3>2 DEF Messages
    <3> HIDE DEF m
    <3>5. m \in D
      BY <3>2, <3>3, <3>4 DEF Deliverable
    <3> QED BY <3>5 DEF m
  <2> HIDE DEF adds, XA, D
  <2>3. A \in [1 .. Cardinality(XA) -> D]
    BY <2>1, <2>2
  <2> HIDE DEF A
  <2> QED BY <2>1, <2>3
<1>6. ASSUME NEW o \in {"fulfil", "fail"} PROVE removals(o) \in Seq(D)
  <2> DEFINE X == XR(o)
             q == gone(o)
  <2>1. q \in [1 .. Cardinality(X) -> X] /\ Cardinality(X) \in Nat
    BY <1>3
  <2>2. \A h \in X : [t |-> o, id |-> h.id] \in D
    <3>1. SUFFICES ASSUME NEW h \in X
                   PROVE  [t |-> o, id |-> h.id] \in D
      OBVIOUS
    <3>2. /\ h.id \in Nat /\ h.pay \in Payments /\ PayTo(h.pay) = n /\ h.id = I[h.pay]
          /\ h.out = o /\ Decided(h, C, R)
      BY <1>1, <1>2 DEF InOK, InHtlcs
    <3>3. PayFrom[h.pay] = Peer(n)
      BY <3>2, PeerFacts
    <3> DEFINE m == [t |-> o, id |-> h.id]
    <3>4. m \in Messages /\ m.t = o /\ m.id = h.id
      BY <3>2 DEF Messages
    <3>5. /\ o = "fulfil" => h.pay \in C
          /\ o = "fail" => h.pay \in R
      BY <3>2 DEF Decided
    <3> HIDE DEF m
    <3>6. m \in D
      BY <3>2, <3>3, <3>4, <3>5 DEF Deliverable
    <3> QED BY <3>6 DEF m
  <2>3. removals(o) = [i \in DOMAIN q |-> [t |-> o, id |-> q[i].id]]
    OBVIOUS
  <2> HIDE DEF q, X, D, removals, gone, XR
  <2>4. removals(o) \in [1 .. Cardinality(X) -> D]
    BY <2>1, <2>2, <2>3
  <2> QED BY <2>1, <2>4
<1>7. cs \in D
  <2>1. build_commitment_transaction(n, c, c.cpNum, TRUE) \in Txs
    BY <1>1, <1>2, TxTyped DEF OutOK, InOK
  <2>2. cs \in Messages /\ cs.t = "cs"
    BY <2>1 DEF Messages
  <2> HIDE DEF cs
  <2> QED BY <2>2 DEF Deliverable
<1> HIDE DEF D, A, removals, cs
<1> QED BY <1>4, <1>5, <1>6, <1>7 DEF D

\* So is what it sends again when it resumes.
LEMMA ResumptionDeliverable ==
    ASSUME NEW n \in Nodes, NEW c, NEW I \in [Payments -> Int], NEW S,
           NEW L \in SUBSET Payments, NEW C \in SUBSET Payments, NEW R \in SUBSET Payments,
           NodeOK(n, c, I, S, L, C, R), IdsUnique(I), NEW raa, NEW cs
    PROVE  /\ Resumption(n, c, raa, cs) \in Seq(Deliverable(Peer(n), I, C, R))
           /\ get_outbound_shutdown(c) \in Seq(Deliverable(Peer(n), I, C, R))
<1> DEFINE D == Deliverable(Peer(n), I, C, R)
           m == [t |-> "raa", num |-> c.holderNum - 2]
           sh == [t |-> "shutdown"]
           upd == get_last_commitment_update_for_send(n, c)
<1>1. upd \in Seq(D)
  BY UpdateDeliverable
<1>2. m \in D
  <2>1. c.holderNum \in Nat
    BY DEF NodeOK, Channel
  <2>2. m \in Messages /\ m.t = "raa"
    BY <2>1 DEF Messages
  <2> HIDE DEF m
  <2> QED BY <2>2 DEF Deliverable
<1>3. sh \in D
  <2>1. sh \in Messages /\ sh.t = "shutdown"
    BY DEF Messages
  <2> HIDE DEF sh
  <2> QED BY <2>1 DEF Deliverable
<1>4. <<>> \in Seq(D) /\ <<m>> \in Seq(D) /\ <<sh>> \in Seq(D)
  <2> HIDE DEF D, m, sh
  <2> QED BY <1>2, <1>3
<1>5. get_last_revoke_and_ack(c) = <<m>>
  BY DEF get_last_revoke_and_ack
<1> HIDE DEF D, m, upd
<1>6. Resumption(n, c, raa, cs) \in Seq(D)
  <2> DEFINE r == IF raa THEN <<m>> ELSE <<>>
             u == IF cs THEN upd ELSE <<>>
  <2>1. Resumption(n, c, raa, cs) = IF c.order = "CommitmentFirst" THEN u \o r ELSE r \o u
    BY <1>5 DEF Resumption, upd
  <2>2. r \in Seq(D) /\ u \in Seq(D)
    BY <1>1, <1>4
  <2> HIDE DEF r, u
  <2> QED BY <2>1, <2>2
<1>7. get_outbound_shutdown(c) \in Seq(D)
  BY <1>4 DEF get_outbound_shutdown
<1> QED BY <1>6, <1>7 DEF D
=============================================================================
