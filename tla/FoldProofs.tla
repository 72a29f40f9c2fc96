----------------------------- MODULE FoldProofs -----------------------------
(***************************************************************************)
(* Folds over finite sets.  Induction goes through a smallest set or       *)
(* number for which a fact fails: these are data, so no operator is a      *)
(* parameter.                                                              *)
(***************************************************************************)
EXTENDS Integers, FiniteSetsExt, FiniteSetTheorems, WellFoundedInduction, TLAPS

\* Of the numbers something fails for, one is least.
LEMMA LeastNumber ==
    ASSUME NEW Bad \in SUBSET Nat, Bad # {}
    PROVE  \E n \in Bad : n = 0 \/ n - 1 \in Nat \ Bad
  <1>1. PICK n \in Bad : \A m \in Bad : <<m, n>> \notin OpToRel(<, Nat)
    BY NatLessThanWellFounded, WFMin, Zenon
  <1>2. ASSUME n # 0, n - 1 \in Bad
        PROVE  FALSE
    <2>1. <<n - 1, n>> \in Nat \X Nat /\ n - 1 < n
      BY <1>2
    <2> QED BY <1>1, <1>2, <2>1 DEF OpToRel
  <1> QED BY <1>2

\* Of the sets something fails for, one is smallest.
LEMMA SmallestSet ==
    ASSUME NEW S, IsFiniteSet(S), NEW Bad \in SUBSET SUBSET S, Bad # {}
    PROVE  \E s \in Bad : \A x \in s : s \ {x} \notin Bad
  <1>1. IsWellFoundedOn(StrictSubsetOrdering(S), SUBSET S)
    BY FS_StrictSubsetOrderingWellFounded, FS_FiniteSubsetsOfFinite
  <1>2. PICK s \in Bad : \A t \in Bad : <<t, s>> \notin StrictSubsetOrdering(S)
    BY <1>1, WFMin
  <1>3. ASSUME NEW x \in s, s \ {x} \in Bad
        PROVE  FALSE
    <2>1. <<s \ {x}, s>> \in (SUBSET S) \X (SUBSET S) /\ s \ {x} \subseteq s /\ s \ {x} # s
      BY <1>3
    <2> QED BY <1>2, <1>3, <2>1 DEF StrictSubsetOrdering
  <1> QED BY <1>3

\* pick names an element of every set of elements of S.
Picking(S) == {pick \in [(SUBSET S) \ {{}} -> S] : \A s \in (SUBSET S) \ {{}} : pick[s] \in s}

\* What the fold of h from first is on s, when it is iter on the rest.
Folding(iter, first, h, pick, s) == IF s = {} THEN first ELSE h[<<pick[s], iter[s \ {pick[s]}]>>]

\* iter folds the subsets of S.
IsFold(iter, S, A, first, h, pick) ==
    iter \in [SUBSET S -> A] /\ \A s \in SUBSET S : iter[s] = Folding(iter, first, h, pick, s)

\* A fold exists.
LEMMA FoldExists ==
    ASSUME NEW S, IsFiniteSet(S), NEW A, NEW first \in A, NEW h \in [S \X A -> A],
           NEW pick \in Picking(S)
    PROVE  \E iter : IsFold(iter, S, A, first, h, pick)
  <1> DEFINE Level(n)     == {s \in SUBSET S : Cardinality(s) <= n}
             Folded(g, n) == \A s \in Level(n) : g[s] = Folding(g, first, h, pick, s)
             Bad          == {n \in Nat : ~ \E g \in [Level(n) -> A] : Folded(g, n)}
  <1>1. \A s \in SUBSET S : /\ IsFiniteSet(s) /\ Cardinality(s) \in Nat /\ Cardinality(s) <= Cardinality(S)
                            /\ Cardinality(s) = 0 <=> s = {}
    BY FS_Subset, FS_CardinalityType, FS_EmptySet
  <1>2. \A s \in SUBSET S : s # {} =>
          /\ pick[s] \in S /\ pick[s] \in s /\ s \ {pick[s]} \in SUBSET S
          /\ Cardinality(s \ {pick[s]}) = Cardinality(s) - 1
    BY <1>1, FS_RemoveElement DEF Picking
  <1>3. 0 \notin Bad
    <2> DEFINE g == [s \in Level(0) |-> first]
    <2>1. Level(0) = {{}}
      BY <1>1
    <2>2. g \in [Level(0) -> A] /\ Folded(g, 0)
      BY <2>1 DEF Folding
    <2> QED BY <2>2
  <1>4. ASSUME NEW n \in Nat, n # 0, n - 1 \in Nat \ Bad
        PROVE  n \notin Bad
    <2>1. PICK f \in [Level(n - 1) -> A] : Folded(f, n - 1)
      BY <1>4
    <2> DEFINE g == [s \in Level(n) |-> Folding(f, first, h, pick, s)]
    <2>2. \A s \in Level(n) : s # {} => s \ {pick[s]} \in Level(n - 1)
      BY <1>1, <1>2
    <2>3. g \in [Level(n) -> A]
      <3>1. \A s \in Level(n) : Folding(f, first, h, pick, s) \in A
        BY <1>2, <2>2 DEF Folding
      <3> QED BY <3>1
    <2>4. \A s \in Level(n - 1) : s \in Level(n) /\ g[s] = f[s]
      <3>1. \A s \in Level(n - 1) : s \in Level(n)
        BY <1>1
      <3> QED BY <2>1, <3>1
    <2>5. Folded(g, n)
      <3>1. \A s \in Level(n) : s # {} => g[s \ {pick[s]}] = f[s \ {pick[s]}]
        BY <2>2, <2>4
      <3> QED BY <3>1 DEF Folding
    <2> QED BY <2>3, <2>5
  <1>5. Bad = {}
    <2> HIDE DEF Bad
    <2>1. Bad \in SUBSET Nat
      BY DEF Bad
    <2> QED BY <1>3, <1>4, <2>1, LeastNumber
  <1>6. Cardinality(S) \in Nat /\ Level(Cardinality(S)) = SUBSET S
    BY <1>1, FS_CardinalityType
  <1>7. \E g \in [Level(Cardinality(S)) -> A] : Folded(g, Cardinality(S))
    BY <1>5, <1>6
  <1> QED BY <1>6, <1>7 DEF IsFold

\* A set of numbers from an interval has a greatest.
LEMMA MaxOfSome ==
    ASSUME NEW n \in Nat, NEW s \in SUBSET (1 .. n), s # {}
    PROVE  Max(s) \in s /\ \A x \in s : Max(s) >= x
  <1> DEFINE Gap == {m \in Nat : \E x \in s : n - x <= m /\ ~ \E z \in s : \A y \in s : z >= y}
  <1>1. ASSUME ~ \E z \in s : \A y \in s : z >= y
        PROVE  FALSE
    <2>1. Gap \in SUBSET Nat
      OBVIOUS
    <2>2. PICK x \in s : TRUE
      OBVIOUS
    <2>3. n - x \in Nat /\ n - x <= n - x
      BY <2>2
    <2>4. n - x \in Gap
      BY <1>1, <2>2, <2>3
    <2>5. PICK m \in Gap : m = 0 \/ m - 1 \in Nat \ Gap
      <3> HIDE DEF Gap
      <3> QED BY <2>1, <2>4, LeastNumber
    <2>6. PICK z \in s : n - z <= m
      OBVIOUS
    <2>7. PICK y \in s : ~ (z >= y)
      BY <1>1
    <2>8. n - y <= m - 1 /\ m - 1 \in Nat
      BY <2>5, <2>6, <2>7
    <2>9. m - 1 \in Gap
      BY <1>1, <2>8
    <2> QED BY <2>5, <2>8, <2>9
  <1> QED BY <1>1 DEF Max

-----------------------------------------------------------------------------
(* Sums *)

\* How SumFunctionOnSet adds up the subsets of S.
Adds(iter, f, S) ==
    iter = [s \in SUBSET S |-> IF s = {} THEN 0
                               ELSE LET x == CHOOSE x \in s : TRUE
                                    IN  f[x] + iter[s \ {x}]]

LEMMA SumAsFold ==
    ASSUME NEW S, NEW f
    PROVE  SumFunctionOnSet(f, S) = (CHOOSE iter : Adds(iter, f, S))[S]
  BY DEF SumFunctionOnSet, FoldFunctionOnSet, MapThenFoldSet, Adds

Summable(f, S) == IsFiniteSet(S) /\ \A x \in S : f[x] \in Int

LEMMA AddsExists ==
    ASSUME NEW S, NEW f, Summable(f, S)
    PROVE  \E iter : iter \in [SUBSET S -> Int] /\ Adds(iter, f, S)
  <1> DEFINE pick == [s \in (SUBSET S) \ {{}} |-> CHOOSE x \in s : TRUE]
             h    == [p \in S \X Int |-> f[p[1]] + p[2]]
  <1>1. /\ \A s \in (SUBSET S) \ {{}} : pick[s] = (CHOOSE x \in s : TRUE) /\ pick[s] \in s
        /\ pick \in Picking(S)
    <2>1. ASSUME NEW s \in (SUBSET S) \ {{}}
          PROVE  (CHOOSE x \in s : TRUE) \in s
      OBVIOUS
    <2> QED BY <2>1 DEF Picking
  <1>2. h \in [S \X Int -> Int] /\ \A x \in S, n \in Int : h[<<x, n>>] = f[x] + n
    BY DEF Summable
  <1> HIDE DEF pick, h
  <1>3. PICK iter : /\ iter \in [SUBSET S -> Int]
                    /\ \A s \in SUBSET S : iter[s] = Folding(iter, 0, h, pick, s)
    <2>1. PICK A : A = Int
      OBVIOUS
    <2>2. 0 \in A /\ h \in [S \X A -> A]
      BY <1>2, <2>1
    <2>3. \E iter : IsFold(iter, S, A, 0, h, pick)
      BY <1>1, <2>2, FoldExists DEF Summable
    <2> QED BY <2>1, <2>3 DEF IsFold
  <1>4. ASSUME NEW s \in SUBSET S, s # {}
        PROVE  iter[s] = f[CHOOSE x \in s : TRUE] + iter[s \ {CHOOSE x \in s : TRUE}]
    <2>1. pick[s] \in S /\ s \ {pick[s]} \in SUBSET S
      BY <1>1, <1>4
    <2>2. iter[s] = h[<<pick[s], iter[s \ {pick[s]}]>>]
      BY <1>3, <1>4 DEF Folding
    <2>3. iter[s] = f[pick[s]] + iter[s \ {pick[s]}]
      BY <1>2, <1>3, <2>1, <2>2
    <2> QED BY <1>1, <1>4, <2>3
  <1>5. iter[{}] = 0
    BY <1>3 DEF Folding
  <1>6. \A s \in SUBSET S :
          iter[s] = IF s = {} THEN 0
                    ELSE f[CHOOSE x \in s : TRUE] + iter[s \ {CHOOSE x \in s : TRUE}]
    BY <1>4, <1>5
  <1>7. Adds(iter, f, S)
    BY <1>3, <1>6 DEF Adds
  <1> QED BY <1>3, <1>7

\* Two ways to add up agree.
LEMMA AddsAgree ==
    ASSUME NEW S, IsFiniteSet(S), NEW T \in SUBSET S, NEW f, NEW i, NEW j, Adds(i, f, S), Adds(j, f, T)
    PROVE  \A s \in SUBSET T : i[s] = j[s]
  <1> DEFINE Bad == {s \in SUBSET T : i[s] # j[s]}
  <1>1. ASSUME NEW s \in Bad, \A x \in s : s \ {x} \notin Bad
        PROVE  FALSE
    <2>1. CASE s = {}
      <3>1. i[s] = 0 /\ j[s] = 0
        BY <2>1 DEF Adds
      <3> QED BY <1>1, <3>1
    <2>2. CASE s # {}
      <3>1. PICK x \in s : x = CHOOSE y \in s : TRUE
        BY <2>2
      <3>2. i[s] = f[x] + i[s \ {x}] /\ j[s] = f[x] + j[s \ {x}]
        BY <2>2, <3>1 DEF Adds
      <3>3. i[s \ {x}] = j[s \ {x}]
        BY <1>1
      <3> QED BY <1>1, <3>2, <3>3
    <2> QED BY <2>1, <2>2
  <1>2. IsFiniteSet(T) /\ Bad \in SUBSET SUBSET T
    BY FS_Subset
  <1> HIDE DEF Bad
  <1>3. Bad = {}
    BY <1>1, <1>2, SmallestSet
  <1> QED BY <1>3 DEF Bad

\* iter has the sums over the subsets of S.
IsSum(iter, f, S) ==
    /\ iter \in [SUBSET S -> Int] /\ Adds(iter, f, S)
    /\ \A s \in SUBSET S : SumFunctionOnSet(f, s) = iter[s]

LEMMA SumAdds ==
    ASSUME NEW S, NEW f, Summable(f, S)
    PROVE  \E iter : IsSum(iter, f, S)
  <1>1. PICK iter : iter \in [SUBSET S -> Int] /\ Adds(iter, f, S)
    BY AddsExists
  <1>2. ASSUME NEW s \in SUBSET S
        PROVE  SumFunctionOnSet(f, s) = iter[s]
    <2>1. Summable(f, s)
      BY FS_Subset DEF Summable
    <2>2. \E j : Adds(j, f, s)
      BY <2>1, AddsExists
    <2> DEFINE j == CHOOSE j : Adds(j, f, s)
    <2>3. Adds(j, f, s)
      BY <2>2
    <2> HIDE DEF j
    <2>4. iter[s] = j[s]
      BY <1>1, <2>3, AddsAgree DEF Summable
    <2> QED BY <2>4, SumAsFold DEF j
  <1> QED BY <1>1, <1>2 DEF IsSum

LEMMA SumEmpty ==
    ASSUME NEW f
    PROVE  SumFunctionOnSet(f, {}) = 0
  <1>1. Summable(f, {})
    BY FS_EmptySet DEF Summable
  <1>2. PICK iter : IsSum(iter, f, {})
    BY <1>1, SumAdds
  <1> QED BY <1>2 DEF IsSum, Adds

LEMMA SumType ==
    ASSUME NEW S, NEW f, Summable(f, S)
    PROVE  SumFunctionOnSet(f, S) \in Int
  <1>1. PICK iter : IsSum(iter, f, S)
    BY SumAdds
  <1> QED BY <1>1 DEF IsSum

\* Whichever element is picked first.
LEMMA SumWithout ==
    ASSUME NEW S, NEW f, Summable(f, S), NEW x \in S
    PROVE  SumFunctionOnSet(f, S) = f[x] + SumFunctionOnSet(f, S \ {x})
  <1>1. PICK iter : IsSum(iter, f, S)
    BY SumAdds
  <1> DEFINE Bad == {s \in SUBSET S : \E y \in s : iter[s] # f[y] + iter[s \ {y}]}
  <1>2. ASSUME NEW s \in Bad, \A y \in s : s \ {y} \notin Bad
        PROVE  FALSE
    <2>1. PICK y \in s : iter[s] # f[y] + iter[s \ {y}]
      OBVIOUS
    <2>2. PICK z \in s : z = CHOOSE c \in s : TRUE
      OBVIOUS
    <2>3. iter[s] = f[z] + iter[s \ {z}]
      BY <1>1, <2>2 DEF IsSum, Adds
    <2>4. y # z
      BY <2>1, <2>3
    <2>5. iter[s \ {z}] = f[y] + iter[(s \ {z}) \ {y}]
      BY <1>2, <2>4
    <2>6. iter[s \ {y}] = f[z] + iter[(s \ {y}) \ {z}]
      BY <1>2, <2>4
    <2>7. (s \ {y}) \ {z} = (s \ {z}) \ {y}
      OBVIOUS
    <2>8. f[y] \in Int /\ f[z] \in Int /\ iter[(s \ {z}) \ {y}] \in Int
      BY <1>1 DEF IsSum, Summable
    <2>9. f[z] + (f[y] + iter[(s \ {z}) \ {y}]) = f[y] + (f[z] + iter[(s \ {z}) \ {y}])
      BY <2>8
    <2> QED BY <2>1, <2>3, <2>5, <2>6, <2>7, <2>9, Zenon
  <1>3. Bad \in SUBSET SUBSET S
    OBVIOUS
  <1>4. IsFiniteSet(S)
    BY DEF Summable
  <1> HIDE DEF Bad
  <1>5. Bad = {}
    BY <1>2, <1>3, <1>4, SmallestSet
  <1>6. iter[S] = f[x] + iter[S \ {x}]
    BY <1>5 DEF Bad
  <1> QED BY <1>1, <1>6 DEF IsSum

LEMMA SumSame ==
    ASSUME NEW S, NEW f, NEW g, Summable(f, S), \A x \in S : f[x] = g[x]
    PROVE  SumFunctionOnSet(f, S) = SumFunctionOnSet(g, S)
  <1>1. Summable(g, S)
    BY DEF Summable
  <1> DEFINE Bad == {s \in SUBSET S : SumFunctionOnSet(f, s) # SumFunctionOnSet(g, s)}
  <1>2. ASSUME NEW s \in Bad, \A y \in s : s \ {y} \notin Bad
        PROVE  FALSE
    <2>1. CASE s = {}
      BY <1>2, <2>1, SumEmpty
    <2>2. CASE s # {}
      <3>1. PICK y \in s : TRUE
        BY <2>2
      <3>2. Summable(f, s) /\ Summable(g, s)
        BY <1>1, FS_Subset DEF Summable
      <3>3. SumFunctionOnSet(f, s) = f[y] + SumFunctionOnSet(f, s \ {y})
        BY <3>2, SumWithout
      <3>4. SumFunctionOnSet(g, s) = g[y] + SumFunctionOnSet(g, s \ {y})
        BY <3>2, SumWithout
      <3>5. SumFunctionOnSet(f, s \ {y}) = SumFunctionOnSet(g, s \ {y})
        BY <1>2
      <3> QED BY <1>2, <3>3, <3>4, <3>5
    <2> QED BY <2>1, <2>2
  <1>3. Bad \in SUBSET SUBSET S /\ IsFiniteSet(S)
    BY DEF Summable
  <1> HIDE DEF Bad
  <1>4. Bad = {}
    BY <1>2, <1>3, SmallestSet
  <1> QED BY <1>4 DEF Bad

\* What adds nothing can be left out.
LEMMA SumOfNothing ==
    ASSUME NEW S, NEW f, Summable(f, S), NEW T \in SUBSET S, \A x \in S \ T : f[x] = 0
    PROVE  SumFunctionOnSet(f, S) = SumFunctionOnSet(f, T)
  <1> DEFINE Bad == {s \in SUBSET (S \ T) : SumFunctionOnSet(f, s \union T) # SumFunctionOnSet(f, T)}
  <1>1. ASSUME NEW s \in Bad, \A y \in s : s \ {y} \notin Bad
        PROVE  FALSE
    <2>1. CASE s = {}
      <3>1. s \union T = T
        BY <2>1
      <3> QED BY <1>1, <3>1
    <2>2. CASE s # {}
      <3>1. PICK y \in s : TRUE
        BY <2>2
      <3>2. Summable(f, s \union T) /\ Summable(f, T)
        BY FS_Subset DEF Summable
      <3>3. SumFunctionOnSet(f, s \union T) = f[y] + SumFunctionOnSet(f, (s \union T) \ {y})
        BY <3>2, SumWithout
      <3>4. (s \union T) \ {y} = (s \ {y}) \union T /\ f[y] = 0
        OBVIOUS
      <3>5. SumFunctionOnSet(f, (s \ {y}) \union T) = SumFunctionOnSet(f, T)
        BY <1>1
      <3>6. SumFunctionOnSet(f, T) \in Int
        BY <3>2, SumType
      <3> QED BY <1>1, <3>3, <3>4, <3>5, <3>6
    <2> QED BY <2>1, <2>2
  <1>2. Bad \in SUBSET SUBSET (S \ T) /\ IsFiniteSet(S \ T)
    BY FS_Subset DEF Summable
  <1> HIDE DEF Bad
  <1>3. Bad = {}
    BY <1>1, <1>2, SmallestSet
  <1>4. SumFunctionOnSet(f, (S \ T) \union T) = SumFunctionOnSet(f, T)
    BY <1>3 DEF Bad
  <1>5. (S \ T) \union T = S
    OBVIOUS
  <1> QED BY <1>4, <1>5

\* Of numbers that are not negative.
LEMMA SumOfNaturals ==
    ASSUME NEW S, NEW f, IsFiniteSet(S), \A x \in S : f[x] \in Nat
    PROVE  /\ SumFunctionOnSet(f, S) \in Nat
           /\ \A x \in S : SumFunctionOnSet(f, S) >= f[x]
  <1> DEFINE Bad == {s \in SUBSET S : SumFunctionOnSet(f, s) \notin Nat}
  <1>1. \A s \in SUBSET S : Summable(f, s)
    BY FS_Subset DEF Summable
  <1>2. ASSUME NEW s \in Bad, \A y \in s : s \ {y} \notin Bad
        PROVE  FALSE
    <2>1. CASE s = {}
      BY <1>2, <2>1, SumEmpty
    <2>2. CASE s # {}
      <3>1. PICK y \in s : TRUE
        BY <2>2
      <3>2. SumFunctionOnSet(f, s) = f[y] + SumFunctionOnSet(f, s \ {y})
        BY <1>1, SumWithout
      <3>3. SumFunctionOnSet(f, s \ {y}) \in Nat
        BY <1>2
      <3> QED BY <1>2, <3>2, <3>3
    <2> QED BY <2>1, <2>2
  <1>3. Bad \in SUBSET SUBSET S
    OBVIOUS
  <1> HIDE DEF Bad
  <1>4. Bad = {}
    BY <1>2, <1>3, SmallestSet
  <1>5. \A s \in SUBSET S : SumFunctionOnSet(f, s) \in Nat
    BY <1>4 DEF Bad
  <1>6. ASSUME NEW x \in S
        PROVE  SumFunctionOnSet(f, S) >= f[x]
    <2>1. SumFunctionOnSet(f, S) = f[x] + SumFunctionOnSet(f, S \ {x})
      BY <1>1, SumWithout
    <2>2. SumFunctionOnSet(f, S \ {x}) \in Nat
      BY <1>5
    <2> QED BY <2>1, <2>2
  <1> QED BY <1>5, <1>6

LEMMA SumOfOne ==
    ASSUME NEW f, NEW x, f[x] \in Int
    PROVE  SumFunctionOnSet(f, {x}) = f[x]
  <1>1. Summable(f, {x})
    BY FS_Singleton DEF Summable
  <1>2. SumFunctionOnSet(f, {x}) = f[x] + SumFunctionOnSet(f, {x} \ {x})
    BY <1>1, SumWithout
  <1>3. {x} \ {x} = {}
    OBVIOUS
  <1> QED BY <1>2, <1>3, SumEmpty

\* The sum of the sums.
LEMMA SumPlus ==
    ASSUME NEW S, NEW f, NEW g, NEW h, Summable(f, S), Summable(g, S), \A x \in S : h[x] = f[x] + g[x]
    PROVE  SumFunctionOnSet(h, S) = SumFunctionOnSet(f, S) + SumFunctionOnSet(g, S)
  <1> DEFINE Bad == {s \in SUBSET S : SumFunctionOnSet(h, s)
                                        # SumFunctionOnSet(f, s) + SumFunctionOnSet(g, s)}
  <1>1. \A s \in SUBSET S : Summable(f, s) /\ Summable(g, s) /\ Summable(h, s)
    BY FS_Subset DEF Summable
  <1>2. ASSUME NEW s \in Bad, \A y \in s : s \ {y} \notin Bad
        PROVE  FALSE
    <2>1. CASE s = {}
      BY <1>2, <2>1, SumEmpty
    <2>2. CASE s # {}
      <3>1. PICK y \in s : TRUE
        BY <2>2
      <3>2. /\ SumFunctionOnSet(f, s) = f[y] + SumFunctionOnSet(f, s \ {y})
            /\ SumFunctionOnSet(g, s) = g[y] + SumFunctionOnSet(g, s \ {y})
            /\ SumFunctionOnSet(h, s) = h[y] + SumFunctionOnSet(h, s \ {y})
        BY <1>1, SumWithout
      <3>3. SumFunctionOnSet(h, s \ {y}) = SumFunctionOnSet(f, s \ {y}) + SumFunctionOnSet(g, s \ {y})
        BY <1>2
      <3>4. SumFunctionOnSet(f, s \ {y}) \in Int /\ SumFunctionOnSet(g, s \ {y}) \in Int
        BY <1>1, SumType
      <3>5. f[y] \in Int /\ g[y] \in Int /\ h[y] = f[y] + g[y]
        BY DEF Summable
      <3> QED BY <1>2, <3>2, <3>3, <3>4, <3>5
    <2> QED BY <2>1, <2>2
  <1>3. Bad \in SUBSET SUBSET S /\ IsFiniteSet(S)
    BY DEF Summable
  <1> HIDE DEF Bad
  <1>4. Bad = {}
    BY <1>2, <1>3, SmallestSet
  <1> QED BY <1>4 DEF Bad

\* A set is counted by adding ones.
LEMMA SumOfOnes ==
    ASSUME NEW S, NEW f, IsFiniteSet(S), \A x \in S : f[x] = 1
    PROVE  SumFunctionOnSet(f, S) = Cardinality(S)
  <1> DEFINE Bad == {s \in SUBSET S : SumFunctionOnSet(f, s) # Cardinality(s)}
  <1>1. \A s \in SUBSET S : Summable(f, s) /\ IsFiniteSet(s)
    BY FS_Subset DEF Summable
  <1>2. ASSUME NEW s \in Bad, \A y \in s : s \ {y} \notin Bad
        PROVE  FALSE
    <2>1. CASE s = {}
      BY <1>2, <2>1, SumEmpty, FS_EmptySet
    <2>2. CASE s # {}
      <3>1. PICK y \in s : TRUE
        BY <2>2
      <3>2. SumFunctionOnSet(f, s) = f[y] + SumFunctionOnSet(f, s \ {y})
        BY <1>1, SumWithout
      <3>3. SumFunctionOnSet(f, s \ {y}) = Cardinality(s \ {y})
        BY <1>2
      <3>4. Cardinality(s \ {y}) = Cardinality(s) - 1 /\ Cardinality(s) \in Nat /\ f[y] = 1
        BY <1>1, FS_RemoveElement, FS_CardinalityType
      <3> QED BY <1>2, <3>2, <3>3, <3>4
    <2> QED BY <2>1, <2>2
  <1>3. Bad \in SUBSET SUBSET S
    OBVIOUS
  <1> HIDE DEF Bad
  <1>4. Bad = {}
    BY <1>2, <1>3, SmallestSet
  <1> QED BY <1>4 DEF Bad

\* Two sums that differ at one element.
LEMMA SumDiffers ==
    ASSUME NEW S, NEW f, NEW g, NEW b \in S, Summable(f, S), Summable(g, S),
           \A x \in S \ {b} : f[x] = g[x]
    PROVE  SumFunctionOnSet(f, S) - f[b] = SumFunctionOnSet(g, S) - g[b]
  <1>1. Summable(f, S \ {b})
    BY FS_Subset DEF Summable
  <1>2. SumFunctionOnSet(f, S \ {b}) = SumFunctionOnSet(g, S \ {b}) /\ SumFunctionOnSet(f, S \ {b}) \in Int
    BY <1>1, SumSame, SumType
  <1>3. /\ SumFunctionOnSet(f, S) = f[b] + SumFunctionOnSet(f, S \ {b})
        /\ SumFunctionOnSet(g, S) = g[b] + SumFunctionOnSet(g, S \ {b})
    BY SumWithout
  <1>4. f[b] \in Int /\ g[b] \in Int
    BY DEF Summable
  <1> QED BY <1>2, <1>3, <1>4

\* The elements of s that part puts in b.
Part(s, part, b) == {x \in s : part[x] = b}

\* What is put in parts is added up part by part.
LEMMA SumOfParts ==
    ASSUME NEW S, NEW f, Summable(f, S), NEW B, IsFiniteSet(B), NEW part, \A x \in S : part[x] \in B
    PROVE  SumFunctionOnSet(f, S)
              = SumFunctionOnSet([b \in B |-> SumFunctionOnSet(f, Part(S, part, b))], B)
  <1> DEFINE sums(s) == [b \in B |-> SumFunctionOnSet(f, Part(s, part, b))]
             Bad == {s \in SUBSET S : SumFunctionOnSet(f, s) # SumFunctionOnSet(sums(s), B)}
  <1>1. \A s \in SUBSET S : Summable(f, s) /\ \A b \in B : Part(s, part, b) \in SUBSET s
    BY FS_Subset DEF Summable, Part
  <1>2. \A s \in SUBSET S : /\ \A b \in B : sums(s)[b] = SumFunctionOnSet(f, Part(s, part, b))
                            /\ Summable(sums(s), B)
    <2> SUFFICES ASSUME NEW s \in SUBSET S
                 PROVE  /\ \A b \in B : sums(s)[b] = SumFunctionOnSet(f, Part(s, part, b))
                        /\ Summable(sums(s), B)
      OBVIOUS
    <2>1. \A b \in B : Part(s, part, b) \in SUBSET S
      BY <1>1
    <2>2. \A b \in B : SumFunctionOnSet(f, Part(s, part, b)) \in Int
      BY <1>1, <2>1, SumType
    <2>3. \A b \in B : sums(s)[b] = SumFunctionOnSet(f, Part(s, part, b))
      OBVIOUS
    <2> QED BY <2>2, <2>3 DEF Summable
  <1>3. ASSUME NEW s \in Bad, \A y \in s : s \ {y} \notin Bad
        PROVE  FALSE
    <2>1. CASE s = {}
      <3>1. \A b \in B : Part(s, part, b) = {}
        BY <2>1 DEF Part
      <3>2. \A b \in B \ {} : sums(s)[b] = 0
        BY <3>1, SumEmpty
      <3>3. SumFunctionOnSet(sums(s), B) = SumFunctionOnSet(sums(s), {})
        <4>1. Summable(sums(s), B)
          BY <1>2
        <4> HIDE DEF sums
        <4> QED BY <3>2, <4>1, SumOfNothing
      <3>4. SumFunctionOnSet(sums(s), {}) = 0
        BY SumEmpty
      <3> HIDE DEF sums
      <3> QED BY <1>3, <2>1, <3>3, <3>4, SumEmpty
    <2>2. CASE s # {}
      <3>1. PICK y \in s : TRUE
        BY <2>2
      <3> DEFINE t == s \ {y}
                 b == part[y]
      <3>2. s \in SUBSET S /\ t \in SUBSET S /\ b \in B
        OBVIOUS
      <3>3. SumFunctionOnSet(f, s) = f[y] + SumFunctionOnSet(f, t)
        BY <1>1, SumWithout
      <3>4. SumFunctionOnSet(f, t) = SumFunctionOnSet(sums(t), B)
        BY <1>3
      <3>5. \A c \in B \ {b} : Part(s, part, c) = Part(t, part, c)
        BY DEF Part
      <3>6. \A c \in B \ {b} : sums(s)[c] = sums(t)[c]
        BY <3>5
      <3>7. sums(s)[b] = f[y] + sums(t)[b]
        <4>1. Part(t, part, b) = Part(s, part, b) \ {y} /\ y \in Part(s, part, b)
          BY DEF Part
        <4>2. Summable(f, Part(s, part, b))
          BY <1>1, <3>2
        <4>3. SumFunctionOnSet(f, Part(s, part, b)) = f[y] + SumFunctionOnSet(f, Part(s, part, b) \ {y})
          BY <4>1, <4>2, SumWithout
        <4> QED BY <3>2, <4>1, <4>3
      <3>8. Summable(sums(s), B) /\ Summable(sums(t), B) /\ Summable(f, s)
        BY <1>1, <1>2, <3>2
      <3> HIDE DEF sums, t, b
      <3>9. SumFunctionOnSet(sums(s), B) - sums(s)[b] = SumFunctionOnSet(sums(t), B) - sums(t)[b]
        BY <3>2, <3>6, <3>8, SumDiffers
      <3>10. /\ SumFunctionOnSet(sums(s), B) \in Int /\ SumFunctionOnSet(sums(t), B) \in Int
             /\ sums(s)[b] \in Int /\ sums(t)[b] \in Int /\ f[y] \in Int
        BY <3>2, <3>8, SumType DEF Summable
      <3>11. PICK x \in Int : x = SumFunctionOnSet(sums(s), B)
        BY <3>10
      <3>12. PICK z \in Int : z = SumFunctionOnSet(sums(t), B)
        BY <3>10
      <3>13. PICK v \in Int : v = sums(t)[b]
        BY <3>10
      <3>14. x - sums(s)[b] = z - v /\ sums(s)[b] = f[y] + v
        BY <3>7, <3>9, <3>11, <3>12, <3>13
      <3>15. x = f[y] + z
        BY <3>10, <3>14
      <3> QED BY <1>3, <3>3, <3>4, <3>11, <3>12, <3>15
    <2> QED BY <2>1, <2>2
  <1>4. Bad \in SUBSET SUBSET S /\ IsFiniteSet(S)
    BY DEF Summable
  <1> HIDE DEF Bad
  <1>5. Bad = {}
    BY <1>3, <1>4, SmallestSet
  <1> QED BY <1>5 DEF Bad

\* Where every number of runs is the sum over the elements of its part, the runs add up.
LEMMA PartsAddUp ==
    ASSUME NEW S, NEW f, Summable(f, S), NEW B, IsFiniteSet(B), NEW part, \A x \in S : part[x] \in B,
           NEW run, \A b \in B : run[b] = SumFunctionOnSet(f, Part(S, part, b))
    PROVE  SumFunctionOnSet(run, B) = SumFunctionOnSet(f, S)
  <1> DEFINE sums == [b \in B |-> SumFunctionOnSet(f, Part(S, part, b))]
  <1>1. \A b \in B : sums[b] = run[b]
    OBVIOUS
  <1>2. Summable(sums, B)
    <2>1. \A b \in B : Summable(f, Part(S, part, b))
      BY FS_Subset DEF Summable, Part
    <2>2. \A b \in B : sums[b] \in Int
      BY <2>1, SumType
    <2> HIDE DEF sums
    <2> QED BY <2>2 DEF Summable
  <1>3. SumFunctionOnSet(f, S) = SumFunctionOnSet(sums, B)
    BY SumOfParts
  <1> HIDE DEF sums
  <1> QED BY <1>1, <1>2, <1>3, SumSame

\* The sum of the values of f on T, as the sum of a function on T.
LEMMA SumRestricted ==
    ASSUME NEW T, NEW f, Summable(f, T), NEW g, DOMAIN g = T, \A x \in T : g[x] = f[x]
    PROVE  SumFunction(g) = SumFunctionOnSet(f, T)
  BY SumSame DEF SumFunction

\* What is counted in parts.
LEMMA CountsAddUp ==
    ASSUME NEW S, IsFiniteSet(S), NEW B, IsFiniteSet(B), NEW part, \A x \in S : part[x] \in B,
           NEW run, DOMAIN run = B, \A b \in B : run[b] = Cardinality(Part(S, part, b))
    PROVE  SumFunction(run) = Cardinality(S)
  <1> DEFINE ones == [x \in S |-> 1]
  <1>1. \A x \in S : ones[x] = 1
    OBVIOUS
  <1> HIDE DEF ones
  <1>2. Summable(ones, S)
    BY <1>1 DEF Summable
  <1>3. \A b \in B : run[b] = SumFunctionOnSet(ones, Part(S, part, b))
    <2> TAKE b \in B
    <2>1. Part(S, part, b) \subseteq S /\ IsFiniteSet(Part(S, part, b))
      BY FS_Subset DEF Part
    <2>2. \A x \in Part(S, part, b) : ones[x] = 1
      BY <1>1, <2>1
    <2> QED BY <2>1, <2>2, SumOfOnes
  <1>4. SumFunctionOnSet(run, B) = SumFunctionOnSet(ones, S)
    BY <1>2, <1>3, PartsAddUp
  <1>5. SumFunctionOnSet(ones, S) = Cardinality(S)
    BY <1>1, SumOfOnes
  <1> QED BY <1>4, <1>5 DEF SumFunction

\* What is added up in parts.
LEMMA SumsAddUp ==
    ASSUME NEW S, NEW f, Summable(f, S), NEW B, IsFiniteSet(B), NEW part, \A x \in S : part[x] \in B,
           NEW run, DOMAIN run = B, \A b \in B : run[b] = SumFunctionOnSet(f, Part(S, part, b))
    PROVE  SumFunction(run) = SumFunctionOnSet(f, S)
  BY PartsAddUp DEF SumFunction

\* Of sets that share nothing.
LEMMA CountsOfBoth ==
    ASSUME NEW S, NEW T, IsFiniteSet(S), IsFiniteSet(T), S \cap T = {}
    PROVE  Cardinality(S \union T) = Cardinality(S) + Cardinality(T)
  <1>1. Cardinality(S \cap T) = 0
    BY FS_EmptySet
  <1>2. Cardinality(S) \in Nat /\ Cardinality(T) \in Nat
    BY FS_CardinalityType
  <1>3. Cardinality(S \union T) = Cardinality(S) + Cardinality(T) - Cardinality(S \cap T)
    BY FS_Union
  <1> QED BY <1>1, <1>2, <1>3

=============================================================================
