---------------------------- MODULE FunctionSums ----------------------------
(***************************************************************************)
(* What SumFunction of the community modules adds up to.  It is defined by *)
(* a recursive function on the subsets of the domain, taken apart one      *)
(* chosen element at a time: first that function is shown to exist         *)
(* (SumsExist), by the number of elements, and then the facts about sums   *)
(* follow, each by looking at a smallest subset that refutes it.  That a   *)
(* smallest one exists is the well-foundedness of set inclusion and of     *)
(* the natural numbers, so that no induction principle is needed.          *)
(***************************************************************************)
EXTENDS Integers, Functions, FiniteSetTheorems, TLAPS

\* A set of natural numbers that is not empty has a least element.
LEMMA LeastNumber ==
    ASSUME NEW T \in SUBSET Nat, T # {}
    PROVE  \E n \in T : \A m \in T : n <= m
<1> DEFINE R == OpToRel(<, Nat)
<1>1. IsWellFoundedOn(R, Nat)
  BY NatLessThanWellFounded
<1> HIDE DEF R
<1>2. PICK n \in T : \A m \in T : ~(<<m, n>> \in R)
  BY <1>1, WFMin
<1>3. \A m \in T : ~(m < n)
  BY <1>2 DEF R, OpToRel
<1> QED
  BY <1>3

\* A set of finite sets that is not empty has an element that is the only one
\* of its subsets there.
LEMMA SmallestSubset ==
    ASSUME NEW S, IsFiniteSet(S), NEW T \in SUBSET SUBSET S, T # {}
    PROVE  \E s \in T : \A u \in SUBSET s : u # s => u \notin T
<1> DEFINE R == StrictSubsetOrdering(S)
<1>1. IsWellFoundedOn(R, SUBSET S)
  BY FS_StrictSubsetOrderingWellFounded, FS_FiniteSubsetsOfFinite
<1> HIDE DEF R
<1>2. PICK s \in T : \A u \in T : ~(<<u, s>> \in R)
  BY <1>1, WFMin
<1>3. \A u \in T : u \subseteq s => u = s
  BY <1>2 DEF R, StrictSubsetOrdering
<1> QED
  BY <1>3

\* The element that a sum takes next.
Pick(s) == CHOOSE x \in s : TRUE

\* it holds the sum of f over each set of D.
Sums(it, f, D) ==
    it = [s \in D |-> IF s = {} THEN 0 ELSE f[Pick(s)] + it[s \ {Pick(s)}]]

\* The subsets of S of at most n elements.
UpTo(S, n) == {s \in SUBSET S : Cardinality(s) <= n}

\* There are sums over all subsets of a finite set: with sums over those of
\* n - 1 elements at hand, those of n elements have sums too.
LEMMA SumsExist ==
    ASSUME NEW S, IsFiniteSet(S), NEW f
    PROVE  \E it : Sums(it, f, SUBSET S)
<1> DEFINE Bad == {n \in Nat : ~ \E it : Sums(it, f, UpTo(S, n))}
<1>1. \A s \in SUBSET S : IsFiniteSet(s) /\ Cardinality(s) \in Nat
  BY FS_Subset, FS_CardinalityType
<1>2. \A s \in SUBSET S : s # {} =>
          /\ Pick(s) \in s /\ s \ {Pick(s)} \in SUBSET S
          /\ Cardinality(s \ {Pick(s)}) = Cardinality(s) - 1
  <2> TAKE s \in SUBSET S
  <2> HAVE s # {}
  <2>1. Pick(s) \in s
    BY DEF Pick
  <2> QED
    BY <2>1, <1>1, FS_RemoveElement
<1>3. Bad = {}
  <2> SUFFICES ASSUME Bad # {} PROVE FALSE
    OBVIOUS
  <2>1. PICK n \in Bad : \A m \in Bad : n <= m
    <3> HIDE DEF Bad
    <3>1. Bad \in SUBSET Nat
      BY DEF Bad
    <3> QED
      BY <3>1, LeastNumber
  <2>2. CASE n = 0
    <3> DEFINE it == [s \in UpTo(S, 0) |-> 0]
    <3>1. \A s \in UpTo(S, 0) : s = {}
      BY <1>1, FS_EmptySet DEF UpTo
    <3>2. Sums(it, f, UpTo(S, 0))
      BY <3>1 DEF Sums
    <3> QED
      BY <2>1, <2>2, <3>2
  <2>3. CASE n # 0
    <3>1. n \in Nat /\ n - 1 \in Nat /\ n - 1 \notin Bad
      BY <2>1, <2>3
    <3>2. PICK g : Sums(g, f, UpTo(S, n - 1))
      BY <3>1
    <3> DEFINE h == [s \in UpTo(S, n) |->
                        IF s = {} THEN 0 ELSE f[Pick(s)] + g[s \ {Pick(s)}]]
    <3>3. \A s \in UpTo(S, n - 1) : s \in UpTo(S, n) /\ h[s] = g[s]
      <4> TAKE s \in UpTo(S, n - 1)
      <4>1. s \in UpTo(S, n)
        BY <1>1, <3>1 DEF UpTo
      <4>2. g[s] = IF s = {} THEN 0 ELSE f[Pick(s)] + g[s \ {Pick(s)}]
        BY <3>2 DEF Sums
      <4> QED
        BY <4>1, <4>2
    <3>4. \A s \in UpTo(S, n) : s # {} => s \ {Pick(s)} \in UpTo(S, n - 1)
      BY <1>1, <1>2, <3>1 DEF UpTo
    <3>5. \A s \in UpTo(S, n) : s # {} => h[s \ {Pick(s)}] = g[s \ {Pick(s)}]
      BY <3>3, <3>4
    <3>6. Sums(h, f, UpTo(S, n))
      BY <3>5 DEF Sums
    <3> QED
      BY <2>1, <3>6
  <2> QED
    BY <2>2, <2>3
<1>4. UpTo(S, Cardinality(S)) = SUBSET S
  <2>1. \A s \in SUBSET S : Cardinality(s) <= Cardinality(S)
    BY FS_Subset
  <2> QED
    BY <2>1 DEF UpTo
<1>5. Cardinality(S) \in Nat
  BY FS_CardinalityType
<1>6. \E it : Sums(it, f, UpTo(S, Cardinality(S)))
  BY <1>3, <1>5
<1> QED
  BY <1>4, <1>6

\* SumFunctionOnSet satisfies the recursion it is defined by.
LEMMA SumIsSums ==
    ASSUME NEW S, IsFiniteSet(S), NEW f
    PROVE  \E it : Sums(it, f, SUBSET S) /\ SumFunctionOnSet(f, S) = it[S]
<1> DEFINE it == CHOOSE g : Sums(g, f, SUBSET S)
<1>1. Sums(it, f, SUBSET S)
  BY SumsExist
<1>2. SumFunctionOnSet(f, S) = it[S]
  BY DEF SumFunctionOnSet, FoldFunctionOnSet, MapThenFoldSet, Sums, Pick
<1> QED
  BY <1>1, <1>2

\* The sums over the subsets of S, of a function with numbers for values.
LEMMA SumsOfInt ==
    ASSUME NEW S, IsFiniteSet(S), NEW f, \A x \in S : f[x] \in Int,
           NEW it, Sums(it, f, SUBSET S)
    PROVE  \A s \in SUBSET S : it[s] \in Int
<1> DEFINE Bad == {s \in SUBSET S : it[s] \notin Int}
<1> SUFFICES ASSUME Bad # {} PROVE FALSE
  OBVIOUS
<1>1. PICK s \in Bad : \A u \in SUBSET s : u # s => u \notin Bad
  <2> HIDE DEF Bad
  <2>1. Bad \in SUBSET SUBSET S
    BY DEF Bad
  <2> QED
    BY <2>1, SmallestSubset
<1>2. it[s] = IF s = {} THEN 0 ELSE f[Pick(s)] + it[s \ {Pick(s)}]
  BY DEF Sums
<1>3. s # {}
  BY <1>2
<1>4. Pick(s) \in s
  BY <1>3 DEF Pick
<1>5. it[s \ {Pick(s)}] \in Int
  BY <1>1, <1>4
<1> QED
  BY <1>2, <1>3, <1>4, <1>5

\* Changing one value of a function by d changes its sum by d.
LEMMA SumsAfterChange ==
    ASSUME NEW S, IsFiniteSet(S), NEW f, \A x \in S : f[x] \in Int,
           NEW a \in S, NEW d \in Int,
           NEW g, \A x \in S : g[x] = IF x = a THEN f[x] + d ELSE f[x],
           NEW it, Sums(it, f, SUBSET S), NEW jt, Sums(jt, g, SUBSET S)
    PROVE  \A s \in SUBSET S : jt[s] = IF a \in s THEN it[s] + d ELSE it[s]
<1> DEFINE Bad == {s \in SUBSET S : jt[s] # IF a \in s THEN it[s] + d ELSE it[s]}
<1> SUFFICES ASSUME Bad # {} PROVE FALSE
  OBVIOUS
<1>1. PICK s \in Bad : \A u \in SUBSET s : u # s => u \notin Bad
  <2> HIDE DEF Bad
  <2>1. Bad \in SUBSET SUBSET S
    BY DEF Bad
  <2> QED
    BY <2>1, SmallestSubset
<1>2. /\ it[s] = IF s = {} THEN 0 ELSE f[Pick(s)] + it[s \ {Pick(s)}]
      /\ jt[s] = IF s = {} THEN 0 ELSE g[Pick(s)] + jt[s \ {Pick(s)}]
  BY DEF Sums
<1>3. s # {}
  BY <1>2
<1> DEFINE x == Pick(s)
           u == s \ {x}
<1>4. x \in s /\ u \in SUBSET s /\ u # s
  BY <1>3 DEF Pick
<1> HIDE DEF x, u
<1>5. /\ it[s] = f[x] + it[u] /\ jt[s] = g[x] + jt[u]
      /\ u = s \ {x}
  BY <1>2, <1>3 DEF x, u
<1>6. jt[u] = IF a \in u THEN it[u] + d ELSE it[u]
  BY <1>1, <1>4
<1>7. it[u] \in Int /\ f[x] \in Int /\ g[x] = IF x = a THEN f[x] + d ELSE f[x]
  <2>1. s \in SUBSET S
    OBVIOUS
  <2> QED
    BY <1>4, <2>1, SumsOfInt
<1>8. jt[s] = IF a \in s THEN it[s] + d ELSE it[s]
  BY <1>4, <1>5, <1>6, <1>7
<1> QED
  BY <1>8

------------------------------------------------------------------------------
\* A sum of integers is an integer.
THEOREM SumIsInt ==
    ASSUME NEW S, IsFiniteSet(S), NEW f \in [S -> Int]
    PROVE  SumFunction(f) \in Int
<1>1. PICK it : Sums(it, f, SUBSET S) /\ SumFunctionOnSet(f, S) = it[S]
  BY SumIsSums
<1>2. \A s \in SUBSET S : it[s] \in Int
  BY <1>1, SumsOfInt
<1> QED
  BY <1>1, <1>2 DEF SumFunction

\* The sum of nothing but zeros is zero.
THEOREM SumOfZeros ==
    ASSUME NEW S, IsFiniteSet(S)
    PROVE  SumFunction([x \in S |-> 0]) = 0
<1> DEFINE f == [x \in S |-> 0]
           Bad(it) == {s \in SUBSET S : it[s] # 0}
<1>1. PICK it : Sums(it, f, SUBSET S) /\ SumFunctionOnSet(f, S) = it[S]
  BY SumIsSums
<1>2. Bad(it) = {}
  <2> SUFFICES ASSUME Bad(it) # {} PROVE FALSE
    OBVIOUS
  <2>1. PICK s \in Bad(it) : \A u \in SUBSET s : u # s => u \notin Bad(it)
    <3> DEFINE B == Bad(it)
    <3>1. B \in SUBSET SUBSET S /\ B # {}
      OBVIOUS
    <3> HIDE DEF B
    <3>2. \E s \in B : \A u \in SUBSET s : u # s => u \notin B
      BY <3>1, SmallestSubset
    <3> QED
      BY <3>2 DEF B
  <2>2. it[s] = IF s = {} THEN 0 ELSE f[Pick(s)] + it[s \ {Pick(s)}]
    BY <1>1 DEF Sums
  <2>3. s # {} /\ Pick(s) \in s
    BY <2>2 DEF Pick
  <2>4. it[s \ {Pick(s)}] = 0 /\ f[Pick(s)] = 0
    BY <2>1, <2>3
  <2> QED
    BY <2>2, <2>3, <2>4
<1> QED
  BY <1>1, <1>2 DEF SumFunction

\* g is f, with d added at a.
Added(g, f, S, a, d) == \A x \in S : g[x] = IF x = a THEN f[x] + d ELSE f[x]

\* Two functions that differ at one point.
LEMMA SumOfDifference ==
    ASSUME NEW S, IsFiniteSet(S), NEW f \in [S -> Int], NEW g \in [S -> Int],
           NEW a \in S, NEW d \in Int, Added(g, f, S, a, d)
    PROVE  SumFunction(g) = SumFunction(f) + d
<1>1. PICK it : Sums(it, f, SUBSET S) /\ SumFunctionOnSet(f, S) = it[S]
  BY SumIsSums
<1>2. PICK jt : Sums(jt, g, SUBSET S) /\ SumFunctionOnSet(g, S) = jt[S]
  BY SumIsSums
<1>3. \A s \in SUBSET S : jt[s] = IF a \in s THEN it[s] + d ELSE it[s]
  BY <1>1, <1>2, SumsAfterChange DEF Added
<1> QED
  BY <1>1, <1>2, <1>3 DEF SumFunction

\* Changing one value of a function changes its sum by as much.
THEOREM SumOfChange ==
    ASSUME NEW S, IsFiniteSet(S), NEW f \in [S -> Int], NEW a \in S, NEW d \in Int
    PROVE  SumFunction([f EXCEPT ![a] = @ + d]) = SumFunction(f) + d
<1> DEFINE g == [f EXCEPT ![a] = @ + d]
<1>1. g \in [S -> Int] /\ Added(g, f, S, a, d)
  BY DEF Added
<1> HIDE DEF g
<1>2. SumFunction(g) = SumFunction(f) + d
  BY <1>1, SumOfDifference
<1> QED
  BY <1>2 DEF g

\* g is f after d has been moved from a's value to b's, or back to the same.
Moved(g, f, S, a, b, d) ==
    \A x \in S : g[x] = f[x] + (IF x = b THEN d ELSE 0) - (IF x = a THEN d ELSE 0)

\* A move leaves the sum.
THEOREM SumOfMove ==
    ASSUME NEW S, IsFiniteSet(S), NEW f \in [S -> Int],
           NEW a \in S, NEW b \in S, NEW d \in Int
    PROVE  \A g \in [S -> Int] : Moved(g, f, S, a, b, d) => SumFunction(g) = SumFunction(f)
<1> DEFINE h == [f EXCEPT ![b] = @ + d]
<1>1. /\ h \in [S -> Int] /\ -d \in Int
      /\ Added(h, f, S, b, d)
  BY DEF Added
<1> HIDE DEF h
<1>2. SumFunction(h) = SumFunction(f) + d
  BY <1>1, SumOfDifference
<1>3. SumFunction(f) \in Int
  BY SumIsInt
<1>4. ASSUME NEW g \in [S -> Int], Moved(g, f, S, a, b, d)
      PROVE  SumFunction(g) = SumFunction(f)
  <2>1. Added(g, h, S, a, -d)
    BY <1>1, <1>4 DEF Moved, Added
  <2>2. SumFunction(g) = SumFunction(h) + (-d)
    BY <1>1, <2>1, SumOfDifference
  <2> QED
    BY <1>2, <1>3, <2>2
<1> QED
  BY <1>4

------------------------------------------------------------------------------
\* Any element may be taken out first, not only the one that was chosen.
TakesAny(it, f, S) ==
    \A s \in SUBSET S : \A a \in s : it[s] = f[a] + it[s \ {a}]

LEMMA SumsTakeAny ==
    ASSUME NEW S, IsFiniteSet(S), NEW f, \A x \in S : f[x] \in Int,
           NEW it, Sums(it, f, SUBSET S)
    PROVE  TakesAny(it, f, S)
<1> DEFINE Bad == {s \in SUBSET S : \E a \in s : it[s] # f[a] + it[s \ {a}]}
<1> SUFFICES ASSUME Bad # {} PROVE FALSE
  BY DEF TakesAny
<1>1. PICK s \in Bad : \A u \in SUBSET s : u # s => u \notin Bad
  <2> HIDE DEF Bad
  <2>1. Bad \in SUBSET SUBSET S
    BY DEF Bad
  <2> QED
    BY <2>1, SmallestSubset
<1>2. s \in SUBSET S
  OBVIOUS
<1>3. PICK a \in s : it[s] # f[a] + it[s \ {a}]
  OBVIOUS
<1> DEFINE x == Pick(s)
           u == s \ {x}
           v == s \ {a}
<1>4. x \in s /\ it[s] = f[x] + it[u]
  BY <1>2, <1>3 DEF Sums, Pick
<1>5. x # a
  BY <1>3, <1>4
<1>6. \A w \in SUBSET s : w # s => \A b \in w : it[w] = f[b] + it[w \ {b}]
  BY <1>1, <1>2
<1> HIDE DEF x, Bad
<1>7. u \in SUBSET s /\ u # s /\ a \in u /\ v \in SUBSET s /\ v # s /\ x \in v
  BY <1>3, <1>4, <1>5
<1>8. u \ {a} = v \ {x} /\ u \ {a} \in SUBSET S
  BY <1>2
<1> HIDE DEF u, v
<1>9. it[u] = f[a] + it[u \ {a}] /\ it[v] = f[x] + it[v \ {x}]
  BY <1>6, <1>7
<1>10. PICK rest \in Int : rest = it[u \ {a}]
  BY <1>8, SumsOfInt
<1>11. f[a] \in Int /\ f[x] \in Int
  BY <1>2, <1>3, <1>4
<1>12. it[u] = f[a] + rest /\ it[v] = f[x] + rest
  BY <1>8, <1>9, <1>10
<1>13. it[s] = f[a] + it[v]
  BY <1>4, <1>11, <1>12
<1> QED
  BY <1>3, <1>13 DEF v

\* Functions that agree on a set have the same sums over its subsets.
Agree(jt, it, T) == \A s \in SUBSET T : jt[s] = it[s]

LEMMA SumsAgree ==
    ASSUME NEW S, IsFiniteSet(S), NEW T \in SUBSET S, NEW f, NEW g,
           \A x \in T : g[x] = f[x],
           NEW it, Sums(it, f, SUBSET T), NEW jt, Sums(jt, g, SUBSET S)
    PROVE  Agree(jt, it, T)
<1> DEFINE Bad == {s \in SUBSET T : jt[s] # it[s]}
<1> SUFFICES ASSUME Bad # {} PROVE FALSE
  BY DEF Agree
<1>1. PICK s \in Bad : \A u \in SUBSET s : u # s => u \notin Bad
  <2>1. IsFiniteSet(T)
    BY FS_Subset
  <2> HIDE DEF Bad
  <2>2. Bad \in SUBSET SUBSET T
    BY DEF Bad
  <2> QED
    BY <2>1, <2>2, SmallestSubset
<1>2. /\ it[s] = IF s = {} THEN 0 ELSE f[Pick(s)] + it[s \ {Pick(s)}]
      /\ jt[s] = IF s = {} THEN 0 ELSE g[Pick(s)] + jt[s \ {Pick(s)}]
  BY DEF Sums
<1>3. s # {}
  BY <1>2
<1>4. Pick(s) \in s
  BY <1>3 DEF Pick
<1>5. jt[s \ {Pick(s)}] = it[s \ {Pick(s)}]
  BY <1>1, <1>4
<1>6. g[Pick(s)] = f[Pick(s)]
  BY <1>4
<1> QED
  BY <1>2, <1>3, <1>5, <1>6

\* A term more adds its value.
THEOREM SumOfNewTerm ==
    ASSUME NEW S, IsFiniteSet(S), NEW a, a \notin S,
           NEW f \in [S -> Int], NEW g \in [S \cup {a} -> Int], \A x \in S : g[x] = f[x]
    PROVE  SumFunction(g) = SumFunction(f) + g[a]
<1> DEFINE T == S \cup {a}
<1>1. IsFiniteSet(T) /\ S \in SUBSET T /\ T \ {a} = S /\ T \in SUBSET T
  BY FS_AddElement
<1>2. a \in T /\ g \in [T -> Int]
  OBVIOUS
<1> HIDE DEF T
<1>3. PICK it : Sums(it, f, SUBSET S) /\ SumFunctionOnSet(f, S) = it[S]
  BY SumIsSums
<1>4. PICK jt : Sums(jt, g, SUBSET T) /\ SumFunctionOnSet(g, T) = jt[T]
  BY <1>1, SumIsSums
<1>5. jt[T] = g[a] + jt[S]
  <2>1. \A x \in T : g[x] \in Int
    BY <1>2
  <2>2. TakesAny(jt, g, T)
    BY <1>1, <1>4, <2>1, SumsTakeAny
  <2> QED
    BY <1>1, <1>2, <2>2 DEF TakesAny
<1>6. jt[S] = it[S]
  <2>1. Agree(jt, it, S)
    BY <1>1, <1>3, <1>4, SumsAgree
  <2> QED
    BY <2>1 DEF Agree
<1>7. it[S] \in Int /\ g[a] \in Int
  BY <1>2, <1>3, SumsOfInt
<1>8. SumFunction(g) = jt[T] /\ SumFunction(f) = it[S]
  BY <1>2, <1>3, <1>4 DEF SumFunction
<1> QED
  BY <1>5, <1>6, <1>7, <1>8
==============================================================================
