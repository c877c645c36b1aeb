---------------------------- MODULE SumTheorems ----------------------------
(***************************************************************************)
(* Sums over finite sets, as SumFunctionOnSet of module Functions defines  *)
(* them.  The induction theorems of the library take the property as an    *)
(* operator; here induction is the search for a smallest counterexample,   *)
(* which WFMin gives as a fact about sets.                                 *)
(***************************************************************************)
EXTENDS Integers, Sequences, FiniteSets, Functions, FiniteSetTheorems, SequenceTheorems,
        WellFoundedInduction, TLAPS

(* Every set of natural numbers that is not empty has a least element.     *)
LEMMA LeastNat ==
    ASSUME NEW T, T \subseteq Nat, T # {}
    PROVE  \E n \in T : \A m \in T : n <= m
<1> DEFINE R == OpToRel(<, Nat)
<1>1. IsWellFoundedOn(R, Nat)
  BY NatLessThanWellFounded
<1>2. \A a, b \in Nat : a < b => <<a, b>> \in R
  BY DEF OpToRel
<1> HIDE DEF R
<1>3. PICK n \in T : \A m \in T : ~ (<<m, n>> \in R)
  BY <1>1, WFMin
<1>4. \A m \in T : n <= m
  <2> TAKE m \in T
  <2>1. m \in Nat /\ n \in Nat
    OBVIOUS
  <2>2. ~ (m < n)
    BY <1>2, <1>3, <2>1
  <2> QED BY ONLY <2>1, <2>2
<1> QED BY <1>4

(* A set of finite sets that is not empty has a smallest one.              *)
LEMMA SmallestSet ==
    ASSUME NEW C, C # {}, \A s \in C : IsFiniteSet(s)
    PROVE  \E s \in C : \A t \in C : Cardinality(s) <= Cardinality(t)
<1> DEFINE T == {Cardinality(s) : s \in C}
<1>1. T \subseteq Nat /\ T # {}
  BY FS_CardinalityType
<1>2. PICK n \in T : \A m \in T : n <= m
  <2> HIDE DEF T
  <2> QED BY <1>1, LeastNat
<1> QED BY <1>2

(* The element a sum takes first.                                          *)
FirstOf(s) == CHOOSE x \in s : TRUE

(* g gives the sum of f over each subset of S.                             *)
SumsOf(f, g, S) ==
    g = [s \in SUBSET S |-> IF s = {} THEN 0 ELSE f[FirstOf(s)] + g[s \ {FirstOf(s)}]]

LEMMA FirstIn == ASSUME NEW s, s # {} PROVE FirstOf(s) \in s
BY DEF FirstOf

LEMMA SmallerSet ==
    ASSUME NEW s, IsFiniteSet(s), NEW x \in s
    PROVE  /\ IsFiniteSet(s \ {x})
           /\ Cardinality(s) \in Nat /\ Cardinality(s \ {x}) \in Nat
           /\ Cardinality(s \ {x}) < Cardinality(s)
<1>1. IsFiniteSet(s \ {x}) /\ Cardinality(s \ {x}) = Cardinality(s) - 1
  BY FS_RemoveElement
<1>2. Cardinality(s) \in Nat /\ Cardinality(s \ {x}) \in Nat
  BY <1>1, FS_CardinalityType
<1> QED BY ONLY <1>1, <1>2

IntsOn(f, S) == \A x \in S : f[x] \in Int
AgreeOn(f, e, S) == \A x \in S : f[x] = e[x]

(* The recursion has a solution: one for the subsets of at most n elements *)
(* extends to those of n + 1.                                              *)
LEMMA SumsExist ==
    ASSUME NEW S, IsFiniteSet(S), NEW f, IntsOn(f, S)
    PROVE  \E g \in [SUBSET S -> Int] : SumsOf(f, g, S)
<1> DEFINE Upto(n) == {s \in SUBSET S : Cardinality(s) <= n}
           Good(n) == \E g \in [Upto(n) -> Int] :
                         \A s \in Upto(n) :
                            g[s] = IF s = {} THEN 0 ELSE f[FirstOf(s)] + g[s \ {FirstOf(s)}]
           Bad == {n \in Nat : ~Good(n)}
<1>0. \A s \in SUBSET S : IsFiniteSet(s) /\ Cardinality(s) \in Nat
  BY FS_Subset, FS_CardinalityType
<1>1. Good(0)
  <2> DEFINE g == [s \in Upto(0) |-> 0]
  <2>1. \A s \in Upto(0) : s = {}
    <3> TAKE s \in Upto(0)
    <3>1. Cardinality(s) = 0
      BY <1>0
    <3> QED BY <1>0, <3>1, FS_EmptySet
  <2>2. g \in [Upto(0) -> Int] /\ \A s \in Upto(0) : g[s] = 0
    OBVIOUS
  <2> HIDE DEF g, Upto
  <2> QED BY <2>1, <2>2
<1>2. ASSUME NEW n \in Nat, Good(n) PROVE Good(n + 1)
  <2>1. PICK g \in [Upto(n) -> Int] :
              \A s \in Upto(n) : g[s] = IF s = {} THEN 0 ELSE f[FirstOf(s)] + g[s \ {FirstOf(s)}]
    BY <1>2
  <2> DEFINE h == [s \in Upto(n + 1) |->
                     IF s \in Upto(n) THEN g[s] ELSE f[FirstOf(s)] + g[s \ {FirstOf(s)}]]
  <2>2. \A s \in Upto(n + 1) : s # {} => FirstOf(s) \in S /\ s \ {FirstOf(s)} \in Upto(n)
    <3> TAKE s \in Upto(n + 1)
    <3> HAVE s # {}
    <3>1. FirstOf(s) \in s /\ s \in SUBSET S
      BY FirstIn
    <3>2. Cardinality(s \ {FirstOf(s)}) < Cardinality(s) /\ Cardinality(s \ {FirstOf(s)}) \in Nat
      BY <1>0, <3>1, SmallerSet
    <3>3. Cardinality(s) <= n + 1 /\ Cardinality(s) \in Nat
      BY <1>0
    <3>4. Cardinality(s \ {FirstOf(s)}) <= n
      BY ONLY <3>2, <3>3, n \in Nat
    <3> QED BY <3>1, <3>4
  <2>3. {} \in Upto(n)
    BY FS_EmptySet
  <2>4. Upto(n) \subseteq Upto(n + 1)
    BY <1>0
  <2> HIDE DEF Upto
  <2>5. h \in [Upto(n + 1) -> Int]
    <3> SUFFICES ASSUME NEW s \in Upto(n + 1), s \notin Upto(n)
                 PROVE  f[FirstOf(s)] + g[s \ {FirstOf(s)}] \in Int
      OBVIOUS
    <3>1. s # {}
      BY <2>3
    <3>2. f[FirstOf(s)] \in Int /\ g[s \ {FirstOf(s)}] \in Int
      BY <2>1, <2>2, <3>1 DEF IntsOn
    <3> QED BY <3>2
  <2>6. ASSUME NEW s \in Upto(n + 1)
        PROVE  h[s] = IF s = {} THEN 0 ELSE f[FirstOf(s)] + h[s \ {FirstOf(s)}]
    <3>1. CASE s = {}
      <4>1. h[s] = g[s]
        BY <2>3, <3>1
      <4>2. g[s] = 0
        BY <2>1, <2>3, <3>1
      <4> QED BY <3>1, <4>1, <4>2
    <3>2. CASE s # {}
      <4>1. s \ {FirstOf(s)} \in Upto(n)
        BY <2>2, <3>2
      <4>2. h[s \ {FirstOf(s)}] = g[s \ {FirstOf(s)}]
        BY <2>4, <4>1
      <4>3. h[s] = f[FirstOf(s)] + g[s \ {FirstOf(s)}]
        BY <2>1, <3>2
      <4> QED BY <3>2, <4>2, <4>3
    <3> QED BY <3>1, <3>2
  <2> HIDE DEF h
  <2> QED BY <2>5, <2>6
<1> HIDE DEF Good
<1>3. Bad = {}
  <2> SUFFICES ASSUME Bad # {} PROVE FALSE
    OBVIOUS
  <2>1. PICK n \in Bad : \A m \in Bad : n <= m
    BY LeastNat
  <2>2. n \in Nat /\ n # 0
    BY <1>1
  <2>3. n - 1 \in Nat /\ n - 1 + 1 = n
    BY <2>2
  <2>4. Good(n - 1)
    BY <2>1, <2>2, <2>3
  <2>5. Good(n)
    BY <1>2, <2>3, <2>4
  <2> QED BY <2>5
<1>4. Good(Cardinality(S))
  BY <1>0, <1>3
<1>5. Upto(Cardinality(S)) = SUBSET S
  BY FS_Subset
<1>6. QED
  BY <1>4, <1>5 DEF Good, SumsOf

(* It has one solution only, also as the set grows.                        *)
LEMMA SumsUnique ==
    ASSUME NEW S, IsFiniteSet(S), NEW T \in SUBSET S, NEW f, NEW e, NEW g, NEW h,
           AgreeOn(f, e, T), SumsOf(f, g, S), SumsOf(e, h, T)
    PROVE  \A s \in SUBSET T : h[s] = g[s]
<1> DEFINE Bad == {s \in SUBSET T : h[s] # g[s]}
<1> SUFFICES ASSUME Bad # {} PROVE FALSE
  OBVIOUS
<1>1. \A s \in SUBSET S : IsFiniteSet(s)
  BY FS_Subset
<1>2. PICK s \in Bad : \A t \in Bad : Cardinality(s) <= Cardinality(t)
  <2>1. \A t \in Bad : IsFiniteSet(t)
    BY <1>1
  <2> HIDE DEF Bad
  <2> QED BY <2>1, SmallestSet
<1>3. s \in SUBSET T /\ s \in SUBSET S /\ h[s] # g[s] /\ IsFiniteSet(s)
  BY <1>1
<1>4. s # {}
  BY <1>3 DEF SumsOf
<1>5. FirstOf(s) \in s
  BY <1>4, FirstIn
<1>6. s \ {FirstOf(s)} \in SUBSET T /\ s \ {FirstOf(s)} \in SUBSET S
  BY <1>3
<1>7. h[s \ {FirstOf(s)}] = g[s \ {FirstOf(s)}]
  <2>1. /\ Cardinality(s \ {FirstOf(s)}) < Cardinality(s)
        /\ Cardinality(s \ {FirstOf(s)}) \in Nat /\ Cardinality(s) \in Nat
    BY <1>3, <1>5, SmallerSet
  <2>2. ~ (Cardinality(s) <= Cardinality(s \ {FirstOf(s)}))
    BY ONLY <2>1
  <2> QED BY <1>2, <1>6, <2>2
<1>8. h[s] = e[FirstOf(s)] + h[s \ {FirstOf(s)}] /\ g[s] = f[FirstOf(s)] + g[s \ {FirstOf(s)}]
  BY <1>3, <1>4 DEF SumsOf
<1>9. e[FirstOf(s)] = f[FirstOf(s)]
  BY <1>3, <1>5 DEF AgreeOn
<1> QED BY <1>3, <1>7, <1>8, <1>9

(* SumFunctionOnSet gives those sums, all of them from one function.       *)
SumTable(f, g, S) ==
    /\ g \in [SUBSET S -> Int] /\ SumsOf(f, g, S)
    /\ \A T \in SUBSET S : SumFunctionOnSet(f, T) = g[T]

LEMMA SumIsSums ==
    ASSUME NEW S, IsFiniteSet(S), NEW f, IntsOn(f, S)
    PROVE  \E g : SumTable(f, g, S)
<1>1. PICK g \in [SUBSET S -> Int] : SumsOf(f, g, S)
  BY SumsExist
<1>2. ASSUME NEW T \in SUBSET S PROVE SumFunctionOnSet(f, T) = g[T]
  <2> DEFINE D(h) == [s \in SUBSET T |-> IF s = {} THEN 0 ELSE f[FirstOf(s)] + h[s \ {FirstOf(s)}]]
             iter == CHOOSE h : h = D(h)
  <2>1. IsFiniteSet(T) /\ IntsOn(f, T)
    BY FS_Subset DEF IntsOn
  <2>2. PICK h : SumsOf(f, h, T)
    BY <2>1, SumsExist
  <2>3. h = D(h)
    BY <2>2 DEF SumsOf
  <2>4. iter = D(iter)
    <3> HIDE DEF D
    <3> QED BY <2>3
  <2>5. SumFunctionOnSet(f, T) = iter[T]
    BY DEF SumFunctionOnSet, FoldFunctionOnSet, MapThenFoldSet, FirstOf
  <2> HIDE DEF iter
  <2>6. SumsOf(f, iter, T)
    BY <2>4 DEF SumsOf
  <2>7. iter[T] = g[T]
    <3>1. AgreeOn(f, f, T) /\ T \in SUBSET T
      BY DEF AgreeOn
    <3>2. \A s \in SUBSET T : iter[s] = g[s]
      BY <1>1, <2>6, <3>1, SumsUnique
    <3> QED BY <3>1, <3>2
  <2> QED BY <2>5, <2>7
<1> QED BY <1>1, <1>2 DEF SumTable

(* The order in which a sum takes its elements does not matter.            *)
TakesAny(f, g, S) == \A s \in SUBSET S : \A x \in s : g[s] = f[x] + g[s \ {x}]

LEMMA SumsSplit ==
    ASSUME NEW S, IsFiniteSet(S), NEW f, IntsOn(f, S),
           NEW g \in [SUBSET S -> Int], SumsOf(f, g, S)
    PROVE  TakesAny(f, g, S)
<1> DEFINE Bad == {s \in SUBSET S : \E x \in s : g[s] # f[x] + g[s \ {x}]}
<1> SUFFICES ASSUME Bad # {} PROVE FALSE
  BY DEF TakesAny
<1>1. \A s \in SUBSET S : IsFiniteSet(s)
  BY FS_Subset
<1>2. PICK s \in Bad : \A t \in Bad : Cardinality(s) <= Cardinality(t)
  <2>1. \A t \in Bad : IsFiniteSet(t)
    BY <1>1
  <2> HIDE DEF Bad
  <2> QED BY <2>1, SmallestSet
<1>3. PICK x \in s : g[s] # f[x] + g[s \ {x}]
  OBVIOUS
<1>4. s \in SUBSET S /\ IsFiniteSet(s) /\ s # {}
  BY <1>1
<1> DEFINE y == FirstOf(s)
<1>5. y \in s /\ g[s] = f[y] + g[s \ {y}]
  BY <1>4, FirstIn DEF SumsOf
<1> HIDE DEF y
<1>6. x # y
  BY <1>3, <1>5
<1>7. ASSUME NEW z \in s, NEW w \in s \ {z} PROVE g[s \ {z}] = f[w] + g[(s \ {z}) \ {w}]
  <2>1. /\ Cardinality(s \ {z}) < Cardinality(s)
        /\ Cardinality(s \ {z}) \in Nat /\ Cardinality(s) \in Nat
    BY <1>4, SmallerSet
  <2>2. ~ (Cardinality(s) <= Cardinality(s \ {z}))
    BY ONLY <2>1
  <2>3. s \ {z} \notin Bad
    <3> HIDE DEF Bad
    <3> QED BY <1>2, <2>2
  <2> QED BY <1>4, <2>3
<1>8. g[s \ {y}] = f[x] + g[(s \ {y}) \ {x}]
  BY <1>5, <1>6, <1>7
<1>9. g[s \ {x}] = f[y] + g[(s \ {x}) \ {y}]
  BY <1>5, <1>6, <1>7
<1>10. (s \ {y}) \ {x} = (s \ {x}) \ {y}
  OBVIOUS
<1>11. f[x] \in Int /\ f[y] \in Int /\ g[(s \ {x}) \ {y}] \in Int
  BY <1>4, <1>5 DEF IntsOn
<1>12. g[s] = f[x] + g[s \ {x}]
  <2> DEFINE a == g[(s \ {x}) \ {y}]
             b == g[s \ {y}]
             c == g[s \ {x}]
  <2>1. b = f[x] + a /\ c = f[y] + a /\ g[s] = f[y] + b /\ f[x] \in Int /\ f[y] \in Int /\ a \in Int
    BY <1>5, <1>8, <1>9, <1>10, <1>11
  <2> HIDE DEF a, b, c
  <2>2. g[s] = f[x] + c
    BY <2>1
  <2> QED BY <2>2 DEF c
<1> QED BY <1>3, <1>12

-----------------------------------------------------------------------------
(* What the other proofs use.                                              *)

(* The sum over no elements is zero.                                       *)
LEMMA SumEmpty == ASSUME NEW f PROVE SumFunctionOnSet(f, {}) = 0
<1>1. IsFiniteSet({}) /\ IntsOn(f, {})
  BY FS_EmptySet DEF IntsOn
<1>2. PICK g : SumTable(f, g, {})
  BY ONLY <1>1, SumIsSums
<1> QED BY <1>2 DEF SumTable, SumsOf

(* A sum of integers is an integer.                                        *)
LEMMA SumType ==
    ASSUME NEW S, IsFiniteSet(S), NEW f, \A x \in S : f[x] \in Int
    PROVE  SumFunctionOnSet(f, S) \in Int
<1>1. IntsOn(f, S)
  BY DEF IntsOn
<1>2. PICK g : SumTable(f, g, S)
  BY ONLY <1>1, IsFiniteSet(S), SumIsSums
<1> QED BY <1>2 DEF SumTable

(* Any one element may be taken out of a sum.                              *)
LEMMA SumSplit ==
    ASSUME NEW S, IsFiniteSet(S), NEW f, \A x \in S : f[x] \in Int, NEW x \in S
    PROVE  /\ SumFunctionOnSet(f, S) = f[x] + SumFunctionOnSet(f, S \ {x})
           /\ SumFunctionOnSet(f, S \ {x}) \in Int
<1>1. IntsOn(f, S)
  BY DEF IntsOn
<1>2. PICK g : SumTable(f, g, S)
  BY ONLY <1>1, IsFiniteSet(S), SumIsSums
<1>3. g \in [SUBSET S -> Int] /\ SumsOf(f, g, S)
  BY <1>2 DEF SumTable
<1>4. TakesAny(f, g, S)
  BY ONLY <1>1, <1>3, IsFiniteSet(S), SumsSplit
<1>5. g[S] = f[x] + g[S \ {x}]
  BY <1>4 DEF TakesAny
<1>6. SumFunctionOnSet(f, S) = g[S] /\ SumFunctionOnSet(f, S \ {x}) = g[S \ {x}]
  BY <1>2 DEF SumTable
<1> QED BY <1>3, <1>5, <1>6

(* A sum depends on the values of its elements only.                       *)
LEMMA SumSame ==
    ASSUME NEW S, IsFiniteSet(S), NEW f, NEW e, \A x \in S : f[x] \in Int /\ e[x] = f[x]
    PROVE  SumFunctionOnSet(e, S) = SumFunctionOnSet(f, S)
<1>1. IntsOn(f, S) /\ IntsOn(e, S) /\ AgreeOn(f, e, S) /\ S \in SUBSET S
  BY DEF IntsOn, AgreeOn
<1>2. PICK g : SumTable(f, g, S)
  BY ONLY <1>1, IsFiniteSet(S), SumIsSums
<1>3. PICK h : SumTable(e, h, S)
  BY ONLY <1>1, IsFiniteSet(S), SumIsSums
<1>4. SumsOf(f, g, S) /\ SumsOf(e, h, S)
  BY <1>2, <1>3 DEF SumTable
<1>5. \A s \in SUBSET S : h[s] = g[s]
  BY ONLY <1>1, <1>4, IsFiniteSet(S), SumsUnique
<1> QED BY <1>2, <1>3, <1>5 DEF SumTable

(* One value changes: the sum changes by as much.                          *)
LEMMA SumUpdate ==
    ASSUME NEW S, IsFiniteSet(S), NEW f, NEW e, NEW x \in S,
           \A y \in S : f[y] \in Int /\ e[y] \in Int,
           \A y \in S \ {x} : e[y] = f[y]
    PROVE  SumFunctionOnSet(e, S) = SumFunctionOnSet(f, S) + e[x] - f[x]
<1>1. IsFiniteSet(S \ {x})
  BY FS_RemoveElement
<1>2. SumFunctionOnSet(e, S \ {x}) = SumFunctionOnSet(f, S \ {x})
  BY <1>1, SumSame
<1>3. /\ SumFunctionOnSet(f, S) = f[x] + SumFunctionOnSet(f, S \ {x})
      /\ SumFunctionOnSet(f, S \ {x}) \in Int
  BY SumSplit
<1>4. SumFunctionOnSet(e, S) = e[x] + SumFunctionOnSet(e, S \ {x})
  BY SumSplit
<1> QED BY <1>2, <1>3, <1>4

(* One element more: the sum grows by its value.                           *)
LEMMA SumAdd ==
    \A S, f, e, x :
        /\ IsFiniteSet(S) /\ x \notin S /\ e[x] \in Int
        /\ IntsOn(f, S) /\ AgreeOn(f, e, S)
        => SumFunctionOnSet(e, S \cup {x}) = SumFunctionOnSet(f, S) + e[x]
<1> TAKE S, f, e, x
<1> HAVE IsFiniteSet(S) /\ x \notin S /\ e[x] \in Int /\ IntsOn(f, S) /\ AgreeOn(f, e, S)
<1>0. \A y \in S : f[y] \in Int /\ e[y] = f[y]
  BY DEF IntsOn, AgreeOn
<1>1. IsFiniteSet(S \cup {x}) /\ (S \cup {x}) \ {x} = S
  BY FS_AddElement
<1>2. /\ SumFunctionOnSet(e, S \cup {x}) = e[x] + SumFunctionOnSet(e, S)
      /\ SumFunctionOnSet(e, S) \in Int
  <2>1. \A y \in S \cup {x} : e[y] \in Int
    BY <1>0
  <2>2. x \in S \cup {x}
    OBVIOUS
  <2> QED BY <1>1, <2>1, <2>2, SumSplit
<1>3. SumFunctionOnSet(e, S) = SumFunctionOnSet(f, S)
  BY <1>0, SumSame
<1> QED BY <1>2, <1>3

(* The sum over a part of a set of natural numbers is not larger.          *)
LEMMA SumSubset ==
    ASSUME NEW S, IsFiniteSet(S), NEW f, \A x \in S : f[x] \in Nat, NEW T \in SUBSET S
    PROVE  SumFunctionOnSet(f, T) <= SumFunctionOnSet(f, S)
<1> DEFINE sum(s) == SumFunctionOnSet(f, s)
           Bad == {s \in SUBSET S : T \subseteq s /\ ~(sum(T) <= sum(s))}
<1> SUFFICES ASSUME Bad # {} PROVE FALSE
  OBVIOUS
<1>1. \A s \in SUBSET S : IsFiniteSet(s) /\ \A x \in s : f[x] \in Int
  BY FS_Subset
<1>2. PICK s \in Bad : \A t \in Bad : Cardinality(s) <= Cardinality(t)
  <2>1. \A t \in Bad : IsFiniteSet(t)
    BY <1>1
  <2> HIDE DEF Bad
  <2> QED BY <2>1, SmallestSet
<1>3. \A t \in SUBSET S : sum(t) \in Int
  BY <1>1, SumType
<1> HIDE DEF sum
<1>4. PICK x \in s \ T : TRUE
  BY <1>3
<1>5. sum(s) = f[x] + sum(s \ {x})
  <2>1. x \in s /\ IsFiniteSet(s) /\ \A y \in s : f[y] \in Int
    BY <1>1, <1>4
  <2> QED BY ONLY <2>1, SumSplit DEF sum
<1>6. s \ {x} \notin Bad
  <2>1. /\ Cardinality(s \ {x}) < Cardinality(s)
        /\ Cardinality(s \ {x}) \in Nat /\ Cardinality(s) \in Nat
    BY <1>1, <1>4, SmallerSet
  <2>2. ~ (Cardinality(s) <= Cardinality(s \ {x}))
    BY ONLY <2>1
  <2> HIDE DEF Bad
  <2> QED BY <1>2, <2>2
<1>7. sum(T) <= sum(s \ {x})
  BY <1>4, <1>6
<1>8. f[x] \in Nat /\ sum(T) \in Int /\ sum(s \ {x}) \in Int
  BY <1>3, <1>4
<1>9. sum(T) <= sum(s)
  BY ONLY <1>5, <1>7, <1>8
<1> QED BY <1>9

LEMMA SumNat ==
    ASSUME NEW S, IsFiniteSet(S), NEW f, \A x \in S : f[x] \in Nat
    PROVE  SumFunctionOnSet(f, S) \in Nat
<1>1. SumFunctionOnSet(f, S) \in Int
  BY SumType
<1>2. SumFunctionOnSet(f, {}) <= SumFunctionOnSet(f, S)
  BY SumSubset
<1>3. SumFunctionOnSet(f, {}) = 0
  BY SumEmpty
<1> QED BY <1>1, <1>2, <1>3

(* Sums are added element by element.                                      *)
LEMMA SumPlus ==
    ASSUME NEW S, IsFiniteSet(S), NEW f, NEW e, NEW d,
           \A x \in S : f[x] \in Int /\ e[x] \in Int /\ d[x] = f[x] + e[x]
    PROVE  SumFunctionOnSet(d, S) = SumFunctionOnSet(f, S) + SumFunctionOnSet(e, S)
<1> DEFINE sum(g, s) == SumFunctionOnSet(g, s)
           Bad == {s \in SUBSET S : sum(d, s) # sum(f, s) + sum(e, s)}
<1> SUFFICES ASSUME Bad # {} PROVE FALSE
  OBVIOUS
<1>1. \A s \in SUBSET S : /\ IsFiniteSet(s)
                          /\ \A x \in s : f[x] \in Int /\ e[x] \in Int /\ d[x] \in Int
  BY FS_Subset
<1>2. PICK s \in Bad : \A t \in Bad : Cardinality(s) <= Cardinality(t)
  <2>1. \A t \in Bad : IsFiniteSet(t)
    BY <1>1
  <2> HIDE DEF Bad
  <2> QED BY <2>1, SmallestSet
<1>3. s # {}
  <2>1. sum(d, {}) = 0 /\ sum(e, {}) = 0 /\ sum(f, {}) = 0
    BY SumEmpty
  <2>2. sum(d, s) # sum(f, s) + sum(e, s)
    OBVIOUS
  <2> HIDE DEF sum
  <2> QED BY ONLY <2>1, <2>2
<1>4. PICK x \in s : TRUE
  BY <1>3
<1>5. \A g : (\A y \in s : g[y] \in Int) => /\ sum(g, s) = g[x] + sum(g, s \ {x})
                                            /\ sum(g, s \ {x}) \in Int
  <2> TAKE g
  <2> HAVE \A y \in s : g[y] \in Int
  <2>1. IsFiniteSet(s)
    BY <1>1
  <2> QED BY <2>1, SumSplit
<1>6. s \ {x} \notin Bad
  <2>1. /\ Cardinality(s \ {x}) < Cardinality(s)
        /\ Cardinality(s \ {x}) \in Nat /\ Cardinality(s) \in Nat
    BY <1>1, <1>4, SmallerSet
  <2>2. ~ (Cardinality(s) <= Cardinality(s \ {x}))
    BY ONLY <2>1
  <2> HIDE DEF Bad
  <2> QED BY <1>2, <2>2
<1> HIDE DEF sum
<1>7. sum(d, s \ {x}) = sum(f, s \ {x}) + sum(e, s \ {x})
  BY <1>6
<1>8. /\ sum(d, s) = d[x] + sum(d, s \ {x}) /\ sum(d, s \ {x}) \in Int
      /\ sum(f, s) = f[x] + sum(f, s \ {x}) /\ sum(f, s \ {x}) \in Int
      /\ sum(e, s) = e[x] + sum(e, s \ {x}) /\ sum(e, s \ {x}) \in Int
  BY <1>1, <1>5
<1>9. d[x] = f[x] + e[x] /\ f[x] \in Int /\ e[x] \in Int
  OBVIOUS
<1>10. sum(d, s) = sum(f, s) + sum(e, s)
  BY ONLY <1>7, <1>8, <1>9
<1> QED BY <1>10

-----------------------------------------------------------------------------
(* Sums of sequences.                                                      *)

LEMMA SumInterval ==
    ASSUME NEW n \in Nat, NEW f, \A i \in 1 .. n + 1 : f[i] \in Int
    PROVE  /\ SumFunctionOnSet(f, 1 .. n + 1) = SumFunctionOnSet(f, 1 .. n) + f[n + 1]
           /\ SumFunctionOnSet(f, 1 .. n) \in Int
<1>1. IsFiniteSet(1 .. n)
  BY FS_Interval
<1>2. (1 .. n) \cup {n + 1} = 1 .. n + 1 /\ n + 1 \notin 1 .. n
  OBVIOUS
<1>3. \A i \in 1 .. n : f[i] \in Int
  OBVIOUS
<1>4. f[n + 1] \in Int
  OBVIOUS
<1>5. SumFunctionOnSet(f, (1 .. n) \cup {n + 1}) = SumFunctionOnSet(f, 1 .. n) + f[n + 1]
  <2>0. PICK S, x : S = 1 .. n /\ x = n + 1
    OBVIOUS
  <2>1. IsFiniteSet(S) /\ x \notin S /\ f[x] \in Int /\ IntsOn(f, S) /\ AgreeOn(f, f, S)
    BY <1>1, <1>2, <1>3, <1>4, <2>0 DEF IntsOn, AgreeOn
  <2>2. PICK e : e = f
    OBVIOUS
  <2>3. e[x] \in Int /\ AgreeOn(f, e, S)
    BY ONLY <2>1, <2>2
  <2>4. SumFunctionOnSet(e, S \cup {x}) = SumFunctionOnSet(f, S) + e[x]
    BY ONLY <2>1, <2>3, SumAdd
  <2> QED BY ONLY <2>0, <2>2, <2>4
<1>6. SumFunctionOnSet(f, 1 .. n) \in Int
  BY ONLY <1>1, <1>3, SumType
<1> QED BY <1>2, <1>5, <1>6

(* One more element at the end.                                            *)
LEMMA SumAppend ==
    ASSUME NEW s \in Seq(Int), NEW e \in Int
    PROVE  SumFunction(Append(s, e)) = SumFunction(s) + e /\ SumFunction(s) \in Int
<1> DEFINE n == Len(s)
           t == Append(s, e)
<1>1. n \in Nat /\ DOMAIN s = 1 .. n /\ DOMAIN t = 1 .. n + 1 /\ t \in Seq(Int)
      /\ t[n + 1] = e /\ \A i \in 1 .. n : t[i] = s[i]
  OBVIOUS
<1> HIDE DEF n, t
<1>2. \A i \in 1 .. n + 1 : t[i] \in Int
  BY <1>1
<1>3. SumFunctionOnSet(t, 1 .. n + 1) = SumFunctionOnSet(t, 1 .. n) + e
  BY <1>1, <1>2, SumInterval
<1>4. IsFiniteSet(1 .. n) /\ \A i \in 1 .. n : s[i] \in Int
  BY <1>1, FS_Interval
<1>5. SumFunctionOnSet(t, 1 .. n) = SumFunctionOnSet(s, 1 .. n)
  BY <1>1, <1>4, SumSame
<1>6. SumFunctionOnSet(s, 1 .. n) \in Int
  BY <1>4, SumType
<1> QED BY <1>1, <1>3, <1>5, <1>6 DEF SumFunction, t

(* One element less at the front.                                          *)
LEMMA SumTail ==
    ASSUME NEW s \in Seq(Int), s # <<>>
    PROVE  /\ SumFunction(s) = Head(s) + SumFunction(Tail(s)) /\ SumFunction(Tail(s)) \in Int
           /\ Tail(s) \in Seq(Int) /\ Head(s) \in Int
<1> DEFINE n == Len(s) - 1
           t == Tail(s)
           sum(f, m) == SumFunctionOnSet(f, 1 .. m)
           Bad == {m \in Nat : m <= n /\ sum(s, m + 1) # s[1] + sum(t, m)}
<1>1. n \in Nat /\ DOMAIN s = 1 .. n + 1 /\ DOMAIN t = 1 .. n /\ t \in Seq(Int)
      /\ Head(s) = s[1] /\ \A i \in 1 .. n : t[i] = s[i + 1]
  OBVIOUS
<1>2. (\A i \in 1 .. n + 1 : s[i] \in Int) /\ (\A i \in 1 .. n : t[i] \in Int)
  BY <1>1
<1> HIDE DEF n, t
<1>3. \A m \in Nat : m <= n => /\ sum(s, m + 1) = sum(s, m) + s[m + 1]
                               /\ sum(s, m) \in Int
  BY <1>1, <1>2, SumInterval
<1>4. \A m \in Nat : m + 1 <= n => sum(t, m + 1) = sum(t, m) + t[m + 1]
  <2> TAKE m \in Nat
  <2> HAVE m + 1 <= n
  <2>1. \A i \in 1 .. m + 1 : t[i] \in Int
    BY <1>1, <1>2
  <2> QED BY <2>1, SumInterval
<1>5. sum(s, 0) = 0 /\ sum(t, 0) = 0
  <2>1. 1 .. 0 = {}
    OBVIOUS
  <2> QED BY <2>1, SumEmpty
<1>6. \A m \in Nat : m <= n => sum(t, m) \in Int
  <2> TAKE m \in Nat
  <2> HAVE m <= n
  <2>1. \A i \in 1 .. m : t[i] \in Int
    BY <1>1, <1>2
  <2>2. IsFiniteSet(1 .. m)
    BY FS_Interval
  <2> QED BY <2>1, <2>2, SumType
<1> HIDE DEF sum
<1>7. Bad = {}
  <2> SUFFICES ASSUME Bad # {} PROVE FALSE
    OBVIOUS
  <2>1. PICK m \in Bad : \A k \in Bad : m <= k
    <3>1. Bad \subseteq Nat
      OBVIOUS
    <3> HIDE DEF Bad
    <3> QED BY <3>1, LeastNat
  <2>2. m \in Nat /\ m <= n /\ sum(s, m + 1) # s[1] + sum(t, m)
    OBVIOUS
  <2>3. s[1] \in Int
    BY <1>1, <1>2
  <2>4. m # 0
    <3> SUFFICES ASSUME m = 0 PROVE FALSE
      OBVIOUS
    <3>1. sum(s, 0 + 1) = sum(s, 0) + s[0 + 1] /\ sum(s, 0 + 1) # s[1] + sum(t, 0)
      BY <1>1, <1>3, <2>2
    <3> QED BY <1>5, <2>3, <3>1
  <2>5. m - 1 \in Nat /\ m - 1 + 1 = m /\ m - 1 <= n /\ n \in Nat
    BY <1>1, <2>2, <2>4
  <2>6. m - 1 \notin Bad
    <3>1. ~ (m <= m - 1)
      BY <2>2
    <3> HIDE DEF Bad
    <3> QED BY <2>1, <3>1
  <2>7. sum(s, m) = s[1] + sum(t, m - 1)
    BY <2>5, <2>6
  <2>8. sum(s, m + 1) = sum(s, m) + s[m + 1] /\ sum(t, m) = sum(t, m - 1) + t[m]
    BY <1>3, <1>4, <2>2, <2>5
  <2>9. t[m] = s[m + 1] /\ t[m] \in Int /\ sum(t, m - 1) \in Int
    BY <1>1, <1>2, <1>6, <2>2, <2>5
  <2> QED BY ONLY <2>2, <2>3, <2>7, <2>8, <2>9
<1>8. sum(s, n + 1) = s[1] + sum(t, n) /\ sum(t, n) \in Int
  <2>1. n \in Nat /\ n <= n
    BY <1>1
  <2> QED BY <1>6, <1>7, <2>1
<1>9. s[1] \in Int
  BY <1>1, <1>2
<1> QED BY <1>1, <1>8, <1>9 DEF SumFunction, sum, t

(* A sum of zeros.                                                         *)
LEMMA SumZero ==
    \A S, f : IsFiniteSet(S) /\ (\A x \in S : f[x] = 0) => SumFunctionOnSet(f, S) = 0
<1> TAKE S, f
<1> HAVE IsFiniteSet(S) /\ \A x \in S : f[x] = 0
<1>1. \A x \in S : f[x] \in Int /\ f[x] = f[x] + f[x]
  OBVIOUS
<1>2. PICK n : n = SumFunctionOnSet(f, S)
  OBVIOUS
<1>3. n \in Int
  BY ONLY <1>1, <1>2, IsFiniteSet(S), SumType
<1>4. n = n + n
  BY ONLY <1>1, <1>2, IsFiniteSet(S), SumPlus
<1>5. n = 0
  BY ONLY <1>3, <1>4
<1> QED BY <1>2, <1>5

=============================================================================
