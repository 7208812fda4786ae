------------------------------- MODULE Sums --------------------------------
(***************************************************************************)
(* The sum of a function over a finite set, which is what the models add   *)
(* up with MapThenSumSet of the community modules.  What is proved here of *)
(* it: that its recursion defines something (SumExists) and one thing only *)
(* (SumIs), that elements may be added in any order (SumWithout), how it   *)
(* changes with one value (SumChanges), and how it compares with other     *)
(* sums (SumAtMost, SumOfPart, SumIsBounded, SumOfParts).                  *)
(*                                                                         *)
(* Induction is over sets of what the statement holds of, in place of      *)
(* predicates (ByNumber, BySize, ByElements).                              *)
(***************************************************************************)
EXTENDS Integers, FiniteSetsExt, FiniteSetTheorems, NaturalsInduction,
        WellFoundedInduction, TLAPS

\* The sum of f over S.
Total(f, S) == MapThenSumSet(LAMBDA x : f[x], S)

Pick(s) == CHOOSE x \in s : TRUE

AddsUp(iter, f, S) ==
    iter = [s \in SUBSET S |-> IF s = {} THEN 0 ELSE f[Pick(s)] + iter[s \ {Pick(s)}]]

-----------------------------------------------------------------------------
\* What holds of 0 and of the next number holds of all.
LEMMA ByNumber ==
    ASSUME NEW G, 0 \in G, \A n \in Nat : n \in G => n + 1 \in G
    PROVE  Nat \subseteq G
<1> SUFFICES ASSUME ~(Nat \subseteq G) PROVE FALSE
  OBVIOUS
<1> DEFINE Out == Nat \ G
<1>1. Out \subseteq Nat /\ Out # {}
  OBVIOUS
<1>2. PICK n \in Out : \A m \in Out : <<m, n>> \notin OpToRel(<, Nat)
  <2> HIDE DEF Out
  <2> QED BY <1>1, NatLessThanWellFounded, WFMin
<1>3. \A m \in Out : ~(m < n)
  <2> HIDE DEF Out
  <2> QED BY <1>1, <1>2 DEF OpToRel
<1>4. n # 0 /\ n \in Nat
  OBVIOUS
<1>5. n - 1 \in Nat /\ n - 1 < n /\ n - 1 + 1 = n
  BY <1>4
<1>6. n - 1 \in G
  BY <1>3, <1>5
<1> QED
  BY <1>5, <1>6

\* What holds of a finite set if it holds of all smaller ones holds of all.
LEMMA BySize ==
    ASSUME NEW S, IsFiniteSet(S), NEW G,
           \A T \in SUBSET S :
               (\A U \in SUBSET S : Cardinality(U) < Cardinality(T) => U \in G) => T \in G
    PROVE  SUBSET S \subseteq G
<1> SUFFICES ASSUME ~(SUBSET S \subseteq G) PROVE FALSE
  OBVIOUS
<1> DEFINE Sizes == {Cardinality(T) : T \in (SUBSET S) \ G}
<1>1. \A T \in SUBSET S : Cardinality(T) \in Nat
  BY FS_Subset, FS_CardinalityType
<1>2. Sizes \subseteq Nat /\ Sizes # {}
  BY <1>1
<1>3. PICK n \in Sizes : \A m \in Sizes : <<m, n>> \notin OpToRel(<, Nat)
  <2> HIDE DEF Sizes
  <2> QED BY <1>2, NatLessThanWellFounded, WFMin
<1>4. \A m \in Sizes : ~(m < n)
  <2> HIDE DEF Sizes
  <2> QED BY <1>2, <1>3 DEF OpToRel
<1>5. PICK T \in (SUBSET S) \ G : n = Cardinality(T)
  OBVIOUS
<1>6. ASSUME NEW U \in SUBSET S, Cardinality(U) < Cardinality(T) PROVE U \in G
  BY <1>4, <1>5, <1>6
<1> QED
  BY <1>5, <1>6

\* What holds of the empty set and survives one more element holds of a finite set.
LEMMA ByElements ==
    ASSUME NEW S, IsFiniteSet(S), NEW G, {} \in G,
           \A T \in SUBSET S : \A x \in T : T \ {x} \in G => T \in G
    PROVE  S \in G
<1>1. ASSUME NEW T \in SUBSET S,
             \A U \in SUBSET S : Cardinality(U) < Cardinality(T) => U \in G
      PROVE  T \in G
  <2>1. CASE T = {}
    BY <2>1
  <2>2. CASE T # {}
    <3>1. PICK x \in T : TRUE
      BY <2>2
    <3>2. IsFiniteSet(T) /\ Cardinality(T) \in Nat
      BY FS_Subset, FS_CardinalityType
    <3>3. Cardinality(T \ {x}) = Cardinality(T) - 1
      BY <3>1, <3>2, FS_RemoveElement
    <3>4. Cardinality(T \ {x}) < Cardinality(T)
      BY <3>2, <3>3
    <3> QED
      BY <1>1, <3>1, <3>4
  <2> QED BY <2>1, <2>2
<1> HIDE DEF Cardinality
<1>2. SUBSET S \subseteq G
  BY <1>1, BySize
<1> QED
  BY <1>2

\* What is chosen of a set is in it, and leaves a smaller set.
LEMMA Picked == ASSUME NEW s, s # {} PROVE Pick(s) \in s
  BY DEF Pick

LEMMA SmallerOne ==
    ASSUME NEW S, IsFiniteSet(S), NEW s \in SUBSET S, s # {}
    PROVE  /\ Cardinality(s) \in Nat \ {0} /\ IsFiniteSet(s)
           /\ \A x \in s : /\ IsFiniteSet(s \ {x}) /\ s \ {x} \in SUBSET S
                           /\ Cardinality(s \ {x}) = Cardinality(s) - 1
<1>1. IsFiniteSet(s) /\ Cardinality(s) \in Nat
  BY FS_Subset, FS_CardinalityType
<1>2. \A x \in s : IsFiniteSet(s \ {x}) /\ Cardinality(s \ {x}) = Cardinality(s) - 1
  BY <1>1, FS_RemoveElement
<1>3. Cardinality(s) # 0
  BY <1>1, FS_EmptySet
<1> QED BY <1>1, <1>2, <1>3

\* The recursion of MapThenSumSet defines something.
LEMMA SumExists ==
    ASSUME NEW S, IsFiniteSet(S), NEW f
    PROVE  \E iter : AddsUp(iter, f, S)
<1> DEFINE Upto(it, n) ==
        \A s \in SUBSET S :
            Cardinality(s) <= n => it[s] = IF s = {} THEN 0 ELSE f[Pick(s)] + it[s \ {Pick(s)}]
           G == {n \in Nat : \E it : it = [s \in SUBSET S |-> it[s]] /\ Upto(it, n)}
<1>1. \A s \in SUBSET S : Cardinality(s) \in Nat
  BY FS_Subset, FS_CardinalityType
<1>2. 0 \in G
  <2> DEFINE it == [s \in SUBSET S |-> 0]
  <2>1. \A s \in SUBSET S : Cardinality(s) <= 0 => s = {}
    BY <1>1, FS_EmptySet, FS_Subset
  <2>2. Upto(it, 0) /\ it = [s \in SUBSET S |-> it[s]]
    BY <2>1
  <2> HIDE DEF it, Upto
  <2> QED BY <2>2
<1>3. ASSUME NEW n \in Nat, n \in G PROVE n + 1 \in G
  <2>1. PICK a : a = [s \in SUBSET S |-> a[s]] /\ Upto(a, n)
    BY <1>3
  <2> DEFINE it == [s \in SUBSET S |-> IF Cardinality(s) <= n THEN a[s]
                                        ELSE f[Pick(s)] + a[s \ {Pick(s)}]]
  <2>2. ASSUME NEW s \in SUBSET S, Cardinality(s) <= n + 1
        PROVE  it[s] = IF s = {} THEN 0 ELSE f[Pick(s)] + it[s \ {Pick(s)}]
    <3>1. CASE s = {}
      <4>1. Cardinality(s) = 0
        BY <3>1, FS_EmptySet
      <4>2. Cardinality(s) <= n
        BY <4>1
      <4>3. a[s] = 0
        BY <2>1, <3>1, <4>2
      <4>4. it[s] = a[s]
        BY <4>2
      <4> HIDE DEF it
      <4> QED BY <3>1, <4>3, <4>4
    <3>2. CASE s # {}
      <4> DEFINE r == s \ {Pick(s)}
      <4>1. r \in SUBSET S /\ Cardinality(r) = Cardinality(s) - 1 /\ Cardinality(s) \in Nat
        BY <3>2, SmallerOne, Picked
      <4>2. Cardinality(r) <= n
        BY <2>2, <4>1
      <4> HIDE DEF r
      <4>3. it[r] = a[r]
        BY <4>1, <4>2
      <4>4. CASE Cardinality(s) <= n
        <5>1. a[s] = f[Pick(s)] + a[r]
          BY <2>1, <3>2, <4>4 DEF r
        <5>2. it[s] = a[s]
          BY <4>4
        <5> HIDE DEF it
        <5> QED BY <3>2, <4>3, <5>1, <5>2 DEF r
      <4>5. CASE ~(Cardinality(s) <= n)
        <5>1. it[s] = f[Pick(s)] + a[r]
          BY <4>5 DEF r
        <5> HIDE DEF it
        <5> QED BY <3>2, <4>3, <5>1 DEF r
      <4> QED BY <4>4, <4>5
    <3> QED BY <3>1, <3>2
  <2>3. it = [s \in SUBSET S |-> it[s]]
    OBVIOUS
  <2> HIDE DEF it
  <2>4. Upto(it, n + 1)
    BY <2>2
  <2> HIDE DEF Upto
  <2> QED BY <2>3, <2>4
<1> HIDE DEF G
<1>4. Cardinality(S) \in G
  <2>1. Nat \subseteq G
    BY <1>2, <1>3, ByNumber
  <2> QED BY <1>1, <2>1
<1>5. PICK it : it = [s \in SUBSET S |-> it[s]] /\ Upto(it, Cardinality(S))
  BY <1>4 DEF G
<1>6. \A s \in SUBSET S : Cardinality(s) <= Cardinality(S)
  BY FS_Subset
<1>7. \A s \in SUBSET S : it[s] = IF s = {} THEN 0 ELSE f[Pick(s)] + it[s \ {Pick(s)}]
  BY <1>5, <1>6
<1>8. AddsUp(it, f, S)
  BY <1>5, <1>7 DEF AddsUp
<1> QED BY <1>8

\* And one thing only, which is the sum of each subset.
LEMMA SumIs ==
    ASSUME NEW S, IsFiniteSet(S), NEW f, NEW it, AddsUp(it, f, S), NEW T \in SUBSET S
    PROVE  Total(f, T) = it[T]
<1>1. IsFiniteSet(T)
  BY FS_Subset
<1> DEFINE a == CHOOSE iter : AddsUp(iter, f, T)
<1>2. AddsUp(a, f, T)
  BY <1>1, SumExists
<1>3. Total(f, T) = a[T]
  BY DEF Total, MapThenSumSet, MapThenFoldSet, AddsUp, Pick
<1> HIDE DEF a
<1> DEFINE G == {U \in SUBSET T : a[U] = it[U]}
<1>4. ASSUME NEW U \in SUBSET T,
             \A V \in SUBSET T : Cardinality(V) < Cardinality(U) => V \in G
      PROVE  U \in G
  <2>1. CASE U = {}
    BY <1>2, <2>1 DEF AddsUp
  <2>2. CASE U # {}
    <3> DEFINE r == U \ {Pick(U)}
    <3>1. r \in SUBSET T /\ Cardinality(r) = Cardinality(U) - 1 /\ Cardinality(U) \in Nat
      BY <1>1, <2>2, SmallerOne, Picked
    <3>2. a[r] = it[r]
      <4> HIDE DEF r
      <4>1. Cardinality(r) < Cardinality(U)
        BY <3>1
      <4> QED BY <1>4, <3>1, <4>1
    <3>3. a[U] = f[Pick(U)] + a[r] /\ it[U] = f[Pick(U)] + it[r]
      BY <1>2, <2>2 DEF AddsUp
    <3> QED BY <3>2, <3>3
  <2> QED BY <2>1, <2>2
<1> HIDE DEF G
<1>5. SUBSET T \subseteq G
  BY <1>1, <1>4, BySize
<1> QED
  BY <1>3, <1>5 DEF G

\* The sum of nothing, and the recursion as it is written.
LEMMA SumOfNone == ASSUME NEW f PROVE Total(f, {}) = 0
<1>1. IsFiniteSet({})
  BY FS_EmptySet
<1>2. PICK it : AddsUp(it, f, {})
  BY <1>1, SumExists
<1>3. Total(f, {}) = it[{}]
  BY <1>1, <1>2, SumIs
<1>4. it[{}] = 0
  BY <1>2 DEF AddsUp
<1> QED
  BY <1>3, <1>4

LEMMA SumByPick ==
    ASSUME NEW S, IsFiniteSet(S), S # {}, NEW f
    PROVE  Total(f, S) = f[Pick(S)] + Total(f, S \ {Pick(S)})
<1>1. PICK it : AddsUp(it, f, S)
  BY SumExists
<1>2. it[S] = f[Pick(S)] + it[S \ {Pick(S)}]
  BY <1>1 DEF AddsUp
<1>3. Total(f, S) = it[S] /\ Total(f, S \ {Pick(S)}) = it[S \ {Pick(S)}]
  BY <1>1, SumIs
<1> QED
  BY <1>2, <1>3

\* Sums of integers are integers, and any element may be added last.
LEMMA SumIsInt ==
    ASSUME NEW S, IsFiniteSet(S), NEW f, \A x \in S : f[x] \in Int
    PROVE  Total(f, S) \in Int
<1> DEFINE G == {T \in SUBSET S : Total(f, T) \in Int}
<1>1. ASSUME NEW T \in SUBSET S,
             \A U \in SUBSET S : Cardinality(U) < Cardinality(T) => U \in G
      PROVE  T \in G
  <2>1. CASE T = {}
    BY <2>1, SumOfNone
  <2>2. CASE T # {}
    <3> DEFINE r == T \ {Pick(T)}
    <3>1. /\ r \in SUBSET S /\ Cardinality(r) = Cardinality(T) - 1 /\ Cardinality(T) \in Nat
          /\ Pick(T) \in T /\ IsFiniteSet(T)
      BY <2>2, SmallerOne, Picked
    <3>2. Total(f, r) \in Int
      <4> HIDE DEF r
      <4>1. Cardinality(r) < Cardinality(T)
        BY <3>1
      <4> QED BY <1>1, <3>1, <4>1
    <3>3. Total(f, T) = f[Pick(T)] + Total(f, r)
      BY <2>2, <3>1, SumByPick
    <3> QED BY <3>1, <3>2, <3>3
  <2> QED BY <2>1, <2>2
<1> HIDE DEF G
<1>2. SUBSET S \subseteq G
  BY <1>1, BySize
<1> QED
  BY <1>2 DEF G

LEMMA SumWithout ==
    ASSUME NEW S, IsFiniteSet(S), NEW f, \A x \in S : f[x] \in Int, NEW y \in S
    PROVE  Total(f, S) = f[y] + Total(f, S \ {y})
<1> DEFINE G == {T \in SUBSET S : \A x \in T : Total(f, T) = f[x] + Total(f, T \ {x})}
<1>1. ASSUME NEW T \in SUBSET S,
             \A U \in SUBSET S : Cardinality(U) < Cardinality(T) => U \in G
      PROVE  T \in G
  <2> SUFFICES ASSUME NEW x \in T PROVE Total(f, T) = f[x] + Total(f, T \ {x})
    OBVIOUS
  <2> DEFINE p == Pick(T)
             r == T \ {p}
             q == T \ {x}
             o == r \ {x}
  <2>1. /\ r \in SUBSET S /\ Cardinality(r) = Cardinality(T) - 1 /\ Cardinality(T) \in Nat
        /\ p \in T /\ IsFiniteSet(T)
    BY SmallerOne, Picked
  <2>2. Total(f, T) = f[p] + Total(f, r)
    BY <2>1, SumByPick
  <2>3. CASE x = p
    BY <2>2, <2>3
  <2>4. CASE x # p
    <3>1. q \in SUBSET S /\ Cardinality(q) = Cardinality(T) - 1
      BY SmallerOne
    <3>2. r \in G /\ q \in G
      <4> HIDE DEF r, q, G
      <4>1. Cardinality(r) < Cardinality(T) /\ Cardinality(q) < Cardinality(T)
        BY <2>1, <3>1
      <4> QED BY <1>1, <2>1, <3>1, <4>1
    <3>3. x \in r /\ p \in q /\ o = q \ {p}
      BY <2>1, <2>4
    <3>4. Total(f, r) = f[x] + Total(f, o)
      BY <3>2, <3>3
    <3>5. Total(f, q) = f[p] + Total(f, o)
      <4>1. Total(f, q) = f[p] + Total(f, q \ {p})
        BY <3>2, <3>3
      <4> QED BY <3>3, <4>1
    <3>6. IsFiniteSet(o) /\ \A z \in o : f[z] \in Int
      BY <2>1, FS_Subset
    <3>7. Total(f, o) \in Int
      BY <3>6, SumIsInt
    <3>8. f[x] \in Int /\ f[p] \in Int
      BY <2>1
    <3> HIDE DEF p, r, q, o
    <3>9. Total(f, T) = f[x] + Total(f, q)
      BY <2>2, <3>4, <3>5, <3>7, <3>8
    <3> QED BY <3>9 DEF q
  <2> QED BY <2>3, <2>4
<1> HIDE DEF G
<1>2. SUBSET S \subseteq G
  BY <1>1, BySize
<1> QED
  BY <1>2 DEF G

-----------------------------------------------------------------------------
\* A sum of smaller numbers is smaller.
LEMMA SumAtMost ==
    ASSUME NEW S, IsFiniteSet(S), NEW f, NEW g,
           \A x \in S : f[x] \in Int /\ g[x] \in Int /\ f[x] <= g[x]
    PROVE  Total(f, S) <= Total(g, S)
<1> DEFINE G == {T \in SUBSET S : Total(f, T) <= Total(g, T)}
<1>1. {} \in G
  BY SumOfNone
<1>2. ASSUME NEW T \in SUBSET S, NEW x \in T, T \ {x} \in G PROVE T \in G
  <2> DEFINE r == T \ {x}
  <2>1. IsFiniteSet(T) /\ IsFiniteSet(r)
    BY FS_Subset
  <2>2. Total(f, T) = f[x] + Total(f, r) /\ Total(g, T) = g[x] + Total(g, r)
    BY <2>1, SumWithout
  <2>3. Total(f, r) \in Int /\ Total(g, r) \in Int
    BY <2>1, SumIsInt
  <2>4. Total(f, r) <= Total(g, r)
    BY <1>2
  <2> HIDE DEF r
  <2> QED BY <2>2, <2>3, <2>4
<1> HIDE DEF G
<1>3. S \in G
  BY <1>1, <1>2, ByElements
<1> QED
  BY <1>3 DEF G

\* Functions that agree on a set have one sum over it.
LEMMA SumsAgree ==
    ASSUME NEW S, IsFiniteSet(S), NEW f, NEW g, \A x \in S : f[x] \in Int /\ f[x] = g[x]
    PROVE  Total(f, S) = Total(g, S)
<1>1. Total(f, S) <= Total(g, S) /\ Total(g, S) <= Total(f, S)
  BY SumAtMost
<1>2. Total(f, S) \in Int /\ Total(g, S) \in Int
  BY SumIsInt
<1> QED BY <1>1, <1>2

\* Two functions are alike on S but for y.
DifferAt(y, f, g, S) ==
    /\ y \in S
    /\ \A x \in S : f[x] \in Int
    /\ \A x \in S : g[x] \in Int
    /\ \A x \in S \ {y} : f[x] = g[x]

\* Then their sums differ by as much as they do at y.
LEMMA SumChanges ==
    ASSUME NEW S, IsFiniteSet(S), NEW f, NEW g, NEW y, DifferAt(y, f, g, S)
    PROVE  Total(g, S) - g[y] = Total(f, S) - f[y]
<1> USE DEF DifferAt
<1> DEFINE r == S \ {y}
<1>1. IsFiniteSet(r)
  BY FS_Subset
<1>2. Total(f, S) = f[y] + Total(f, r) /\ Total(g, S) = g[y] + Total(g, r)
  BY SumWithout
<1>3. Total(f, r) = Total(g, r) /\ Total(f, r) \in Int
  BY <1>1, SumsAgree, SumIsInt
<1>4. f[y] \in Int /\ g[y] \in Int
  OBVIOUS
<1> HIDE DEF r
<1> QED BY <1>2, <1>3, <1>4

\* The sum of two functions, and the sum over two sets.
LEMMA SumOfBoth ==
    ASSUME NEW S, IsFiniteSet(S), NEW f, NEW g, NEW h,
           \A x \in S : f[x] \in Int /\ g[x] \in Int /\ h[x] = f[x] + g[x]
    PROVE  Total(h, S) = Total(f, S) + Total(g, S)
<1> DEFINE G == {T \in SUBSET S : Total(h, T) = Total(f, T) + Total(g, T)}
<1>1. {} \in G
  BY SumOfNone
<1>2. ASSUME NEW T \in SUBSET S, NEW x \in T, T \ {x} \in G PROVE T \in G
  <2> DEFINE r == T \ {x}
  <2>1. IsFiniteSet(T) /\ IsFiniteSet(r)
    BY FS_Subset
  <2>2. /\ Total(f, T) = f[x] + Total(f, r) /\ Total(g, T) = g[x] + Total(g, r)
        /\ Total(h, T) = h[x] + Total(h, r)
    BY <2>1, SumWithout
  <2>3. Total(f, r) \in Int /\ Total(g, r) \in Int
    BY <2>1, SumIsInt
  <2>4. Total(h, r) = Total(f, r) + Total(g, r)
    BY <1>2
  <2>5. f[x] \in Int /\ g[x] \in Int /\ h[x] = f[x] + g[x]
    OBVIOUS
  <2> HIDE DEF r
  <2> QED BY <2>2, <2>3, <2>4, <2>5
<1> HIDE DEF G
<1>3. S \in G
  BY <1>1, <1>2, ByElements
<1> QED
  BY <1>3 DEF G

LEMMA SumOfUnion ==
    ASSUME NEW S, IsFiniteSet(S), NEW f, \A x \in S : f[x] \in Int,
           NEW T \in SUBSET S, NEW U \in SUBSET S, T \cap U = {}
    PROVE  Total(f, T \cup U) = Total(f, T) + Total(f, U)
<1> DEFINE G == {V \in SUBSET T : Total(f, V \cup U) = Total(f, V) + Total(f, U)}
<1>0. IsFiniteSet(T) /\ IsFiniteSet(U) /\ Total(f, U) \in Int
  BY FS_Subset, SumIsInt
<1>1. {} \in G
  <2>1. {} \cup U = U
    OBVIOUS
  <2> QED BY <1>0, <2>1, SumOfNone
<1>2. ASSUME NEW V \in SUBSET T, NEW x \in V, V \ {x} \in G PROVE V \in G
  <2> DEFINE r == V \ {x}
  <2>1. IsFiniteSet(V) /\ IsFiniteSet(r) /\ IsFiniteSet(V \cup U)
    BY FS_Subset
  <2>2. x \in V \cup U /\ (V \cup U) \ {x} = r \cup U
    OBVIOUS
  <2>3. Total(f, V) = f[x] + Total(f, r)
    BY <2>1, SumWithout
  <2>4. Total(f, V \cup U) = f[x] + Total(f, r \cup U)
    <3>1. \A z \in V \cup U : f[z] \in Int
      OBVIOUS
    <3>2. Total(f, V \cup U) = f[x] + Total(f, (V \cup U) \ {x})
      BY <2>1, <2>2, <3>1, SumWithout
    <3> QED BY <2>2, <3>2
  <2>5. Total(f, r) \in Int /\ f[x] \in Int
    BY <2>1, SumIsInt
  <2>6. Total(f, r \cup U) = Total(f, r) + Total(f, U)
    BY <1>2
  <2> HIDE DEF r
  <2> QED BY <1>0, <2>3, <2>4, <2>5, <2>6
<1> HIDE DEF G
<1>3. T \in G
  BY <1>0, <1>1, <1>2, ByElements
<1> QED
  BY <1>3 DEF G

\* Sums of naturals: a part has no more than the whole.
LEMMA SumIsNat ==
    ASSUME NEW S, IsFiniteSet(S), NEW f, \A x \in S : f[x] \in Nat
    PROVE  Total(f, S) \in Nat
<1> DEFINE G == {T \in SUBSET S : Total(f, T) \in Nat}
<1>1. {} \in G
  BY SumOfNone
<1>2. ASSUME NEW T \in SUBSET S, NEW x \in T, T \ {x} \in G PROVE T \in G
  <2>1. IsFiniteSet(T)
    BY FS_Subset
  <2>2. Total(f, T) = f[x] + Total(f, T \ {x})
    BY <2>1, SumWithout
  <2> QED BY <1>2, <2>2
<1> HIDE DEF G
<1>3. S \in G
  BY <1>1, <1>2, ByElements
<1> QED
  BY <1>3 DEF G

LEMMA SumOfPart ==
    ASSUME NEW S, IsFiniteSet(S), NEW f, \A x \in S : f[x] \in Nat, NEW T \in SUBSET S
    PROVE  Total(f, T) <= Total(f, S)
<1>1. IsFiniteSet(T) /\ IsFiniteSet(S \ T) /\ S = T \cup (S \ T) /\ T \cap (S \ T) = {}
  BY FS_Subset
<1>2. Total(f, S) = Total(f, T) + Total(f, S \ T)
  <2>1. Total(f, T \cup (S \ T)) = Total(f, T) + Total(f, S \ T)
    BY <1>1, SumOfUnion
  <2> QED BY <1>1, <2>1
<1>3. Total(f, T) \in Nat /\ Total(f, S \ T) \in Nat
  BY <1>1, SumIsNat
<1> QED BY <1>2, <1>3

\* A sum of numbers that are at most c.
LEMMA SumIsBounded ==
    ASSUME NEW S, IsFiniteSet(S), NEW f, NEW c \in Nat, \A x \in S : f[x] \in Int /\ f[x] <= c
    PROVE  Total(f, S) <= c * Cardinality(S)
<1> DEFINE G == {T \in SUBSET S : Total(f, T) <= c * Cardinality(T)}
<1>1. {} \in G
  BY SumOfNone, FS_EmptySet
<1>2. ASSUME NEW T \in SUBSET S, NEW x \in T, T \ {x} \in G PROVE T \in G
  <2> DEFINE r == T \ {x}
             n == Cardinality(r)
  <2>0. IsFiniteSet(T)
    BY FS_Subset
  <2>1. IsFiniteSet(T) /\ IsFiniteSet(r) /\ n \in Nat /\ Cardinality(T) = n + 1
    <3>1. IsFiniteSet(r) /\ Cardinality(r) = Cardinality(T) - 1
      BY <2>0, FS_RemoveElement
    <3>2. Cardinality(r) \in Nat /\ Cardinality(T) \in Nat
      BY <2>0, <3>1, FS_CardinalityType
    <3> QED BY <2>0, <3>1, <3>2
  <2>2. Total(f, T) = f[x] + Total(f, r) /\ Total(f, r) \in Int
    BY <2>1, SumWithout, SumIsInt
  <2>3. Total(f, r) <= c * n /\ f[x] \in Int /\ f[x] <= c
    BY <1>2
  <2>4. c * (n + 1) = c * n + c /\ c * n \in Nat
    <3> HIDE DEF n
    <3> QED BY <2>1
  <2> HIDE DEF r, n
  <2>5. Total(f, T) <= c * (n + 1)
    BY <2>2, <2>3, <2>4
  <2> QED BY <2>1, <2>5
<1> HIDE DEF G
<1>3. S \in G
  BY <1>1, <1>2, ByElements
<1> QED
  BY <1>3 DEF G

\* Sums of parts that do not overlap come to no more than the whole.
THEOREM SumOfParts ==
    ASSUME NEW S, IsFiniteSet(S), NEW f, \A x \in S : f[x] \in Nat,
           NEW C, IsFiniteSet(C), NEW part \in [C -> SUBSET S],
           \A v, w \in C : v # w => part[v] \cap part[w] = {},
           NEW g, \A w \in C : g[w] \in Int /\ g[w] <= Total(f, part[w])
    PROVE  Total(g, C) <= Total(f, S)
<1> DEFINE All(D) == UNION {part[w] : w \in D}
           G == {D \in SUBSET C : Total(g, D) <= Total(f, All(D))}
<1>1. {} \in G
  <2>1. All({}) = {}
    OBVIOUS
  <2> QED BY <2>1, SumOfNone
<1>2. ASSUME NEW D \in SUBSET C, NEW w \in D, D \ {w} \in G PROVE D \in G
  <2> DEFINE r == D \ {w}
             U == All(r)
  <2>1. IsFiniteSet(D) /\ IsFiniteSet(r)
    BY FS_Subset
  <2>2. U \in SUBSET S /\ part[w] \in SUBSET S
    OBVIOUS
  <2>3. All(D) = part[w] \cup U /\ part[w] \cap U = {}
    OBVIOUS
  <2>4. Total(g, D) = g[w] + Total(g, r) /\ Total(g, r) \in Int
    BY <2>1, SumWithout, SumIsInt
  <2>5. Total(g, r) <= Total(f, U) /\ g[w] \in Int /\ g[w] <= Total(f, part[w])
    BY <1>2
  <2> HIDE DEF U, r
  <2>6. Total(f, part[w] \cup U) = Total(f, part[w]) + Total(f, U)
    BY <2>2, <2>3, SumOfUnion
  <2>7. IsFiniteSet(U) /\ IsFiniteSet(part[w]) /\ (\A x \in U : f[x] \in Int)
        /\ (\A x \in part[w] : f[x] \in Int)
    BY <2>2, FS_Subset
  <2>8. Total(f, U) \in Int /\ Total(f, part[w]) \in Int
    BY <2>7, SumIsInt
  <2>9. Total(g, D) <= Total(f, part[w] \cup U)
    BY <2>4, <2>5, <2>6, <2>8
  <2> QED BY <2>3, <2>9
<1>3. C \in G
  <2> HIDE DEF G
  <2> QED BY <1>1, <1>2, ByElements
<1>4. All(C) \in SUBSET S
  OBVIOUS
<1>5. Total(f, All(C)) <= Total(f, S)
  <2> HIDE DEF All
  <2> QED BY <1>4, SumOfPart
<1>6. IsFiniteSet(All(C)) /\ \A x \in All(C) : f[x] \in Int
  BY <1>4, FS_Subset
<1>7. /\ Total(g, C) \in Int /\ Total(f, S) \in Int /\ Total(f, All(C)) \in Int
  <2> HIDE DEF All
  <2> QED BY <1>6, SumIsInt
<1> HIDE DEF All
<1> QED
  BY <1>3, <1>5, <1>7
=============================================================================
