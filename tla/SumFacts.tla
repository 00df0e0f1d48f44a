------------------------------ MODULE SumFacts ------------------------------
(***************************************************************************)
(* What the folds of the community modules compute, for the sums over      *)
(* accounts, contributions and awards and for the folds over transactions: *)
(* induction over the subsets of a finite set is done here once, with the  *)
(* set of the subsets that have the property in the place of a predicate.  *)
(* Last come facts about products, divisions, Min and Max.                 *)
(***************************************************************************)
EXTENDS Integers, FiniteSetsExt, FiniteSetTheorems, WellFoundedInduction, TLAPS

\* A set of naturals with 0 that is closed under successor has them all.
LEMMA NaturalsByStep ==
    ASSUME NEW T \in SUBSET Nat, 0 \in T, \A n \in T : n + 1 \in T
    PROVE  T = Nat
<1>1. SUFFICES ASSUME Nat \ T # {} PROVE FALSE
    OBVIOUS
<1>2. IsWellFoundedOn(OpToRel(<, Nat), Nat)
    BY NatLessThanWellFounded
<1>3. PICK n \in Nat \ T : \A m \in Nat \ T : ~ (<<m, n>> \in OpToRel(<, Nat))
    BY <1>1, <1>2, WFMin
<1>4. \A m \in Nat \ T : ~ (m < n)
    BY <1>3 DEF OpToRel
<1>5. n \in Nat /\ n \notin T /\ n # 0
    BY <1>3
<1>6. PICK m \in Nat : n = m + 1 /\ m < n
  <2>1. n - 1 \in Nat /\ n = (n - 1) + 1 /\ n - 1 < n
      BY <1>5
  <2>2. QED
      BY <2>1
<1>7. m \in T
    BY <1>4, <1>6
<1>8. QED
    BY <1>5, <1>6, <1>7

\* A set of subsets that has a set as soon as it has its strict subsets.
LEMMA SubsetsBySize ==
    ASSUME NEW S, IsFiniteSet(S), NEW T \in SUBSET (SUBSET S),
           \A s \in SUBSET S : (\A r \in SUBSET s : r # s => r \in T) => s \in T
    PROVE  T = SUBSET S
<1> DEFINE C == (SUBSET S) \ T
           R == StrictSubsetOrdering(S)
<1>1. SUFFICES ASSUME C # {} PROVE FALSE
    OBVIOUS
<1>2. C \subseteq FiniteSubsetsOf(S)
    BY FS_Subset DEF FiniteSubsetsOf
<1>3. IsWellFoundedOn(R, FiniteSubsetsOf(S))
    BY FS_StrictSubsetOrderingWellFounded
<1> HIDE DEF C, R
<1>4. PICK s \in C : \A r \in C : ~ (<<r, s>> \in R)
    BY <1>1, <1>2, <1>3, WFMin
<1> USE DEF C
<1>5. ASSUME NEW r \in SUBSET s, r # s PROVE r \in T
    BY <1>4, <1>5 DEF StrictSubsetOrdering, R
<1>6. QED
    BY <1>4, <1>5

Chooses(c, S) == \A s \in SUBSET S : s # {} => c[s] \in s
Recursive(f, S, base, c, G) == \A s \in SUBSET S :
    f[s] = IF s = {} THEN base ELSE G[<<s, f[s \ {c[s]}]>>]

\* A function can be defined by recursion over the subsets of a finite set:
\* the value of a set comes from the value of the set without one element.
LEMMA RecursionOverSubsets ==
    ASSUME NEW S, IsFiniteSet(S), NEW V, NEW base \in V, NEW c, Chooses(c, S),
           NEW G \in [(SUBSET S) \X V -> V]
    PROVE  \E f \in [SUBSET S -> V] : Recursive(f, S, base, c, G)
<1> USE DEF Chooses, Recursive
<1> DEFINE L(n) == {s \in SUBSET S : Cardinality(s) <= n}
           T == {n \in Nat : \E f \in [L(n) -> V] : \A s \in L(n) :
                    f[s] = IF s = {} THEN base ELSE G[<<s, f[s \ {c[s]}]>>]}
<1>1. \A s \in SUBSET S : IsFiniteSet(s) /\ Cardinality(s) \in Nat /\ Cardinality(s) <= Cardinality(S)
    BY FS_Subset, FS_CardinalityType
<1>2. \A s \in SUBSET S : Cardinality(s) = 0 <=> s = {}
    BY <1>1, FS_EmptySet
<1>3. \A s \in SUBSET S : s # {} => /\ s \ {c[s]} \in SUBSET S
                                    /\ Cardinality(s \ {c[s]}) = Cardinality(s) - 1
    BY <1>1, FS_RemoveElement
<1>4. 0 \in T
  <2> DEFINE f == [s \in L(0) |-> base]
  <2>1. \A s \in L(0) : s = {}
      BY <1>1, <1>2
  <2>2. f \in [L(0) -> V] /\ \A s \in L(0) : f[s] = base
      OBVIOUS
  <2>3. QED
      BY <2>1, <2>2
<1>5. ASSUME NEW n \in T PROVE n + 1 \in T
  <2>0. n \in Nat /\ n + 1 \in Nat
      OBVIOUS
  <2>1. PICK f \in [L(n) -> V] : \A s \in L(n) :
            f[s] = IF s = {} THEN base ELSE G[<<s, f[s \ {c[s]}]>>]
      OBVIOUS
  <2> DEFINE g == [s \in L(n + 1) |-> IF s \in L(n) THEN f[s] ELSE G[<<s, f[s \ {c[s]}]>>]]
  <2>2. ASSUME NEW s \in L(n + 1), s # {} PROVE s \ {c[s]} \in L(n) /\ s \ {c[s]} \in L(n + 1)
      BY <1>1, <1>3, <2>0, <2>2
  <2>3. \A s \in L(n + 1) : s \notin L(n) => s # {}
      BY <1>1, <1>2, <2>0
  <2>4. ASSUME NEW s \in L(n + 1) PROVE g[s] \in V
    <3>1. CASE s \in L(n)
        BY <3>1
    <3>2. CASE s \notin L(n)
        BY <2>2, <2>3, <3>2
    <3>3. QED
        BY <3>1, <3>2
  <2>5. ASSUME NEW s \in L(n + 1) PROVE g[s] = IF s = {} THEN base ELSE G[<<s, g[s \ {c[s]}]>>]
    <3>1. CASE s = {}
      <4>1. s \in L(n)
          BY <3>1, <2>3
      <4>2. QED
          BY <2>1, <3>1, <4>1
    <3>2. CASE s # {}
      <4>1. g[s \ {c[s]}] = f[s \ {c[s]}]
          BY <2>2, <3>2
      <4>2. g[s] = G[<<s, f[s \ {c[s]}]>>]
          BY <2>1, <3>2
      <4>3. QED
          BY <3>2, <4>1, <4>2
    <3>3. QED
        BY <3>1, <3>2
  <2>6. g \in [L(n + 1) -> V]
      BY <2>4
  <2> HIDE DEF g
  <2>7. QED
      BY <2>0, <2>5, <2>6
<1>6. T = Nat
  <2>1. T \in SUBSET Nat
      OBVIOUS
  <2> HIDE DEF T
  <2>2. QED
      BY <1>4, <1>5, <2>1, NaturalsByStep
<1>7. Cardinality(S) \in Nat /\ L(Cardinality(S)) = SUBSET S
    BY <1>1
<1>8. Cardinality(S) \in T
    BY <1>6, <1>7
<1>9. QED
    BY <1>7, <1>8
\* An invariant P of a fold: it holds of the base, and of the next value
\* when it holds of the value before.
FoldKeeps(P, S, V, base, c, H) ==
    /\ P \subseteq (SUBSET S) \X V
    /\ <<{}, base>> \in P
    /\ \A s \in SUBSET S, v \in V :
          s # {} /\ <<s \ {c[s]}, v>> \in P => <<s, H[<<s, v>>]>> \in P

\* Then the fold is defined.
LEMMA FoldExists ==
    ASSUME NEW S, IsFiniteSet(S), NEW V, NEW base \in V, NEW c, Chooses(c, S), NEW H,
           NEW P, FoldKeeps(P, S, V, base, c, H)
    PROVE  \E f \in [SUBSET S -> V] : Recursive(f, S, base, c, H)
<1>0. /\ P \in SUBSET ((SUBSET S) \X V) /\ <<{}, base>> \in P
      /\ \A s \in SUBSET S, v \in V :
            s # {} /\ <<s \ {c[s]}, v>> \in P => <<s, H[<<s, v>>]>> \in P
  BY DEF FoldKeeps
<1>. DEFINE G == [q \in (SUBSET S) \X V |-> IF H[q] \in V THEN H[q] ELSE base]
<1>1. G \in [(SUBSET S) \X V -> V]
  OBVIOUS
<1>2. \A s \in SUBSET S, v \in V : H[<<s, v>>] \in V => G[<<s, v>>] = H[<<s, v>>]
  OBVIOUS
<1>. HIDE DEF G
<1>3. PICK f \in [SUBSET S -> V] : Recursive(f, S, base, c, G)
  BY <1>1, RecursionOverSubsets
<1>4. \A s \in SUBSET S : f[s] = IF s = {} THEN base ELSE G[<<s, f[s \ {c[s]}]>>]
  BY <1>3 DEF Recursive
<1>. DEFINE T == {s \in SUBSET S : <<s, f[s]>> \in P}
<1>5. ASSUME NEW s \in SUBSET S, s # {}, s \ {c[s]} \in T
      PROVE  s \in T /\ f[s] = H[<<s, f[s \ {c[s]}]>>]
  <2>. DEFINE r == s \ {c[s]}
              v == f[r]
  <2>1. r \in SUBSET S /\ v \in V /\ <<r, v>> \in P
    BY <1>5
  <2>2. <<s, H[<<s, v>>]>> \in P
    BY <1>0, <1>5, <2>1
  <2>3. H[<<s, v>>] \in V
    BY <1>0, <2>2
  <2>4. f[s] = H[<<s, v>>]
    BY <1>2, <1>4, <1>5, <2>1, <2>3
  <2>. QED
    BY <2>2, <2>4
<1>6. T = SUBSET S
  <2>1. ASSUME NEW s \in SUBSET S, \A r \in SUBSET s : r # s => r \in T PROVE s \in T
    <3>1. CASE s = {}
      BY <1>0, <1>4, <3>1
    <3>2. CASE s # {}
      <4>1. c[s] \in s
        BY <3>2 DEF Chooses
      <4>2. s \ {c[s]} \in T
        BY <2>1, <4>1
      <4>. QED
        BY <1>5, <3>2, <4>2
    <3>. QED
      BY <3>1, <3>2
  <2>2. T \in SUBSET (SUBSET S)
    OBVIOUS
  <2>. HIDE DEF T
  <2>. QED
    BY <2>1, <2>2, SubsetsBySize
<1>7. \A s \in SUBSET S : f[s] = IF s = {} THEN base ELSE H[<<s, f[s \ {c[s]}]>>]
  <2>1. TAKE s \in SUBSET S
  <2>2. s \ {c[s]} \in SUBSET S
    OBVIOUS
  <2>. HIDE DEF T
  <2>. QED
    BY <1>4, <1>5, <1>6, <2>2
<1>. QED
  BY <1>7 DEF Recursive

\* ... and the invariant holds of every value of it.
LEMMA FoldHolds ==
    ASSUME NEW S, IsFiniteSet(S), NEW c, Chooses(c, S), NEW f, NEW P, <<{}, f[{}]>> \in P,
           \A s \in SUBSET S :
               s # {} /\ <<s \ {c[s]}, f[s \ {c[s]}]>> \in P => <<s, f[s]>> \in P
    PROVE  \A s \in SUBSET S : <<s, f[s]>> \in P
<1>. DEFINE T == {s \in SUBSET S : <<s, f[s]>> \in P}
<1>1. ASSUME NEW s \in SUBSET S, \A r \in SUBSET s : r # s => r \in T PROVE s \in T
  <2>1. CASE s = {}
    BY <2>1
  <2>2. CASE s # {}
    <3>1. c[s] \in s
      BY <2>2 DEF Chooses
    <3>2. s \ {c[s]} \in T
      <4>1. s \ {c[s]} \in SUBSET s /\ s \ {c[s]} # s
        BY <3>1
      <4>. HIDE DEF T
      <4>. QED
        BY <1>1, <4>1
    <3>3. <<s \ {c[s]}, f[s \ {c[s]}]>> \in P
      BY <3>2
    <3>4. <<s, f[s]>> \in P
      BY <2>2, <3>3
    <3>. QED
      BY <3>4
  <2>. QED
    BY <2>1, <2>2
<1>2. T = SUBSET S
  <2>1. T \in SUBSET (SUBSET S)
    OBVIOUS
  <2>. HIDE DEF T
  <2>. QED
    BY <1>1, <2>1, SubsetsBySize
<1>. QED
  BY <1>2
-----------------------------------------------------------------------------
(* Sums *)

Some(s) == CHOOSE x \in s : TRUE

\* The partial sums of f over the subsets of S, in the order of the fold.
PartialSums(g, f, S) ==
    g = [s \in SUBSET S |-> IF s = {} THEN 0 ELSE f[Some(s)] + g[s \ {Some(s)}]]

\* The fold of the community modules is one of them.
LEMMA SumIsPartialSum ==
    ASSUME NEW f, NEW S
    PROVE  SumFunctionOnSet(f, S) = (CHOOSE g : PartialSums(g, f, S))[S]
  BY DEF SumFunctionOnSet, FoldFunctionOnSet, MapThenFoldSet, PartialSums, Some

\* There is one.
LEMMA PartialSumsExist ==
    ASSUME NEW S, IsFiniteSet(S), NEW f, \A x \in S : f[x] \in Int
    PROVE  \E g : PartialSums(g, f, S)
<1> DEFINE c == [s \in SUBSET S |-> Some(s)]
           G == [p \in (SUBSET S) \X Int |-> IF p[1] = {} THEN 0 ELSE f[Some(p[1])] + p[2]]
<1>1. \A s \in SUBSET S : s # {} => Some(s) \in s /\ c[s] = Some(s)
    BY DEF Some
<1>2. G \in [(SUBSET S) \X Int -> Int]
  <2>1. ASSUME NEW p \in (SUBSET S) \X Int
        PROVE  (IF p[1] = {} THEN 0 ELSE f[Some(p[1])] + p[2]) \in Int
    <3>1. p[1] \in SUBSET S /\ p[2] \in Int
        OBVIOUS
    <3>2. p[1] # {} => f[Some(p[1])] \in Int
        BY <1>1, <3>1
    <3>3. QED
        BY <3>1, <3>2
  <2>2. QED
      BY <2>1
<1>3. \A s \in SUBSET S, v \in Int : s # {} => G[<<s, v>>] = f[Some(s)] + v
    OBVIOUS
<1> HIDE DEF c, G
<1>4. 0 \in Int /\ Chooses(c, S)
    BY <1>1 DEF Chooses
<1>5. PICK g \in [SUBSET S -> Int] : Recursive(g, S, 0, c, G)
    BY <1>2, <1>4, RecursionOverSubsets
<1>6. \A s \in SUBSET S : g[s] = IF s = {} THEN 0 ELSE f[Some(s)] + g[s \ {Some(s)}]
  <2> SUFFICES ASSUME NEW s \in SUBSET S, s # {} PROVE g[s] = f[Some(s)] + g[s \ {Some(s)}]
      BY <1>5 DEF Recursive
  <2>1. s \ {Some(s)} \in SUBSET S
      OBVIOUS
  <2>2. g[s \ {Some(s)}] \in Int
      BY <2>1
  <2>3. QED
      BY <1>1, <1>3, <1>5, <2>2 DEF Recursive
<1>7. g = [s \in SUBSET S |-> g[s]]
    OBVIOUS
<1>8. QED
    BY <1>6, <1>7, Zenon DEF PartialSums

\* They are integers, and what is added last does not matter.
LEMMA PartialSumsStep ==
    ASSUME NEW S, IsFiniteSet(S), NEW f, \A x \in S : f[x] \in Int, NEW g, PartialSums(g, f, S)
    PROVE  /\ g[{}] = 0
           /\ \A s \in SUBSET S : g[s] \in Int /\ \A x \in s : g[s] = f[x] + g[s \ {x}]
<1>1. \A s \in SUBSET S : g[s] = IF s = {} THEN 0 ELSE f[Some(s)] + g[s \ {Some(s)}]
    BY DEF PartialSums
<1>2. \A s \in SUBSET S : s # {} => Some(s) \in s
    BY DEF Some
<1> DEFINE T == {s \in SUBSET S : g[s] \in Int /\ \A x \in s : g[s] = f[x] + g[s \ {x}]}
<1>3. ASSUME NEW s \in SUBSET S, \A r \in SUBSET s : r # s => r \in T
      PROVE  s \in T
  <2>1. CASE s = {}
    <3>1. g[s] = 0
        BY <1>1, <2>1
    <3>2. QED
        BY <2>1, <3>1
  <2>2. CASE s # {}
    <3> DEFINE y == Some(s)
    <3>1. y \in s /\ f[y] \in Int
        BY <1>2, <2>2
    <3>2. g[s] = f[y] + g[s \ {y}]
        BY <1>1, <2>2
    <3>3. s \ {y} \in T
        BY <1>3, <3>1
    <3>4. g[s] \in Int
        BY <3>1, <3>2, <3>3
    <3>5. ASSUME NEW x \in s PROVE g[s] = f[x] + g[s \ {x}]
      <4>1. CASE x = y
          BY <3>2, <4>1
      <4>2. CASE x # y
        <5> HIDE DEF y
        <5>1. s \ {x} \in T /\ y \in s \ {x} /\ x \in s \ {y}
            BY <1>3, <3>1, <4>2
        <5>2. g[s \ {y}] = f[x] + g[(s \ {y}) \ {x}]
            BY <3>3, <5>1
        <5>3. g[s \ {x}] = f[y] + g[(s \ {x}) \ {y}]
            BY <5>1
        <5>4. (s \ {y}) \ {x} = (s \ {x}) \ {y} /\ (s \ {x}) \ {y} \in SUBSET s /\ (s \ {x}) \ {y} # s
            BY <3>1
        <5>5. g[(s \ {x}) \ {y}] \in Int /\ f[x] \in Int
            BY <1>3, <5>4
        <5> HIDE DEF T
        <5>6. PICK r \in Int : r = g[(s \ {x}) \ {y}]
            BY <5>5
        <5>7. g[s \ {y}] = f[x] + r /\ g[s \ {x}] = f[y] + r
            BY <5>2, <5>3, <5>4, <5>6
        <5>8. g[s] = f[y] + (f[x] + r) /\ f[x] + g[s \ {x}] = f[x] + (f[y] + r)
            BY <3>2, <5>7
        <5>9. f[y] + (f[x] + r) = f[x] + (f[y] + r)
            BY <3>1, <5>5
        <5>10. QED
            BY <5>8, <5>9
      <4>3. QED
          BY <4>1, <4>2
    <3>6. QED
        BY <3>4, <3>5
  <2>3. QED
      BY <2>1, <2>2
<1>4. T = SUBSET S
  <2>1. T \in SUBSET (SUBSET S)
      OBVIOUS
  <2> HIDE DEF T
  <2>2. QED
      BY <1>3, <2>1, SubsetsBySize
<1>5. QED
    BY <1>1, <1>4

\* Two of them agree where their functions do.
LEMMA PartialSumsAgree ==
    ASSUME NEW S, IsFiniteSet(S), NEW f, NEW R \in SUBSET S, NEW h,
           \A x \in R : f[x] = h[x],
           NEW g, PartialSums(g, f, S), NEW k, PartialSums(k, h, R)
    PROVE  g[R] = k[R]
<1>1. \A s \in SUBSET R : /\ g[s] = IF s = {} THEN 0 ELSE f[Some(s)] + g[s \ {Some(s)}]
                          /\ k[s] = IF s = {} THEN 0 ELSE h[Some(s)] + k[s \ {Some(s)}]
    BY DEF PartialSums
<1>2. \A s \in SUBSET R : s # {} => Some(s) \in s
    BY DEF Some
<1> DEFINE T == {s \in SUBSET R : g[s] = k[s]}
<1>3. ASSUME NEW s \in SUBSET R, \A r \in SUBSET s : r # s => r \in T
      PROVE  s \in T
  <2>1. CASE s = {}
      BY <1>1, <2>1
  <2>2. CASE s # {}
    <3>1. Some(s) \in R /\ s \ {Some(s)} \in T
        BY <1>2, <1>3, <2>2
    <3>2. QED
        BY <1>1, <2>2, <3>1
  <2>3. QED
      BY <2>1, <2>2
<1>4. T = SUBSET R
  <2>1. T \in SUBSET (SUBSET R) /\ IsFiniteSet(R)
      BY FS_Subset
  <2> HIDE DEF T
  <2>2. QED
      BY <1>3, <2>1, SubsetsBySize
<1>5. QED
    BY <1>4

\* The sum over no elements.
LEMMA SumEmpty == ASSUME NEW f PROVE SumFunctionOnSet(f, {}) = 0
<1>1. IsFiniteSet({})
    BY FS_EmptySet
<1>2. PartialSums(CHOOSE g : PartialSums(g, f, {}), f, {})
    BY <1>1, PartialSumsExist
<1>3. QED
    BY <1>1, <1>2, PartialSumsStep, SumIsPartialSum

\* The sum without one element.
LEMMA SumRemove ==
    ASSUME NEW S, IsFiniteSet(S), NEW f, \A x \in S : f[x] \in Int
    PROVE  /\ SumFunctionOnSet(f, S) \in Int
           /\ \A x \in S : SumFunctionOnSet(f, S) = f[x] + SumFunctionOnSet(f, S \ {x})
<1> DEFINE g == CHOOSE k : PartialSums(k, f, S)
<1>1. PartialSums(g, f, S)
    BY PartialSumsExist
<1>2. SumFunctionOnSet(f, S) = g[S]
    BY SumIsPartialSum
<1> HIDE DEF g
<1>3. g[S] \in Int /\ \A x \in S : g[S] = f[x] + g[S \ {x}]
    BY <1>1, PartialSumsStep
<1>4. ASSUME NEW x \in S PROVE SumFunctionOnSet(f, S \ {x}) = g[S \ {x}]
  <2> DEFINE R == S \ {x}
             k == CHOOSE j : PartialSums(j, f, R)
  <2>1. R \in SUBSET S /\ IsFiniteSet(R) /\ \A y \in R : f[y] \in Int
      BY FS_Subset
  <2> HIDE DEF R
  <2>2. PartialSums(k, f, R)
      BY <2>1, PartialSumsExist
  <2>3. SumFunctionOnSet(f, R) = k[R]
      BY SumIsPartialSum
  <2> HIDE DEF k
  <2>4. g[R] = k[R]
      BY <1>1, <2>1, <2>2, PartialSumsAgree
  <2>5. QED
      BY <2>3, <2>4 DEF R
<1>5. QED
    BY <1>2, <1>3, <1>4

\* Only the values on the set count.
LEMMA SumAgrees ==
    ASSUME NEW S, IsFiniteSet(S), NEW f, NEW h, \A x \in S : f[x] = h[x], \A x \in S : f[x] \in Int
    PROVE  SumFunctionOnSet(f, S) = SumFunctionOnSet(h, S)
<1> DEFINE g == CHOOSE j : PartialSums(j, f, S)
           k == CHOOSE j : PartialSums(j, h, S)
<1>1. PartialSums(g, f, S) /\ PartialSums(k, h, S)
    BY PartialSumsExist
<1>2. SumFunctionOnSet(f, S) = g[S] /\ SumFunctionOnSet(h, S) = k[S]
    BY SumIsPartialSum
<1> HIDE DEF g, k
<1>3. QED
    BY <1>1, <1>2, PartialSumsAgree

\* The sum of a function is a number, and zero when nothing is summed.
LEMMA SumIsNumber ==
    ASSUME NEW S, IsFiniteSet(S), NEW f \in [S -> Int]
    PROVE  SumFunction(f) \in Int /\ (S = {} => SumFunction(f) = 0)
<1>1. SumFunction(f) = SumFunctionOnSet(f, S)
  BY DEF SumFunction
<1>2. \A x \in S : f[x] \in Int
  OBVIOUS
<1>. QED
  BY <1>1, <1>2, SumRemove, SumEmpty, Zenon

\* One value more.
LEMMA SumInsert ==
    ASSUME NEW S, IsFiniteSet(S), NEW x, x \notin S, NEW f \in [S -> Int],
           NEW h \in [S \cup {x} -> Int], \A y \in S : h[y] = f[y]
    PROVE  SumFunction(h) = SumFunction(f) + h[x]
<1>. DEFINE T == S \cup {x}
<1>1. SumFunction(f) = SumFunctionOnSet(f, S) /\ SumFunction(h) = SumFunctionOnSet(h, T)
  BY DEF SumFunction
<1>2. IsFiniteSet(T) /\ x \in T /\ T \ {x} = S
  BY FS_AddElement
<1>3. (\A y \in T : h[y] \in Int) /\ (\A y \in S : f[y] \in Int) /\ (\A y \in S : f[y] = h[y])
  OBVIOUS
<1>. HIDE DEF T
<1>4. SumFunctionOnSet(h, T) = h[x] + SumFunctionOnSet(h, S)
  <2>1. SumFunctionOnSet(h, T) = h[x] + SumFunctionOnSet(h, T \ {x})
    BY <1>2, <1>3, SumRemove, Zenon
  <2>. QED
    BY <2>1, <1>2, Zenon
<1>5. SumFunctionOnSet(f, S) = SumFunctionOnSet(h, S)
  BY <1>3, SumAgrees, Zenon
<1>6. SumFunctionOnSet(f, S) \in Int
  BY <1>3, SumRemove, Zenon
<1>7. h[x] \in Int
  BY <1>2, <1>3
<1>. QED
  BY <1>1, <1>2, <1>4, <1>5, <1>6, <1>7

\* One value changed.
LEMMA SumChange ==
    ASSUME NEW S, IsFiniteSet(S), NEW x \in S, NEW f \in [S -> Int], NEW h \in [S -> Int],
           \A y \in S : y # x => h[y] = f[y]
    PROVE  SumFunction(h) = SumFunction(f) + h[x] - f[x]
<1>. DEFINE R == S \ {x}
            g == [y \in R |-> f[y]]
<1>1. IsFiniteSet(R) /\ x \notin R /\ R \cup {x} = S /\ g \in [R -> Int]
  BY FS_RemoveElement
<1>2. (\A y \in R : h[y] = g[y]) /\ (\A y \in R : f[y] = g[y])
  OBVIOUS
<1>3. h \in [R \cup {x} -> Int] /\ f \in [R \cup {x} -> Int]
  BY <1>1
<1>. HIDE DEF R, g
<1>4. SumFunction(h) = SumFunction(g) + h[x]
  BY <1>1, <1>2, <1>3, SumInsert
<1>5. SumFunction(f) = SumFunction(g) + f[x]
  BY <1>1, <1>2, <1>3, SumInsert
<1>6. SumFunction(g) \in Int /\ f[x] \in Int /\ h[x] \in Int
  BY <1>1, SumIsNumber
<1>. QED
  BY <1>4, <1>5, <1>6

\* What holds for no elements, and with one more element when it holds
\* without it, holds for every subset.
LEMMA SubsetsByElement ==
    ASSUME NEW S, IsFiniteSet(S), NEW T \in SUBSET (SUBSET S), {} \in T,
           \A s \in T, x \in S : x \notin s => s \cup {x} \in T
    PROVE  T = SUBSET S
<1>1. ASSUME NEW s \in SUBSET S, \A r \in SUBSET s : r # s => r \in T
      PROVE  s \in T
  <2>1. CASE s = {}
    BY <2>1
  <2>2. CASE s # {}
    <3>1. PICK x \in s : TRUE
      BY <2>2
    <3>2. s \ {x} \in T /\ x \in S /\ x \notin s \ {x} /\ (s \ {x}) \cup {x} = s
      BY <1>1, <3>1
    <3>. QED
      BY <3>2
  <2>. QED
    BY <2>1, <2>2
<1>. QED
  BY <1>1, SubsetsBySize

IntegersOn(k, s) == \A y \in s : k[y] \in Int

\* The part of a function on a set, and the same with one element more.
LEMMA SumExtend ==
    ASSUME NEW S, IsFiniteSet(S), NEW x, x \notin S, NEW k, IntegersOn(k, S \cup {x})
    PROVE  SumFunction([y \in S \cup {x} |-> k[y]]) = SumFunction([y \in S |-> k[y]]) + k[x]
<1>. DEFINE a == [y \in S |-> k[y]]
            b == [y \in S \cup {x} |-> k[y]]
<1>1. a \in [S -> Int] /\ b \in [S \cup {x} -> Int] /\ \A y \in S : b[y] = a[y]
  BY DEF IntegersOn
<1>2. b[x] = k[x]
  OBVIOUS
<1>. HIDE DEF a, b
<1>3. SumFunction(b) = SumFunction(a) + b[x]
  BY <1>1, SumInsert
<1>. QED
  BY <1>2, <1>3, Zenon DEF a, b

\* The sum of two functions.
LEMMA SumPlus ==
    ASSUME NEW S, IsFiniteSet(S), NEW f \in [S -> Int], NEW g \in [S -> Int], NEW h \in [S -> Int],
           \A x \in S : h[x] = f[x] + g[x]
    PROVE  SumFunction(h) = SumFunction(f) + SumFunction(g)
<1>. DEFINE On(k, s) == [x \in s |-> k[x]]
            T == {s \in SUBSET S : SumFunction(On(h, s)) = SumFunction(On(f, s)) + SumFunction(On(g, s))}
<1>1. \A s \in SUBSET S : /\ IsFiniteSet(s)
                          /\ On(f, s) \in [s -> Int] /\ On(g, s) \in [s -> Int] /\ On(h, s) \in [s -> Int]
  BY FS_Subset
<1>2. {} \in T
  <2>1. \A k : On(k, {}) \in [{} -> Int]
    OBVIOUS
  <2>. HIDE DEF On
  <2>2. \A k : SumFunction(On(k, {})) = 0
    BY <2>1, FS_EmptySet, SumIsNumber
  <2>. QED
    BY <2>2
<1>3. ASSUME NEW s \in T, NEW x \in S, x \notin s PROVE s \cup {x} \in T
  <2>. DEFINE t == s \cup {x}
  <2>1. s \in SUBSET S /\ t \in SUBSET S
    OBVIOUS
  <2>3. SumFunction(On(h, s)) = SumFunction(On(f, s)) + SumFunction(On(g, s))
    OBVIOUS
  <2>4. ASSUME NEW k \in [S -> Int] PROVE SumFunction(On(k, t)) = SumFunction(On(k, s)) + k[x]
    <3>1. IntegersOn(k, s \cup {x})
      BY <2>1 DEF IntegersOn
    <3>2. IsFiniteSet(s) /\ x \notin s
      BY <1>1, <1>3, <2>1
    <3>. QED
      BY <3>1, <3>2, SumExtend
  <2>. HIDE DEF On, T
  <2>5. SumFunction(On(f, s)) \in Int /\ SumFunction(On(g, s)) \in Int
    BY <1>1, <2>1, SumIsNumber
  <2>6. f[x] \in Int /\ g[x] \in Int /\ h[x] = f[x] + g[x]
    OBVIOUS
  <2>7. SumFunction(On(h, t)) = SumFunction(On(f, t)) + SumFunction(On(g, t))
    <3>1. /\ SumFunction(On(f, t)) = SumFunction(On(f, s)) + f[x]
          /\ SumFunction(On(g, t)) = SumFunction(On(g, s)) + g[x]
          /\ SumFunction(On(h, t)) = SumFunction(On(h, s)) + h[x]
      BY <2>4, Zenon
    <3>. HIDE DEF t
    <3>. QED
      BY <2>3, <2>5, <2>6, <3>1
  <2>. QED
    BY <2>1, <2>7 DEF T
<1>4. S \in T
  <2>1. T \in SUBSET (SUBSET S)
    OBVIOUS
  <2>. HIDE DEF T
  <2>2. T = SUBSET S
    BY <1>2, <1>3, <2>1, SubsetsByElement
  <2>. QED
    BY <2>2
<1>5. On(f, S) = f /\ On(g, S) = g /\ On(h, S) = h
  OBVIOUS
<1>. QED
  BY <1>4, <1>5

\* Values of zero add nothing.
LEMMA SumRestrict ==
    ASSUME NEW S, IsFiniteSet(S), NEW R \in SUBSET S, NEW f \in [R -> Int], NEW h \in [S -> Int],
           \A x \in R : h[x] = f[x], \A x \in S \ R : h[x] = 0
    PROVE  SumFunction(h) = SumFunction(f)
<1>. DEFINE D == S \ R
            On(s) == [x \in R \cup s |-> h[x]]
            T == {s \in SUBSET D : SumFunction(On(s)) = SumFunction(f)}
<1>1. IsFiniteSet(R) /\ IsFiniteSet(D)
  BY FS_Subset
<1>2. \A s \in SUBSET D : On(s) \in [R \cup s -> Int] /\ IsFiniteSet(R \cup s)
  <2>1. \A s \in SUBSET D : R \cup s \in SUBSET S
    OBVIOUS
  <2>. QED
    BY <2>1, FS_Subset
<1>3. {} \in T
  <2>1. On({}) = f
    OBVIOUS
  <2>. QED
    BY <2>1
<1>4. ASSUME NEW s \in T, NEW x \in D, x \notin s PROVE s \cup {x} \in T
  <2>. DEFINE t == s \cup {x}
  <2>1. s \in SUBSET D /\ t \in SUBSET D /\ R \cup t = (R \cup s) \cup {x} /\ x \notin R \cup s
    BY <1>4
  <2>3. SumFunction(On(s)) = SumFunction(f)
    OBVIOUS
  <2>4. SumFunction(On(t)) = SumFunction(On(s)) + 0
    <3>. DEFINE a == On(s)
                b == On(t)
                u == R \cup s
    <3>1. a \in [u -> Int] /\ b \in [u \cup {x} -> Int] /\ b[x] = 0 /\ \A y \in u : b[y] = a[y]
      BY <2>1
    <3>2. IsFiniteSet(u) /\ x \notin u
      BY <1>2, <2>1
    <3>. HIDE DEF a, b, u
    <3>3. SumFunction(b) = SumFunction(a) + b[x]
      BY <3>1, <3>2, SumInsert
    <3>. QED
      BY <3>1, <3>3 DEF a, b
  <2>. HIDE DEF On, T, D
  <2>5. SumFunction(On(s)) \in Int
    BY <1>2, <2>1, SumIsNumber
  <2>6. SumFunction(On(t)) = SumFunction(f)
    BY <2>3, <2>4, <2>5
  <2>. QED
    BY <2>1, <2>6 DEF T
<1>5. D \in T
  <2>1. T \in SUBSET (SUBSET D)
    OBVIOUS
  <2>. HIDE DEF T, D
  <2>2. T = SUBSET D
    BY <1>1, <1>3, <1>4, <2>1, SubsetsByElement
  <2>. QED
    BY <2>2
<1>6. On(D) = h
  <2>1. R \cup D = S
    OBVIOUS
  <2>. QED
    BY <2>1
<1>. QED
  BY <1>5, <1>6

\* Zeros add up to zero.
LEMMA SumOfZeros ==
    ASSUME NEW S, IsFiniteSet(S), NEW f \in [S -> Int], \A x \in S : f[x] = 0
    PROVE  SumFunction(f) = 0
<1>1. \A x \in S : f[x] = f[x] + f[x]
  OBVIOUS
<1>2. SumFunction(f) = SumFunction(f) + SumFunction(f)
  BY <1>1, SumPlus
<1>. DEFINE n == SumFunction(f)
<1>3. n \in Int /\ n = n + n
  BY <1>2, SumIsNumber
<1>. HIDE DEF n
<1>4. n = 0
  BY <1>3
<1>. QED
  BY <1>4 DEF n

\* The sum of natural numbers is one.
LEMMA SumOfNats ==
    ASSUME NEW S, IsFiniteSet(S), NEW f \in [S -> Nat]
    PROVE  SumFunction(f) \in Nat
<1>. DEFINE On(s) == [y \in s |-> f[y]]
            T == {s \in SUBSET S : SumFunction(On(s)) \in Nat}
<1>1. {} \in T
  <2>1. On({}) \in [{} -> Int]
    OBVIOUS
  <2>. HIDE DEF On
  <2>2. SumFunction(On({})) = 0
    BY <2>1, FS_EmptySet, SumIsNumber
  <2>. QED
    BY <2>2
<1>2. ASSUME NEW s \in T, NEW x \in S, x \notin s PROVE s \cup {x} \in T
  <2>1. IntegersOn(f, s \cup {x}) /\ IsFiniteSet(s) /\ SumFunction(On(s)) \in Nat /\ f[x] \in Nat
    BY FS_Subset DEF IntegersOn
  <2>2. SumFunction(On(s \cup {x})) = SumFunction(On(s)) + f[x]
    BY <1>2, <2>1, SumExtend
  <2>3. s \cup {x} \in SUBSET S
    OBVIOUS
  <2>. HIDE DEF On
  <2>. QED
    BY <2>1, <2>2, <2>3
<1>3. S \in T
  <2>1. T \in SUBSET (SUBSET S)
    OBVIOUS
  <2>. HIDE DEF T
  <2>2. T = SUBSET S
    BY <1>1, <1>2, <2>1, SubsetsByElement
  <2>. QED
    BY <2>2
<1>4. On(S) = f
  OBVIOUS
<1>. QED
  BY <1>3, <1>4

\* The values of f under other names are those of h.
Renames(m, S, R, f, h) ==
    /\ m \in [S -> R]
    /\ \A x, y \in S : m[x] = m[y] => x = y
    /\ R = {m[x] : x \in S}
    /\ \A x \in S : h[m[x]] = f[x]

\* The same values under other names.
LEMMA SumReindex ==
    ASSUME NEW S, IsFiniteSet(S), NEW R, IsFiniteSet(R), NEW f \in [S -> Int], NEW h \in [R -> Int],
           NEW m, Renames(m, S, R, f, h)
    PROVE  SumFunction(h) = SumFunction(f)
<1>. USE DEF Renames
<1>. DEFINE On(k, s) == [y \in s |-> k[y]]
            Image(s) == {m[y] : y \in s}
            T == {s \in SUBSET S : SumFunction(On(f, s)) = SumFunction(On(h, Image(s)))}
<1>1. {} \in T
  <2>1. On(f, {}) \in [{} -> Int] /\ On(h, {}) \in [{} -> Int] /\ Image({}) = {}
    OBVIOUS
  <2>. HIDE DEF On, Image
  <2>2. SumFunction(On(f, {})) = 0 /\ SumFunction(On(h, {})) = 0
    BY <2>1, FS_EmptySet, SumIsNumber
  <2>. QED
    BY <2>1, <2>2
<1>2. ASSUME NEW s \in T, NEW x \in S, x \notin s PROVE s \cup {x} \in T
  <2>. DEFINE t == s \cup {x}
              I == Image(s)
  <2>0. s \in SUBSET S /\ t \in SUBSET S /\ SumFunction(On(f, s)) = SumFunction(On(h, I))
    OBVIOUS
  <2>1. IntegersOn(f, s \cup {x}) /\ IsFiniteSet(s)
    BY <2>0, FS_Subset DEF IntegersOn
  <2>2. SumFunction(On(f, t)) = SumFunction(On(f, s)) + f[x]
    BY <1>2, <2>1, SumExtend
  <2>3. IntegersOn(h, I \cup {m[x]}) /\ m[x] \notin I /\ Image(t) = I \cup {m[x]}
    BY <1>2, <2>0 DEF IntegersOn
  <2>4. IsFiniteSet(I)
    <3>1. I \subseteq R
      BY <2>0
    <3>. QED
      BY <3>1, FS_Subset
  <2>5. SumFunction(On(h, I \cup {m[x]})) = SumFunction(On(h, I)) + h[m[x]]
    <3>. DEFINE e == m[x]
    <3>1. IntegersOn(h, I \cup {e}) /\ e \notin I /\ IsFiniteSet(I)
      BY <2>3, <2>4
    <3>. HIDE DEF I, e
    <3>2. SumFunction([y \in I \cup {e} |-> h[y]]) = SumFunction([y \in I |-> h[y]]) + h[e]
      BY <3>1, SumExtend
    <3>. QED
      BY <3>2 DEF e
  <2>. HIDE DEF On, Image, t, I
  <2>6. SumFunction(On(f, t)) = SumFunction(On(h, Image(t)))
    <3>1. f[x] = h[m[x]]
      OBVIOUS
    <3>. QED
      BY <2>0, <2>2, <2>3, <2>5, <3>1
  <2>. QED
    BY <2>0, <2>6 DEF t
<1>3. S \in T
  <2>1. T \in SUBSET (SUBSET S)
    OBVIOUS
  <2>. HIDE DEF T
  <2>2. T = SUBSET S
    BY <1>1, <1>2, <2>1, SubsetsByElement
  <2>. QED
    BY <2>2
<1>4. On(f, S) = f /\ On(h, R) = h /\ Image(S) = R
  OBVIOUS
<1>. QED
  BY <1>3, <1>4

\* What the values of every class add up to.
ClassSums(h, K, S, k, f) ==
    h = [c \in K |-> SumFunction([y \in {z \in S : k[z] = c} |-> f[y]])]

\* The sum of the sums over classes.
LEMMA SumByClass ==
    ASSUME NEW S, IsFiniteSet(S), NEW K, IsFiniteSet(K), NEW f \in [S -> Int], NEW k \in [S -> K],
           NEW h, ClassSums(h, K, S, k, f)
    PROVE  SumFunction(h) = SumFunction(f)
<1>. DEFINE On(s) == [y \in s |-> f[y]]
            Class(s, c) == {z \in s : k[z] = c}
            Sums(s) == [c \in K |-> SumFunction(On(Class(s, c)))]
            T == {s \in SUBSET S : SumFunction(On(s)) = SumFunction(Sums(s))}
<1>0. ASSUME NEW s \in SUBSET S PROVE Sums(s) \in [K -> Int]
  <2>1. ASSUME NEW c \in K PROVE SumFunction(On(Class(s, c))) \in Int
    <3>1. IsFiniteSet(Class(s, c)) /\ On(Class(s, c)) \in [Class(s, c) -> Int]
      BY FS_Subset
    <3>. HIDE DEF On, Class
    <3>. QED
      BY <3>1, SumIsNumber
  <2>. HIDE DEF On, Class
  <2>. QED
    BY <2>1
<1>1. {} \in T
  <2>1. On({}) \in [{} -> Int] /\ \A c : Class({}, c) = {}
    OBVIOUS
  <2>2. Sums({}) \in [K -> Int]
    BY <1>0
  <2>. HIDE DEF On, Class
  <2>3. SumFunction(On({})) = 0
    BY <2>1, FS_EmptySet, SumIsNumber
  <2>4. \A c \in K : Sums({})[c] = 0
    BY <2>1, <2>3
  <2>. HIDE DEF Sums
  <2>5. SumFunction(Sums({})) = SumFunction(On({}))
    BY <2>2, <2>3, <2>4, SumOfZeros
  <2>. QED
    BY <2>5
<1>2. ASSUME NEW s \in T, NEW x \in S, x \notin s PROVE s \cup {x} \in T
  <2>. DEFINE t == s \cup {x}
              d == k[x]
              C == Class(s, d)
  <2>0. s \in SUBSET S /\ t \in SUBSET S /\ SumFunction(On(s)) = SumFunction(Sums(s)) /\ d \in K
    OBVIOUS
  <2>1. IntegersOn(f, s \cup {x}) /\ IsFiniteSet(s)
    BY <2>0, FS_Subset DEF IntegersOn
  <2>2. SumFunction(On(t)) = SumFunction(On(s)) + f[x]
    BY <1>2, <2>1, SumExtend
  <2>3. IntegersOn(f, C \cup {x}) /\ x \notin C /\ Class(t, d) = C \cup {x}
    BY <1>2, <2>0 DEF IntegersOn
  <2>4. \A c \in K : c # d => Class(t, c) = Class(s, c)
    OBVIOUS
  <2>5. IsFiniteSet(C)
    BY <2>1, FS_Subset
  <2>6. SumFunction(On(C \cup {x})) = SumFunction(On(C)) + f[x]
    <3>. HIDE DEF C
    <3>. QED
      BY <2>3, <2>5, SumExtend
  <2>. HIDE DEF On, Class, t
  <2>7. /\ Sums(t)[d] = Sums(s)[d] + f[x]
        /\ \A c \in K : c # d => Sums(t)[c] = Sums(s)[c]
    BY <2>0, <2>3, <2>4, <2>6
  <2>8. Sums(s) \in [K -> Int] /\ Sums(t) \in [K -> Int]
    BY <1>0, <2>0
  <2>. HIDE DEF Sums, d, C
  <2>9. SumFunction(Sums(t)) = SumFunction(Sums(s)) + Sums(t)[d] - Sums(s)[d]
    BY <2>0, <2>7, <2>8, SumChange
  <2>10. SumFunction(Sums(t)) = SumFunction(Sums(s)) + f[x]
    <3>1. SumFunction(Sums(s)) \in Int /\ Sums(s)[d] \in Int /\ f[x] \in Int
      BY <2>0, <2>8, SumIsNumber
    <3>. QED
      BY <2>7, <2>9, <3>1
  <2>11. SumFunction(On(t)) = SumFunction(Sums(t))
    BY <2>0, <2>2, <2>10
  <2>. QED
    BY <2>0, <2>11 DEF t
<1>3. S \in T
  <2>1. T \in SUBSET (SUBSET S)
    OBVIOUS
  <2>. HIDE DEF T
  <2>2. T = SUBSET S
    BY <1>1, <1>2, <2>1, SubsetsByElement
  <2>. QED
    BY <2>2
<1>4. On(S) = f /\ Sums(S) = h
  BY DEF ClassSums
<1>. QED
  BY <1>3, <1>4

\* Only one value counts.
LEMMA SumSingle ==
    ASSUME NEW S, IsFiniteSet(S), NEW x \in S, NEW f \in [S -> Int], \A y \in S : y # x => f[y] = 0
    PROVE  SumFunction(f) = f[x]
<1>. DEFINE z == [y \in S |-> 0]
<1>1. z \in [S -> Int] /\ z[x] = 0 /\ f[x] \in Int
  OBVIOUS
<1>2. \A y \in S : z[y] = 0
  OBVIOUS
<1>. HIDE DEF z
<1>3. SumFunction(z) = 0
  BY <1>1, <1>2, SumOfZeros
<1>4. \A y \in S : y # x => f[y] = z[y]
  BY <1>2
<1>5. SumFunction(f) = SumFunction(z) + f[x] - z[x]
  BY <1>1, <1>4, SumChange
<1>. QED
  BY <1>1, <1>3, <1>5

\* Shares for some, and a rest for one.
Shared(h, f, S, R, sh, x, n) ==
    \A y \in S : h[y] = f[y] + (IF y \in R THEN sh[y] ELSE 0) + (IF y = x THEN n ELSE 0)

\* They are what the sum grows by.
LEMMA SumOfShares ==
    ASSUME NEW S, IsFiniteSet(S), NEW R \in SUBSET S, NEW f \in [S -> Int], NEW sh \in [S -> Int],
           NEW x \in S, NEW n \in Int, NEW h \in [S -> Int], Shared(h, f, S, R, sh, x, n)
    PROVE  SumFunction(h) = SumFunction(f) + SumFunction([y \in R |-> sh[y]]) + n
<1>. DEFINE p == [y \in R |-> sh[y]]
            g == [y \in S |-> IF y \in R THEN sh[y] ELSE 0]
            d == [y \in S |-> IF y = x THEN n ELSE 0]
            k == [y \in S |-> f[y] + g[y]]
<1>1. /\ p \in [R -> Int] /\ g \in [S -> Int] /\ d \in [S -> Int]
  OBVIOUS
<1>2. (\A y \in R : g[y] = p[y]) /\ (\A y \in S \ R : g[y] = 0)
  OBVIOUS
<1>3. d[x] = n /\ \A y \in S : y # x => d[y] = 0
  OBVIOUS
<1>4. \A y \in S : h[y] = f[y] + g[y] + d[y]
  BY DEF Shared
<1>. HIDE DEF p, g, d
<1>5. k \in [S -> Int] /\ \A y \in S : k[y] = f[y] + g[y]
  BY <1>1
<1>6. \A y \in S : h[y] = k[y] + d[y]
  BY <1>1, <1>4, <1>5
<1>. HIDE DEF k
<1>7. SumFunction(g) = SumFunction(p)
  BY <1>1, <1>2, SumRestrict
<1>8. SumFunction(d) = n
  BY <1>1, <1>3, SumSingle
<1>9. SumFunction(k) = SumFunction(f) + SumFunction(g)
  BY <1>1, <1>5, SumPlus
<1>10. SumFunction(h) = SumFunction(k) + SumFunction(d)
  <2>1. k \in [S -> Int] /\ d \in [S -> Int]
    BY <1>1, <1>5
  <2>. QED
    BY <1>6, <2>1, SumPlus
<1>. QED
  BY <1>7, <1>8, <1>9, <1>10 DEF p

-----------------------------------------------------------------------------
\* What a division leaves.
LEMMA Division ==
    ASSUME NEW a \in Int, NEW b \in Nat, b > 0
    PROVE  /\ a \div b \in Int /\ a % b \in 0 .. b - 1
           /\ a = b * (a \div b) + (a % b)
           /\ a >= 0 => a \div b >= 0
<1>1. a \div b \in Int
  OBVIOUS
<1>2. a % b \in 0 .. b - 1
  OBVIOUS
<1>3. a = b * (a \div b) + (a % b)
  OBVIOUS
<1>4. a >= 0 => a \div b >= 0
  OBVIOUS
<1>. QED
  BY <1>1, <1>2, <1>3, <1>4

\* The least of two numbers.
LEMMA MinOfTwo ==
    ASSUME NEW a \in Int, NEW b \in Int
    PROVE  Min({a, b}) = IF a <= b THEN a ELSE b
<1>1. \E m \in {a, b} : \A y \in {a, b} : m <= y
  OBVIOUS
<1>2. /\ Min({a, b}) \in {a, b}
      /\ \A y \in {a, b} : Min({a, b}) <= y
  BY <1>1 DEF Min
<1>. QED
  BY <1>2

\* The greater of two numbers.
LEMMA MaxOfTwo ==
    ASSUME NEW a \in Int, NEW b \in Int
    PROVE  Max({a, b}) = IF a >= b THEN a ELSE b
<1>. DEFINE m == IF a >= b THEN a ELSE b
<1>1. m \in {a, b} /\ \A y \in {a, b} : m >= y
  OBVIOUS
<1>2. Max({a, b}) \in {a, b} /\ \A y \in {a, b} : Max({a, b}) >= y
  BY <1>1 DEF Max
<1>. QED
  BY <1>1, <1>2

\* A product grows with its factors.
LEMMA ProductGrows ==
    ASSUME NEW a \in Int, NEW b \in Int, NEW c \in Nat, a <= b
    PROVE  a * c <= b * c /\ c * a <= c * b
  OBVIOUS

\* The greatest of a set of bounded numbers.
LEMMA MaxIsGreatest ==
    ASSUME NEW n \in Nat, NEW S \in SUBSET (0 .. n), S # {}
    PROVE  Max(S) \in S /\ \A y \in S : y <= Max(S)
<1>. DEFINE D == {k \in Nat : n - k \in S}
<1>1. D # {} /\ D \subseteq Nat
  <2>1. PICK x \in S : TRUE
    OBVIOUS
  <2>2. x \in 0 .. n /\ n - x \in Nat /\ n - (n - x) = x
    OBVIOUS
  <2>. QED
    BY <2>1, <2>2
<1>2. IsWellFoundedOn(OpToRel(<, Nat), Nat)
  BY NatLessThanWellFounded
<1>3. PICK k \in D : \A m \in D : ~ (<<m, k>> \in OpToRel(<, Nat))
  <2>. HIDE DEF D
  <2>. QED
    BY <1>1, <1>2, WFMin
<1>4. \A m \in D : ~ (m < k)
  BY <1>1, <1>3 DEF OpToRel
<1>5. \A y \in S : y <= n - k
  <2>. TAKE y \in S
  <2>1. y \in 0 .. n /\ n - y \in Nat /\ n - (n - y) = y
    OBVIOUS
  <2>2. n - y \in D
    BY <2>1
  <2>3. ~ (n - y < k) /\ k \in Nat
    BY <1>1, <1>3, <1>4, <2>2
  <2>. QED
    BY <2>1, <2>3
<1>6. \E x \in S : \A y \in S : x >= y
  BY <1>3, <1>5
<1>. QED
  BY <1>6 DEF Max
=============================================================================
