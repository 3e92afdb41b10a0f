------------------------------ MODULE SumProofs ------------------------------
(***************************************************************************)
(* Induction on numbers and on finite sets, stated for sets instead of     *)
(* predicates, and the sums of functions over finite sets that the modules *)
(* of the solver and of the library take (SumFunction of the community     *)
(* module Functions): the fold that defines a sum exists, and the order in *)
(* which it takes the elements does not matter.  Sorting, at the end, puts *)
(* every element at its rank.                                              *)
(***************************************************************************)
EXTENDS Integers, FiniteSets, Functions, Sorting, FiniteSetTheorems, WellFoundedInduction,
        TLAPS

(* Every set of numbers has a least one.                                   *)
LEMMA LeastExists ==
    ASSUME NEW T \in SUBSET Nat, T # {}
    PROVE  \E x \in T : \A y \in T : x <= y
<1>1. PICK x \in T : \A y \in T : ~ (<<y, x>> \in OpToRel(<, Nat))
  BY NatLessThanWellFounded, WFMin
<1>2. \A y \in T : ~ (y < x)
  BY <1>1 DEF OpToRel
<1>3. QED  BY <1>2

LEMMA SetInduction ==
    ASSUME NEW T, 0 \in T, \A n \in Nat : n \in T => n + 1 \in T
    PROVE  \A n \in Nat : n \in T
<1> DEFINE rest == {n \in Nat : n \notin T}
<1> SUFFICES ASSUME rest # {} PROVE FALSE
  OBVIOUS
<1>1. PICK x \in rest : \A y \in rest : x <= y
  BY LeastExists
<1>2. x # 0 /\ x - 1 \in Nat
  OBVIOUS
<1>3. x - 1 \in T
  BY <1>1, <1>2
<1>4. (x - 1) + 1 \in T
  BY <1>2, <1>3
<1>5. QED  BY <1>4

(* What holds of the empty set, and of a set whenever it holds of all sets *)
(* with one element less, holds of all subsets of a finite set.            *)
LEMMA SubsetInduction ==
    ASSUME NEW D, IsFiniteSet(D), NEW T, {} \in T,
           \A s \in SUBSET D : s # {} /\ (\A x \in s : s \ {x} \in T) => s \in T
    PROVE  \A s \in SUBSET D : s \in T
<1> DEFINE N == {n \in Nat : \A s \in SUBSET D : Cardinality(s) = n => s \in T}
<1>1. \A s \in SUBSET D : IsFiniteSet(s) /\ Cardinality(s) \in Nat
  BY FS_Subset, FS_CardinalityType
<1>2. 0 \in N
  BY <1>1, FS_EmptySet
<1>3. ASSUME NEW n \in Nat, n \in N PROVE n + 1 \in N
  <2> SUFFICES ASSUME NEW s \in SUBSET D, Cardinality(s) = n + 1 PROVE s \in T
    OBVIOUS
  <2>1. s # {}
    <3>1. Cardinality({}) = 0
      BY FS_EmptySet
    <3>2. QED  BY <3>1
  <2>2. ASSUME NEW x \in s PROVE s \ {x} \in T
    <3>1. Cardinality(s \ {x}) = n
      BY <1>1, FS_RemoveElement
    <3>2. QED  BY <1>3, <3>1
  <2>3. QED  BY <2>1, <2>2
<1>4. \A n \in Nat : n \in N
  <2> HIDE DEF N
  <2>1. QED  BY <1>2, <1>3, SetInduction
<1>5. QED  BY <1>1, <1>4
-----------------------------------------------------------------------------
Pick(s) == CHOOSE x \in s : TRUE

LEMMA PickIsMember ==
    ASSUME NEW s, s # {}
    PROVE  Pick(s) \in s
BY DEF Pick

(* What the fold g says of s, from what it says of smaller sets.           *)
Unfolded(f, s, g) == IF s = {} THEN 0 ELSE f[Pick(s)] + g[s \ {Pick(s)}]
IsFold(f, D, g) == g = [s \in SUBSET D |-> Unfolded(f, s, g)]

LEMMA FoldExists ==
    ASSUME NEW D, IsFiniteSet(D), NEW f, \A x \in D : f[x] \in Int
    PROVE  \E g : IsFold(f, D, g)
<1> DEFINE Upto(n, g) == \A s \in SUBSET D : Cardinality(s) <= n => g[s] = Unfolded(f, s, g)
           N == {n \in Nat : \E g : g = [s \in SUBSET D |-> g[s]] /\ Upto(n, g)}
<1>1. \A s \in SUBSET D : IsFiniteSet(s) /\ Cardinality(s) \in Nat
  BY FS_Subset, FS_CardinalityType
<1>2. ASSUME NEW s \in SUBSET D, s # {}
      PROVE  /\ s \ {Pick(s)} \in SUBSET D
             /\ Cardinality(s \ {Pick(s)}) = Cardinality(s) - 1
  BY <1>1, <1>2, PickIsMember, FS_RemoveElement
<1>3. 0 \in N
  <2> DEFINE g == [s \in SUBSET D |-> 0]
  <2>1. ASSUME NEW s \in SUBSET D, Cardinality(s) <= 0 PROVE g[s] = Unfolded(f, s, g)
    <3>1. s = {}
      BY <1>1, <2>1, FS_EmptySet
    <3>2. QED  BY <3>1 DEF Unfolded
  <2>2. g = [s \in SUBSET D |-> g[s]]
    OBVIOUS
  <2> HIDE DEF g
  <2>3. QED  BY <2>1, <2>2
<1>4. ASSUME NEW n \in Nat, n \in N PROVE n + 1 \in N
  <2>1. PICK g : Upto(n, g)
    BY <1>4
  <2> DEFINE h == [s \in SUBSET D |->
                      IF Cardinality(s) <= n THEN g[s] ELSE Unfolded(f, s, g)]
  <2>2. \A s \in SUBSET D : Cardinality(s) <= n => h[s] = g[s]
    OBVIOUS
  <2>3. ASSUME NEW s \in SUBSET D, Cardinality(s) <= n + 1
        PROVE  Unfolded(f, s, h) = Unfolded(f, s, g)
    <3>1. CASE s = {}
      BY <3>1 DEF Unfolded
    <3>2. CASE s # {}
      <4>1. h[s \ {Pick(s)}] = g[s \ {Pick(s)}]
        <5>1. Cardinality(s \ {Pick(s)}) <= n
          BY <1>1, <1>2, <2>3, <3>2
        <5>2. QED  BY <1>2, <2>2, <3>2, <5>1
      <4> HIDE DEF h
      <4>2. QED  BY <4>1 DEF Unfolded
    <3>3. QED  BY <3>1, <3>2
  <2>4. \A s \in SUBSET D : h[s] = Unfolded(f, s, g)
    BY <2>1
  <2>5. h = [s \in SUBSET D |-> h[s]]
    OBVIOUS
  <2> HIDE DEF h
  <2>6. Upto(n + 1, h)
    BY <2>3, <2>4
  <2> HIDE DEF Upto
  <2>7. \E k : k = [s \in SUBSET D |-> k[s]] /\ Upto(n + 1, k)
    BY <2>5, <2>6, Zenon
  <2>8. n + 1 \in Nat
    OBVIOUS
  <2>9. QED  BY <2>7, <2>8, Zenon
<1>5. \A n \in Nat : n \in N
  <2> HIDE DEF N
  <2>1. QED  BY <1>3, <1>4, SetInduction
<1>6. PICK g : g = [s \in SUBSET D |-> g[s]] /\ Upto(Cardinality(D), g)
  BY <1>1, <1>5
<1>7. \A s \in SUBSET D : Cardinality(s) <= Cardinality(D)
  BY FS_Subset
<1>8. \A s \in SUBSET D : g[s] = Unfolded(f, s, g)
  BY <1>6, <1>7
<1>9. [s \in SUBSET D |-> g[s]] = [s \in SUBSET D |-> Unfolded(f, s, g)]
  BY <1>8
<1>10. g = [s \in SUBSET D |-> Unfolded(f, s, g)]
  BY <1>6, <1>9
<1>11. QED  BY <1>10 DEF IsFold

(* A fold takes out of a set whichever element is asked for.               *)
FoldLaws(f, D, g) ==
    /\ g[{}] = 0
    /\ \A s \in SUBSET D : g[s] \in Int /\ \A x \in s : g[s] = f[x] + g[s \ {x}]

LEMMA FoldMeaning ==
    ASSUME NEW D, IsFiniteSet(D), NEW f, \A x \in D : f[x] \in Int,
           NEW g, IsFold(f, D, g)
    PROVE  FoldLaws(f, D, g)
<1> DEFINE Good(s) == g[s] \in Int /\ \A x \in s : g[s] = f[x] + g[s \ {x}]
           T == {s \in SUBSET D : \A u \in SUBSET s : Good(u)}
<1>1. \A s \in SUBSET D : g[s] = Unfolded(f, s, g)
  BY DEF IsFold
<1>2. g[{}] = 0
  BY <1>1 DEF Unfolded
<1>3. {} \in T
  <2>1. Good({})
    BY <1>2
  <2> HIDE DEF Good
  <2>2. QED  BY <2>1
<1>4. ASSUME NEW s \in SUBSET D, s # {}, \A x \in s : s \ {x} \in T
      PROVE  s \in T
  <2> DEFINE p == Pick(s)
  <2>1. p \in s
    BY <1>4, PickIsMember
  <2>2. g[s] = f[p] + g[s \ {p}]
    BY <1>1, <1>4 DEF Unfolded
  <2> HIDE DEF p
  <2>3. \A x \in s : \A u \in SUBSET (s \ {x}) : Good(u)
    BY <1>4
  <2>4. f[p] \in Int /\ g[s \ {p}] \in Int
    BY <2>1, <2>3
  <2>5. ASSUME NEW x \in s PROVE g[s] = f[x] + g[s \ {x}]
    <3>1. CASE x = p
      BY <2>2, <3>1
    <3>2. CASE x # p
      <4>1. g[s \ {p}] = f[x] + g[(s \ {p}) \ {x}]
        BY <2>1, <2>3, <3>2
      <4>2. g[s \ {x}] = f[p] + g[(s \ {x}) \ {p}]
        BY <2>1, <2>3, <3>2
      <4>3. (s \ {p}) \ {x} = (s \ {x}) \ {p}
        OBVIOUS
      <4>4. PICK r : r = g[(s \ {p}) \ {x}]
        OBVIOUS
      <4>5. r \in Int /\ f[x] \in Int
        <5>1. (s \ {p}) \ {x} \in SUBSET (s \ {p})
          OBVIOUS
        <5>2. QED  BY <2>1, <2>3, <4>4, <5>1
      <4>6. g[s \ {p}] = f[x] + r /\ g[s \ {x}] = f[p] + r
        BY <4>1, <4>2, <4>3, <4>4
      <4>7. QED  BY <2>2, <2>4, <4>5, <4>6
    <3>3. QED  BY <3>1, <3>2
  <2>6. g[s] \in Int
    BY <2>2, <2>4
  <2>7. Good(s)
    BY <2>5, <2>6
  <2>8. \A u \in SUBSET s : u = s \/ \E x \in s : u \in SUBSET (s \ {x})
    OBVIOUS
  <2> HIDE DEF Good
  <2>9. QED  BY <2>3, <2>7, <2>8
<1>5. \A s \in SUBSET D : s \in T
  <2> HIDE DEF T
  <2>1. QED  BY <1>3, <1>4, SubsetInduction
<1>6. \A s \in SUBSET D : Good(s)
  <2> HIDE DEF Good
  <2>1. QED  BY <1>5
<1>7. QED  BY <1>2, <1>6 DEF FoldLaws

(* SumFunctionOnSet is what every fold of the function says of the set.    *)
LEMMA SumIsFold ==
    ASSUME NEW D, IsFiniteSet(D), NEW f, \A x \in D : f[x] \in Int
    PROVE  \E g : IsFold(f, D, g) /\ SumFunctionOnSet(f, D) = g[D]
<1> DEFINE it == CHOOSE g : g = [s \in SUBSET D |->
                     IF s = {} THEN 0
                     ELSE f[CHOOSE x \in s : TRUE] + g[s \ {CHOOSE x \in s : TRUE}]]
<1>1. SumFunctionOnSet(f, D) = it[D]
  BY DEF SumFunctionOnSet, FoldFunctionOnSet, MapThenFoldSet
<1>2. PICK g : IsFold(f, D, g)
  BY FoldExists
<1>3. IsFold(f, D, it)
  BY <1>2 DEF IsFold, Unfolded, Pick
<1> HIDE DEF it
<1>4. QED  BY <1>1, <1>3

LEMMA FoldsAgree ==
    ASSUME NEW D, IsFiniteSet(D), NEW f, \A x \in D : f[x] \in Int,
           NEW E, IsFiniteSet(E), NEW h, \A x \in E : h[x] \in Int,
           NEW S, S \subseteq D, S \subseteq E, \A x \in S : f[x] = h[x],
           NEW g, IsFold(f, D, g), NEW k, IsFold(h, E, k)
    PROVE  g[S] = k[S]
<1> DEFINE T == {s \in SUBSET S : g[s] = k[s]}
<1>1. FoldLaws(f, D, g)
  BY FoldMeaning
<1>2. FoldLaws(h, E, k)
  BY FoldMeaning
<1>3. {} \in T
  BY <1>1, <1>2 DEF FoldLaws
<1>4. ASSUME NEW s \in SUBSET S, s # {}, \A x \in s : s \ {x} \in T
      PROVE  s \in T
  <2>1. PICK x \in s : TRUE
    BY <1>4
  <2>2. g[s \ {x}] = k[s \ {x}]
    BY <1>4
  <2>3. QED  BY <1>1, <1>2, <2>2 DEF FoldLaws
<1>5. IsFiniteSet(S)
  BY FS_Subset
<1>6. \A s \in SUBSET S : s \in T
  <2> HIDE DEF T
  <2>1. QED  BY <1>3, <1>4, <1>5, SubsetInduction
<1>7. QED  BY <1>6

LEMMA SumEmpty ==
    ASSUME NEW f
    PROVE  SumFunctionOnSet(f, {}) = 0
<1>1. IsFiniteSet({})
  BY FS_EmptySet
<1>2. PICK g : IsFold(f, {}, g) /\ SumFunctionOnSet(f, {}) = g[{}]
  BY <1>1, SumIsFold
<1>3. g[{}] = 0
  BY <1>1, <1>2, FoldMeaning DEF FoldLaws
<1>4. QED  BY <1>2, <1>3

(* Any element can be taken out of a sum.                                  *)
LEMMA SumStep ==
    ASSUME NEW D, IsFiniteSet(D), NEW f, \A x \in D : f[x] \in Int, NEW x \in D
    PROVE  /\ SumFunctionOnSet(f, D) = f[x] + SumFunctionOnSet(f, D \ {x})
           /\ SumFunctionOnSet(f, D \ {x}) \in Int
<1>1. IsFiniteSet(D \ {x})
  BY FS_Subset
<1>2. PICK g : IsFold(f, D, g) /\ SumFunctionOnSet(f, D) = g[D]
  BY SumIsFold
<1>3. PICK k : IsFold(f, D \ {x}, k) /\ SumFunctionOnSet(f, D \ {x}) = k[D \ {x}]
  BY <1>1, SumIsFold
<1>4. g[D \ {x}] = k[D \ {x}]
  <2>1. \A y \in D \ {x} : f[y] \in Int
    OBVIOUS
  <2>2. QED  BY <1>1, <1>2, <1>3, <2>1, FoldsAgree
<1>5. g[D] = f[x] + g[D \ {x}] /\ g[D \ {x}] \in Int
  <2>1. FoldLaws(f, D, g)
    BY <1>2, FoldMeaning
  <2>2. QED  BY <2>1 DEF FoldLaws
<1>6. QED  BY <1>2, <1>3, <1>4, <1>5

LEMMA SumIsInt ==
    ASSUME NEW D, IsFiniteSet(D), NEW f, \A x \in D : f[x] \in Int
    PROVE  SumFunctionOnSet(f, D) \in Int
<1>1. PICK g : IsFold(f, D, g) /\ SumFunctionOnSet(f, D) = g[D]
  BY SumIsFold
<1>2. FoldLaws(f, D, g)
  BY <1>1, FoldMeaning
<1>3. QED  BY <1>1, <1>2 DEF FoldLaws

(* A sum depends on nothing but the values summed.                         *)
LEMMA SumSame ==
    ASSUME NEW D, IsFiniteSet(D), NEW f, \A x \in D : f[x] \in Int,
           NEW h, \A x \in D : h[x] = f[x]
    PROVE  SumFunctionOnSet(h, D) = SumFunctionOnSet(f, D)
<1>1. PICK g : IsFold(f, D, g) /\ SumFunctionOnSet(f, D) = g[D]
  BY SumIsFold
<1>2. \A x \in D : h[x] \in Int
  OBVIOUS
<1>3. PICK k : IsFold(h, D, k) /\ SumFunctionOnSet(h, D) = k[D]
  BY <1>2, SumIsFold
<1>4. g[D] = k[D]
  BY <1>1, <1>2, <1>3, FoldsAgree
<1>5. QED  BY <1>1, <1>3, <1>4

LEMMA Times ==
    ASSUME NEW b \in Int, NEW c \in Int
    PROVE  b * (c + 1) = b * c + b /\ b * c \in Int
OBVIOUS

(* A sum lies between the number of its terms times the least and times    *)
(* the greatest of them.                                                   *)
LEMMA SumBounds ==
    ASSUME NEW D, IsFiniteSet(D), NEW f, NEW lo \in Int, NEW hi \in Int,
           \A x \in D : f[x] \in Int /\ lo <= f[x] /\ f[x] <= hi
    PROVE  /\ lo * Cardinality(D) <= SumFunctionOnSet(f, D)
           /\ SumFunctionOnSet(f, D) <= hi * Cardinality(D)
<1> DEFINE Good(s) == /\ lo * Cardinality(s) <= SumFunctionOnSet(f, s)
                      /\ SumFunctionOnSet(f, s) <= hi * Cardinality(s)
           T == {s \in SUBSET D : Good(s)}
<1>1. {} \in T
  <2>1. SumFunctionOnSet(f, {}) = 0 /\ Cardinality({}) = 0
    BY SumEmpty, FS_EmptySet
  <2>2. QED  BY <2>1
<1>2. ASSUME NEW s \in SUBSET D, s # {}, \A x \in s : s \ {x} \in T
      PROVE  s \in T
  <2>1. PICK x \in s : TRUE
    BY <1>2
  <2>2. IsFiniteSet(s) /\ Cardinality(s) \in Nat /\ IsFiniteSet(s \ {x})
    BY FS_Subset, FS_CardinalityType
  <2>3. /\ SumFunctionOnSet(f, s) = f[x] + SumFunctionOnSet(f, s \ {x})
        /\ SumFunctionOnSet(f, s \ {x}) \in Int
    BY <2>2, SumStep
  <2>4. PICK c \in Int : c = Cardinality(s \ {x}) /\ Cardinality(s) = c + 1
    BY <2>2, FS_RemoveElement
  <2>5. Good(s \ {x})
    BY <1>2
  <2>6. f[x] \in Int /\ lo <= f[x] /\ f[x] <= hi
    OBVIOUS
  <2>7. PICK r \in Int : r = SumFunctionOnSet(f, s \ {x})
    BY <2>3
  <2>8. lo * c <= r /\ r <= hi * c
    BY <2>4, <2>5, <2>7
  <2>9. lo * (c + 1) <= f[x] + r /\ f[x] + r <= hi * (c + 1)
    <3>1. /\ lo * (c + 1) = lo * c + lo /\ lo * c \in Int
          /\ hi * (c + 1) = hi * c + hi /\ hi * c \in Int
      BY Times
    <3>2. QED  BY <2>6, <2>7, <2>8, <3>1
  <2>10. Good(s)
    BY <2>3, <2>4, <2>7, <2>9
  <2> HIDE DEF Good
  <2>11. QED  BY <2>10
<1>3. \A s \in SUBSET D : s \in T
  <2> HIDE DEF T
  <2>1. QED  BY <1>1, <1>2, SubsetInduction
<1>4. Good(D)
  <2> HIDE DEF Good
  <2>1. QED  BY <1>3
<1>5. QED  BY <1>4

(* A finite set of numbers has a greatest one.                             *)
LEMMA GreatestExists ==
    ASSUME NEW S, IsFiniteSet(S), S \subseteq Int, S # {}
    PROVE  \E x \in S : \A y \in S : x >= y
<1> DEFINE T == {s \in SUBSET S : s # {} => \E x \in s : \A y \in s : x >= y}
<1>1. {} \in T
  OBVIOUS
<1>2. ASSUME NEW s \in SUBSET S, s # {}, \A x \in s : s \ {x} \in T
      PROVE  s \in T
  <2>1. PICK a \in s : TRUE
    BY <1>2
  <2>2. CASE s \ {a} = {}
    <3>1. \A y \in s : a >= y
      BY <2>2
    <3>2. QED  BY <3>1
  <2>3. CASE s \ {a} # {}
    <3>1. PICK b \in s \ {a} : \A y \in s \ {a} : b >= y
      BY <1>2, <2>3
    <3>2. a \in Int /\ b \in Int
      OBVIOUS
    <3>3. CASE a >= b
      <4>1. \A y \in s : a >= y
        BY <3>1, <3>2, <3>3
      <4>2. QED  BY <4>1
    <3>4. CASE ~ (a >= b)
      <4>1. \A y \in s : b >= y
        BY <3>1, <3>2, <3>4
      <4>2. QED  BY <4>1
    <3>5. QED  BY <3>3, <3>4
  <2>4. QED  BY <2>2, <2>3
<1>3. \A s \in SUBSET S : s \in T
  <2> HIDE DEF T
  <2>1. QED  BY <1>1, <1>2, SubsetInduction
<1>4. QED  BY <1>3

(* Along the numbers up to n, a sum grows by its last term.                *)
LEMMA SumUpto ==
    ASSUME NEW n \in Nat, NEW f, \A i \in 1 .. n + 1 : f[i] \in Int
    PROVE  /\ SumFunctionOnSet(f, 1 .. n + 1) = SumFunctionOnSet(f, 1 .. n) + f[n + 1]
           /\ SumFunctionOnSet(f, 1 .. n) \in Int
<1>1. IsFiniteSet(1 .. n + 1)
  BY FS_Interval
<1>2. n + 1 \in 1 .. n + 1 /\ (1 .. n + 1) \ {n + 1} = 1 .. n
  OBVIOUS
<1>3. /\ SumFunctionOnSet(f, 1 .. n + 1) = f[n + 1] + SumFunctionOnSet(f, 1 .. n)
      /\ SumFunctionOnSet(f, 1 .. n) \in Int
  BY <1>1, <1>2, SumStep
<1>4. f[n + 1] \in Int
  OBVIOUS
<1>5. QED  BY <1>3, <1>4

(* A function takes finitely many values on a finite set.                  *)
LEMMA ValuesFinite ==
    ASSUME NEW D, IsFiniteSet(D), NEW f
    PROVE  IsFiniteSet({f[x] : x \in D})
<1> DEFINE V == {f[x] : x \in D}
           g == [x \in D |-> f[x]]
<1>1. g \in Surjection(D, V)
  BY DEF Surjection
<1> HIDE DEF g
<1>2. QED  BY <1>1, FS_Surjection

(* Sums of the negated terms.                                              *)
LEMMA SumNegated ==
    ASSUME NEW D, IsFiniteSet(D), NEW f, \A x \in D : f[x] \in Int,
           NEW h, \A x \in D : h[x] = -f[x]
    PROVE  SumFunctionOnSet(h, D) = -SumFunctionOnSet(f, D)
<1> DEFINE T == {s \in SUBSET D : SumFunctionOnSet(h, s) = -SumFunctionOnSet(f, s)}
<1>1. {} \in T
  BY SumEmpty
<1>2. ASSUME NEW s \in SUBSET D, s # {}, \A x \in s : s \ {x} \in T
      PROVE  s \in T
  <2>1. PICK x \in s : TRUE
    BY <1>2
  <2>2. IsFiniteSet(s)
    BY FS_Subset
  <2>3. \A y \in s : h[y] \in Int
    OBVIOUS
  <2>4. /\ SumFunctionOnSet(f, s) = f[x] + SumFunctionOnSet(f, s \ {x})
        /\ SumFunctionOnSet(f, s \ {x}) \in Int
    BY <2>2, SumStep
  <2>5. SumFunctionOnSet(h, s) = h[x] + SumFunctionOnSet(h, s \ {x})
    BY <2>2, <2>3, SumStep
  <2>6. SumFunctionOnSet(h, s \ {x}) = -SumFunctionOnSet(f, s \ {x})
    BY <1>2
  <2>7. f[x] \in Int /\ h[x] = -f[x]
    OBVIOUS
  <2>8. QED  BY <2>4, <2>5, <2>6, <2>7
<1>3. \A s \in SUBSET D : s \in T
  <2> HIDE DEF T
  <2>1. QED  BY <1>1, <1>2, SubsetInduction
<1>4. QED  BY <1>3

-----------------------------------------------------------------------------
(* Chebyshev's inequality, for the sums of a linear regression.            *)
LEMMA CrossIdentity ==
    ASSUME NEW n \in Int, NEW x \in Int, NEW y \in Int, NEW a \in Int, NEW b \in Int,
           NEW p \in Int, NEW q \in Int, NEW r \in Int
    PROVE  (((p + a * b) + (n + 1) * (x * y)) - x * (q + b)) - y * (r + a)
             = (((p + n * (x * y)) - x * q) - y * r) + (x - a) * (y - b)
OBVIOUS

LEMMA ProductSign ==
    ASSUME NEW a \in Int, NEW b \in Int, 0 <= a, 0 <= b
    PROVE  0 <= a * b /\ a * b \in Int
OBVIOUS

LEMMA CrossTerms ==
    ASSUME NEW k \in Nat, NEW X, NEW Y, NEW XY, NEW x \in Int, NEW y \in Int,
           \A i \in 1 .. k : /\ X[i] \in Int /\ Y[i] \in Int /\ XY[i] = X[i] * Y[i]
                             /\ X[i] <= x /\ Y[i] <= y
    PROVE  0 <= ((SumFunctionOnSet(XY, 1 .. k) + k * (x * y))
                    - x * SumFunctionOnSet(Y, 1 .. k)) - y * SumFunctionOnSet(X, 1 .. k)
<1> DEFINE E(n) == ((SumFunctionOnSet(XY, 1 .. n) + n * (x * y))
                       - x * SumFunctionOnSet(Y, 1 .. n)) - y * SumFunctionOnSet(X, 1 .. n)
           T == {n \in Nat : n <= k => 0 <= E(n) /\ E(n) \in Int}
<1>1. 0 \in T
  <2>1. 1 .. 0 = {}
    OBVIOUS
  <2>2. /\ SumFunctionOnSet(XY, 1 .. 0) = 0 /\ SumFunctionOnSet(X, 1 .. 0) = 0
        /\ SumFunctionOnSet(Y, 1 .. 0) = 0
    BY <2>1, SumEmpty
  <2>3. x * 0 = 0 /\ y * 0 = 0 /\ 0 * (x * y) = 0
    OBVIOUS
  <2>4. E(0) = 0
    BY <2>2, <2>3
  <2> HIDE DEF E
  <2>5. QED  BY <2>4
<1>2. ASSUME NEW n \in Nat, n \in T PROVE n + 1 \in T
  <2> SUFFICES ASSUME n + 1 <= k PROVE 0 <= E(n + 1) /\ E(n + 1) \in Int
    OBVIOUS
  <2>1. PICK a \in Int, b \in Int : /\ a = X[n + 1] /\ b = Y[n + 1] /\ XY[n + 1] = a * b
                                    /\ a <= x /\ b <= y
    OBVIOUS
  <2>2. \A i \in 1 .. n + 1 : X[i] \in Int /\ Y[i] \in Int /\ XY[i] \in Int
    OBVIOUS
  <2>3. PICK p \in Int, q \in Int, r \in Int :
            /\ p = SumFunctionOnSet(XY, 1 .. n)
            /\ q = SumFunctionOnSet(Y, 1 .. n)
            /\ r = SumFunctionOnSet(X, 1 .. n)
            /\ SumFunctionOnSet(XY, 1 .. n + 1) = p + a * b
            /\ SumFunctionOnSet(Y, 1 .. n + 1) = q + b
            /\ SumFunctionOnSet(X, 1 .. n + 1) = r + a
    <3>1. /\ SumFunctionOnSet(X, 1 .. n + 1) = SumFunctionOnSet(X, 1 .. n) + X[n + 1]
          /\ SumFunctionOnSet(X, 1 .. n) \in Int
      BY <2>2, SumUpto
    <3>2. /\ SumFunctionOnSet(Y, 1 .. n + 1) = SumFunctionOnSet(Y, 1 .. n) + Y[n + 1]
          /\ SumFunctionOnSet(Y, 1 .. n) \in Int
      BY <2>2, SumUpto
    <3>3. /\ SumFunctionOnSet(XY, 1 .. n + 1) = SumFunctionOnSet(XY, 1 .. n) + XY[n + 1]
          /\ SumFunctionOnSet(XY, 1 .. n) \in Int
      BY <2>2, SumUpto
    <3>4. QED  BY <2>1, <3>1, <3>2, <3>3, Zenon
  <2>4. E(n) = ((p + n * (x * y)) - x * q) - y * r
    BY <2>3
  <2>5. E(n + 1) = (((p + a * b) + (n + 1) * (x * y)) - x * (q + b)) - y * (r + a)
    BY <2>3
  <2>6. 0 <= E(n) /\ E(n) \in Int
    BY <1>2
  <2> HIDE DEF E
  <2>7. E(n + 1) = E(n) + (x - a) * (y - b)
    BY <2>4, <2>5, CrossIdentity
  <2>8. 0 <= (x - a) * (y - b) /\ (x - a) * (y - b) \in Int
    <3>1. 0 <= x - a /\ 0 <= y - b
      BY <2>1
    <3>2. QED  BY <3>1, ProductSign
  <2>9. PICK d \in Int : d = (x - a) * (y - b) /\ 0 <= d
    BY <2>8
  <2>10. E(n + 1) = E(n) + d
    BY <2>7, <2>9
  <2>11. QED  BY <2>6, <2>9, <2>10
<1>3. \A n \in Nat : n \in T
  <2> HIDE DEF T
  <2>1. QED  BY <1>1, <1>2, SetInduction
<1>4. QED  BY <1>3

LEMMA SpreadIdentity ==
    ASSUME NEW n \in Int, NEW x \in Int, NEW y \in Int,
           NEW p \in Int, NEW q \in Int, NEW r \in Int
    PROVE  (n + 1) * (p + x * y) - (r + x) * (q + y)
             = (n * p - r * q) + (((p + n * (x * y)) - x * q) - y * r)
OBVIOUS

(* Two functions that both never fall vary together.                       *)
LEMMA Chebyshev ==
    ASSUME NEW k \in Nat, NEW X, NEW Y, NEW XY,
           \A i \in 1 .. k : X[i] \in Int /\ Y[i] \in Int /\ XY[i] = X[i] * Y[i],
           \A i, j \in 1 .. k : i < j => X[i] <= X[j] /\ Y[i] <= Y[j]
    PROVE  0 <= k * SumFunctionOnSet(XY, 1 .. k)
                  - SumFunctionOnSet(X, 1 .. k) * SumFunctionOnSet(Y, 1 .. k)
<1> DEFINE D(n) == n * SumFunctionOnSet(XY, 1 .. n)
                     - SumFunctionOnSet(X, 1 .. n) * SumFunctionOnSet(Y, 1 .. n)
           T == {n \in Nat : n <= k => 0 <= D(n) /\ D(n) \in Int}
<1>1. 0 \in T
  <2>1. 1 .. 0 = {}
    OBVIOUS
  <2>2. /\ SumFunctionOnSet(XY, 1 .. 0) = 0 /\ SumFunctionOnSet(X, 1 .. 0) = 0
        /\ SumFunctionOnSet(Y, 1 .. 0) = 0
    BY <2>1, SumEmpty
  <2>3. D(0) = 0
    BY <2>2
  <2> HIDE DEF D
  <2>4. QED  BY <2>3
<1>2. ASSUME NEW n \in Nat, n \in T PROVE n + 1 \in T
  <2> SUFFICES ASSUME n + 1 <= k PROVE 0 <= D(n + 1) /\ D(n + 1) \in Int
    OBVIOUS
  <2>1. PICK x \in Int, y \in Int : x = X[n + 1] /\ y = Y[n + 1] /\ XY[n + 1] = x * y
    OBVIOUS
  <2>2. \A i \in 1 .. n + 1 : X[i] \in Int /\ Y[i] \in Int /\ XY[i] \in Int
    OBVIOUS
  <2>3. \A i \in 1 .. n : /\ X[i] \in Int /\ Y[i] \in Int /\ XY[i] = X[i] * Y[i]
                          /\ X[i] <= x /\ Y[i] <= y
    <3>1. ASSUME NEW i \in 1 .. n
          PROVE  /\ X[i] \in Int /\ Y[i] \in Int /\ XY[i] = X[i] * Y[i]
                 /\ X[i] <= x /\ Y[i] <= y
      <4>1. i \in 1 .. k /\ n + 1 \in 1 .. k /\ i < n + 1
        OBVIOUS
      <4>2. QED  BY <2>1, <4>1
    <3>2. QED  BY <3>1
  <2>4. PICK p \in Int, q \in Int, r \in Int :
            /\ p = SumFunctionOnSet(XY, 1 .. n)
            /\ q = SumFunctionOnSet(Y, 1 .. n)
            /\ r = SumFunctionOnSet(X, 1 .. n)
            /\ SumFunctionOnSet(XY, 1 .. n + 1) = p + x * y
            /\ SumFunctionOnSet(Y, 1 .. n + 1) = q + y
            /\ SumFunctionOnSet(X, 1 .. n + 1) = r + x
    <3>1. /\ SumFunctionOnSet(X, 1 .. n + 1) = SumFunctionOnSet(X, 1 .. n) + X[n + 1]
          /\ SumFunctionOnSet(X, 1 .. n) \in Int
      BY <2>2, SumUpto
    <3>2. /\ SumFunctionOnSet(Y, 1 .. n + 1) = SumFunctionOnSet(Y, 1 .. n) + Y[n + 1]
          /\ SumFunctionOnSet(Y, 1 .. n) \in Int
      BY <2>2, SumUpto
    <3>3. /\ SumFunctionOnSet(XY, 1 .. n + 1) = SumFunctionOnSet(XY, 1 .. n) + XY[n + 1]
          /\ SumFunctionOnSet(XY, 1 .. n) \in Int
      BY <2>2, SumUpto
    <3>4. QED  BY <2>1, <3>1, <3>2, <3>3, Zenon
  <2>5. PICK e \in Int : e = ((p + n * (x * y)) - x * q) - y * r
    OBVIOUS
  <2>6. 0 <= e
    BY <2>3, <2>4, <2>5, CrossTerms
  <2>7. D(n) = n * p - r * q /\ D(n + 1) = (n + 1) * (p + x * y) - (r + x) * (q + y)
    BY <2>4
  <2>8. 0 <= D(n) /\ D(n) \in Int
    BY <1>2
  <2> HIDE DEF D
  <2>9. D(n + 1) = D(n) + e
    BY <2>5, <2>7, SpreadIdentity
  <2>10. QED  BY <2>6, <2>8, <2>9
<1>3. \A n \in Nat : n \in T
  <2> HIDE DEF T
  <2>1. QED  BY <1>1, <1>2, SetInduction
<1>4. QED  BY <1>3
-----------------------------------------------------------------------------
(* Sums of parts.                                                          *)

LEMMA SumSplit ==
    ASSUME NEW D, IsFiniteSet(D), NEW f, \A x \in D : f[x] \in Int, NEW A \in SUBSET D
    PROVE  /\ SumFunctionOnSet(f, D) = SumFunctionOnSet(f, A) + SumFunctionOnSet(f, D \ A)
           /\ SumFunctionOnSet(f, A) \in Int /\ SumFunctionOnSet(f, D \ A) \in Int
<1> DEFINE Split(s) == SumFunctionOnSet(f, D) =
                          SumFunctionOnSet(f, s) + SumFunctionOnSet(f, D \ s)
           T == {s \in SUBSET A : Split(s)}
<1>1. \A s \in SUBSET D : IsFiniteSet(s) /\ SumFunctionOnSet(f, s) \in Int
  <2> SUFFICES ASSUME NEW s \in SUBSET D
               PROVE  IsFiniteSet(s) /\ SumFunctionOnSet(f, s) \in Int
    OBVIOUS
  <2>1. IsFiniteSet(s)
    BY FS_Subset
  <2>2. QED  BY <2>1, SumIsInt
<1>2. {} \in T
  <2>1. D \ {} = D
    OBVIOUS
  <2>2. SumFunctionOnSet(f, {}) = 0 /\ SumFunctionOnSet(f, D) \in Int
    BY <1>1, SumEmpty
  <2>3. QED  BY <2>1, <2>2
<1>3. ASSUME NEW s \in SUBSET A, s # {}, \A x \in s : s \ {x} \in T
      PROVE  s \in T
  <2>1. PICK x \in s : TRUE
    BY <1>3
  <2> DEFINE r == D \ (s \ {x})
  <2>2. s \in SUBSET D /\ r \in SUBSET D /\ x \in r /\ r \ {x} = D \ s
    OBVIOUS
  <2>3. SumFunctionOnSet(f, D) = SumFunctionOnSet(f, s \ {x}) + SumFunctionOnSet(f, r)
    BY <1>3
  <2> HIDE DEF r
  <2>4. /\ SumFunctionOnSet(f, s) = f[x] + SumFunctionOnSet(f, s \ {x})
        /\ SumFunctionOnSet(f, s \ {x}) \in Int
    BY <1>1, <2>2, SumStep
  <2>5. /\ SumFunctionOnSet(f, r) = f[x] + SumFunctionOnSet(f, r \ {x})
        /\ SumFunctionOnSet(f, r \ {x}) \in Int
    BY <1>1, <2>2, SumStep
  <2>6. PICK a \in Int, p \in Int, q \in Int :
           a = f[x] /\ p = SumFunctionOnSet(f, s \ {x}) /\ q = SumFunctionOnSet(f, D \ s)
    BY <2>2, <2>4, <2>5
  <2>7. Split(s)
    <3>1. SumFunctionOnSet(f, r) = a + q
      BY <2>2, <2>5, <2>6, Zenon
    <3>2. SumFunctionOnSet(f, D) = p + (a + q)
      BY <2>3, <2>6, <3>1, Zenon
    <3>3. SumFunctionOnSet(f, s) = a + p
      BY <2>4, <2>6, Zenon
    <3>4. SumFunctionOnSet(f, D \ s) = q
      BY <2>6
    <3>5. p + (a + q) = (a + p) + q
      OBVIOUS
    <3>6. QED  BY <3>2, <3>3, <3>4, <3>5, Zenon
  <2> HIDE DEF Split
  <2>8. QED  BY <2>7
<1>4. IsFiniteSet(A)
  BY <1>1
<1>5. \A s \in SUBSET A : s \in T
  <2> HIDE DEF T
  <2>1. QED  BY <1>2, <1>3, <1>4, SubsetInduction
<1>6. Split(A)
  <2> HIDE DEF Split
  <2>1. QED  BY <1>5
<1>7. QED  BY <1>1, <1>6

(* g pairs each member of S with one of T.                                 *)
PairsUp(g, S, T) ==
    /\ \A x \in S : g[x] \in T
    /\ \A x, y \in S : g[x] = g[y] => x = y
    /\ \A y \in T : \E x \in S : y = g[x]

Whole(f, S) == \A x \in S : f[x] \in Int

Carries(h, S, f, g) == \A x \in S : h[x] = f[g[x]]

(* Terms may be counted by other things, one for each.                     *)
LEMMA SumMoved ==
    ASSUME NEW S, IsFiniteSet(S), NEW T, NEW g, PairsUp(g, S, T), NEW f, Whole(f, T),
           NEW h, Carries(h, S, f, g)
    PROVE  SumFunctionOnSet(h, S) = SumFunctionOnSet(f, T)
<1> USE DEF PairsUp, Whole, Carries
<1> DEFINE At(s) == {g[x] : x \in s}
           Same(s) == SumFunctionOnSet(h, s) = SumFunctionOnSet(f, At(s))
           U == {s \in SUBSET S : Same(s)}
<1>1. {} \in U
  <2>1. At({}) = {}
    OBVIOUS
  <2> HIDE DEF At
  <2>2. Same({})
    BY <2>1, SumEmpty
  <2>3. QED  BY <2>2
<1>2. ASSUME NEW s \in SUBSET S, s # {}, \A x \in s : s \ {x} \in U
      PROVE  s \in U
  <2>1. PICK x \in s : TRUE
    BY <1>2
  <2>2. IsFiniteSet(s)
    BY FS_Subset
  <2>3. IsFiniteSet(At(s))
    BY <2>2, ValuesFinite
  <2>4. At(s) \subseteq T /\ g[x] \in At(s)
    OBVIOUS
  <2>5. At(s) \ {g[x]} = At(s \ {x})
    OBVIOUS
  <2>6. Same(s \ {x})
    BY <1>2
  <2> HIDE DEF At
  <2>7. \A y \in s : h[y] \in Int
    OBVIOUS
  <2>8. SumFunctionOnSet(h, s) = h[x] + SumFunctionOnSet(h, s \ {x})
    BY <2>2, <2>7, SumStep
  <2>9. SumFunctionOnSet(f, At(s)) = f[g[x]] + SumFunctionOnSet(f, At(s) \ {g[x]})
    BY <2>3, <2>4, SumStep
  <2>10. h[x] = f[g[x]]
    OBVIOUS
  <2>11. Same(s)
    BY <2>5, <2>6, <2>8, <2>9, <2>10
  <2> HIDE DEF Same
  <2>12. QED  BY <2>11
<1>3. \A s \in SUBSET S : s \in U
  <2> HIDE DEF U
  <2>1. QED  BY <1>1, <1>2, SubsetInduction
<1>4. Same(S)
  <2> HIDE DEF Same
  <2>1. QED  BY <1>3
<1>5. At(S) = T
  OBVIOUS
<1> HIDE DEF At
<1>6. QED  BY <1>4, <1>5

(* A sum may be taken group by group: c tells the group of each element.   *)
ClassSums(h, K, f, D, c) ==
    \A k \in K : h[k] = SumFunctionOnSet(f, {x \in D : c[x] = k})

LEMMA SumGrouped ==
    ASSUME NEW D, IsFiniteSet(D), NEW f, Whole(f, D),
           NEW K, IsFiniteSet(K), NEW c, \A x \in D : c[x] \in K,
           NEW h, ClassSums(h, K, f, D, c)
    PROVE  SumFunctionOnSet(h, K) = SumFunctionOnSet(f, D)
<1> USE DEF Whole, ClassSums
<1> DEFINE In(s) == {x \in D : c[x] \in s}
           Of(k) == {x \in D : c[x] = k}
           Same(s) == SumFunctionOnSet(h, s) = SumFunctionOnSet(f, In(s))
           U == {s \in SUBSET K : Same(s)}
<1>1. \A k \in K : h[k] = SumFunctionOnSet(f, Of(k)) /\ h[k] \in Int
  <2> SUFFICES ASSUME NEW k \in K
               PROVE  h[k] = SumFunctionOnSet(f, Of(k)) /\ h[k] \in Int
    OBVIOUS
  <2>1. h[k] = SumFunctionOnSet(f, Of(k)) /\ Of(k) \in SUBSET D
    OBVIOUS
  <2> HIDE DEF Of
  <2>2. IsFiniteSet(Of(k)) /\ \A x \in Of(k) : f[x] \in Int
    BY <2>1, FS_Subset
  <2>3. QED  BY <2>1, <2>2, SumIsInt
<1>2. {} \in U
  <2>1. In({}) = {}
    OBVIOUS
  <2> HIDE DEF In
  <2>2. Same({})
    BY <2>1, SumEmpty
  <2>3. QED  BY <2>2
<1>3. ASSUME NEW s \in SUBSET K, s # {}, \A x \in s : s \ {x} \in U
      PROVE  s \in U
  <2>1. PICK k \in s : TRUE
    BY <1>3
  <2>2. IsFiniteSet(s)
    BY FS_Subset
  <2>3. In(s) \in SUBSET D /\ Of(k) \in SUBSET In(s) /\ In(s) \ Of(k) = In(s \ {k})
    OBVIOUS
  <2>4. Same(s \ {k})
    BY <1>3
  <2> HIDE DEF In, Of
  <2>5. IsFiniteSet(In(s)) /\ \A x \in In(s) : f[x] \in Int
    BY <2>3, FS_Subset
  <2>6. SumFunctionOnSet(h, s) = h[k] + SumFunctionOnSet(h, s \ {k})
    BY <1>1, <2>2, SumStep
  <2>7. SumFunctionOnSet(f, In(s)) =
          SumFunctionOnSet(f, Of(k)) + SumFunctionOnSet(f, In(s) \ Of(k))
    BY <2>3, <2>5, SumSplit
  <2>8. Same(s)
    BY <1>1, <2>3, <2>4, <2>6, <2>7
  <2> HIDE DEF Same
  <2>9. QED  BY <2>8
<1>4. \A s \in SUBSET K : s \in U
  <2> HIDE DEF U
  <2>1. QED  BY <1>2, <1>3, SubsetInduction
<1>5. Same(K)
  <2> HIDE DEF Same
  <2>1. QED  BY <1>4
<1>6. In(K) = D
  OBVIOUS
<1> HIDE DEF In
<1>7. QED  BY <1>5, <1>6

(* The sum of a term changed at one place.                                 *)
LEMMA SumChanged ==
    ASSUME NEW D, IsFiniteSet(D), NEW f, \A x \in D : f[x] \in Int,
           NEW h, \A x \in D : h[x] \in Int, NEW y \in D,
           \A x \in D : x # y => h[x] = f[x]
    PROVE  SumFunctionOnSet(h, D) = (SumFunctionOnSet(f, D) - f[y]) + h[y]
<1>1. IsFiniteSet(D \ {y})
  BY FS_Subset
<1>2. SumFunctionOnSet(h, D \ {y}) = SumFunctionOnSet(f, D \ {y})
  BY <1>1, SumSame
<1>3. /\ SumFunctionOnSet(f, D) = f[y] + SumFunctionOnSet(f, D \ {y})
      /\ SumFunctionOnSet(f, D \ {y}) \in Int
  BY SumStep
<1>4. SumFunctionOnSet(h, D) = h[y] + SumFunctionOnSet(h, D \ {y})
  BY SumStep
<1>5. f[y] \in Int /\ h[y] \in Int
  OBVIOUS
<1>6. QED  BY <1>2, <1>3, <1>4, <1>5

LEMMA SumPositive ==
    ASSUME NEW D, IsFiniteSet(D), NEW f, \A x \in D : f[x] \in Nat \ {0}
    PROVE  /\ SumFunctionOnSet(f, D) \in Nat
           /\ D # {} => SumFunctionOnSet(f, D) # 0
<1> DEFINE Pos(s) == /\ SumFunctionOnSet(f, s) \in Nat
                     /\ s # {} => SumFunctionOnSet(f, s) # 0
           T == {s \in SUBSET D : Pos(s)}
<1>1. {} \in T
  <2>1. Pos({})
    BY SumEmpty
  <2>2. QED  BY <2>1
<1>2. ASSUME NEW s \in SUBSET D, s # {}, \A x \in s : s \ {x} \in T
      PROVE  s \in T
  <2>1. PICK x \in s : TRUE
    BY <1>2
  <2>2. IsFiniteSet(s) /\ \A y \in s : f[y] \in Int
    BY FS_Subset
  <2>3. SumFunctionOnSet(f, s) = f[x] + SumFunctionOnSet(f, s \ {x})
    BY <2>2, SumStep
  <2>4. Pos(s \ {x}) /\ f[x] \in Nat \ {0}
    BY <1>2
  <2>5. Pos(s)
    BY <2>3, <2>4
  <2> HIDE DEF Pos
  <2>6. QED  BY <2>5
<1>3. \A s \in SUBSET D : s \in T
  <2> HIDE DEF T
  <2>1. QED  BY <1>1, <1>2, SubsetInduction
<1>4. Pos(D)
  <2> HIDE DEF Pos
  <2>1. QED  BY <1>3
<1>5. QED  BY <1>4

LEMMA SumOfOnes ==
    ASSUME NEW D, IsFiniteSet(D), NEW f, \A x \in D : f[x] = 1
    PROVE  SumFunctionOnSet(f, D) = Cardinality(D) /\ Cardinality(D) \in Nat
<1>1. Cardinality(D) \in Nat
  BY FS_CardinalityType
<1>2. \A x \in D : f[x] \in Int /\ 1 <= f[x] /\ f[x] <= 1
  OBVIOUS
<1>3. /\ 1 * Cardinality(D) <= SumFunctionOnSet(f, D)
      /\ SumFunctionOnSet(f, D) <= 1 * Cardinality(D)
  BY <1>2, SumBounds
<1>4. SumFunctionOnSet(f, D) \in Int
  BY <1>2, SumIsInt
<1>5. QED  BY <1>1, <1>3, <1>4
-----------------------------------------------------------------------------
(* Sorting.                                                                *)

(* R is a strict order of S, one after the other.                          *)
Orders(R, S) ==
    /\ \A x \in S : <<x, x>> \notin R
    /\ \A x, y, z \in S : <<x, y>> \in R /\ <<y, z>> \in R => <<x, z>> \in R
    /\ \A x, y \in S : x # y => <<x, y>> \in R \/ <<y, x>> \in R

(* How many members of S precede x.                                        *)
Rank(x, S, R) == Cardinality({y \in S : <<y, x>> \in R})

LEMMA RankGrows ==
    ASSUME NEW S, IsFiniteSet(S), NEW R, Orders(R, S), NEW x \in S
    PROVE  /\ Rank(x, S, R) \in Nat /\ Rank(x, S, R) < Cardinality(S)
           /\ \A y \in S : <<x, y>> \in R => Rank(x, S, R) < Rank(y, S, R)
<1>1. ASSUME NEW B, B \subseteq S, NEW A, A \subseteq B, NEW z \in B, z \notin A
      PROVE  Cardinality(A) \in Nat /\ Cardinality(B) \in Nat /\ Cardinality(A) < Cardinality(B)
  <2>1. IsFiniteSet(B) /\ Cardinality(B) \in Nat
    BY <1>1, FS_Subset, FS_CardinalityType
  <2>2. IsFiniteSet(A) /\ Cardinality(A) <= Cardinality(B) /\ Cardinality(A) \in Nat
    BY <1>1, <2>1, FS_Subset, FS_CardinalityType
  <2>3. Cardinality(A) # Cardinality(B)
    BY <1>1, <2>1, FS_Subset
  <2>4. QED  BY <2>1, <2>2, <2>3
<1>2. x \notin {y \in S : <<y, x>> \in R}
  BY DEF Orders
<1>3. Rank(x, S, R) \in Nat /\ Rank(x, S, R) < Cardinality(S)
  BY <1>1, <1>2 DEF Rank
<1>4. ASSUME NEW y \in S, <<x, y>> \in R PROVE Rank(x, S, R) < Rank(y, S, R)
  <2> DEFINE A == {z \in S : <<z, x>> \in R}
             B == {z \in S : <<z, y>> \in R}
  <2>1. B \subseteq S /\ A \subseteq B /\ x \in B /\ x \notin A
    BY <1>2, <1>4 DEF Orders
  <2>2. Cardinality(A) < Cardinality(B)
    BY <1>1, <2>1
  <2>3. QED  BY <2>2 DEF Rank
<1>5. QED  BY <1>3, <1>4

LEMMA RankFound ==
    ASSUME NEW S, IsFiniteSet(S), NEW R, Orders(R, S)
    PROVE  /\ Cardinality(S) \in Nat
           /\ \A k \in 1 .. Cardinality(S) : \E x \in S : Rank(x, S, R) = k - 1
           /\ \A x, y \in S : Rank(x, S, R) = Rank(y, S, R) => x = y
           /\ \A x, y \in S : Rank(x, S, R) < Rank(y, S, R) => <<x, y>> \in R
<1> DEFINE N == Cardinality(S)
           T == 0 .. N - 1
           r == [x \in S |-> Rank(x, S, R)]
<1>1. N \in Nat
  BY FS_CardinalityType
<1>2. \A x \in S : Rank(x, S, R) \in Nat /\ Rank(x, S, R) < N
  BY RankGrows, Zenon
<1>3. \A x, y \in S : <<x, y>> \in R => Rank(x, S, R) < Rank(y, S, R)
  BY RankGrows, Zenon
<1>4. \A x, y \in S : Rank(x, S, R) = Rank(y, S, R) => x = y
  <2> SUFFICES ASSUME NEW x \in S, NEW y \in S, Rank(x, S, R) = Rank(y, S, R), x # y
               PROVE  FALSE
    OBVIOUS
  <2>1. <<x, y>> \in R \/ <<y, x>> \in R
    BY DEF Orders
  <2>2. Rank(x, S, R) < Rank(y, S, R) \/ Rank(y, S, R) < Rank(x, S, R)
    BY <1>3, <2>1, Zenon
  <2>3. QED  BY <1>2, <2>2
<1>5. \A x, y \in S : Rank(x, S, R) < Rank(y, S, R) => <<x, y>> \in R
  <2> SUFFICES ASSUME NEW x \in S, NEW y \in S, Rank(x, S, R) < Rank(y, S, R)
               PROVE  <<x, y>> \in R
    OBVIOUS
  <2>1. CASE x = y
    BY <1>2, <2>1
  <2>2. CASE <<y, x>> \in R
    <3>1. Rank(y, S, R) < Rank(x, S, R)
      BY <1>3, <2>2, Zenon
    <3>2. QED  BY <1>2, <3>1
  <2>3. QED  BY <2>1, <2>2 DEF Orders
<1>6. IsFiniteSet(T) /\ Cardinality(T) = N
  BY <1>1, FS_Interval
<1>7. \A x \in S : Rank(x, S, R) \in T
  BY <1>1, <1>2
<1>8. r \in Injection(S, T)
  <2>1. r \in [S -> T] /\ \A x \in S : r[x] = Rank(x, S, R)
    BY <1>7
  <2>2. \A x, y \in S : r[x] = r[y] => x = y
    BY <1>4, <2>1, Zenon
  <2> HIDE DEF r, T
  <2>3. QED  BY <2>1, <2>2 DEF Injection, IsInjective
<1>9. r \in Surjection(S, T)
  BY <1>6, <1>8, FS_Injection
<1>10. ASSUME NEW k \in 1 .. Cardinality(S) PROVE \E x \in S : Rank(x, S, R) = k - 1
  <2>1. k - 1 \in T
    BY <1>1
  <2>2. PICK x \in S : r[x] = k - 1
    BY <1>9, <2>1 DEF Surjection
  <2>3. QED  BY <2>2
<1>11. QED  BY <1>1, <1>4, <1>5, <1>10

(* Arranged lists every member of S at its rank.                           *)
LEMMA ArrangedMeaning ==
    ASSUME NEW S, IsFiniteSet(S), NEW R, Orders(R, S)
    PROVE  /\ Cardinality(S) \in Nat
           /\ \A k \in 1 .. Cardinality(S) : Arranged(S, R)[k] \in S
           /\ \A x \in S : \E k \in 1 .. Cardinality(S) : x = Arranged(S, R)[k]
           /\ \A k, l \in 1 .. Cardinality(S) :
                 k < l => <<Arranged(S, R)[k], Arranged(S, R)[l]>> \in R
<1> DEFINE A == Arranged(S, R)
           N == Cardinality(S)
<1>1. /\ N \in Nat
      /\ \A k \in 1 .. N : \E x \in S : Rank(x, S, R) = k - 1
      /\ \A x, y \in S : Rank(x, S, R) = Rank(y, S, R) => x = y
      /\ \A x, y \in S : Rank(x, S, R) < Rank(y, S, R) => <<x, y>> \in R
  BY RankFound, Zenon
<1>2. \A k \in 1 .. N : A[k] \in S /\ Rank(A[k], S, R) = k - 1
  <2> SUFFICES ASSUME NEW k \in 1 .. N PROVE A[k] \in S /\ Rank(A[k], S, R) = k - 1
    OBVIOUS
  <2>1. A[k] = CHOOSE x \in S : Rank(x, S, R) = k - 1
    BY DEF Arranged, Rank
  <2>2. \E x \in S : Rank(x, S, R) = k - 1
    BY <1>1
  <2>3. QED  BY <2>1, <2>2, Zenon
<1> HIDE DEF A
<1>3. ASSUME NEW x \in S PROVE \E k \in 1 .. N : x = A[k]
  <2>1. Rank(x, S, R) \in Nat /\ Rank(x, S, R) < N
    BY RankGrows, Zenon
  <2>2. PICK k \in 1 .. N : k - 1 = Rank(x, S, R)
    <3>1. Rank(x, S, R) + 1 \in 1 .. N /\ (Rank(x, S, R) + 1) - 1 = Rank(x, S, R)
      BY <1>1, <2>1
    <3>2. QED  BY <3>1
  <2>3. A[k] \in S /\ Rank(A[k], S, R) = Rank(x, S, R)
    BY <1>2, <2>2
  <2>4. QED  BY <1>1, <2>3
<1>4. ASSUME NEW k \in 1 .. N, NEW l \in 1 .. N, k < l PROVE <<A[k], A[l]>> \in R
  <2>1. A[k] \in S /\ A[l] \in S /\ Rank(A[k], S, R) = k - 1 /\ Rank(A[l], S, R) = l - 1
    BY <1>2
  <2>2. k - 1 < l - 1
    BY <1>4, <1>1
  <2>3. Rank(A[k], S, R) < Rank(A[l], S, R)
    BY <2>1, <2>2, Zenon
  <2>4. QED  BY <1>1, <2>1, <2>3, Zenon
<1>5. QED  BY <1>1, <1>2, <1>3, <1>4 DEF A

(* So a sum over a set is the sum over the list of its members: SumMoved.  *)
LEMMA ArrangedPairs ==
    ASSUME NEW S, IsFiniteSet(S), NEW R, Orders(R, S)
    PROVE  /\ Cardinality(S) \in Nat /\ IsFiniteSet(1 .. Cardinality(S))
           /\ PairsUp(Arranged(S, R), 1 .. Cardinality(S), S)
<1>1. /\ Cardinality(S) \in Nat
      /\ \A k \in 1 .. Cardinality(S) : Arranged(S, R)[k] \in S
      /\ \A x \in S : \E k \in 1 .. Cardinality(S) : x = Arranged(S, R)[k]
      /\ \A k, l \in 1 .. Cardinality(S) :
            k < l => <<Arranged(S, R)[k], Arranged(S, R)[l]>> \in R
  BY ArrangedMeaning, Zenon
<1>2. PICK n, g : n = Cardinality(S) /\ g = Arranged(S, R)
  OBVIOUS
<1>3. ASSUME NEW k \in 1 .. n, NEW l \in 1 .. n, g[k] = g[l] PROVE k = l
  <2>1. \A x \in S : <<x, x>> \notin R
    BY DEF Orders
  <2>2. g[k] \in S
    BY <1>1, <1>2
  <2>3. ~ (k < l) /\ ~ (l < k)
    BY <1>1, <1>2, <1>3, <2>1, <2>2
  <2>4. QED  BY <1>1, <1>2, <2>3
<1>4. IsFiniteSet(1 .. n)
  BY <1>1, <1>2, FS_Interval
<1>5. PairsUp(g, 1 .. n, S)
  <2>1. \A k, l \in 1 .. n : g[k] = g[l] => k = l
    BY <1>3
  <2>2. (\A k \in 1 .. n : g[k] \in S) /\ \A x \in S : \E k \in 1 .. n : x = g[k]
    BY <1>1, <1>2
  <2>3. QED  BY <2>1, <2>2, Zenon DEF PairsUp
<1>6. QED  BY <1>1, <1>2, <1>4, <1>5, Zenon

LEMMA AscendingOrder ==
    ASSUME NEW I \in SUBSET Int
    PROVE  Orders({e \in I \X I : e[1] < e[2]}, I)
<1> DEFINE R == {e \in I \X I : e[1] < e[2]}
<1>1. \A i, j \in I : <<i, j>> \in R <=> i < j
  OBVIOUS
<1> HIDE DEF R
<1>2. QED  BY <1>1 DEF Orders, R

LEMMA AscendingMeaning ==
    ASSUME NEW I \in SUBSET Int, IsFiniteSet(I)
    PROVE  /\ Cardinality(I) \in Nat
           /\ \A k \in 1 .. Cardinality(I) : Ascending(I)[k] \in I
           /\ \A i \in I : \E k \in 1 .. Cardinality(I) : i = Ascending(I)[k]
           /\ \A k, l \in 1 .. Cardinality(I) : k < l => Ascending(I)[k] < Ascending(I)[l]
<1> DEFINE R == {e \in I \X I : e[1] < e[2]}
<1>1. \A i, j \in I : <<i, j>> \in R => i < j
  OBVIOUS
<1>2. Orders(R, I) /\ Ascending(I) = Arranged(I, R)
  BY AscendingOrder, Zenon DEF Ascending
<1> HIDE DEF R
<1>3. /\ Cardinality(I) \in Nat
      /\ \A k \in 1 .. Cardinality(I) : Arranged(I, R)[k] \in I
      /\ \A i \in I : \E k \in 1 .. Cardinality(I) : i = Arranged(I, R)[k]
      /\ \A k, l \in 1 .. Cardinality(I) :
            k < l => <<Arranged(I, R)[k], Arranged(I, R)[l]>> \in R
  <2>1. Orders(R, I)
    BY <1>2
  <2>2. QED  BY <2>1, ArrangedMeaning, Zenon
<1>4. QED  BY <1>1, <1>2, <1>3

LEMMA AscendingPairs ==
    ASSUME NEW I \in SUBSET Int, IsFiniteSet(I)
    PROVE  /\ Cardinality(I) \in Nat /\ IsFiniteSet(1 .. Cardinality(I))
           /\ PairsUp(Ascending(I), 1 .. Cardinality(I), I)
<1> DEFINE R == {e \in I \X I : e[1] < e[2]}
<1>1. Orders(R, I) /\ Ascending(I) = Arranged(I, R)
  BY AscendingOrder, Zenon DEF Ascending
<1> HIDE DEF R
<1>2. /\ Cardinality(I) \in Nat /\ IsFiniteSet(1 .. Cardinality(I))
      /\ PairsUp(Arranged(I, R), 1 .. Cardinality(I), I)
  BY <1>1, ArrangedPairs, Zenon
<1>3. QED  BY <1>1, <1>2, Zenon

(* P cuts D into parts.                                                    *)
Divides(P, D) ==
    /\ P \subseteq SUBSET D /\ {} \notin P
    /\ \A x \in D : \E g \in P : x \in g
    /\ \A g, h \in P : g # h => g \cap h = {}

PartSums(h, P, f) == \A g \in P : h[g] = SumFunctionOnSet(f, g)

LEMMA SumOfParts ==
    ASSUME NEW D, IsFiniteSet(D), NEW f, Whole(f, D), NEW P, Divides(P, D),
           NEW h, PartSums(h, P, f)
    PROVE  IsFiniteSet(P) /\ SumFunctionOnSet(h, P) = SumFunctionOnSet(f, D)
<1> USE DEF Whole, PartSums
<1> DEFINE c == [x \in D |-> CHOOSE g \in P : x \in g]
<1>1. IsFiniteSet(P)
  <2>1. IsFiniteSet(SUBSET D)
    BY FS_SUBSET
  <2>2. P \in SUBSET (SUBSET D)
    BY DEF Divides
  <2>3. QED  BY <2>1, <2>2, FS_Subset, Zenon
<1>2. \A x \in D : c[x] \in P /\ x \in c[x]
  <2> SUFFICES ASSUME NEW x \in D PROVE c[x] \in P /\ x \in c[x]
    OBVIOUS
  <2>1. \E g \in P : x \in g
    BY DEF Divides
  <2>2. QED  BY <2>1, Zenon
<1> HIDE DEF c
<1>3. ASSUME NEW g \in P PROVE {x \in D : c[x] = g} = g
  <2>1. \A x \in g : x \in D /\ c[x] = g
    BY <1>2 DEF Divides
  <2>2. \A x \in D : c[x] = g => x \in g
    BY <1>2
  <2>3. QED  BY <2>1, <2>2
<1>4. ClassSums(h, P, f, D, c)
  <2>1. \A g \in P : h[g] = SumFunctionOnSet(f, {x \in D : c[x] = g})
    BY <1>3, Zenon
  <2>2. QED  BY <2>1, Zenon DEF ClassSums
<1>5. \A x \in D : c[x] \in P
  BY <1>2
<1>6. SumFunctionOnSet(h, P) = SumFunctionOnSet(f, D)
  BY <1>1, <1>4, <1>5, SumGrouped
<1>7. QED  BY <1>1, <1>6
=============================================================================
