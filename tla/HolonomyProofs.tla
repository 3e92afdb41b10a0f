--------------------------- MODULE HolonomyProofs ---------------------------
(***************************************************************************)
(* What holds of the twist table and of the solver (module Holonomy) for   *)
(* any network, any clock offsets and any order of measurements.           *)
(***************************************************************************)
EXTENDS Holonomy, SumProofs, SequenceTheorems, TLAPS

(* An entry is the difference of the two clocks, along the key, whoever    *)
(* measured the other.                                                     *)
TableExact ==
    /\ truth \in [Node -> Offsets]
    /\ \A e \in DOMAIN table : e \in Edge /\ table[e] = truth[e[2]] - truth[e[1]]

LEMMA TruthIsInt ==
    ASSUME TableExact
    PROVE  \A n \in Node : truth[n] \in Int /\ n \in Int
BY HolonomyAssumption DEF TableExact

LEMMA MeasureExact ==
    ASSUME TableExact, NEW a \in Node, NEW b \in Node, a # b, Measure(a, b)
    PROVE  TableExact'
<1> DEFINE k == edge_key(a, b)
           v == AlongKey(a, b, truth[b] - truth[a])
<1>1. a \in Int /\ b \in Int /\ truth[a] \in Int /\ truth[b] \in Int
  BY TruthIsInt
<1>2. k \in Edge /\ k = IF a < b THEN <<a, b>> ELSE <<b, a>>
  BY <1>1 DEF edge_key, Edge
<1>3. v = truth[k[2]] - truth[k[1]]
  <2>1. CASE a < b
    <3>1. k[1] = a /\ k[2] = b
      BY <1>2, <2>1
    <3>2. QED  BY <3>1 DEF AlongKey
  <2>2. CASE ~ (a < b)
    <3>1. k[1] = b /\ k[2] = a
      BY <1>2, <2>2
    <3>2. v = -(truth[b] - truth[a])
      BY <3>1 DEF AlongKey
    <3>3. QED  BY <1>1, <3>1, <3>2
  <2>3. QED  BY <2>1, <2>2
<1>4. /\ table' = [e \in DOMAIN table \cup {k} |-> IF e = k THEN v ELSE table[e]]
      /\ truth' = truth
  BY DEF Measure, insert
<1> HIDE DEF k, v
<1>5. QED  BY <1>2, <1>3, <1>4 DEF TableExact

LEMMA TableInductive ==
    ASSUME TableExact, [Next]_vars
    PROVE  TableExact'
<1>1. ASSUME truth' = truth, table' = table PROVE TableExact'
  BY <1>1 DEF TableExact
<1>2. CASE SolveDirect \/ step \/ UNCHANGED vars
  BY <1>1, <1>2 DEF SolveDirect, step, vars
<1>3. QED  BY <1>2, MeasureExact DEF Next

(* A leg is the difference of the clocks at its ends, in its direction.    *)
LEMMA LegExact ==
    ASSUME TableExact, NEW a \in Node, NEW b \in Node,
           edge_key(a, b) \in DOMAIN table
    PROVE  Leg(table, a, b) = truth[b] - truth[a]
<1>1. a \in Int /\ b \in Int /\ truth[a] \in Int /\ truth[b] \in Int
  BY TruthIsInt
<1>2. edge_key(a, b) = IF a < b THEN <<a, b>> ELSE <<b, a>>
  BY DEF edge_key
<1>3. latest(table, a, b) = truth[edge_key(a, b)[2]] - truth[edge_key(a, b)[1]]
  BY DEF TableExact, latest
<1>4. CASE a < b
  BY <1>1, <1>2, <1>3, <1>4 DEF Leg
<1>5. CASE ~ (a < b)
  <2>1. edge_key(a, b)[1] = b /\ edge_key(a, b)[2] = a
    BY <1>2, <1>5
  <2>2. a # b
    BY <1>1, <2>1 DEF TableExact, Edge
  <2>3. Leg(table, a, b) = -(truth[a] - truth[b])
    BY <1>3, <2>1, <2>2 DEF Leg
  <2>4. QED  BY <1>1, <2>3
<1>6. QED  BY <1>4, <1>5

(* A path closes: after its last node comes its first.                     *)
LEMMA NextOnPath ==
    ASSUME NEW k \in Nat, NEW i \in 1 .. k
    PROVE  (i % k) + 1 = IF i = k THEN 1 ELSE i + 1
<1>1. CASE i = k
  <2>1. k % k = 0
    OBVIOUS
  <2>2. QED  BY <1>1, <2>1
<1>2. CASE i # k
  <2>1. i % k = i
    BY <1>2
  <2>2. QED  BY <1>2, <2>1
<1>3. QED  BY <1>1, <1>2

(* Up to its closing leg, a path adds up to the difference of the clocks   *)
(* at its ends: what a leg adds at a node the next one takes away.         *)
LEMMA PathTelescopes ==
    ASSUME NEW k \in Nat, NEW t, NEW f,
           \A i \in 1 .. k : t[i] \in Int,
           \A i \in 1 .. k - 1 : f[i] = t[i + 1] - t[i]
    PROVE  \A n \in 0 .. k - 1 : SumFunctionOnSet(f, 1 .. n) = t[n + 1] - t[1]
<1> DEFINE T == {n \in Nat : n <= k - 1 => SumFunctionOnSet(f, 1 .. n) = t[n + 1] - t[1]}
<1>1. 0 \in T
  <2> SUFFICES ASSUME 0 <= k - 1 PROVE SumFunctionOnSet(f, 1 .. 0) = t[0 + 1] - t[1]
    OBVIOUS
  <2>1. 1 .. 0 = {} /\ t[1] \in Int
    OBVIOUS
  <2>2. QED  BY <2>1, SumEmpty
<1>2. ASSUME NEW n \in Nat, n \in T PROVE n + 1 \in T
  <2> SUFFICES ASSUME n + 1 <= k - 1
               PROVE  SumFunctionOnSet(f, 1 .. n + 1) = t[(n + 1) + 1] - t[1]
    OBVIOUS
  <2>1. SumFunctionOnSet(f, 1 .. n) = t[n + 1] - t[1]
    BY <1>2
  <2>2. f[n + 1] = t[(n + 1) + 1] - t[n + 1]
    OBVIOUS
  <2>3. t[1] \in Int /\ t[n + 1] \in Int /\ t[(n + 1) + 1] \in Int
    OBVIOUS
  <2>4. \A i \in 1 .. n + 1 : f[i] \in Int
    <3>1. ASSUME NEW i \in 1 .. n + 1 PROVE f[i] \in Int
      <4>1. f[i] = t[i + 1] - t[i] /\ t[i + 1] \in Int /\ t[i] \in Int
        OBVIOUS
      <4>2. QED  BY <4>1
    <3>2. QED  BY <3>1
  <2>5. SumFunctionOnSet(f, 1 .. n + 1) = SumFunctionOnSet(f, 1 .. n) + f[n + 1]
    BY <2>4, SumUpto
  <2>6. QED  BY <2>1, <2>2, <2>3, <2>5
<1>3. \A n \in Nat : n \in T
  <2> HIDE DEF T
  <2>1. QED  BY <1>1, <1>2, SetInduction
<1>4. QED  BY <1>3

LEMMA PathLength ==
    ASSUME NEW k \in Nat, NEW p \in [1 .. k -> Node]
    PROVE  Len(p) = k
<1>1. p \in UNION {[1 .. n -> Node] : n \in Nat}
  BY Zenon
<1>2. p \in Seq(Node)
  BY <1>1, SeqDef, Zenon
<1>3. Len(p) \in Nat /\ DOMAIN p = 1 .. Len(p) /\ DOMAIN p = 1 .. k
  BY <1>2, LenProperties
<1>4. QED  BY <1>3

(* TwistLUT::loop_holonomy of exact measurements is zero around every      *)
(* closed path, however long, in either direction and whichever node       *)
(* initiated each exchange: the signs that insert and loop_holonomy give a *)
(* twist cancel.                                                           *)
THEOREM LoopsClose == Spec => []ExactLoopsClose
<1>1. Init => TableExact
  BY DEF Init, TableExact
<1>2. TableExact /\ [Next]_vars => TableExact'
  BY TableInductive
<1>3. ASSUME TableExact PROVE ExactLoopsClose
  <2> SUFFICES ASSUME NEW k \in 3 .. MaxLoop, NEW p \in [1 .. k -> Node],
                      \A i \in 1 .. k : edge_key(p[i], p[(i % k) + 1]) \in DOMAIN table
               PROVE  loop_holonomy(table, p) = 0
    BY DEF ExactLoopsClose
  <2> DEFINE t == [i \in 1 .. k |-> truth[p[i]]]
             f == [i \in 1 .. k |-> Leg(table, p[i], p[(i % k) + 1])]
  <2>1. k \in Nat /\ k >= 3 /\ k - 1 \in Nat /\ (k - 1) + 1 = k
    BY HolonomyAssumption
  <2>2. \A i \in 1 .. k : p[i] \in Node /\ t[i] \in Int
    BY <1>3, TruthIsInt
  <2>3. \A i \in 1 .. k : (i % k) + 1 = IF i = k THEN 1 ELSE i + 1
    BY <2>1, NextOnPath
  <2>4. ASSUME NEW i \in 1 .. k, NEW j \in 1 .. k, j = (i % k) + 1
        PROVE  f[i] = t[j] - t[i]
    <3>1. Leg(table, p[i], p[j]) = truth[p[j]] - truth[p[i]]
      BY <1>3, <2>2, <2>4, LegExact
    <3>2. QED  BY <2>4, <3>1
  <2>5. SumFunctionOnSet(f, 1 .. k) = loop_holonomy(table, p)
    <3>1. Len(p) = k /\ DOMAIN p = 1 .. k
      BY <2>1, PathLength
    <3>2. QED  BY <3>1 DEF loop_holonomy, SumFunction
  <2> HIDE DEF t, f
  <2>6. ASSUME NEW i \in 1 .. k - 1 PROVE f[i] = t[i + 1] - t[i]
    <3>1. i \in 1 .. k /\ i + 1 \in 1 .. k /\ i # k
      BY <2>1
    <3>2. QED  BY <2>3, <2>4, <3>1
  <2>7. f[k] = t[1] - t[k]
    <3>1. k \in 1 .. k /\ 1 \in 1 .. k
      BY <2>1
    <3>2. QED  BY <2>3, <2>4, <3>1
  <2>8. SumFunctionOnSet(f, 1 .. k - 1) = t[k] - t[1]
    <3>1. k - 1 \in 0 .. k - 1
      BY <2>1
    <3>2. SumFunctionOnSet(f, 1 .. k - 1) = t[(k - 1) + 1] - t[1]
      BY <2>1, <2>2, <2>6, <3>1, PathTelescopes
    <3>3. QED  BY <2>1, <3>2
  <2>9. t[1] \in Int /\ t[k] \in Int
    BY <2>1, <2>2
  <2>10. SumFunctionOnSet(f, 1 .. k) = SumFunctionOnSet(f, 1 .. k - 1) + f[k]
    <3>1. \A i \in 1 .. k : f[i] \in Int
      <4>1. ASSUME NEW i \in 1 .. k PROVE f[i] \in Int
        <5>1. CASE i = k
          BY <2>7, <2>9, <5>1
        <5>2. CASE i # k
          <6>1. i \in 1 .. k - 1 /\ i + 1 \in 1 .. k
            BY <2>1, <5>2
          <6>2. t[i + 1] \in Int /\ t[i] \in Int
            BY <2>2, <6>1
          <6>3. QED  BY <2>6, <6>1, <6>2
        <5>3. QED  BY <5>1, <5>2
      <4>2. QED  BY <4>1
    <3>2. PICK m \in Nat : m = k - 1 /\ m + 1 = k
      BY <2>1
    <3>3. SumFunctionOnSet(f, 1 .. m + 1) = SumFunctionOnSet(f, 1 .. m) + f[m + 1]
      BY <3>1, <3>2, SumUpto
    <3>4. QED  BY <3>2, <3>3
  <2>11. QED  BY <2>5, <2>7, <2>8, <2>9, <2>10
<1>4. QED  BY <1>1, <1>2, <1>3, PTL DEF Spec

-----------------------------------------------------------------------------
(* The solver.  While it runs, its own table is the caller's, so an error  *)
(* it sees is how far the offsets of two nodes are from differing as their *)
(* clocks do.                                                              *)
SolverExact ==
    /\ TableExact
    /\ offset \in [Node -> Int]
    /\ phase # "measuring" => lut = table
    /\ phase = "converged" =>
           \A n, m \in Node : m \in neighbors(table, n) => Agrees(n, m)

LEMMA ErrorExact ==
    ASSUME TableExact, offset \in [Node -> Int], lut = table,
           NEW n \in Node, NEW m \in Node, m \in neighbors(lut, n)
    PROVE  /\ Error(n, m) = (offset[m] - offset[n]) - (truth[m] - truth[n])
           /\ Error(n, m) \in Int
<1>1. n \in Int /\ m \in Int /\ truth[n] \in Int /\ truth[m] \in Int
  BY TruthIsInt
<1>2. n # m /\ edge_key(n, m) \in DOMAIN table
  BY DEF neighbors
<1>3. latest(lut, n, m) = truth[edge_key(n, m)[2]] - truth[edge_key(n, m)[1]]
  BY <1>2 DEF TableExact, latest
<1>4. latest(lut, n, m) = IF n > m THEN truth[n] - truth[m] ELSE truth[m] - truth[n]
  <2>1. edge_key(n, m) = IF n > m THEN <<m, n>> ELSE <<n, m>>
    BY <1>1, <1>2 DEF edge_key
  <2>2. CASE n > m
    <3>1. edge_key(n, m)[1] = m /\ edge_key(n, m)[2] = n
      BY <2>1, <2>2
    <3>2. QED  BY <1>3, <2>2, <3>1
  <2>3. CASE ~ (n > m)
    <3>1. edge_key(n, m)[1] = n /\ edge_key(n, m)[2] = m
      BY <2>1, <2>3
    <3>2. QED  BY <1>3, <2>3, <3>1
  <2>4. QED  BY <2>2, <2>3
<1>5. offset[n] \in Int /\ offset[m] \in Int
  OBVIOUS
<1>6. CASE n > m
  <2>1. Error(n, m) = (offset[m] + (truth[n] - truth[m])) - offset[n]
    BY <1>4, <1>6 DEF Error, Expected
  <2>2. QED  BY <1>1, <1>5, <2>1
<1>7. CASE ~ (n > m)
  <2>1. Error(n, m) = (offset[m] - (truth[m] - truth[n])) - offset[n]
    BY <1>4, <1>7 DEF Error, Expected
  <2>2. QED  BY <1>1, <1>5, <2>1
<1>8. QED  BY <1>6, <1>7

LEMMA NeighborsFinite ==
    ASSUME NEW n \in Node
    PROVE  /\ IsFiniteSet(neighbors(lut, n)) /\ Cardinality(neighbors(lut, n)) \in Nat
           /\ neighbors(lut, n) \subseteq Node
           /\ neighbors(lut, n) # {} => Cardinality(neighbors(lut, n)) > 0
<1>1. neighbors(lut, n) \subseteq Node
  BY DEF neighbors
<1>2. IsFiniteSet(neighbors(lut, n))
  BY <1>1, FS_Subset, HolonomyAssumption
<1>3. Cardinality(neighbors(lut, n)) \in Nat
  BY <1>2, FS_CardinalityType
<1>4. Cardinality(neighbors(lut, n)) = 0 => neighbors(lut, n) = {}
  BY <1>2, FS_EmptySet
<1>5. QED  BY <1>1, <1>2, <1>3, <1>4

(* The greatest defect bounds them all.                                    *)
LEMMA MaxDefectBounds ==
    ASSUME TableExact, offset \in [Node -> Int], lut = table, MaxDefect <= Tolerance,
           NEW n \in Node, NEW m \in Node, m \in neighbors(lut, n)
    PROVE  Abs(Error(n, m)) <= Tolerance
<1> DEFINE Pairs == {d \in Node \X Node : d[2] \in neighbors(lut, d[1])}
           f == [e \in Pairs |-> Abs(Error(e[1], e[2]))]
           All == Defects \cup {0}
<1>1. IsFiniteSet(Pairs)
  <2>1. IsFiniteSet(Node \X Node)
    BY FS_Product, HolonomyAssumption
  <2>2. Pairs \subseteq Node \X Node
    OBVIOUS
  <2>3. QED  BY <2>1, <2>2, FS_Subset
<1>2. Defects = {f[e] : e \in Pairs}
  BY DEF Defects
<1>3. \A e \in Pairs : f[e] \in Int
  <2>1. ASSUME NEW e \in Pairs PROVE f[e] \in Int
    <3>1. Error(e[1], e[2]) \in Int
      BY ErrorExact
    <3>2. QED  BY <3>1 DEF Abs
  <2>2. QED  BY <2>1
<1>4. <<n, m>> \in Pairs /\ f[<<n, m>>] = Abs(Error(n, m))
  OBVIOUS
<1> HIDE DEF Pairs, f
<1>5. IsFiniteSet(All) /\ All \subseteq Int /\ All # {}
  <2>1. IsFiniteSet(Defects)
    BY <1>1, <1>2, ValuesFinite
  <2>2. IsFiniteSet(All)
    BY <2>1, FS_AddElement
  <2>3. QED  BY <1>2, <1>3, <2>2
<1>6. PICK x \in All : \A y \in All : x >= y
  BY <1>5, GreatestExists
<1>7. MaxDefect \in All /\ \A y \in All : MaxDefect >= y
  BY <1>6 DEF MaxDefect, Max
<1>8. Abs(Error(n, m)) \in All
  BY <1>2, <1>4
<1>9. MaxDefect \in Int /\ Abs(Error(n, m)) \in Int /\ Tolerance \in Int
  BY <1>5, <1>7, <1>8, HolonomyAssumption
<1>10. QED  BY <1>7, <1>8, <1>9

LEMMA QuotientBelow ==
    ASSUME NEW x \in Nat, NEW d \in Nat, d > 0, NEW k \in Nat, x < (k + 1) * d
    PROVE  x \div d \in Nat /\ x \div d <= k
<1> DEFINE q == x \div d
<1>1. q \in Nat /\ q * d <= x
  OBVIOUS
<1> HIDE DEF q
<1>2. ASSUME q >= k + 1 PROVE FALSE
  <2>1. PICK r \in Nat : q = (k + 1) + r
    <3>1. q - (k + 1) \in Nat /\ q = (k + 1) + (q - (k + 1))
      BY <1>1, <1>2
    <3>2. QED  BY <3>1
  <2>2. q * d = (k + 1) * d + r * d /\ r * d \in Nat
    BY <2>1
  <2>3. (k + 1) * d \in Nat
    OBVIOUS
  <2>4. QED  BY <1>1, <2>2, <2>3
<1>3. QED  BY <1>1, <1>2 DEF q

(* Dividing a sum of c terms by 3c leaves at most a third of a term.       *)
LEMMA DampedMean ==
    ASSUME NEW B \in Nat, NEW c \in Nat, c > 0, NEW s \in Int,
           -B * c <= s, s <= B * c
    PROVE  /\ Trunc(s, 3 * c) \in Int
           /\ -(B \div 3) <= Trunc(s, 3 * c) /\ Trunc(s, 3 * c) <= B \div 3
<1>1. PICK b \in Nat : b = B \div 3 /\ B < 3 * (b + 1)
  OBVIOUS
<1>2. PICK x \in Nat : x = Abs(s)
  BY DEF Abs
<1>3. PICK y \in Nat : y = B * c
  OBVIOUS
<1>4. x <= y
  <2>1. -B * c = -y
    BY <1>3
  <2>2. QED  BY <1>2, <1>3, <2>1 DEF Abs
<1>5. y < (b + 1) * (3 * c)
  <2>1. PICK r \in Nat : 3 * (b + 1) = B + (r + 1)
    <3>1. (3 * (b + 1) - B) - 1 \in Nat
      BY <1>1
    <3>2. 3 * (b + 1) = B + (((3 * (b + 1) - B) - 1) + 1)
      OBVIOUS
    <3>3. QED  BY <3>1, <3>2
  <2>2. (b + 1) * (3 * c) = (3 * (b + 1)) * c
    OBVIOUS
  <2>3. (B + (r + 1)) * c = B * c + (r * c + c) /\ r * c \in Nat
    OBVIOUS
  <2>4. QED  BY <1>3, <2>1, <2>2, <2>3
<1>6. x < (b + 1) * (3 * c)
  <2>1. (b + 1) * (3 * c) \in Nat
    OBVIOUS
  <2>2. QED  BY <1>4, <1>5, <2>1
<1>7. x \div (3 * c) \in Nat /\ x \div (3 * c) <= b
  <2>1. PICK d \in Nat : d = 3 * c /\ d > 0
    OBVIOUS
  <2>2. x < (b + 1) * d
    BY <1>6, <2>1
  <2>3. x \div d \in Nat /\ x \div d <= b
    BY <2>1, <2>2, QuotientBelow
  <2>4. QED  BY <2>1, <2>3
<1>8. Trunc(s, 3 * c) = IF s < 0 THEN -(x \div (3 * c)) ELSE x \div (3 * c)
  BY <1>2 DEF Trunc, Abs
<1>9. PICK q \in Nat : q = x \div (3 * c)
  BY <1>7
<1>10. QED  BY <1>1, <1>7, <1>8, <1>9

(* No node moves by more than LastMove when all errors are in tolerance.   *)
LEMMA CorrectionBounds ==
    ASSUME TableExact, offset \in [Node -> Int], lut = table, NEW n \in Node,
           \A m \in neighbors(lut, n) : Abs(Error(n, m)) <= Tolerance
    PROVE  /\ Correction(n) \in Int
           /\ -LastMove <= Correction(n) /\ Correction(n) <= LastMove
<1> DEFINE ns == neighbors(lut, n)
           f == [m \in ns |-> Trunc(9 * Error(n, m), 10)]
<1>1. PICK B \in Nat : B = (9 * Tolerance) \div 10
  BY HolonomyAssumption
<1>2. LastMove = B \div 3 /\ LastMove \in Nat
  BY <1>1 DEF LastMove
<1>3. CASE ns = {}
  <2>1. Correction(n) = 0
    BY <1>3 DEF Correction
  <2>2. QED  BY <1>2, <2>1
<1>4. CASE ns # {}
  <2>1. PICK c \in Nat : c = Cardinality(ns) /\ c > 0
    BY <1>4, NeighborsFinite
  <2>2. IsFiniteSet(ns)
    BY NeighborsFinite
  <2>3. ASSUME NEW m \in ns
        PROVE  f[m] \in Int /\ -B <= f[m] /\ f[m] <= B
    <3>1. PICK e \in Int : e = Error(n, m)
      BY ErrorExact, NeighborsFinite
    <3>2. Abs(e) <= Tolerance
      BY <3>1
    <3>3. Tolerance \in Nat
      BY HolonomyAssumption
    <3>4. f[m] = Trunc(9 * e, 10)
      BY <3>1
    <3> HIDE DEF f, ns
    <3>5. QED  BY <1>1, <3>2, <3>3, <3>4 DEF Trunc, Abs
  <2>4. PICK s \in Int : s = SumFunction(f)
    <3>1. \A m \in ns : f[m] \in Int
      BY <2>3
    <3>2. SumFunction(f) = SumFunctionOnSet(f, ns)
      BY DEF SumFunction
    <3> HIDE DEF f, ns
    <3>3. QED  BY <2>2, <3>1, <3>2, SumIsInt
  <2>5. -B * c <= s /\ s <= B * c
    <3>1. SumFunction(f) = SumFunctionOnSet(f, ns)
      BY DEF SumFunction
    <3>2. PICK lo \in Int : lo = -B
      OBVIOUS
    <3>3. \A m \in ns : f[m] \in Int /\ lo <= f[m] /\ f[m] <= B
      BY <2>3, <3>2
    <3> HIDE DEF f, ns
    <3>4. B \in Int
      OBVIOUS
    <3>5. /\ lo * Cardinality(ns) <= SumFunctionOnSet(f, ns)
          /\ SumFunctionOnSet(f, ns) <= B * Cardinality(ns)
      BY <2>2, <3>3, <3>4, SumBounds, Zenon
    <3>6. QED  BY <2>1, <2>4, <3>1, <3>2, <3>5
  <2>6. Correction(n) = Trunc(s, 3 * c)
    BY <1>4, <2>1, <2>4 DEF Correction
  <2>7. QED  BY <1>2, <2>1, <2>5, <2>6, DampedMean
<1>5. QED  BY <1>3, <1>4

(* Both ends of an edge move, in the worst case apart.                     *)
LEMMA LastStepAgrees ==
    ASSUME TableExact, offset \in [Node -> Int], lut = table, MaxDefect <= Tolerance,
           offset' = [n \in Node |-> offset[n] + Correction(n)], truth' = truth,
           NEW n \in Node, NEW m \in Node, m \in neighbors(lut, n)
    PROVE  Agrees(n, m)'
<1>1. \A a, b \in Node : b \in neighbors(lut, a) => Abs(Error(a, b)) <= Tolerance
  BY MaxDefectBounds
<1>2. \A a \in Node : neighbors(lut, a) \subseteq Node
  BY NeighborsFinite
<1>3. \A a \in Node : /\ Correction(a) \in Int
                      /\ -LastMove <= Correction(a) /\ Correction(a) <= LastMove
  BY <1>1, <1>2, CorrectionBounds
<1>4. PICK cn \in Int, cm \in Int :
          /\ cn = Correction(n) /\ -LastMove <= cn /\ cn <= LastMove
          /\ cm = Correction(m) /\ -LastMove <= cm /\ cm <= LastMove
  BY <1>3
<1>5. PICK e \in Int : e = Error(n, m) /\ e = (offset[m] - offset[n]) - (truth[m] - truth[n])
  BY ErrorExact
<1>6. Abs(e) <= Tolerance
  BY <1>1, <1>5
<1>7. offset'[n] = offset[n] + cn /\ offset'[m] = offset[m] + cm
  BY <1>4
<1>8. /\ offset[n] \in Int /\ offset[m] \in Int /\ truth[n] \in Int /\ truth[m] \in Int
      /\ Tolerance \in Nat /\ LastMove \in Nat
  BY TruthIsInt, HolonomyAssumption DEF LastMove
<1>9. (offset'[m] - offset'[n]) - (truth'[m] - truth'[n]) = (e + cm) - cn
  BY <1>5, <1>7, <1>8
<1>10. Abs((e + cm) - cn) <= Tolerance + 2 * LastMove
  BY <1>4, <1>6, <1>8 DEF Abs
<1>11. QED  BY <1>9, <1>10 DEF Agrees, Leftover

LEMMA CorrectionIsInt ==
    ASSUME TableExact, offset \in [Node -> Int], lut = table, NEW n \in Node
    PROVE  Correction(n) \in Int
<1> DEFINE ns == neighbors(lut, n)
           f == [m \in ns |-> Trunc(9 * Error(n, m), 10)]
<1>1. CASE ns = {}
  BY <1>1 DEF Correction
<1>2. CASE ns # {}
  <2>1. IsFiniteSet(ns)
    BY NeighborsFinite
  <2>2. \A m \in ns : f[m] \in Int
    <3>1. ASSUME NEW m \in ns PROVE f[m] \in Int
      <4>1. PICK e \in Int : e = Error(n, m)
        BY ErrorExact, NeighborsFinite
      <4>2. f[m] = Trunc(9 * e, 10)
        BY <4>1
      <4> HIDE DEF f, ns
      <4>3. QED  BY <4>2 DEF Trunc
    <3>2. QED  BY <3>1
  <2>3. SumFunction(f) = SumFunctionOnSet(f, ns)
    BY DEF SumFunction
  <2>4. Correction(n) = Trunc(SumFunction(f), 3 * Cardinality(ns))
    BY <1>2 DEF Correction
  <2>5. Cardinality(ns) \in Nat /\ Cardinality(ns) > 0
    BY <1>2, NeighborsFinite
  <2> HIDE DEF f, ns
  <2>6. PICK s \in Int : s = SumFunction(f)
    BY <2>1, <2>2, <2>3, SumIsInt
  <2>7. PICK d \in Nat : d = 3 * Cardinality(ns) /\ d > 0
    BY <2>5
  <2>8. Trunc(s, d) \in Int
    BY <2>7 DEF Trunc
  <2>9. QED  BY <2>4, <2>6, <2>7, <2>8
<1>3. QED  BY <1>1, <1>2

LEMMA SolverInductive ==
    ASSUME SolverExact, [Next]_vars
    PROVE  SolverExact'
<1>1. TableExact'
  BY TableInductive DEF SolverExact
<1>2. ASSUME NEW a \in Node, NEW b \in Node, a # b, Measure(a, b) PROVE SolverExact'
  <2>1. phase = "measuring" /\ phase' = phase /\ offset' = offset
    BY <1>2 DEF Measure
  <2>2. QED  BY <1>1, <2>1 DEF SolverExact
<1>3. CASE SolveDirect
  <2>1. lut' = table' /\ phase' = "solving" /\ offset' = offset
    BY <1>3 DEF SolveDirect
  <2>2. QED  BY <1>1, <2>1 DEF SolverExact
<1>4. CASE step
  <2>1. /\ phase = "solving" /\ table' = table /\ lut' = lut /\ truth' = truth
        /\ offset' = [n \in Node |-> offset[n] + Correction(n)]
        /\ phase' = IF MaxDefect <= Tolerance THEN "converged"
                    ELSE IF iteration' = MaxIterations THEN "exhausted" ELSE "solving"
    BY <1>4 DEF step
  <2>2. lut = table /\ offset \in [Node -> Int] /\ TableExact
    BY <2>1 DEF SolverExact
  <2>3. offset' \in [Node -> Int]
    <3>1. \A n \in Node : Correction(n) \in Int
      BY <2>2, CorrectionIsInt
    <3>2. QED  BY <2>1, <2>2, <3>1
  <2>4. ASSUME phase' = "converged", NEW n \in Node, NEW m \in Node,
               m \in neighbors(table', n)
        PROVE  Agrees(n, m)'
    <3>1. MaxDefect <= Tolerance
      BY <2>1, <2>4
    <3>2. m \in neighbors(lut, n)
      BY <2>1, <2>2, <2>4
    <3>3. QED  BY <2>1, <2>2, <3>1, <3>2, LastStepAgrees
  <2>5. phase' # "measuring" => lut' = table'
    BY <2>1, <2>2
  <2>6. QED  BY <1>1, <2>3, <2>4, <2>5 DEF SolverExact
<1>5. CASE UNCHANGED vars
  BY <1>1, <1>5 DEF SolverExact, vars, Agrees, neighbors
<1>6. QED  BY <1>2, <1>3, <1>4, <1>5 DEF Next

LEMMA SolverInvariant == Spec => []SolverExact
<1>1. Init => SolverExact
  BY DEF Init, SolverExact, TableExact
<1>2. SolverExact /\ [Next]_vars => SolverExact'
  BY SolverInductive
<1>3. QED  BY <1>1, <1>2, PTL DEF Spec

(* HolonomySolver::solve, on any network of exactly measured edges: when   *)
(* it reports convergence, the offsets that step left behind differ along  *)
(* every measured edge as the clocks do, up to the tolerance and the last  *)
(* move of both ends.                                                      *)
THEOREM SolvedOffsetsAgree == Spec => []ConvergedAgrees
<1>1. ASSUME SolverExact PROVE ConvergedAgrees
  <2> SUFFICES ASSUME phase = "converged", NEW e \in DOMAIN table
               PROVE  Agrees(e[1], e[2])
    BY DEF ConvergedAgrees
  <2>1. e \in Node \X Node /\ e[1] < e[2] /\ e = <<e[1], e[2]>>
    BY <1>1 DEF SolverExact, TableExact, Edge
  <2>2. e[1] \in Int /\ e[2] \in Int
    BY <2>1, HolonomyAssumption
  <2>3. e[2] \in neighbors(table, e[1])
    BY <2>1, <2>2 DEF neighbors, edge_key
  <2>4. QED  BY <1>1, <2>1, <2>3 DEF SolverExact
<1>2. QED  BY <1>1, SolverInvariant, PTL

(* HolonomySolver::detect_defective_nodes reports no node of a network     *)
(* whose clocks are all right, once solve has converged and the threshold  *)
(* leaves room for the last move.                                          *)
THEOREM NoNodeAccused == Spec => []NoFalseAlarm
<1>1. ASSUME SolverExact PROVE NoFalseAlarm
  <2> SUFFICES ASSUME phase = "converged", NEW n \in detect_defective_nodes(Leftover)
               PROVE  FALSE
    BY DEF NoFalseAlarm
  <2> DEFINE ns == neighbors(lut, n)
             f == [m \in ns |-> Abs(Error(n, m))]
  <2>1. /\ n \in Node /\ Cardinality(ns) >= 2
        /\ SumFunctionOnSet(f, ns) \div Cardinality(ns) > Leftover
    BY DEF detect_defective_nodes, SumFunction
  <2>2. lut = table /\ TableExact /\ offset \in [Node -> Int]
    BY <1>1 DEF SolverExact
  <2>3. IsFiniteSet(ns) /\ Cardinality(ns) \in Nat /\ ns \subseteq Node
    BY <2>1, NeighborsFinite
  <2>4. PICK L \in Nat : L = Leftover
    BY HolonomyAssumption DEF Leftover, LastMove
  <2>5. \A m \in ns : f[m] \in Int /\ 0 <= f[m] /\ f[m] <= L
    <3>1. ASSUME NEW m \in ns PROVE f[m] \in Int /\ 0 <= f[m] /\ f[m] <= L
      <4>1. PICK e \in Int : /\ e = Error(n, m)
                             /\ e = (offset[m] - offset[n]) - (truth[m] - truth[n])
        BY <2>1, <2>2, <2>3, ErrorExact
      <4>2. Agrees(n, m)
        BY <1>1, <2>1, <2>2, <2>3 DEF SolverExact
      <4>3. Abs(e) <= L
        BY <2>4, <4>1, <4>2 DEF Agrees
      <4>4. f[m] = Abs(e)
        BY <4>1
      <4> HIDE DEF f, ns
      <4>5. QED  BY <4>3, <4>4 DEF Abs
    <3>2. QED  BY <3>1
  <2> HIDE DEF f, ns
  <2>6. 0 \in Int /\ L \in Int
    OBVIOUS
  <2>7. /\ 0 * Cardinality(ns) <= SumFunctionOnSet(f, ns)
        /\ SumFunctionOnSet(f, ns) <= L * Cardinality(ns)
    BY <2>3, <2>5, <2>6, SumBounds, Zenon
  <2>8. PICK s \in Int : s = SumFunctionOnSet(f, ns)
    BY <2>3, <2>5, SumIsInt
  <2>9. PICK c \in Nat : c = Cardinality(ns) /\ c > 0
    BY <2>1, <2>3
  <2>10. s \in Nat /\ s <= L * c
    <3>1. 0 * c = 0
      OBVIOUS
    <3>2. QED  BY <2>7, <2>8, <2>9, <3>1
  <2>11. s < (L + 1) * c
    <3>1. (L + 1) * c = L * c + c /\ L * c \in Nat
      OBVIOUS
    <3>2. QED  BY <2>9, <2>10, <3>1
  <2>12. s \div c \in Nat /\ s \div c <= L
    BY <2>9, <2>10, <2>11, QuotientBelow
  <2>13. QED  BY <2>1, <2>4, <2>8, <2>9, <2>12
<1>2. QED  BY <1>1, SolverInvariant, PTL
=============================================================================
