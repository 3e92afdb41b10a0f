------------------------ MODULE AnchorGossipProofs --------------------------
(***************************************************************************)
(* What holds of module AnchorGossip for any nodes, servers and delays as  *)
(* long as all nodes together delay a copy by less than the interval of    *)
(* gossip.                                                                 *)
(***************************************************************************)
EXTENDS AnchorGossip, FiniteSetTheorems, TLAPS

LEMMA MinOfTwo ==
    ASSUME NEW a \in Int, NEW b \in Int
    PROVE  Min({a, b}) = IF a <= b THEN a ELSE b
BY DEF Min

(* What Put and Retain leave of a node's map.                              *)
LEMMA AfterPut ==
    ASSUME TypeOK, NEW n \in Node, NEW s, NEW h, Put(n, s, h)
    PROVE  /\ DOMAIN anchors' = Node
           /\ \A m \in Node : m # n => anchors'[m] = anchors[m]
           /\ DOMAIN anchors'[n] = DOMAIN anchors[n] \cup {s}
           /\ anchors'[n][s] = h
           /\ \A t \in DOMAIN anchors[n] : t # s => anchors'[n][t] = anchors[n][t]
BY DEF TypeOK, Put

LEMMA AfterRetain ==
    ASSUME TypeOK, NEW n \in Node, NEW S, Retain(n, S)
    PROVE  /\ DOMAIN anchors' = Node
           /\ \A m \in Node : m # n => anchors'[m] = anchors[m]
           /\ DOMAIN anchors'[n] = S
           /\ \A t \in S : anchors'[n][t] = anchors[n][t]
BY DEF TypeOK, Retain, Restrict

(* What a unit of time leaves of the maps.                                 *)
LEMMA AfterTick ==
    ASSUME TypeOK, Tick
    PROVE  /\ DOMAIN anchors' = Node
           /\ \A n \in Node : DOMAIN anchors'[n] = DOMAIN anchors[n]
           /\ \A n \in Node : \A s \in DOMAIN anchors[n] :
                 /\ anchors[n][s] \in HeldAnchor
                 /\ anchors[n][s].age <= MaxAge
                 /\ anchors'[n][s].age = anchors[n][s].age + 1
                 /\ anchors'[n][s].sigma = anchors[n][s].sigma
                 /\ anchors'[n][s].own = anchors[n][s].own
                 /\ anchors'[n][s] \in HeldAnchor
<1>1. DOMAIN anchors' = Node
  BY DEF Tick
<1>2. ASSUME NEW n \in Node
      PROVE  anchors'[n] = [s \in DOMAIN anchors[n] |-> [anchors[n][s] EXCEPT !.age = @ + 1]]
  BY DEF Tick
<1>3. ASSUME NEW n \in Node, NEW s \in DOMAIN anchors[n]
      PROVE  /\ anchors[n][s] \in HeldAnchor
             /\ anchors[n][s].age <= MaxAge
             /\ anchors'[n][s] = [anchors[n][s] EXCEPT !.age = @ + 1]
  BY <1>2 DEF Tick, TypeOK, Range
<1>4. ASSUME NEW h \in HeldAnchor, NEW k, h.age <= MaxAge, k = [h EXCEPT !.age = @ + 1]
      PROVE  k \in HeldAnchor /\ k.age = h.age + 1 /\ k.sigma = h.sigma /\ k.own = h.own
  BY <1>4, AnchorGossipAssumption DEF HeldAnchor
<1>5. \A n \in Node : DOMAIN anchors'[n] = DOMAIN anchors[n]
  BY <1>2
<1>6. ASSUME NEW n \in Node, NEW s \in DOMAIN anchors[n]
      PROVE  /\ anchors[n][s] \in HeldAnchor
             /\ anchors[n][s].age <= MaxAge
             /\ anchors'[n][s].age = anchors[n][s].age + 1
             /\ anchors'[n][s].sigma = anchors[n][s].sigma
             /\ anchors'[n][s].own = anchors[n][s].own
             /\ anchors'[n][s] \in HeldAnchor
  <2>1. PICK h \in HeldAnchor : h = anchors[n][s]
    BY <1>3
  <2>2. PICK k : k = anchors'[n][s]
    OBVIOUS
  <2>3. h.age <= MaxAge /\ k = [h EXCEPT !.age = @ + 1]
    BY <1>3, <2>1, <2>2
  <2>4. QED  BY <1>4, <2>1, <2>2, <2>3
<1>7. QED  BY <1>1, <1>5, <1>6

LEMMA HeldNumbers ==
    ASSUME NEW h \in HeldAnchor
    PROVE  h.age \in Nat /\ h.age <= MaxAge + 1 /\ h.sigma \in Nat
<1>1. h.age \in 0 .. MaxAge + 1 /\ h.sigma \in Sigma
  BY DEF HeldAnchor
<1>2. h.sigma \in Nat
  BY <1>1, AnchorGossipAssumption
<1>3. h.age \in Nat /\ h.age <= MaxAge + 1
  <2>1. MaxAge \in Nat
    BY AnchorGossipAssumption
  <2>2. QED  BY <1>1, <2>1
<1>4. QED  BY <1>2, <1>3

(* The types of the maps, node by node.                                    *)
MapOK(n) ==
    /\ DOMAIN anchors[n] \subseteq Server
    /\ \A s \in DOMAIN anchors[n] :
          anchors[n][s] \in HeldAnchor /\ (anchors[n][s].own => s \in tracked[n])

LEMMA MapsTyped ==
    TypeOK <=>
        /\ tracked \in [Node -> SUBSET Server]
        /\ DOMAIN anchors = Node /\ \A n \in Node : MapOK(n)
        /\ since \in [Node -> 0 .. Period]
        /\ net \subseteq Copy
        /\ up \subseteq Server
        /\ quiet \in [Server -> 0 .. QuietCap]
BY DEF TypeOK, MapOK, Range

LEMMA TypeInductive ==
    ASSUME TypeOK, [Next]_vars
    PROVE  TypeOK'
<1> USE AnchorGossipAssumption
<1>a. TypeOK' <=>
        /\ tracked' \in [Node -> SUBSET Server]
        /\ DOMAIN anchors' = Node /\ \A n \in Node : MapOK(n)'
        /\ since' \in [Node -> 0 .. Period]
        /\ net' \subseteq Copy
        /\ up' \subseteq Server
        /\ quiet' \in [Server -> 0 .. QuietCap]
  BY DEF TypeOK, MapOK, Range
<1>b. /\ \A n \in Node : MapOK(n)
      /\ DOMAIN anchors = Node /\ tracked \in [Node -> SUBSET Server]
      /\ since \in [Node -> 0 .. Period] /\ net \subseteq Copy /\ up \subseteq Server
      /\ quiet \in [Server -> 0 .. QuietCap]
  BY MapsTyped
<1>1. ASSUME NEW n \in Node, NEW s \in Server, NEW accepted \in BOOLEAN,
             NEW sigma \in Sigma, observe_reference(n, s, accepted, sigma)
      PROVE  TypeOK'
  <2> DEFINE h == [age |-> 0, sigma |-> sigma, own |-> TRUE]
  <2>1. h \in HeldAnchor
    BY DEF HeldAnchor
  <2>2. /\ tracked' \in [Node -> SUBSET Server] /\ s \in tracked'[n]
        /\ \A m \in Node : tracked[m] \subseteq tracked'[m]
    BY <1>1, <1>b DEF observe_reference
  <2>3. \A m \in Node : MapOK(m)'
    <3>1. Put(n, s, h)
      BY <1>1 DEF observe_reference
    <3> HIDE DEF h
    <3>2. QED  BY <1>b, <2>1, <2>2, <3>1, AfterPut DEF MapOK
  <2>4. DOMAIN anchors' = Node /\ quiet' \in [Server -> 0 .. QuietCap]
    BY <1>1, <1>b DEF observe_reference, Put
  <2>5. since' = since /\ net' = net /\ up' = up
    BY <1>1 DEF observe_reference
  <2>6. QED  BY <1>a, <1>b, <2>2, <2>3, <2>4, <2>5
<1>2. ASSUME NEW n \in Node, gossip_anchors(n) PROVE TypeOK'
  <2>1. ASSUME NEW m \in Node, NEW s \in DOMAIN anchors[n]
        PROVE  [to |-> m, server |-> s, age |-> GossipedAge(n, s),
                sigma |-> anchors[n][s].sigma, flight |-> 0, left |-> MaxCopies] \in Copy
    BY <1>b DEF MapOK, HeldAnchor, GossipedAge, Copy
  <2>2. net' \subseteq Copy
    BY <1>2, <1>b, <2>1 DEF gossip_anchors
  <2>3. since' \in [Node -> 0 .. Period]
    BY <1>2, <1>b DEF gossip_anchors
  <2>4. tracked' = tracked /\ anchors' = anchors /\ up' = up /\ quiet' = quiet
    BY <1>2 DEF gossip_anchors
  <2>5. QED  BY <1>a, <1>b, <2>2, <2>3, <2>4 DEF MapOK
<1>3. ASSUME NEW n \in Node, expire_anchors(n) PROVE TypeOK'
  <2>1. Retain(n, Fresh(n)) /\ Fresh(n) \subseteq DOMAIN anchors[n] /\ tracked' = tracked
    BY <1>3 DEF expire_anchors, Fresh
  <2>2. DOMAIN anchors' = Node /\ \A m \in Node : MapOK(m)'
    BY <1>b, <2>1, AfterRetain DEF MapOK
  <2>3. since' = since /\ net' = net /\ up' = up /\ quiet' = quiet
    BY <1>3 DEF expire_anchors
  <2>4. QED  BY <1>a, <1>b, <2>1, <2>2, <2>3
<1>4. ASSUME NEW n \in Node, NEW c \in net, hear_anchor(n, c) PROVE TypeOK'
  <2> DEFINE h == [age |-> c.age, sigma |-> c.sigma, own |-> FALSE]
  <2>1. c \in Copy /\ h \in HeldAnchor /\ c.server \in Server
    BY <1>b DEF Copy, HeldAnchor
  <2>2. tracked' = tracked /\ since' = since /\ up' = up /\ quiet' = quiet
    BY <1>4 DEF hear_anchor
  <2>3. DOMAIN anchors' = Node /\ \A m \in Node : MapOK(m)'
    <3>1. Put(n, c.server, h) /\ ~ h.own
      BY <1>4 DEF hear_anchor
    <3> HIDE DEF h
    <3>2. QED  BY <1>b, <2>1, <2>2, <3>1, AfterPut DEF MapOK
  <2>4. c.left # 1 => [c EXCEPT !.left = @ - 1] \in Copy
    BY <2>1 DEF Copy
  <2>5. net' \subseteq Copy
    BY <1>4, <1>b, <2>4 DEF hear_anchor
  <2>6. QED  BY <1>a, <1>b, <2>2, <2>3, <2>5
<1>5. ASSUME NEW n \in Node, NEW s \in Server, forget(n, s) PROVE TypeOK'
  <2>1. Retain(n, DOMAIN anchors[n] \ {s})
    BY <1>5 DEF forget
  <2>2. /\ tracked' \in [Node -> SUBSET Server]
        /\ tracked'[n] = tracked[n] \ {s}
        /\ \A m \in Node : m # n => tracked'[m] = tracked[m]
    BY <1>5, <1>b DEF forget
  <2>3. DOMAIN anchors' = Node /\ \A m \in Node : MapOK(m)'
    BY <1>b, <2>1, <2>2, AfterRetain DEF MapOK
  <2>4. since' = since /\ net' = net /\ up' = up /\ quiet' = quiet
    BY <1>5 DEF forget
  <2>5. QED  BY <1>a, <1>b, <2>2, <2>3, <2>4
<1>6. ASSUME NEW s \in Server, ServerStops(s) PROVE TypeOK'
  BY <1>6, <1>a, <1>b DEF ServerStops, MapOK
<1>7. CASE Tick
  <2>1. tracked' = tracked /\ up' = up
    BY <1>7 DEF Tick
  <2>2. DOMAIN anchors' = Node /\ \A m \in Node : MapOK(m)'
    BY <1>7, <1>b, <2>1, AfterTick DEF MapOK
  <2>3. \A d \in net : d.flight < MaxDelay => [d EXCEPT !.flight = @ + 1] \in Copy
    BY <1>b DEF Copy
  <2>4. net' \subseteq Copy
    BY <1>7, <2>3 DEF Tick
  <2>5. since' \in [Node -> 0 .. Period]
    <3>1. \A n \in Node : Min({since[n] + 1, Period}) \in 0 .. Period
      BY <1>b, MinOfTwo
    <3>2. QED  BY <1>7, <3>1 DEF Tick
  <2>6. quiet' \in [Server -> 0 .. QuietCap]
    <3>1. \A s \in Server : Min({quiet[s] + 1, QuietCap}) \in 0 .. QuietCap
      BY <1>b, MinOfTwo
    <3>2. QED  BY <1>7, <3>1 DEF Tick
  <2>7. QED  BY <1>a, <1>b, <2>1, <2>2, <2>4, <2>5, <2>6
<1>8. CASE UNCHANGED vars
  BY <1>8, <1>a, <1>b DEF vars, MapOK
<1>9. QED  BY <1>1, <1>2, <1>3, <1>4, <1>5, <1>6, <1>7, <1>8 DEF Next

(* Maps, copies and counters keep their types, and an anchor counted as    *)
(* the node's own is one the node has a track of: forget drops both.       *)
THEOREM GossipTypeCorrect == Spec => []TypeOK
<1>1. Init => TypeOK
  BY AnchorGossipAssumption DEF Init, TypeOK, Nothing, Range
<1>2. TypeOK /\ [Next]_vars => TypeOK'
  BY TypeInductive
<1>3. QED  BY <1>1, <1>2, PTL DEF Spec

-----------------------------------------------------------------------------
(* Hearing of an anchor replaces none of the node's own, and none by a     *)
(* looser one unless that is fresher by more than the window of            *)
(* hear_anchor; nothing else makes an anchor one the node heard of.        *)
THEOREM GossipImproves == Spec => HearsayImproves
<1> DEFINE Improves ==
      \A n \in Node : \A s \in DOMAIN anchors[n] \cap DOMAIN anchors'[n] :
          LET h == anchors[n][s]
              k == anchors'[n][s]
          IN  ~ k.own =>
                  /\ ~ h.own
                  /\ k.sigma > h.sigma => k.age + Window < h.age
<1>1. ASSUME TypeOK, [Next]_vars PROVE [Improves]_anchors
  <2>a. \A n \in Node : MapOK(n)
    BY <1>1, MapsTyped
  <2>b. ASSUME NEW m \in Node, NEW t \in DOMAIN anchors[m]
        PROVE  anchors[m][t].sigma \in Int /\ anchors[m][t].age \in Int
    <3>1. PICK h \in HeldAnchor : h = anchors[m][t]
      BY <2>a DEF MapOK
    <3>2. h.sigma \in Int /\ h.age \in Int
      BY <3>1, HeldNumbers
    <3>3. QED  BY <3>1, <3>2
  <2>1. ASSUME NEW n \in Node, NEW s \in Server, NEW accepted \in BOOLEAN,
               NEW sigma \in Sigma, observe_reference(n, s, accepted, sigma)
        PROVE  Improves
    <3> DEFINE h == [age |-> 0, sigma |-> sigma, own |-> TRUE]
    <3>1. Put(n, s, h) /\ h.own
      BY <2>1 DEF observe_reference
    <3> HIDE DEF h
    <3>2. \A m \in Node : \A t \in DOMAIN anchors[m] \cap DOMAIN anchors'[m] :
             anchors'[m][t] = anchors[m][t] \/ anchors'[m][t].own
      BY <1>1, <3>1, AfterPut
    <3>3. QED  BY <3>2, <2>b
  <2>2. ASSUME NEW n \in Node, NEW S, S \subseteq DOMAIN anchors[n], Retain(n, S)
        PROVE  Improves
    <3>1. \A m \in Node : \A t \in DOMAIN anchors[m] \cap DOMAIN anchors'[m] :
             anchors'[m][t] = anchors[m][t]
      BY <1>1, <2>2, AfterRetain
    <3>2. QED  BY <3>1, <2>b
  <2>3. ASSUME NEW n \in Node, NEW c \in net, hear_anchor(n, c) PROVE Improves
    <3> DEFINE k == [age |-> c.age, sigma |-> c.sigma, own |-> FALSE]
    <3>1. /\ Put(n, c.server, k)
          /\ k.age = c.age /\ k.sigma = c.sigma
          /\ c.age \in Int /\ c.sigma \in Int
          /\ Holds(n, c.server) => ~ Keeps(anchors[n][c.server], c)
      BY <1>1, <2>3, AnchorGossipAssumption DEF hear_anchor, TypeOK, Copy
    <3> HIDE DEF k
    <3>2. ASSUME NEW m \in Node, NEW t \in DOMAIN anchors[m] \cap DOMAIN anchors'[m]
          PROVE  \/ anchors'[m][t] = anchors[m][t]
                 \/ /\ ~ anchors[m][t].own
                    /\ anchors'[m][t].sigma > anchors[m][t].sigma
                          => anchors'[m][t].age + Window < anchors[m][t].age
      <4>1. CASE m = n /\ t = c.server
        BY <1>1, <4>1, <3>1, <2>b, AfterPut, AnchorGossipAssumption DEF Keeps, Holds
      <4>2. CASE ~ (m = n /\ t = c.server)
        BY <1>1, <4>2, <3>1, AfterPut
      <4>3. QED  BY <4>1, <4>2
    <3>3. QED  BY <3>2, <2>b
  <2>4. CASE Tick
    BY <1>1, <2>4, <2>b, AfterTick
  <2>5. QED
    <3>1. ASSUME NEW n \in Node, expire_anchors(n) PROVE Improves
      BY <3>1, <2>2 DEF expire_anchors, Fresh
    <3>2. ASSUME NEW n \in Node, NEW s \in Server, forget(n, s) PROVE Improves
      BY <3>2, <2>2 DEF forget
    <3>3. ASSUME NEW n \in Node, gossip_anchors(n) PROVE anchors' = anchors
      BY <3>3 DEF gossip_anchors
    <3>4. ASSUME NEW s \in Server, ServerStops(s) PROVE anchors' = anchors
      BY <3>4 DEF ServerStops
    <3>5. CASE UNCHANGED vars
      BY <3>5 DEF vars
    <3> HIDE DEF Improves
    <3>6. QED  BY <1>1, <2>1, <2>3, <2>4, <3>1, <3>2, <3>3, <3>4, <3>5 DEF Next
<1>2. QED  BY <1>1, GossipTypeCorrect, PTL DEF Spec, HearsayImproves

-----------------------------------------------------------------------------
(* How old a copy looks.  A copy loses at most MaxDelay in every transit.  *)
(* To bound how many transits there were, every gossip is charged with the *)
(* Period until the node may gossip again; what of it is not yet over is   *)
(* owed.  The owed units of all nodes are a set, so that only its          *)
(* cardinality is needed.                                                  *)
OwedBy(f) == {x \in Node \X (1 .. Period) : x[2] > f[x[1]]}
N == Cardinality(Node)
Owed == Cardinality(OwedBy(since))

LEMMA OwedFinite ==
    ASSUME NEW f
    PROVE  /\ IsFiniteSet(OwedBy(f)) /\ Cardinality(OwedBy(f)) \in Nat
           /\ Cardinality(OwedBy(f)) <= N * Period
           /\ N \in Nat
<1>1. IsFiniteSet(1 .. Period) /\ Cardinality(1 .. Period) = Period
  BY FS_Interval, AnchorGossipAssumption
<1>2. IsFiniteSet(Node \X (1 .. Period)) /\ Cardinality(Node \X (1 .. Period)) = N * Period
  BY <1>1, FS_Product, AnchorGossipAssumption DEF N
<1>3. OwedBy(f) \in SUBSET (Node \X (1 .. Period))
  BY DEF OwedBy
<1>4. IsFiniteSet(OwedBy(f)) /\ Cardinality(OwedBy(f)) <= N * Period
  BY <1>2, <1>3, FS_Subset
<1>5. QED  BY <1>4, FS_CardinalityType, AnchorGossipAssumption DEF N

(* A unit of time pays one unit of each node.                              *)
LEMMA OwedPaid ==
    ASSUME NEW f \in [Node -> 0 .. Period], NEW g \in [Node -> 0 .. Period],
           \A n \in Node : g[n] = f[n] + 1 \/ f[n] = Period
    PROVE  Cardinality(OwedBy(f)) <= Cardinality(OwedBy(g)) + N
<1> DEFINE paid == {<<n, f[n] + 1>> : n \in Node}
           h == [n \in Node |-> <<n, f[n] + 1>>]
<1>1. h \in Surjection(Node, paid)
  BY DEF Surjection
<1>2. IsFiniteSet(paid) /\ Cardinality(paid) <= N /\ Cardinality(paid) \in Nat
  BY <1>1, FS_Surjection, FS_CardinalityType, AnchorGossipAssumption DEF N
<1>3. OwedBy(f) \subseteq OwedBy(g) \cup paid
  <2>1. ASSUME NEW n \in Node, NEW i \in 1 .. Period, i > f[n]
        PROVE  i > g[n] \/ i = f[n] + 1
    BY <2>1, AnchorGossipAssumption
  <2>2. QED  BY <2>1 DEF OwedBy
<1> HIDE DEF paid
<1>4. /\ IsFiniteSet(OwedBy(g) \cup paid)
      /\ Cardinality(OwedBy(g) \cup paid) =
            Cardinality(OwedBy(g)) + Cardinality(paid) - Cardinality(OwedBy(g) \cap paid)
  BY <1>2, OwedFinite, FS_Union
<1>5. Cardinality(OwedBy(g) \cap paid) \in Nat
  BY <1>2, FS_Subset, FS_CardinalityType
<1>6. Cardinality(OwedBy(f)) <= Cardinality(OwedBy(g) \cup paid)
  BY <1>3, <1>4, FS_Subset
<1>7. QED  BY <1>2, <1>4, <1>5, <1>6, OwedFinite

LEMMA OneRow ==
    ASSUME NEW m, NEW T, IsFiniteSet(T)
    PROVE  IsFiniteSet({m} \X T) /\ Cardinality({m} \X T) = Cardinality(T)
<1>1. IsFiniteSet({m}) /\ Cardinality({m}) = 1
  BY FS_Singleton
<1>2. IsFiniteSet({m} \X T) /\ Cardinality({m} \X T) = 1 * Cardinality(T)
  BY <1>1, FS_Product
<1>3. QED  BY <1>2, FS_CardinalityType

(* A node whose Period is not over owes what is left of it.                *)
LEMMA OwedBySender ==
    ASSUME NEW f \in [Node -> 0 .. Period], NEW m \in Node, NEW d \in 0 .. Period,
           f[m] <= d
    PROVE  Cardinality(OwedBy(f)) >= Period - d
<1>1. IsFiniteSet(d + 1 .. Period) /\ Cardinality(d + 1 .. Period) = Period - d
  BY FS_Interval, AnchorGossipAssumption
<1>2. /\ IsFiniteSet({m} \X (d + 1 .. Period))
      /\ Cardinality({m} \X (d + 1 .. Period)) = Period - d
  BY <1>1, OneRow
<1>3. {m} \X (d + 1 .. Period) \subseteq OwedBy(f)
  BY AnchorGossipAssumption DEF OwedBy
<1>4. Cardinality({m} \X (d + 1 .. Period)) <= Cardinality(OwedBy(f))
  BY <1>3, OwedFinite, FS_Subset
<1>5. QED  BY <1>2, <1>4, AnchorGossipAssumption

(* A gossip owes a Period more.                                            *)
LEMMA OwedForGossip ==
    ASSUME NEW f \in [Node -> 0 .. Period], NEW n \in Node, f[n] = Period
    PROVE  Cardinality(OwedBy([f EXCEPT ![n] = 0])) = Cardinality(OwedBy(f)) + Period
<1> DEFINE new == {n} \X (1 .. Period)
<1>1. IsFiniteSet(1 .. Period) /\ Cardinality(1 .. Period) = Period
  BY FS_Interval, AnchorGossipAssumption
<1>2. IsFiniteSet(new) /\ Cardinality(new) = Period
  BY <1>1, OneRow, AnchorGossipAssumption
<1>3. OwedBy([f EXCEPT ![n] = 0]) = OwedBy(f) \cup new
  BY AnchorGossipAssumption DEF OwedBy
<1>4. OwedBy(f) \cap new = {}
  BY AnchorGossipAssumption DEF OwedBy
<1> HIDE DEF new
<1>5. /\ Cardinality(OwedBy(f) \cup new) =
            Cardinality(OwedBy(f)) + Cardinality(new) - Cardinality(OwedBy(f) \cap new)
      /\ Cardinality(OwedBy(f)) \in Nat
  BY <1>2, OwedFinite, FS_Union
<1>6. Cardinality(OwedBy(f) \cup new) = Cardinality(OwedBy(f)) + Period
  BY <1>2, <1>4, <1>5, FS_EmptySet, AnchorGossipAssumption
<1>7. QED  BY <1>3, <1>6

(* The arithmetic of it, apart from the state: P for Period, D for         *)
(* MaxDelay, q for how long a server was quiet, o for what is owed.        *)
Slack(D, q, o) == D * (N * q + o)

LEMMA Scaled ==
    ASSUME NEW k \in Nat, NEW x \in Int, NEW y \in Int, x <= y
    PROVE  k * x <= k * y
<1>1. PICK z \in Nat : y = x + z
  BY SMT
<1>2. k * y = k * x + k * z /\ k * z \in Nat
  BY <1>1
<1>3. QED  BY <1>2

LEMMA SlackIsNat ==
    ASSUME NEW D \in Nat, NEW q \in Nat, NEW o \in Nat
    PROVE  Slack(D, q, o) \in Nat
<1>1. N \in Nat
  BY OwedFinite
<1>2. N * q + o \in Nat
  BY <1>1
<1>3. QED  BY <1>2 DEF Slack

LEMMA SlackGrows ==
    ASSUME NEW D \in Nat, NEW q \in Nat, NEW o \in Nat, NEW r \in Nat, o <= r + N
    PROVE  /\ Slack(D, q, o) <= Slack(D, q + 1, r)
           /\ Slack(D, q, o) <= Slack(D, q, r) + N * D
<1>1. N \in Nat
  BY OwedFinite
<1>2. N * (q + 1) = N * q + N /\ N * q \in Nat
  BY <1>1
<1>3. N * q + o <= N * (q + 1) + r
  BY <1>1, <1>2
<1>4. N * q + o <= (N * q + r) + N
  BY <1>1, <1>2
<1>5. D * ((N * q + r) + N) = D * (N * q + r) + N * D
  BY <1>1, <1>2
<1>6. D * (N * q + o) <= D * (N * (q + 1) + r)
  BY <1>1, <1>2, <1>3, Scaled
<1>7. D * (N * q + o) <= D * ((N * q + r) + N)
  BY <1>1, <1>2, <1>4, Scaled
<1>8. QED  BY <1>5, <1>6, <1>7 DEF Slack

LEMMA SlackForGossip ==
    ASSUME NEW q \in Nat, NEW o \in Nat
    PROVE  Slack(MaxDelay, q, o + Period) = Slack(MaxDelay, q, o) + Period * MaxDelay
<1>1. N \in Nat /\ Period \in Nat /\ MaxDelay \in Nat
  BY OwedFinite, AnchorGossipAssumption
<1>2. N * q + (o + Period) = (N * q + o) + Period /\ N * q + o \in Nat
  BY <1>1
<1>3. \A x \in Nat : MaxDelay * (x + Period) = MaxDelay * x + Period * MaxDelay
  BY <1>1
<1>4. QED  BY <1>2, <1>3 DEF Slack

(* What a held anchor and a copy in transit may hide of a server's quiet.  *)
HeldTrue(q, age, o) == Period * (q - age) <= Slack(MaxDelay, q, o)
SentTrue(q, age, flight, o) ==
    Period * (q - age) + Period * (MaxDelay - flight) <= Slack(MaxDelay, q, o)

AgeInv ==
    /\ \A n \in Node : \A s \in DOMAIN anchors[n] :
          HeldTrue(quiet[s], anchors[n][s].age, Owed)
    /\ \A c \in net : SentTrue(quiet[c.server], c.age, c.flight, Owed)
    /\ \A c \in net : \E m \in Node : since[m] <= c.flight

LEMMA SlackOfTick ==
    ASSUME NEW q \in Nat, NEW o \in Nat, NEW r \in Nat, o <= r + N
    PROVE  /\ Slack(MaxDelay, q, o) <= Slack(MaxDelay, q + 1, r)
           /\ Slack(MaxDelay, q, o) <= Slack(MaxDelay, q, r) + Period
           /\ Slack(MaxDelay, q, o) \in Nat /\ Slack(MaxDelay, q, r) \in Nat
           /\ Slack(MaxDelay, q + 1, r) \in Nat
<1>1. Period \in Nat /\ MaxDelay \in Nat /\ N \in Nat /\ Period > N * MaxDelay
  BY OwedFinite, AnchorGossipAssumption, ShortTransit DEF Drift, N
<1>2. /\ Slack(MaxDelay, q, o) <= Slack(MaxDelay, q + 1, r)
      /\ Slack(MaxDelay, q, o) <= Slack(MaxDelay, q, r) + N * MaxDelay
  BY <1>1, SlackGrows
<1>3. Slack(MaxDelay, q, o) \in Nat /\ Slack(MaxDelay, q, r) \in Nat
  BY <1>1, SlackIsNat
<1>4. Slack(MaxDelay, q + 1, r) \in Nat
  <2>1. q + 1 \in Nat
    OBVIOUS
  <2>2. QED  BY <1>1, <2>1, SlackIsNat
<1>5. N * MaxDelay \in Nat
  BY <1>1
<1>6. QED  BY <1>1, <1>2, <1>3, <1>4, <1>5

LEMMA HeldAfterTick ==
    ASSUME NEW q \in Nat, NEW age \in Nat, NEW o \in Nat, NEW r \in Nat,
           o <= r + N, HeldTrue(q, age, o)
    PROVE  HeldTrue(q + 1, age + 1, r) /\ HeldTrue(q, age + 1, r)
<1>1. Period \in Nat /\ MaxDelay \in Nat
  BY AnchorGossipAssumption
<1>2. /\ Slack(MaxDelay, q, o) <= Slack(MaxDelay, q + 1, r)
      /\ Slack(MaxDelay, q, o) <= Slack(MaxDelay, q, r) + Period
      /\ Slack(MaxDelay, q, o) \in Nat /\ Slack(MaxDelay, q, r) \in Nat
      /\ Slack(MaxDelay, q + 1, r) \in Nat
  BY SlackOfTick
<1>3. /\ Period * ((q + 1) - (age + 1)) = Period * (q - age)
      /\ Period * (q - (age + 1)) = Period * (q - age) - Period
      /\ Period * (q - age) \in Int
  BY <1>1
<1>4. QED  BY <1>1, <1>2, <1>3 DEF HeldTrue

LEMMA SentAfterTick ==
    ASSUME NEW q \in Nat, NEW age \in Nat, NEW f \in Nat, NEW o \in Nat, NEW r \in Nat,
           o <= r + N, SentTrue(q, age, f, o)
    PROVE  SentTrue(q + 1, age, f + 1, r) /\ SentTrue(q, age, f + 1, r)
<1>1. Period \in Nat /\ MaxDelay \in Nat
  BY AnchorGossipAssumption
<1>2. /\ Slack(MaxDelay, q, o) <= Slack(MaxDelay, q + 1, r)
      /\ Slack(MaxDelay, q, o) <= Slack(MaxDelay, q, r) + Period
      /\ Slack(MaxDelay, q, o) \in Nat /\ Slack(MaxDelay, q, r) \in Nat
      /\ Slack(MaxDelay, q + 1, r) \in Nat
  BY SlackOfTick
<1>3. /\ Period * ((q + 1) - age) = Period * (q - age) + Period
      /\ Period * (MaxDelay - (f + 1)) = Period * (MaxDelay - f) - Period
      /\ Period * (q - age) \in Int /\ Period * (MaxDelay - f) \in Int
  BY <1>1
<1>4. QED  BY <1>1, <1>2, <1>3 DEF SentTrue

LEMMA SentIsHeld ==
    ASSUME NEW q \in Nat, NEW age \in Nat, NEW f \in 0 .. MaxDelay, NEW o \in Nat,
           SentTrue(q, age, f, o)
    PROVE  HeldTrue(q, age, o)
<1>1. Period \in Nat /\ MaxDelay \in Nat
  BY AnchorGossipAssumption
<1>2. MaxDelay - f \in Nat
  BY <1>1
<1>3. Period * (MaxDelay - f) \in Nat /\ Period * (q - age) \in Int
  BY <1>1, <1>2
<1>4. Slack(MaxDelay, q, o) \in Nat
  BY <1>1, SlackIsNat
<1>5. QED  BY <1>3, <1>4 DEF SentTrue, HeldTrue

LEMMA TrueAfterGossip ==
    ASSUME NEW q \in Nat, NEW age \in Nat, NEW f \in Nat, NEW o \in Nat
    PROVE  /\ HeldTrue(q, age, o) => HeldTrue(q, age, o + Period)
           /\ SentTrue(q, age, f, o) => SentTrue(q, age, f, o + Period)
           /\ HeldTrue(q, age, o) => SentTrue(q, age, 0, o + Period)
<1>1. Period \in Nat /\ MaxDelay \in Nat
  BY AnchorGossipAssumption
<1>2. Slack(MaxDelay, q, o + Period) = Slack(MaxDelay, q, o) + Period * MaxDelay
  BY SlackForGossip
<1>a. Slack(MaxDelay, q, o) \in Nat
  BY <1>1, SlackIsNat
<1>3. /\ Period * MaxDelay \in Nat
      /\ Period * (MaxDelay - 0) = Period * MaxDelay
      /\ Period * (q - age) \in Int /\ Period * (MaxDelay - f) \in Int
  BY <1>1
<1>4. QED  BY <1>2, <1>a, <1>3 DEF SentTrue, HeldTrue

LEMMA TrueWhenObserved ==
    ASSUME NEW age \in Nat, NEW f \in 0 .. MaxDelay, NEW o \in Nat
    PROVE  /\ HeldTrue(0, age, o)
           /\ MaxDelay <= Period /\ o >= Period - f => SentTrue(0, age, f, o)
<1>1. Period \in Nat /\ MaxDelay \in Nat /\ f \in Nat /\ f <= MaxDelay
  BY AnchorGossipAssumption
<1>2. Slack(MaxDelay, 0, o) = MaxDelay * o
  <2>1. N * 0 + o = o
    BY OwedFinite
  <2>2. QED  BY <2>1 DEF Slack
<1>3. Period * (0 - age) <= 0 /\ Period * (0 - age) \in Int /\ MaxDelay * o \in Nat
  <2>1. Period * (0 - age) <= Period * 0
    BY <1>1, Scaled
  <2>2. QED  BY <1>1, <2>1
<1>4. ASSUME MaxDelay <= Period, o >= Period - f
      PROVE  SentTrue(0, age, f, o)
  <2>1. MaxDelay * (Period - f) <= MaxDelay * o
    BY <1>1, <1>4, Scaled
  <2>2. f * MaxDelay <= f * Period
    BY <1>1, <1>4, Scaled
  <2>3. /\ MaxDelay * (Period - f) = MaxDelay * Period - f * MaxDelay
        /\ Period * (MaxDelay - f) = MaxDelay * Period - f * Period
    BY <1>1
  <2>4. MaxDelay * Period \in Nat /\ f * MaxDelay \in Nat /\ f * Period \in Nat
    BY <1>1
  <2>5. Period * (MaxDelay - f) <= MaxDelay * o
    BY <1>3, <2>1, <2>2, <2>3, <2>4
  <2>6. QED  BY <1>2, <1>3, <2>3, <2>4, <2>5 DEF SentTrue
<1>5. QED  BY <1>2, <1>3, <1>4 DEF HeldTrue

(* All there can be owed is a Period of every node.                        *)
LEMMA HeldBounded ==
    ASSUME NEW q \in Nat, NEW age \in Nat, NEW o \in Nat, o <= N * Period,
           HeldTrue(q, age, o)
    PROVE  (Period - Drift) * q <= Period * (age + Drift)
<1>1. Period \in Nat /\ MaxDelay \in Nat /\ N \in Nat /\ Drift = N * MaxDelay
  BY OwedFinite, AnchorGossipAssumption DEF N, Drift
<1> DEFINE D == MaxDelay
           d == N * MaxDelay
<1>2. N * q \in Nat /\ N * Period \in Nat /\ d \in Nat
  BY <1>1
<1>3. D * (N * q + o) <= D * (N * q + N * Period)
  BY <1>1, <1>2, Scaled
<1>4. D * (N * q + N * Period) = d * q + Period * d
  BY <1>1
<1>5. Period * (q - age) <= d * q + Period * d
  <2>1. D * (N * q + o) \in Nat /\ d * q + Period * d \in Nat /\ Period * (q - age) \in Int
    BY <1>1, <1>2
  <2>2. QED  BY <1>3, <1>4, <2>1 DEF HeldTrue, Slack
<1> HIDE DEF d
<1>6. /\ Period * (q - age) = Period * q - Period * age
      /\ (Period - d) * q = Period * q - d * q
      /\ Period * (age + d) = Period * age + Period * d
  BY <1>1, <1>2
<1>7. Period * q \in Nat /\ Period * age \in Nat /\ Period * d \in Nat /\ d * q \in Nat
  BY <1>1, <1>2
<1>8. (Period - d) * q <= Period * (age + d)
  BY <1>5, <1>6, <1>7
<1>9. QED  BY <1>1, <1>8 DEF d

LEMMA OwedNow ==
    /\ Owed \in Nat /\ Owed <= N * Period
    /\ Owed' = Cardinality(OwedBy(since')) /\ Owed' \in Nat
<1>1. Owed' = Cardinality(OwedBy(since'))
  BY DEF Owed, OwedBy
<1>2. QED  BY <1>1, OwedFinite DEF Owed

LEMMA CopyNumbers ==
    ASSUME NEW c \in Copy
    PROVE  /\ c.server \in Server /\ c.age \in Nat
           /\ c.flight \in 0 .. MaxDelay /\ c.flight \in Nat
<1>1. c.server \in Server /\ c.age \in 0 .. MaxAge + 1 /\ c.flight \in 0 .. MaxDelay
  BY DEF Copy
<1>2. MaxAge \in Nat /\ MaxDelay \in Nat
  BY AnchorGossipAssumption
<1>3. QED  BY <1>1, <1>2

LEMMA StateNumbers ==
    ASSUME TypeOK
    PROVE  /\ \A n \in Node : \A s \in DOMAIN anchors[n] :
                 s \in Server /\ anchors[n][s].age \in Nat
           /\ \A c \in net : /\ c.server \in Server /\ c.age \in Nat
                             /\ c.flight \in 0 .. MaxDelay /\ c.flight \in Nat
           /\ \A s \in Server : quiet[s] \in Nat
<1>1. ASSUME NEW n \in Node, NEW s \in DOMAIN anchors[n]
      PROVE  s \in Server /\ anchors[n][s].age \in Nat
  <2>1. s \in Server /\ anchors[n][s] \in HeldAnchor
    BY MapsTyped DEF MapOK
  <2>2. QED  BY <2>1, HeldNumbers
<1>2. \A c \in net : c \in Copy
  BY DEF TypeOK
<1>3. \A s \in Server : quiet[s] \in Nat
  BY AnchorGossipAssumption DEF TypeOK
<1>4. QED  BY <1>1, <1>2, <1>3, CopyNumbers

LEMMA AgeAfterObserve ==
    ASSUME TypeOK, AgeInv, NEW n \in Node, NEW s \in Server, NEW accepted \in BOOLEAN,
           NEW sigma \in Sigma, observe_reference(n, s, accepted, sigma)
    PROVE  AgeInv'
<1> DEFINE h == [age |-> 0, sigma |-> sigma, own |-> TRUE]
<1>1. /\ Put(n, s, h) /\ h.age = 0
      /\ quiet'[s] = 0 /\ \A t \in Server : t # s => quiet'[t] = quiet[t]
      /\ since' = since /\ net' = net
  BY DEF observe_reference, TypeOK
<1> HIDE DEF h
<1>2. Owed' = Owed /\ Owed \in Nat
  BY <1>1, OwedNow DEF Owed
<1>3. ASSUME NEW m \in Node, NEW t \in DOMAIN anchors'[m]
      PROVE  HeldTrue(quiet'[t], anchors'[m][t].age, Owed')
  <2>1. CASE m = n /\ t = s
    <3>1. anchors'[m][t].age = 0 /\ quiet'[t] = 0
      BY <1>1, <2>1, AfterPut
    <3>2. 0 \in Nat /\ 0 \in 0 .. MaxDelay
      BY AnchorGossipAssumption
    <3>3. HeldTrue(0, 0, Owed)
      BY <1>2, <3>2, TrueWhenObserved
    <3>4. QED  BY <1>2, <3>1, <3>3
  <2>2. CASE ~ (m = n /\ t = s)
    <3>1. t \in DOMAIN anchors[m] /\ anchors'[m][t] = anchors[m][t]
      BY <1>1, <2>2, AfterPut
    <3>2. t \in Server /\ anchors[m][t].age \in Nat /\ 0 \in 0 .. MaxDelay
      BY <3>1, StateNumbers, AnchorGossipAssumption
    <3>3. CASE t = s
      BY <1>1, <1>2, <3>1, <3>2, <3>3, TrueWhenObserved
    <3>4. CASE t # s
      BY <1>1, <1>2, <3>1, <3>2, <3>4 DEF AgeInv
    <3>5. QED  BY <3>3, <3>4
  <2>3. QED  BY <2>1, <2>2
<1>4. ASSUME NEW c \in net
      PROVE  SentTrue(quiet'[c.server], c.age, c.flight, Owed')
  <2>1. c.server \in Server /\ c.age \in Nat /\ c.flight \in 0 .. MaxDelay
    BY StateNumbers
  <2>2. CASE c.server = s
    <3>1. PICK m \in Node : since[m] <= c.flight
      BY DEF AgeInv
    <3>2. MaxDelay <= Period
      <4>1. N \in Nat /\ N # 0
        BY FS_EmptySet, OwedFinite, AnchorGossipAssumption DEF N
      <4>2. MaxDelay * 1 <= MaxDelay * N
        BY <4>1, Scaled, AnchorGossipAssumption
      <4>3. QED  BY <4>1, <4>2, ShortTransit, AnchorGossipAssumption DEF Drift, N
    <3>3. c.flight \in 0 .. Period
      BY <2>1, <3>2, AnchorGossipAssumption
    <3>4. Owed >= Period - c.flight
      BY <3>1, <3>3, OwedBySender DEF Owed, TypeOK
    <3>5. SentTrue(0, c.age, c.flight, Owed)
      BY <1>2, <2>1, <3>2, <3>4, TrueWhenObserved
    <3>6. QED  BY <1>1, <1>2, <2>2, <3>5
  <2>3. CASE c.server # s
    BY <1>1, <1>2, <2>1, <2>3 DEF AgeInv
  <2>4. QED  BY <2>2, <2>3
<1>5. QED  BY <1>1, <1>3, <1>4 DEF AgeInv

LEMMA AgeAfterGossip ==
    ASSUME TypeOK, AgeInv, NEW n \in Node, gossip_anchors(n)
    PROVE  AgeInv'
<1>1. /\ since[n] = Period /\ since' = [since EXCEPT ![n] = 0]
      /\ anchors' = anchors /\ quiet' = quiet
      /\ since \in [Node -> 0 .. Period]
  BY DEF gossip_anchors, TypeOK
<1>2. Owed' = Owed + Period /\ Owed \in Nat
  BY <1>1, OwedForGossip, OwedNow DEF Owed
<1>3. ASSUME NEW m \in Node, NEW t \in DOMAIN anchors[m]
      PROVE  /\ HeldTrue(quiet[t], anchors[m][t].age, Owed')
             /\ SentTrue(quiet[t], anchors[m][t].age, 0, Owed')
  <2>1. quiet[t] \in Nat /\ anchors[m][t].age \in Nat /\ 0 \in Nat
    BY StateNumbers
  <2>2. HeldTrue(quiet[t], anchors[m][t].age, Owed)
    BY DEF AgeInv
  <2>3. QED  BY <1>2, <2>1, <2>2, TrueAfterGossip
<1>4. ASSUME NEW c \in net'
      PROVE  /\ SentTrue(quiet[c.server], c.age, c.flight, Owed')
             /\ \E m \in Node : since'[m] <= c.flight
  <2>1. CASE c \in net
    <3>1. quiet[c.server] \in Nat /\ c.age \in Nat /\ c.flight \in Nat
      BY <2>1, StateNumbers
    <3>2. SentTrue(quiet[c.server], c.age, c.flight, Owed)
      BY <2>1 DEF AgeInv
    <3>3. SentTrue(quiet[c.server], c.age, c.flight, Owed')
      BY <1>2, <3>1, <3>2, TrueAfterGossip
    <3>4. PICK m \in Node : since[m] <= c.flight
      BY <2>1 DEF AgeInv
    <3>5. since'[m] <= c.flight
      BY <1>1, <3>1, <3>4
    <3>6. QED  BY <3>3, <3>5
  <2>2. CASE c \notin net
    <3>1. PICK s \in DOMAIN anchors[n] :
             c.server = s /\ c.age = anchors[n][s].age /\ c.flight = 0
      BY <2>2 DEF gossip_anchors, GossipedAge
    <3>2. since'[n] <= c.flight
      BY <1>1, <3>1
    <3>3. QED  BY <1>3, <3>1, <3>2
  <2>3. QED  BY <2>1, <2>2
<1>5. QED  BY <1>1, <1>3, <1>4 DEF AgeInv

LEMMA AgeAfterHear ==
    ASSUME TypeOK, AgeInv, NEW n \in Node, NEW c \in net, hear_anchor(n, c)
    PROVE  AgeInv'
<1> DEFINE h == [age |-> c.age, sigma |-> c.sigma, own |-> FALSE]
<1>1. /\ Put(n, c.server, h) /\ h.age = c.age
      /\ since' = since /\ quiet' = quiet
  BY DEF hear_anchor
<1> HIDE DEF h
<1>2. Owed' = Owed /\ Owed \in Nat
  BY <1>1, OwedNow DEF Owed
<1>3. /\ c.server \in Server /\ c.age \in Nat /\ c.flight \in 0 .. MaxDelay
      /\ quiet[c.server] \in Nat
  BY StateNumbers
<1>4. HeldTrue(quiet[c.server], c.age, Owed)
  BY <1>2, <1>3, SentIsHeld DEF AgeInv
<1>5. ASSUME NEW m \in Node, NEW t \in DOMAIN anchors'[m]
      PROVE  HeldTrue(quiet'[t], anchors'[m][t].age, Owed')
  <2>1. CASE m = n /\ t = c.server
    BY <1>1, <1>2, <1>4, <2>1, AfterPut
  <2>2. CASE ~ (m = n /\ t = c.server)
    <3>1. t \in DOMAIN anchors[m] /\ anchors'[m][t] = anchors[m][t]
      BY <1>1, <2>2, AfterPut
    <3>2. QED  BY <1>1, <1>2, <3>1 DEF AgeInv
  <2>3. QED  BY <2>1, <2>2
<1>6. ASSUME NEW d \in net'
      PROVE  \E b \in net : d.server = b.server /\ d.age = b.age /\ d.flight = b.flight
  <2>1. c \in Copy
    BY DEF TypeOK
  <2>2. d \in net \/ d = [c EXCEPT !.left = @ - 1]
    BY DEF hear_anchor
  <2>3. QED  BY <2>1, <2>2 DEF Copy
<1>7. QED  BY <1>1, <1>2, <1>5, <1>6 DEF AgeInv

LEMMA AgeAfterRetain ==
    ASSUME TypeOK, AgeInv, NEW n \in Node, NEW S \in SUBSET DOMAIN anchors[n],
           Retain(n, S), since' = since, net' = net, quiet' = quiet
    PROVE  AgeInv'
<1>1. Owed' = Owed
  BY OwedNow DEF Owed
<1>2. \A m \in Node : \A t \in DOMAIN anchors'[m] :
         t \in DOMAIN anchors[m] /\ anchors'[m][t] = anchors[m][t]
  BY AfterRetain
<1>3. QED  BY <1>1, <1>2 DEF AgeInv

LEMMA AgeAfterTick ==
    ASSUME TypeOK, TypeOK', AgeInv, Tick
    PROVE  AgeInv'
<1>a. /\ since \in [Node -> 0 .. Period] /\ since' \in [Node -> 0 .. Period]
      /\ quiet \in [Server -> 0 .. QuietCap]
      /\ since' = [n \in Node |-> Min({since[n] + 1, Period})]
      /\ quiet' = [s \in Server |-> Min({quiet[s] + 1, QuietCap})]
  BY DEF Tick, TypeOK
<1>b. Period \in Nat /\ QuietCap \in Nat
  BY AnchorGossipAssumption
<1>1. /\ \A n \in Node : since'[n] = IF since[n] + 1 <= Period THEN since[n] + 1 ELSE Period
      /\ since \in [Node -> 0 .. Period] /\ since' \in [Node -> 0 .. Period]
  <2>1. ASSUME NEW n \in Node
        PROVE  since'[n] = IF since[n] + 1 <= Period THEN since[n] + 1 ELSE Period
    <3>1. since'[n] = Min({since[n] + 1, Period}) /\ since[n] + 1 \in Int /\ Period \in Int
      BY <1>a, <1>b
    <3>2. QED  BY <3>1, MinOfTwo
  <2>2. QED  BY <1>a, <2>1
<1>2. \A s \in Server : quiet'[s] = quiet[s] + 1 \/ quiet'[s] = quiet[s]
  <2>1. ASSUME NEW s \in Server
        PROVE  quiet'[s] = quiet[s] + 1 \/ quiet'[s] = quiet[s]
    <3>1. /\ quiet'[s] = Min({quiet[s] + 1, QuietCap})
          /\ quiet[s] \in 0 .. QuietCap /\ quiet[s] + 1 \in Int /\ QuietCap \in Int
      BY <1>a, <1>b
    <3>2. quiet'[s] = IF quiet[s] + 1 <= QuietCap THEN quiet[s] + 1 ELSE QuietCap
      BY <3>1, MinOfTwo
    <3>3. QED  BY <1>b, <3>1, <3>2
  <2>2. QED  BY <2>1
<1>3. Owed <= Owed' + N /\ Owed \in Nat /\ Owed' \in Nat
  <2>1. \A n \in Node : since'[n] = since[n] + 1 \/ since[n] = Period
    BY <1>1, AnchorGossipAssumption
  <2>2. Cardinality(OwedBy(since)) <= Cardinality(OwedBy(since')) + N
    BY <1>1, <2>1, OwedPaid
  <2>3. QED  BY <2>2, OwedNow DEF Owed
<1>4. ASSUME NEW m \in Node, NEW t \in DOMAIN anchors'[m]
      PROVE  HeldTrue(quiet'[t], anchors'[m][t].age, Owed')
  <2>1. t \in DOMAIN anchors[m] /\ anchors'[m][t].age = anchors[m][t].age + 1
    BY AfterTick
  <2>2. t \in Server /\ quiet[t] \in Nat /\ anchors[m][t].age \in Nat
    BY <2>1, StateNumbers
  <2>3. HeldTrue(quiet[t], anchors[m][t].age, Owed)
    BY <2>1 DEF AgeInv
  <2>4. QED  BY <1>2, <1>3, <2>1, <2>2, <2>3, HeldAfterTick
<1>5. ASSUME NEW d \in net'
      PROVE  /\ SentTrue(quiet'[d.server], d.age, d.flight, Owed')
             /\ \E m \in Node : since'[m] <= d.flight
  <2>1. PICK c \in net : d = [c EXCEPT !.flight = @ + 1]
    BY DEF Tick
  <2>2. d.server = c.server /\ d.age = c.age /\ d.flight = c.flight + 1
    BY <2>1 DEF TypeOK, Copy
  <2>3. /\ c.server \in Server /\ quiet[c.server] \in Nat /\ c.age \in Nat
        /\ c.flight \in Nat
    BY StateNumbers
  <2>4. SentTrue(quiet[c.server], c.age, c.flight, Owed)
    BY DEF AgeInv
  <2>5. SentTrue(quiet'[d.server], d.age, d.flight, Owed')
    <3>1. /\ SentTrue(quiet[c.server] + 1, c.age, c.flight + 1, Owed')
          /\ SentTrue(quiet[c.server], c.age, c.flight + 1, Owed')
      BY <1>3, <2>3, <2>4, SentAfterTick
    <3>2. QED  BY <1>2, <2>2, <2>3, <3>1
  <2>6. PICK m \in Node : since[m] <= c.flight
    BY DEF AgeInv
  <2>7. since'[m] <= d.flight
    BY <1>1, <2>2, <2>3, <2>6, AnchorGossipAssumption
  <2>8. QED  BY <2>5, <2>7
<1>6. QED  BY <1>4, <1>5 DEF AgeInv

(* An anchor says at least how long its server has not been measured, up   *)
(* to the delays of one transit per node and interval of gossip: handing   *)
(* anchors on in circles, with copies lost, duplicated and overtaken, never*)
(* makes an old reference look fresh.                                      *)
THEOREM GossipNeverLooksFresh == Spec => []NeverLooksFresh
<1>1. Init => AgeInv
  BY DEF Init, AgeInv, Nothing
<1>2. ASSUME TypeOK, TypeOK', AgeInv, [Next]_vars PROVE AgeInv'
  <2>1. ASSUME NEW n \in Node, expire_anchors(n) PROVE AgeInv'
    <3>1. Fresh(n) \in SUBSET DOMAIN anchors[n]
      BY DEF Fresh
    <3>2. Retain(n, Fresh(n)) /\ since' = since /\ net' = net /\ quiet' = quiet
      BY <2>1 DEF expire_anchors
    <3>3. QED  BY <1>2, <3>1, <3>2, AgeAfterRetain
  <2>2. ASSUME NEW n \in Node, NEW s \in Server, forget(n, s) PROVE AgeInv'
    <3>1. DOMAIN anchors[n] \ {s} \in SUBSET DOMAIN anchors[n]
      OBVIOUS
    <3>2. Retain(n, DOMAIN anchors[n] \ {s}) /\ since' = since /\ net' = net /\ quiet' = quiet
      BY <2>2 DEF forget
    <3>3. QED  BY <1>2, <3>1, <3>2, AgeAfterRetain
  <2>3. ASSUME since' = since, net' = net, quiet' = quiet, anchors' = anchors PROVE AgeInv'
    <3>1. Owed' = Owed
      BY <2>3, OwedNow DEF Owed
    <3>2. QED  BY <1>2, <2>3, <3>1 DEF AgeInv
  <2>4. CASE UNCHANGED vars
    BY <2>3, <2>4 DEF vars
  <2>5. ASSUME NEW s \in Server, ServerStops(s) PROVE AgeInv'
    BY <2>3, <2>5 DEF ServerStops
  <2>6. QED
    BY <1>2, <2>1, <2>2, <2>4, <2>5, AgeAfterObserve, AgeAfterGossip, AgeAfterHear,
       AgeAfterTick DEF Next
<1>3. ASSUME TypeOK, AgeInv PROVE NeverLooksFresh
  <2>1. Owed \in Nat /\ Owed <= N * Period
    BY OwedNow
  <2>2. ASSUME NEW s \in Server, NEW c \in Copies(s)
        PROVE  c.age \in Nat /\ quiet[s] \in Nat /\ HeldTrue(quiet[s], c.age, Owed)
    <3>1. CASE c \in net /\ c.server = s
      <4>1. SentTrue(quiet[s], c.age, c.flight, Owed)
        BY <1>3, <3>1 DEF AgeInv
      <4>2. c.age \in Nat /\ quiet[s] \in Nat /\ c.flight \in 0 .. MaxDelay
        BY <1>3, <3>1, StateNumbers
      <4>3. QED  BY <2>1, <4>1, <4>2, SentIsHeld
    <3>2. CASE \E n \in Node : s \in DOMAIN anchors[n] /\ c = anchors[n][s]
      BY <1>3, <3>2, StateNumbers DEF AgeInv
    <3>3. QED  BY <2>2, <3>1, <3>2 DEF Copies, Holds
  <2>3. ASSUME NEW s \in Server, NEW c \in Copies(s)
        PROVE  (Period - Drift) * quiet[s] <= Period * (c.age + Drift)
    BY <2>1, <2>2, HeldBounded
  <2>4. QED  BY <2>3 DEF NeverLooksFresh
<1>4. QED  BY <1>1, <1>2, <1>3, GossipTypeCorrect, PTL DEF Spec
=============================================================================
