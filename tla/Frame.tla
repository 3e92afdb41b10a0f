------------------------------- MODULE Frame --------------------------------
(***************************************************************************)
(* The network frame (crates/rtfsn-core/src/sync/relational.rs): the edges *)
(* a node measures and hears of, and what solve_frame makes of their       *)
(* graph: the component of the reference, and for every pair off the       *)
(* breadth-first tree the cycle it closes, with its defect.                *)
(*                                                                         *)
(* Every clock has a fixed offset (no drift) and every edge but one is     *)
(* measured exactly, with the same spread, so a defect other than zero is  *)
(* the error of that one edge.  The least-squares solution itself is       *)
(* numerical and left out.  The two directions of a pair are averaged;     *)
(* numbers are twice the real ones to keep them whole.                     *)
(***************************************************************************)
EXTENDS Integers, Sequences, FiniteSets, SequencesExt, FiniteSetsExt, Functions

CONSTANTS
    Me, Reference,  \* the solving node, the node held at zero
    Clock,          \* the node ids with their clocks' offsets
    Hearable        \* edges other nodes gossip

FrameNode == DOMAIN Clock
Directed == {e \in FrameNode \X FrameNode : e[1] # e[2]}

ASSUME FrameAssumption ==
    /\ FrameNode \subseteq Int /\ \A n \in FrameNode : Clock[n] \in Int
    /\ {Me, Reference} \subseteq FrameNode
    /\ Hearable \subseteq FrameNode \X FrameNode

VARIABLES
    tracked,    \* RelationalClock.tracks: the peers with an estimate
    heardEdges, \* RelationalClock.heard
    faultyEdge  \* the edge measured wrongly, if any

frameVars == <<tracked, heardEdges, faultyEdge>>

FrameInit ==
    /\ tracked = {} /\ heardEdges = {}
    /\ faultyEdge \in {{}} \cup {{e} : e \in Hearable \cap Directed}

ObservePeer(p) ==
    /\ p # Me
    /\ tracked' = tracked \cup {p}
    /\ UNCHANGED <<heardEdges, faultyEdge>>

(* Ours to measure, or meaningless: ignored.                               *)
hear(e) ==
    /\ heardEdges' = IF e[1] = Me \/ e[1] = e[2] THEN heardEdges
                     ELSE heardEdges \cup {e}
    /\ UNCHANGED <<tracked, faultyEdge>>

(* When each edge was received is not kept: any of them may be too old.    *)
expireHeard ==
    /\ heardEdges' \in SUBSET heardEdges
    /\ UNCHANGED <<tracked, faultyEdge>>

forgetPeer(p) ==
    /\ tracked' = tracked \ {p}
    /\ heardEdges' = {e \in heardEdges : p \notin {e[1], e[2]}}
    /\ UNCHANGED faultyEdge

FrameNext ==
    \/ \E p \in FrameNode : ObservePeer(p) \/ forgetPeer(p)
    \/ \E e \in Hearable : hear(e)
    \/ expireHeard
-----------------------------------------------------------------------------
(* RelationalClock::solve *)
edges == {<<Me, p>> : p \in tracked} \cup heardEdges

(* The nodes that take part: both ends of every edge.                      *)
Ids == {Me, Reference} \cup {e[1] : e \in edges} \cup {e[2] : e \in edges}

adj(n) == {m \in FrameNode : <<n, m>> \in edges \/ <<m, n>> \in edges}

(* The nodes in the order the queue gives them out, after k of them.       *)
Order ==
    LET found[k \in 0 .. Cardinality(FrameNode)] ==
            IF k = 0 THEN <<Reference>>
            ELSE LET before == found[k - 1]
                 IN  IF k > Len(before) THEN before
                     ELSE before \o SetToSortSeq(adj(before[k]) \ ToSet(before), <)
    IN  found[Cardinality(FrameNode)]

(* Who first came upon each node; the reference has no parent.             *)
Parents(order) ==
    [v \in ToSet(order) \ {Reference} |->
        order[Min({k \in DOMAIN order : order[k] \in adj(v)})]]

Depths(order, parent) ==
    LET depth[v \in ToSet(order)] == IF v = Reference THEN 0 ELSE depth[parent[v]] + 1
    IN  [v \in ToSet(order) |-> depth[v]]

(* The measured pairs of the component, low to high.                       *)
Pairs(order) == {p \in ToSet(order) \X ToSet(order) : p[1] < p[2] /\ p[2] \in adj(p[1])}

Measured(e) == Clock[e[2]] - Clock[e[1]] + (IF e \in faultyEdge THEN 1 ELSE 0)

(* Both directions merged, oriented low to high, doubled.                  *)
PairOffset(a, b) ==
    CASE {<<a, b>>, <<b, a>>} \subseteq edges -> Measured(<<a, b>>) - Measured(<<b, a>>)
      [] <<a, b>> \in edges /\ <<b, a>> \notin edges -> 2 * Measured(<<a, b>>)
      [] OTHER                                       -> -2 * Measured(<<b, a>>)

(* Faulty variant: the direction of the walk is forgotten.                 *)
WalkUnsigned(a, b) == IF a < b THEN PairOffset(a, b) ELSE PairOffset(b, a)

WalkOffset(a, b) == IF a < b THEN PairOffset(a, b) ELSE -PairOffset(b, a)

(* u, then v up to the common ancestor, then down to just before u.        *)
CycleNodes(up_u, up_v) ==
    <<up_u[1]>> \o up_v \o SubSeq(Reverse(up_u), 2, Len(up_u) - 1)

(* Both ends climb, the deeper one first, until they meet.                 *)
Climb(u, v, parent, depth) ==
    LET paths[k \in 0 .. 2 * Cardinality(FrameNode)] ==
            IF k = 0 THEN <<<<u>>, <<v>>>>
            ELSE LET before == paths[k - 1]
                     x == Last(before[1])
                     y == Last(before[2])
                 IN  IF x = y THEN before
                     ELSE IF depth[x] >= depth[y]
                          THEN <<Append(before[1], parent[x]), before[2]>>
                          ELSE <<before[1], Append(before[2], parent[y])>>
    IN  paths[2 * Cardinality(FrameNode)]

CycleDefect(nodes) ==
    [nodes  |-> nodes,
     offset |-> MapThenSumSet(
        LAMBDA i : WalkOffset(nodes[i], nodes[(i % Len(nodes)) + 1]), DOMAIN nodes)]

solve_frame ==
    LET order  == Order
        parent == Parents(order)
        depth  == Depths(order, parent)
        tree(p) == \/ p[1] \in DOMAIN parent /\ parent[p[1]] = p[2]
                   \/ p[2] \in DOMAIN parent /\ parent[p[2]] = p[1]
        cycle(p) == LET ups == Climb(p[1], p[2], parent, depth)
                    IN  CycleDefect(CycleNodes(ups[1], ups[2]))
    IN  [nodes          |-> order,
         instant_mapped |-> Me \in ToSet(order),
         unreachable    |-> Ids \ ToSet(order),
         cycles         |-> {cycle(p) : p \in {q \in Pairs(order) : ~ tree(q)}}]
-----------------------------------------------------------------------------
(* The nodes a set of measured pairs connects to n.                        *)
Reached(n, links) ==
    LET reach[k \in 0 .. Cardinality(FrameNode)] ==
            IF k = 0 THEN {n}
            ELSE LET before == reach[k - 1]
                 IN  before \cup {m \in FrameNode : \E b \in before : {b, m} \in links}
    IN  reach[Cardinality(FrameNode)]

(* Whatever edges came and went: the frame holds exactly the nodes that    *)
(* are connected to the reference; each cycle it lists is a simple closed  *)
(* walk along measured pairs, and there are as many as the graph has       *)
(* independent ones.  Exact measurements close every cycle, and a wrong    *)
(* one shows as the defect of some cycle whenever its pair lies on one:    *)
(* only on a bridge of the graph does an error stay hidden.                *)
CyclesExposeErrors ==
    LET frame   == solve_frame
        links   == {{e[1], e[2]} : e \in edges}
        members == ToSet(frame.nodes)
        inside  == {l \in links : l \subseteq members}
        broken  == {c \in frame.cycles : c.offset # 0}
        exposed == \E e \in faultyEdge \cap edges :
                      /\ {e[1], e[2]} \in inside
                      /\ e[2] \in Reached(e[1], links \ {{e[1], e[2]}})
    IN  /\ members = Reached(Reference, links)
        /\ Cardinality(frame.cycles) = Cardinality(inside) - Cardinality(members) + 1
        /\ \A c \in frame.cycles :
              LET n == Len(c.nodes)
              IN  /\ n >= 3 /\ Cardinality(ToSet(c.nodes)) = n
                  /\ \A i \in 1 .. n : {c.nodes[i], c.nodes[(i % n) + 1]} \in links
        /\ broken # {} <=> exposed
=============================================================================
