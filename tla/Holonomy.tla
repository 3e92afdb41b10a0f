------------------------------ MODULE Holonomy ------------------------------
(***************************************************************************)
(* The twist table and the solver of crates/rtfsn-core/src/holonomy        *)
(* (twist.rs, solver.rs), and how the daemon uses them                     *)
(* (solve_and_advance in crates/rtfsn-daemon/src/main.rs).                 *)
(*                                                                         *)
(* Node ids are numbers, ordered as the byte strings are.  Measurements    *)
(* are exact, and of the quality the daemon gives them (90), so whatever   *)
(* error is left is the solver's own.  Only the latest twist of an edge is *)
(* ever read here; the table keeps that one.                               *)
(***************************************************************************)
EXTENDS Integers, FiniteSets, FiniteSetsExt, Sequences, SequencesExt, Functions

CONSTANTS
    Node,           \* node ids
    Self,           \* the node whose daemon is looked at
    Offsets,        \* how far a clock may be off, in the unit of Tolerance
    Tolerance,      \* tolerance_nanos
    MaxIterations,  \* max_iterations
    MaxLoop         \* nodes on the longest path given to loop_holonomy

ASSUME HolonomyAssumption ==
    /\ IsFiniteSet(Node) /\ Node \subseteq Int /\ Self \in Node
    /\ Offsets \subseteq Int
    /\ Tolerance \in Nat /\ MaxIterations \in Nat /\ MaxLoop \in Nat

VARIABLES
    truth,      \* the clocks' real offsets
    table,      \* NodeState.twist_lut, or what the caller will add
    lut,        \* HolonomySolver.lut
    offset,     \* HolonomySolver.nodes: their offset_nanos
    iteration,  \* HolonomySolver.iteration
    defect,     \* max_defect_nanos of the last step
    phase

vars == <<truth, table, lut, offset, iteration, defect, phase>>

Abs(x) == IF x < 0 THEN -x ELSE x
(* Casts from floating point truncate towards zero.                        *)
Trunc(x, d) == IF x < 0 THEN -((-x) \div d) ELSE x \div d

-----------------------------------------------------------------------------
(* TwistLUT.                                                               *)

edge_key(a, b) == IF a < b THEN <<a, b>> ELSE <<b, a>>
Edge == {e \in Node \X Node : e[1] < e[2]}

(* Faulty variant: the orientation of the measurement is kept.             *)
AsMeasured(a, b, twist) == twist

(* A twist is stored along the key, smaller id to larger.                  *)
AlongKey(a, b, twist) == IF edge_key(a, b)[1] = a THEN twist ELSE -twist

insert(t, a, b, twist) ==
    [e \in DOMAIN t \cup {edge_key(a, b)} |->
        IF e = edge_key(a, b) THEN AlongKey(a, b, twist) ELSE t[e]]

latest(t, a, b) == t[edge_key(a, b)]

neighbors(t, n) == {m \in Node : n # m /\ edge_key(n, m) \in DOMAIN t}

(* What a leg from a to b adds to a loop.                                  *)
Leg(t, a, b) ==
    IF edge_key(a, b)[1] = a THEN latest(t, a, b) ELSE -latest(t, a, b)

loop_holonomy(t, p) ==
    SumFunction([i \in DOMAIN p |-> Leg(t, p[i], p[(i % Len(p)) + 1])])

-----------------------------------------------------------------------------
(* HolonomySolver.                                                         *)

(* Faulty variant: smaller and larger id are mixed up.                     *)
ExpectedReversed(n, m) ==
    IF n < m THEN offset[m] + latest(lut, n, m) ELSE offset[m] - latest(lut, n, m)

(* larger_id.offset = smaller_id.offset + twist.offset                     *)
Expected(n, m) ==
    IF n > m THEN offset[m] + latest(lut, n, m) ELSE offset[m] - latest(lut, n, m)

Error(n, m) == Expected(n, m) - offset[n]

(* Faulty variant: the whole mean error is corrected at once.              *)
Undamped(n) ==
    LET ns == neighbors(lut, n)
    IN  IF ns = {} THEN 0
        ELSE Trunc(SumFunction([m \in ns |-> Error(n, m)]), Cardinality(ns))

(* Errors weighted with quality 0.9, their weighted mean damped with 0.3.  *)
Correction(n) ==
    LET ns == neighbors(lut, n)
    IN  IF ns = {} THEN 0
        ELSE Trunc(SumFunction([m \in ns |-> Trunc(9 * Error(n, m), 10)]),
                   3 * Cardinality(ns))

Defects ==
    {Abs(Error(e[1], e[2])) : e \in {d \in Node \X Node : d[2] \in neighbors(lut, d[1])}}
MaxDefect == Max(Defects \cup {0})

(* HolonomySolver::step: every node moves at once; the defects reported    *)
(* are those before the move.                                              *)
step ==
    /\ phase = "solving" /\ iteration < MaxIterations
    /\ offset' = [n \in Node |-> offset[n] + Correction(n)]
    /\ iteration' = iteration + 1
    /\ defect' = MaxDefect
    /\ phase' = IF MaxDefect <= Tolerance THEN "converged"
                ELSE IF iteration' = MaxIterations THEN "exhausted" ELSE "solving"
    /\ UNCHANGED <<truth, table, lut>>

(* Faulty variant: the errors are added up, not averaged.                  *)
DefectiveByTotal(threshold) ==
    {n \in Node :
        LET ns == neighbors(lut, n)
        IN  /\ Cardinality(ns) >= 2
            /\ SumFunction([m \in ns |-> Abs(Error(n, m))]) > threshold}

(* Nodes with at least two neighbours and a large mean error.              *)
detect_defective_nodes(threshold) ==
    {n \in Node :
        LET ns == neighbors(lut, n)
        IN  /\ Cardinality(ns) >= 2
            /\ SumFunction([m \in ns |-> Abs(Error(n, m))]) \div Cardinality(ns)
                  > threshold}

-----------------------------------------------------------------------------
Init ==
    /\ truth \in [Node -> Offsets]
    /\ table = <<>> /\ lut = <<>>
    /\ offset = [n \in Node |-> 0]
    /\ iteration = 0 /\ defect = 0
    /\ phase = "measuring"

(* a measures b: the offset is b's clock minus a's.                        *)
Measure(a, b) ==
    /\ phase = "measuring"
    /\ table' = insert(table, a, b, truth[b] - truth[a])
    /\ UNCHANGED <<truth, lut, offset, iteration, defect, phase>>

(* The caller has added its measurements to a solver directly, as the      *)
(* crate's tests and simulator do.                                         *)
SolveDirect ==
    /\ phase = "measuring"
    /\ lut' = table
    /\ phase' = "solving"
    /\ UNCHANGED <<truth, table, offset, iteration, defect>>

Next ==
    \/ \E a, b \in Node : a # b /\ Measure(a, b)
    \/ SolveDirect
    \/ step

Spec == Init /\ [][Next]_vars

FairSpec == Spec /\ WF_vars(SolveDirect) /\ WF_vars(step)

(* The daemon of Self measures its peers into its own table, and adds what *)
(* it reads there to a new solver, with itself as the measuring node.      *)
SolveAsDaemon ==
    /\ phase = "measuring"
    /\ lut' = [e \in {edge_key(Self, b) : b \in neighbors(table, Self)} |->
                 LET b == CHOOSE n \in Node \ {Self} : e = edge_key(Self, n)
                 IN  AlongKey(Self, b, latest(table, Self, b))]
    /\ phase' = "solving"
    /\ UNCHANGED <<truth, table, offset, iteration, defect>>

DaemonNext ==
    \/ \E b \in Node \ {Self} : Measure(Self, b)
    \/ SolveAsDaemon
    \/ step

DaemonSpec == Init /\ [][DaemonNext]_vars

-----------------------------------------------------------------------------
TypeOK ==
    /\ truth \in [Node -> Offsets]
    /\ DOMAIN table \subseteq Edge /\ Range(table) \subseteq Int
    /\ DOMAIN lut \subseteq Edge /\ Range(lut) \subseteq Int
    /\ offset \in [Node -> Int]
    /\ iteration \in 0 .. MaxIterations /\ defect \in Nat
    /\ phase \in {"measuring", "solving", "converged", "exhausted"}

(* The holonomy of exact measurements is zero around every closed path of  *)
(* three or more legs that are all measured, in either direction, whoever  *)
(* initiated each exchange, and even if it passes through a node twice.    *)
ExactLoopsClose ==
    \A k \in 3 .. MaxLoop : \A p \in [1 .. k -> Node] :
        (\A i \in 1 .. k : edge_key(p[i], p[(i % k) + 1]) \in DOMAIN table)
            => loop_holonomy(table, p) = 0

(* How far solve can be off when it reports convergence: it judges the     *)
(* offsets before its last move, and that move takes both ends of an edge  *)
(* by up to a damped tolerance (in whole units), perhaps apart.            *)
LastMove == ((9 * Tolerance) \div 10) \div 3
Leftover == Tolerance + 2 * LastMove

(* The offsets of two nodes differ as their clocks do.                     *)
Agrees(n, m) == Abs((offset[m] - offset[n]) - (truth[m] - truth[n])) <= Leftover

(* When solve reports convergence, the offsets it leaves behind (one move  *)
(* past the ones it judged) differ along every measured edge as the clocks *)
(* do, up to the tolerance and that move.                                  *)
ConvergedAgrees ==
    phase = "converged" =>
        \A e \in DOMAIN table : Agrees(e[1], e[2])

(* No node is reported as broken when all measurements are exact, the      *)
(* solver reports convergence, and detect_defective_nodes is given a       *)
(* threshold that leaves room for the last move.                           *)
NoFalseAlarm == phase = "converged" => detect_defective_nodes(Leftover) = {}

(* With exact measurements the damped iteration always converges.          *)
Converges == <>(phase = "converged")

(* The solver's comment on its table: "The twist offset means              *)
(* larger_id.offset = smaller_id.offset + twist.offset".                   *)
SolverEdgesMeanWhatTheySay ==
    \A e \in DOMAIN lut : lut[e] = truth[e[2]] - truth[e[1]]
=============================================================================
