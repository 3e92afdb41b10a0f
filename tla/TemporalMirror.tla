--------------------------- MODULE TemporalMirror ---------------------------
(***************************************************************************)
(* The time at an epoch boundary (crates/rtfsn-core/src/holonomy/          *)
(* temporal_mirror.rs): the mean of the nodes' times predicted with their  *)
(* drifts and the mean of those retrodicted without are drawn together,    *)
(* both halfway to their midpoint in each round, until they are closer     *)
(* than Tolerance.  All of it is in whole nanoseconds, divisions truncate, *)
(* and results are cast from i64 to u64.                                   *)
(***************************************************************************)
EXTENDS Integers, Sequences, FiniteSets, SequencesExt, FiniteSetsExt, Functions

CONSTANTS
    NodeOffset, DriftPpb,   \* what a node can report
    MaxReports,             \* bound on the nodes
    PrevTime,               \* solved times of the previous boundary
    EpochNs,                \* epoch_duration_nanos
    Ppb,                    \* 10^9
    Tolerance,              \* 1000 ns
    MaxIterations,          \* 50
    U64                     \* 2^64

ASSUME TemporalMirrorAssumption ==
    /\ NodeOffset \subseteq Int /\ DriftPpb \subseteq Int /\ PrevTime \subseteq Nat
    /\ {EpochNs, Ppb, Tolerance, MaxIterations, U64} \subseteq Nat \ {0}
    /\ MaxReports \in Nat /\ Tolerance < U64 - 1

TruncDiv(x, d) == IF x < 0 THEN -((-x) \div d) ELSE x \div d

(* What a drift amounts to in an epoch.                                    *)
DriftNs(drift) == TruncDiv(drift * EpochNs, Ppb)

(* How far apart MaxIterations halvings can bring together: 35 years, for  *)
(* 50 rounds and 1000 ns.                                                  *)
Reach == (Tolerance - 2) * 2^MaxIterations

(* The rounds are enough for what the nodes report: a clock with its drift *)
(* and a clock without are never further apart.                            *)
ASSUME RoundsAssumption ==
    \A o, q \in NodeOffset, d \in DriftPpb : (o + DriftNs(d)) - q \in -Reach .. Reach

(* The times are i64, and so are the sums they are averaged from.          *)
FitsI64(x) == -(U64 \div 2) <= x /\ x < U64 \div 2

(* No sum overflows.  In nanoseconds since 1970 those of six nodes do in   *)
(* our days (a debug build panics, a release build wraps).                 *)
ASSUME NoOverflowAssumption ==
    \A prev \in PrevTime, o \in NodeOffset, d \in DriftPpb :
        /\ FitsI64(prev + EpochNs) /\ FitsI64(d * EpochNs)
        /\ \A t \in {prev + EpochNs + o, prev + EpochNs + o + DriftNs(d)}, n \in {2, MaxReports} :
              FitsI64(n * t)

VARIABLES
    means,          \* fwd_mean and bwd_mean, <<>> when nothing is being solved
    predictive, retrodictive, iterations,
    mirror          \* the latest mirror, while none is being solved; or <<>>

mirrorVars == <<means, predictive, retrodictive, iterations, mirror>>

AsU64(x) == x % U64
Mean(s) == TruncDiv(SumFunction(s), Len(s))

MirrorInit ==
    /\ means = <<>> /\ mirror = <<>>
    /\ predictive = 0 /\ retrodictive = 0 /\ iterations = 0

(* zip: the shorter of the two lists decides.                              *)
Forward(offsets, drifts, prev) ==
    [i \in 1 .. Min({Len(offsets), Len(drifts)}) |->
        prev + EpochNs + offsets[i] + DriftNs(drifts[i])]

Backward(offsets, prev) == [i \in DOMAIN offsets |-> prev + EpochNs + offsets[i]]

(* Without estimates the mirrors never agree.                              *)
NoFixedPoint ==
    [fixed_point |-> 0, disagreement |-> U64 - 1, iterations |-> 0, of |-> <<>>]

solve_boundary(offsets, drifts, prev) ==
    LET forward  == Forward(offsets, drifts, prev)
        backward == Backward(offsets, prev)
    IN  /\ means = <<>>
        /\ IF forward = <<>> \/ backward = <<>>
           THEN mirror' = NoFixedPoint /\ UNCHANGED <<means, predictive, retrodictive>>
           ELSE /\ means' = <<Mean(forward), Mean(backward)>>
                /\ predictive' = means'[1] /\ retrodictive' = means'[2]
                /\ mirror' = <<>>
        /\ iterations' = 0

Disagreement(p, r) == IF p < r THEN r - p ELSE p - r

(* Faulty variant: not halved.                                             *)
Both(p, r) == p + r

Midpoint(p, r) == TruncDiv(p + r, 2)

(* alpha is one half.                                                      *)
Damped(x, midpoint) == x + TruncDiv(midpoint - x, 2)

MayBisect ==
    /\ means # <<>>
    /\ iterations < MaxIterations
    /\ iterations = 0 \/ Disagreement(predictive, retrodictive) >= Tolerance

Bisect ==
    /\ MayBisect
    /\ LET midpoint == Midpoint(predictive, retrodictive)
       IN  /\ predictive' = Damped(predictive, midpoint)
           /\ retrodictive' = Damped(retrodictive, midpoint)
    /\ iterations' = iterations + 1
    /\ UNCHANGED <<means, mirror>>

FixedPoint ==
    /\ means # <<>> /\ ~ MayBisect
    /\ mirror' = [fixed_point  |-> AsU64(TruncDiv(predictive + retrodictive, 2)),
                  disagreement |-> Disagreement(predictive, retrodictive),
                  iterations   |-> iterations,
                  of           |-> means]
    /\ means' = <<>> /\ predictive' = 0 /\ retrodictive' = 0 /\ iterations' = 0

Reports(S) == BoundedSeq(S, MaxReports)

MirrorNext ==
    \/ \E offsets \in Reports(NodeOffset), drifts \in Reports(DriftPpb), prev \in PrevTime :
           solve_boundary(offsets, drifts, prev)
    \/ Bisect
    \/ FixedPoint

MirrorSpec == MirrorInit /\ [][MirrorNext]_mirrorVars

is_consistent(m, tolerance) == m.disagreement <= tolerance
-----------------------------------------------------------------------------
(* The mirrors meet before the rounds run out, in spite of truncation and  *)
(* whatever the signs, and they meet where both sides pull the same: at a  *)
(* point between the two means, within a nanosecond per round of their     *)
(* middle.  Mirrors without estimates are never called consistent.         *)
MirrorsMeet ==
    mirror # <<>> =>
        IF mirror.of = <<>> THEN ~ is_consistent(mirror, Tolerance)
        ELSE LET low  == Min({mirror.of[1], mirror.of[2]})
                 high == Max({mirror.of[1], mirror.of[2]})
             IN  /\ is_consistent(mirror, Tolerance)
                 /\ \E f \in low .. high :
                       /\ mirror.fixed_point = AsU64(f)
                       /\ Disagreement(2 * f, low + high) <= 2 * mirror.iterations
=============================================================================
