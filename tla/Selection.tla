----------------------------- MODULE Selection ------------------------------
(***************************************************************************)
(* RelationalClock::solve_absolute (crates/rtfsn-core/src/sync/            *)
(* relational.rs): which anchors the consensus on UTC is made of.  First   *)
(* the selection sets falsetickers aside, then the clustering outliers.    *)
(*                                                                         *)
(* The edges between the clocks are taken as exact and without drift.      *)
(* Then the frame solved is one number, the consensus: the mean of the     *)
(* anchors' errors weighted by their inverse variances, from which each    *)
(* anchor differs by its own error.  Sums are not divided out; spreads are *)
(* compared after multiplying by 40000, four times 1.4826 being 59304 /    *)
(* 10000 and the medians of even numbers of values being halves.           *)
(***************************************************************************)
EXTENDS Integers, Sequences, FiniteSets, SequencesExt, FiniteSetsExt, Functions

CONSTANTS
    AnchorNode,     \* the anchors a measurement ties to the network
    Liar,           \* the one whose error may be beyond its claim
    Claim,          \* spreads anchors claim
    Lie,            \* errors of the liar
    MinSpread,      \* MIN_SPREAD_NS
    ClusterK,       \* CLUSTER_K
    MinSurvivors    \* MIN_SURVIVORS

ASSUME SelectionAssumption ==
    /\ IsFiniteSet(AnchorNode) /\ AnchorNode # {} /\ Liar \in AnchorNode
    /\ Claim \subseteq Nat \ {0} /\ Lie \subseteq Int
    /\ {MinSpread, ClusterK, MinSurvivors} \subseteq Nat \ {0}

VARIABLES
    claimed,        \* Anchor.sigma_offset_ns
    error,          \* how far the anchor's clock is from UTC
    chosen, falsetickers, outliers,
    stage           \* which loop is running

selectionVars == <<claimed, error, chosen, falsetickers, outliers, stage>>

Honest == AnchorNode \ {Liar}
MaxClaim == Max(Claim)
Magnitude(x) == IF x < 0 THEN -x ELSE x

(* Honest anchors are as good as they claim; the liar does not claim to be *)
(* better than they are.                                                   *)
SelectionInit ==
    /\ claimed \in [AnchorNode -> Claim]
    /\ \A a \in Honest : claimed[a] <= claimed[Liar]
    /\ error \in [AnchorNode -> -MaxClaim .. MaxClaim \cup Lie]
    /\ \A a \in Honest : Magnitude(error[a]) <= claimed[a]
    /\ error[Liar] \in Lie
    /\ chosen = AnchorNode /\ falsetickers = {} /\ outliers = {}
    /\ stage = "selection"

(* Faulty variant: all anchors count the same.                            *)
EqualWeight(a) == 1

(* 1 / sigma^2, in whole numbers.                                          *)
Weight(a) ==
    LET p == FoldSet(LAMBDA s, t : s * t, 1, Claim)
    IN  (p \div claimed[a]) * (p \div claimed[a])

TotalWeight == MapThenSumSet(Weight, chosen)
(* The anchor's offset in the frame, times the total weight.               *)
FrameOffset(a) ==
    TotalWeight * error[a] - MapThenSumSet(LAMBDA b : Weight(b) * error[b], chosen)

(* |z_offset| of a is at least that of b.                                  *)
AsBad(a, b) ==
    Magnitude(FrameOffset(a)) * claimed[b] >= Magnitude(FrameOffset(b)) * claimed[a]

(* Of several equally bad ones the order of the edges decides.             *)
Worst == {a \in chosen : \A b \in chosen : AsBad(a, b)}

PastBound(a) ==
    /\ Cardinality(chosen) >= 3
    /\ Magnitude(FrameOffset(a)) > 5 * claimed[a] * TotalWeight

SetAsideFalseticker ==
    /\ stage = "selection"
    /\ \E a \in Worst :
          /\ PastBound(a)
          /\ chosen' = chosen \ {a} /\ falsetickers' = falsetickers \cup {a}
    /\ UNCHANGED <<claimed, error, outliers, stage>>

SelectionDone ==
    /\ stage = "selection"
    /\ \E a \in Worst : ~ PastBound(a)
    /\ stage' = "clustering"
    /\ UNCHANGED <<claimed, error, chosen, falsetickers, outliers>>

(* Twice the median of a sequence of numbers.                              *)
DoubleMedian(s) ==
    LET v == SortSeq(s, <)
        n == Len(v)
    IN  IF n % 2 = 1 THEN 2 * v[(n \div 2) + 1] ELSE v[n \div 2] + v[(n \div 2) + 1]

(* robust_spread, of the errors: the consensus is the same shift to all.   *)
(* Twice the median and twice each anchor's distance from it.              *)
DoubleDeviation(a) ==
    LET order == SetToSeq(chosen)
    IN  Magnitude(2 * error[a] - DoubleMedian([i \in DOMAIN order |-> error[order[i]]]))

(* Four times the median absolute deviation.                               *)
QuadMad ==
    LET order == SetToSeq(chosen)
    IN  DoubleMedian([i \in DOMAIN order |-> DoubleDeviation(order[i])])

(* selection_jitter_ns, times 40000.                                       *)
RobustSpread == Max({14826 * QuadMad, 40000 * MinSpread})

PastSpread(a) ==
    /\ Cardinality(chosen) > MinSurvivors
    /\ 20000 * DoubleDeviation(a) > ClusterK * RobustSpread

Outermost == {a \in chosen : \A b \in chosen : DoubleDeviation(a) >= DoubleDeviation(b)}

SetAsideOutlier ==
    /\ stage = "clustering"
    /\ \E a \in Outermost :
          /\ PastSpread(a)
          /\ chosen' = chosen \ {a} /\ outliers' = outliers \cup {a}
    /\ UNCHANGED <<claimed, error, falsetickers, stage>>

ClusteringDone ==
    /\ stage = "clustering"
    /\ \A a \in Outermost : ~ PastSpread(a)
    /\ stage' = "done"
    /\ UNCHANGED <<claimed, error, chosen, falsetickers, outliers>>

SelectionNext ==
    \/ SetAsideFalseticker \/ SelectionDone
    \/ SetAsideOutlier \/ ClusteringDone
-----------------------------------------------------------------------------
(* One anchor that is wrong, by however much, does not spoil the absolute  *)
(* time as long as it does not claim to be better than the others: no      *)
(* honest anchor is ever called a falseticker, enough anchors stay, and    *)
(* the consensus is never off by more than twice the largest spread        *)
(* claimed.                                                                *)
OneLiarHarmless ==
    /\ falsetickers \cap Honest = {}
    /\ stage = "done" =>
          /\ Cardinality(chosen) >= Min({MinSurvivors, Cardinality(AnchorNode) - 1})
          /\ Magnitude(MapThenSumSet(LAMBDA a : Weight(a) * error[a], chosen))
                <= 2 * MaxClaim * TotalWeight
=============================================================================
