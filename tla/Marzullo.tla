------------------------------ MODULE Marzullo ------------------------------
(***************************************************************************)
(* Marzullo's intersection (crates/rtfsn-core/src/sync/outlier.rs): the    *)
(* interval of time that most sources agree on.                            *)
(***************************************************************************)
EXTENDS Integers, Sequences, FiniteSets, SequencesExt, FiniteSetsExt, Sorting

CONSTANTS
    TimePoint,      \* ends of intervals
    MaxIntervals    \* bound: sources

ASSUME MarzulloAssumption == TimePoint \subseteq Int /\ MaxIntervals \in Nat

VARIABLE intervals

(* A source's offset plus and minus its uncertainty.                       *)
TimeInterval == {iv \in [low : TimePoint, high : TimePoint] : iv.low <= iv.high}

MarzulloInit == intervals = <<>>

(* A source's interval comes in (their order does not matter: the events   *)
(* are sorted).                                                            *)
AddInterval ==
    \E iv \in TimeInterval :
        /\ Len(intervals) < MaxIntervals
        /\ intervals # <<>> =>
             LET l == Last(intervals)
             IN  l.low < iv.low \/ (l.low = iv.low /\ l.high <= iv.high)
        /\ intervals' = Append(intervals, iv)

MarzulloSpec == MarzulloInit /\ [][AddInterval]_intervals

(* Where each interval starts and ends.                                    *)
Events(ivs) ==
    {[of |-> i, kind |-> kind, point |-> IF kind = "Start" THEN ivs[i].low ELSE ivs[i].high]
        : i \in DOMAIN ivs, kind \in {"Start", "End"}}

(* Faulty variant: an interval that ends where another begins has ended.   *)
EndFirst(a, b) ==
    a.point < b.point \/ (a.point = b.point /\ a.kind = "End" /\ b.kind = "Start")

(* By time, starts before ends.                                            *)
Earlier(a, b) ==
    a.point < b.point \/ (a.point = b.point /\ a.kind = "Start" /\ b.kind = "End")

(* sort_by is stable.                                                      *)
ComesBefore(a, b) == Earlier(a, b) \/ (~ Earlier(b, a) /\ a.of < b.of)

Majority(n) == (n \div 2) + 1

None == [low |-> 0, high |-> -1]

SweepStart == [count |-> 0, best |-> 0, from |-> 0, found |-> None]

(* One event of the sweep.                                                 *)
Sweep(s, e, threshold) ==
    IF e.kind = "Start"
    THEN [s EXCEPT !.count = @ + 1,
                   !.from  = IF s.count + 1 >= threshold /\ s.count + 1 > s.best
                             THEN e.point ELSE @]
    ELSE IF s.count >= threshold /\ s.count > s.best
         THEN [s EXCEPT !.count = @ - 1, !.best = s.count,
                        !.found = [low |-> s.from, high |-> e.point]]
         ELSE [s EXCEPT !.count = @ - 1]

marzullo(ivs) ==
    LET threshold == Majority(Len(ivs))
        S      == Events(ivs)
        n      == Cardinality(S)
        events == Arranged(S, {e \in S \X S : ComesBefore(e[1], e[2])})
        swept[k \in 0 .. n] ==
            IF k = 0 THEN SweepStart ELSE Sweep(swept[k - 1], events[k], threshold)
    IN  IF swept[n].best >= threshold THEN swept[n].found ELSE None
-----------------------------------------------------------------------------
Agreeing(t) == {i \in DOMAIN intervals : intervals[i].low <= t /\ t <= intervals[i].high}

(* What some sources have in common.                                       *)
Common(sources) ==
    [low  |-> Max({intervals[i].low : i \in sources}),
     high |-> Min({intervals[i].high : i \in sources})]

(* Nowhere do more sources agree.                                          *)
MostAgree(t) ==
    \A other \in TimePoint : Cardinality(Agreeing(other)) <= Cardinality(Agreeing(t))

(* The sweep returns an interval exactly when a strict majority of the     *)
(* sources has an instant in common, and then it is all that some group of *)
(* the most sources that agree has in common, to both sides.               *)
FindsMajority ==
    LET found == marzullo(intervals)
    IN  /\ found = None <=>
             \A t \in TimePoint : 2 * Cardinality(Agreeing(t)) <= Len(intervals)
        /\ found # None =>
             \E t \in TimePoint : MostAgree(t) /\ found = Common(Agreeing(t))

Width(iv) == iv.high - iv.low

(* outlier.rs:3-5 calls the result "the tightest interval consistent with  *)
(* a majority".  Even among the groups of the most sources it is the first *)
(* one and not the tightest: count > best_count never replaces it by       *)
(* another of the same size.                                               *)
TightestMajority ==
    marzullo(intervals) # None =>
        \A t \in TimePoint :
            MostAgree(t) => Width(marzullo(intervals)) <= Width(Common(Agreeing(t)))
=============================================================================
