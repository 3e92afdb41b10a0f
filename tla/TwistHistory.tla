---------------------------- MODULE TwistHistory ----------------------------
(***************************************************************************)
(* How long measurements are kept.  RelationalClock::observe (crates/      *)
(* rtfsn-core/src/sync/relational.rs) adds every accepted exchange to its  *)
(* table, without an epoch, and trims all edges of it at every 64th; the   *)
(* daemon's handle_message (crates/rtfsn-daemon/src/main.rs) adds them     *)
(* with their epoch and never trims.  TwistLUT::profile (crates/rtfsn-core *)
(* /src/holonomy/twist.rs) sums an edge's history up.                      *)
(***************************************************************************)
EXTENDS Integers, Sequences, FiniteSets, SequencesExt, FiniteSetsExt, Functions

CONSTANTS
    TrackedPeer,    \* the peers of the node
    RoundTrip,      \* round trips
    History,        \* TrackConfig.history
    TrimEvery,      \* 64
    MaxAccepted     \* bound: exchanges accepted

ASSUME TwistHistoryAssumption ==
    /\ RoundTrip \subseteq Nat
    /\ History \in Nat \ {0} /\ TrimEvery \in Nat \ {0} /\ MaxAccepted \in Nat

VARIABLES
    owner,      \* whose table it is: "clock" or "daemon"
    entries,    \* TwistLUT.entries: a history per edge of the node
    inserts,    \* RelationalClock.inserts; for the daemon, its epoch
    accepted    \* all that was accepted, per peer

historyVars == <<owner, entries, inserts, accepted>>

HistoryInit ==
    /\ owner \in {"clock", "daemon"}
    /\ entries = [p \in TrackedPeer |-> <<>>]
    /\ inserts = 0
    /\ accepted = [p \in TrackedPeer |-> <<>>]

(* Faulty variant: the newest are dropped.                                 *)
KeepFirst(h) == SubSeq(h, 1, Min({Len(h), History}))

trim(h) == IF Len(h) > History THEN SubSeq(h, Len(h) - History + 1, Len(h)) ELSE h

(* RelationalClock::observe, for an exchange the track accepts.  nth only  *)
(* tells measurements apart.                                               *)
ObserveAccepted(p, rtt) ==
    /\ owner = "clock" /\ inserts < MaxAccepted
    /\ inserts' = inserts + 1
    /\ LET twist == [rtt |-> rtt, epoch |-> 0, nth |-> inserts]
           all   == [entries EXCEPT ![p] = Append(@, twist)]
       IN  /\ entries' = IF inserts' % TrimEvery = 0
                         THEN [q \in TrackedPeer |-> trim(all[q])]
                         ELSE all
           /\ accepted' = [accepted EXCEPT ![p] = Append(@, twist)]
    /\ UNCHANGED owner

(* handle_message, for a response that is accepted: of each peer at most   *)
(* one in an epoch.                                                        *)
ResponseAccepted(p, rtt) ==
    /\ owner = "daemon" /\ inserts < MaxAccepted
    /\ inserts' = inserts + 1
    /\ LET twist == [rtt |-> rtt, epoch |-> inserts, nth |-> inserts]
       IN  /\ entries' = [entries EXCEPT ![p] = Append(@, twist)]
           /\ accepted' = [accepted EXCEPT ![p] = Append(@, twist)]
    /\ UNCHANGED owner

HistoryNext ==
    \E p \in TrackedPeer, rtt \in RoundTrip :
        ObserveAccepted(p, rtt) \/ ResponseAccepted(p, rtt)

HistorySpec == HistoryInit /\ [][HistoryNext]_historyVars
-----------------------------------------------------------------------------
(* TwistLUT::profile of a history that is not empty.                       *)

(* The k-th round trip in ascending order: fewer than k are below it, and  *)
(* at least k are not above it.                                            *)
sorted(h, k) ==
    CHOOSE v \in {h[i].rtt : i \in DOMAIN h} :
        /\ Cardinality({i \in DOMAIN h : h[i].rtt < v}) < k
        /\ k <= Cardinality({i \in DOMAIN h : h[i].rtt <= v})

(* Division of i64 truncates towards zero.                                 *)
Quot(a, b) ==
    IF (a < 0) = (b < 0) THEN (IF a < 0 THEN -a ELSE a) \div (IF b < 0 THEN -b ELSE b)
    ELSE -((IF a < 0 THEN -a ELSE a) \div (IF b < 0 THEN -b ELSE b))

Trend(h) ==
    LET n   == Len(h)
        sx  == SumFunction([i \in DOMAIN h |-> h[i].epoch])
        sy  == SumFunction([i \in DOMAIN h |-> h[i].rtt])
        sxy == SumFunction([i \in DOMAIN h |-> h[i].epoch * h[i].rtt])
        sxx == SumFunction([i \in DOMAIN h |-> h[i].epoch * h[i].epoch])
        denom == n * sxx - sx * sx
    IN  IF n < 2 \/ denom = 0 THEN 0 ELSE Quot(n * sxy - sx * sy, denom)

profile(h) ==
    LET n    == Len(h)
        mean == SumFunction([i \in DOMAIN h |-> h[i].rtt]) \div n
        square == [i \in DOMAIN h |-> (h[i].rtt - mean) * (h[i].rtt - mean)]
    IN  [mean  |-> mean,
         variance |-> SumFunction(square) \div n,
         p10   |-> sorted(h, (n \div 10) + 1),
         p50   |-> sorted(h, (n \div 2) + 1),
         p90   |-> sorted(h, ((n * 9) \div 10) + 1),
         trend |-> Trend(h),
         count |-> n, first |-> h[1].epoch, last |-> h[n].epoch]
-----------------------------------------------------------------------------
(* What the profile of history h says is true: round trips that never fell *)
(* show no falling trend, those that never rose no rising one, at least    *)
(* half of them reach the median, and the last epoch is that of the latest *)
(* of all that was accepted.                                               *)
TellsTrue(h, a) ==
    LET f == profile(h)
        over == {i \in DOMAIN h : h[i].rtt >= f.p50}
    IN  /\ (\A i, j \in DOMAIN h : i < j => h[i].rtt <= h[j].rtt) => f.trend >= 0
        /\ (\A i, j \in DOMAIN h : i < j => h[i].rtt >= h[j].rtt) => f.trend <= 0
        /\ 2 * Cardinality(over) >= Len(h)
        /\ f.p10 <= f.p50 /\ f.p50 <= f.p90
        /\ f.last = Last(a).epoch

(* An edge keeps the newest of what was accepted on it, without gaps: all  *)
(* of it in a daemon, in a relational clock at least History of them (or   *)
(* all there are) and no more than may come in until the next trim,        *)
(* whichever peers the exchanges in between are with.  And the profile of  *)
(* what is kept tells the truth about it.                                  *)
KeepsNewest ==
    \A p \in TrackedPeer :
        LET h == entries[p]
            a == accepted[p]
        IN  /\ h = SubSeq(a, Len(a) - Len(h) + 1, Len(a))
            /\ IF owner = "daemon" THEN h = a
               ELSE Len(h) \in Min({History, Len(a)}) .. History + TrimEvery - 1
            /\ h # <<>> => TellsTrue(h, a)
=============================================================================
