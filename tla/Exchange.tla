------------------------------ MODULE Exchange ------------------------------
(***************************************************************************)
(* The four timestamps of one exchange, and what the daemon makes of them: *)
(* the twist of the holonomy table (TwistIndex::from_exchange in crates/   *)
(* rtfsn-core/src/holonomy/twist.rs), and the synthetic TimeExchange that  *)
(* solve_and_advance (crates/rtfsn-daemon/src/main.rs) records in layer 0  *)
(* and gives to ClockState::add_exchange (crates/rtfsn-core/src/sync/      *)
(* clock.rs).                                                              *)
(*                                                                         *)
(* The timestamps are whole nanoseconds.  Seconds are nanoseconds divided  *)
(* by NsPerSec; the times of the synthetic exchange are kept in units of   *)
(* half a nanosecond, so nothing is rounded.                               *)
(***************************************************************************)
EXTENDS Integers, Sequences, SequencesExt

CONSTANTS
    TrueOffset,     \* the peer's clock minus ours, ns
    Delay,          \* the time a message is on its way, or the peer takes, ns
    NsPerSec,       \* 10^9
    MaxSamples      \* MAX_SAMPLES

VARIABLES
    theta,          \* the real offset
    raw,            \* the element of raw_exchanges, or <<>>
    twist,          \* what from_exchange made of it
    synthetic,      \* the TimeExchange of the MeasurementRecord
    samples         \* ClockState.samples: their offsets

exchangeVars == <<theta, raw, twist, synthetic, samples>>

(* TwistIndex::from_exchange; the integer division truncates.              *)
Half(x) == IF x < 0 THEN -((-x) \div 2) ELSE x \div 2

from_exchange(t) ==
    [rtt    |-> (t[4] - t[1]) - (t[3] - t[2]),
     offset |-> Half((t[2] - t[1]) + (t[3] - t[4]))]

(* TimeExchange::offset (doubled, as it halves) and round_trip_delay.      *)
DoubleOffset(x) == (x.t2 - x.t1) + (x.t3 - x.t4)
round_trip_delay(x) == (x.t4 - x.t1) - (x.t3 - x.t2)

ExchangeInit ==
    /\ theta \in TrueOffset
    /\ raw = <<>> /\ twist = <<>> /\ synthetic = <<>> /\ samples = <<>>

(* A request is sent, received, answered, and the answer received.         *)
MeasurePeer(there, held, back) ==
    /\ raw = <<>>
    /\ raw' = <<0, there + theta, there + held + theta, there + held + back>>
    /\ twist' = from_exchange(raw')
    /\ UNCHANGED <<theta, synthetic, samples>>

(* rtt_secs is in seconds, offset_s is not divided by 10^9.                *)
Synthesize ==
    /\ raw # <<>> /\ synthetic = <<>>
    /\ LET rtt == from_exchange(raw).rtt
           doubled == (raw[2] - raw[1]) + (raw[3] - raw[4])
       IN  synthetic' = [t1 |-> 0, t2 |-> rtt + doubled * NsPerSec,
                         t3 |-> rtt, t4 |-> 2 * rtt]
    /\ UNCHANGED <<theta, raw, twist, samples>>

(* An exchange without a positive delay is dropped; the oldest sample goes *)
(* when there are too many.                                                *)
add_exchange ==
    /\ synthetic # <<>>
    /\ samples' = IF round_trip_delay(synthetic) <= 0 THEN samples
                  ELSE LET all == Append(samples, DoubleOffset(synthetic))
                       IN  IF Len(all) > MaxSamples THEN Tail(all) ELSE all
    /\ raw' = <<>> /\ twist' = <<>> /\ synthetic' = <<>> \* the next epoch's
    /\ UNCHANGED theta

ExchangeNext ==
    \/ \E there, held, back \in Delay : MeasurePeer(there, held, back)
    \/ Synthesize
    \/ add_exchange

ExchangeSpec == ExchangeInit /\ [][ExchangeNext]_exchangeVars
-----------------------------------------------------------------------------
(* The comment where the exchange is made: "Construct synthetic            *)
(* TimeExchange that produces the same offset/RTT".  Its delay is the      *)
(* measured round trip and its offset the measured one (in units of half a *)
(* nanosecond; the doubled offset is then four times the measured one,     *)
(* give or take what the integer division lost).                           *)
SyntheticSameOffsetAndRtt ==
    synthetic # <<>> =>
        /\ round_trip_delay(synthetic) = 2 * twist.rtt
        /\ DoubleOffset(synthetic) = 2 * ((raw[2] - raw[1]) + (raw[3] - raw[4]))
=============================================================================
