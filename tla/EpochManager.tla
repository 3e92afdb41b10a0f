---------------------------- MODULE EpochManager ----------------------------
(***************************************************************************)
(* The epoch life cycle of the core library (crates/rtfsn-core/src/        *)
(* epoch.rs): Measure, Solve, Publish, and on to the next epoch by quorum  *)
(* or timeout.                                                             *)
(*                                                                         *)
(* try_advance is handed the owner's clock.  The model keeps its reading   *)
(* relative to phase_start_time; the owner's clock may be set back, and    *)
(* then the subtraction of the two u64 wraps (release build) to more than  *)
(* any timeout.                                                            *)
(***************************************************************************)
EXTENDS Integers, FiniteSets

CONSTANTS
    Peer,           \* who beacons come from
    Quorum,         \* quorum_threshold
    Timeout,        \* phase_timeout_nanos
    MaxBack,        \* bound: how far the clock is set back
    MaxSetBacks,    \* bound: how often the clock is set back
    EpochCycle      \* bound: epochs are counted modulo this

ASSUME EpochManagerAssumption ==
    /\ IsFiniteSet(Peer) /\ Quorum \in Nat /\ Timeout \in Nat
    /\ MaxBack \in Nat /\ MaxSetBacks \in Nat /\ EpochCycle \in Nat \ {0, 1}

VARIABLES
    phase,      \* current_phase
    epoch,      \* current_epoch
    received,   \* received_beacons
    elapsed,    \* clock - phase_start_time, counted up to Timeout + 1
    setBacks,   \* how often the clock was set back so far
    measured,   \* time really spent in the Measure phase of this epoch, counted
                \* up to Timeout + 1, or more if the clock was set back in it
    reported    \* peers a beacon came from since this epoch began

epochVars == <<phase, epoch, received, elapsed, setBacks, measured, reported>>

EpochInit ==
    /\ phase = "Measure" /\ epoch = 0 /\ received = {}
    /\ elapsed \in 0 .. Timeout + 1 \* phase_start_time is 0, the clock is not
    /\ setBacks = 0 /\ measured = elapsed /\ reported = {}

EpochTypeOK ==
    /\ phase \in {"Measure", "Solve", "Publish"}
    /\ epoch \in 0 .. EpochCycle - 1
    /\ received \subseteq Peer /\ reported \subseteq Peer
    /\ elapsed \in -MaxBack .. Timeout + 1
    /\ setBacks \in 0 .. MaxSetBacks
    /\ measured \in 0 .. Timeout + 1

(* Faulty variant: the phase ends with the last instant of the timeout.    *)
TimedOutEarly == elapsed < 0 \/ elapsed >= Timeout

TimedOut == elapsed < 0 \/ elapsed > Timeout

Enter(p) == phase' = p /\ elapsed' = 0

EndMeasure ==
    /\ phase = "Measure" /\ TimedOut
    /\ Enter("Solve")
    /\ UNCHANGED <<epoch, received, setBacks, measured, reported>>

EndSolve ==
    /\ phase = "Solve"
    /\ Enter("Publish")
    /\ UNCHANGED <<epoch, received, setBacks, measured, reported>>

(* Faulty variant: only a quorum ends the epoch.                           *)
HasQuorum == Cardinality(received) >= Quorum

MayEndEpoch == Cardinality(received) >= Quorum \/ TimedOut

EndPublish ==
    /\ phase = "Publish" /\ MayEndEpoch
    /\ Enter("Measure")
    /\ epoch' = (epoch + 1) % EpochCycle
    /\ received' = {}
    /\ measured' = 0 /\ reported' = {}
    /\ UNCHANGED setBacks

try_advance == EndMeasure \/ EndSolve \/ EndPublish

(* The beacon's own epoch is not looked at.                                *)
record_beacon(p) ==
    /\ received' = received \cup {p}
    /\ reported' = reported \cup {p}
    /\ UNCHANGED <<phase, epoch, elapsed, setBacks, measured>>

AtMost(n) == IF n > Timeout + 1 THEN Timeout + 1 ELSE n

TimePasses ==
    /\ elapsed' = AtMost(elapsed + 1)
    /\ measured' = IF phase = "Measure" THEN AtMost(measured + 1) ELSE measured
    /\ UNCHANGED <<phase, epoch, received, setBacks, reported>>

ClockSetBack ==
    /\ setBacks < MaxSetBacks /\ setBacks' = setBacks + 1
    /\ elapsed' \in -MaxBack .. elapsed - 1
    /\ measured' = IF phase = "Measure" THEN Timeout + 1 ELSE measured
    /\ UNCHANGED <<phase, epoch, received, reported>>

EpochNext ==
    \/ try_advance
    \/ \E p \in Peer : record_beacon(p)
    \/ TimePasses
    \/ ClockSetBack

EpochSpec == EpochInit /\ [][EpochNext]_epochVars

(* The owner calls try_advance again and again, and time passes.           *)
EpochFairness == WF_epochVars(try_advance) /\ WF_epochVars(TimePasses)
-----------------------------------------------------------------------------
(* An epoch ends only after its measure phase lasted longer than the       *)
(* timeout, unless the clock was set back in it, and with beacons of a     *)
(* quorum that came in since the epoch began, unless Publish timed out.    *)
AdvancesForCause ==
    [][epoch' # epoch =>
          /\ measured > Timeout
          /\ elapsed \in 0 .. Timeout => Cardinality(reported) >= Quorum]_epochVars

(* Epochs go on for ever, whoever stays silent and although the clock was  *)
(* set back some times.                                                    *)
EpochsAdvance == []<><<epoch' # epoch>>_epochVars
=============================================================================
