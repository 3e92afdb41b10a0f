---------------------------- MODULE ClockStream -----------------------------
(***************************************************************************)
(* Layer 3 (crates/rtfsn-core/src/layers/layer3.rs): the chain of clock    *)
(* ticks.  The reference time handed to emit is the host's wall clock      *)
(* (valve_l2_to_l3, called with now_nanos), which may be set back or ahead *)
(* between two epochs, so every emit may bring any time.                   *)
(*                                                                         *)
(* The hash is ideal: two ticks have the same hash only if they agree in   *)
(* the hashed fields.                                                      *)
(***************************************************************************)
EXTENDS Integers, Sequences, SequencesExt

CONSTANTS
    Times,      \* wall clock readings
    Digest,     \* epoch hashes, one for each outcome of layer 2
    U64Max,     \* the largest u64
    MaxTicks    \* bound: ticks emitted

ASSUME ClockStreamAssumption ==
    /\ U64Max \in Nat /\ MaxTicks \in Nat
    /\ Times \subseteq Nat
ASSUME FarFromOverflow ==
    \A t \in Times : t + MaxTicks <= U64Max

VARIABLE ticks

NoHash == <<>>

(* Only the fields of a tick that emit and the verification look at.       *)
genesis == [epoch |-> 0, time |-> 0, epoch_hash |-> NoHash, prev_hash |-> NoHash]

Hash(t) == <<t.epoch, t.time, t.epoch_hash, t.prev_hash>>

latest == Last(ticks)

(* u64 arithmetic of a release build wraps.                                *)
WrappingInc(n) == IF n = U64Max THEN 0 ELSE n + 1

(* Faulty variant: the wall clock is taken as it is.                       *)
Unclamped(t) == t

(* Faulty variant: an equal time is let through.                           *)
ClampedLoosely(t) == IF t >= latest.time THEN t ELSE latest.time

(* Monotonicity: never go backwards.                                       *)
Clamped(t) ==
    LET least == WrappingInc(latest.time) IN IF t >= least THEN t ELSE least

(* Faulty variant: the hash of the tick before the latest is linked.       *)
StaleLink ==
    IF Len(ticks) = 1 THEN NoHash ELSE Hash(ticks[Len(ticks) - 1])

(* Faulty variant: only the epoch of the previous tick is hashed.          *)
EpochLink == <<latest.epoch>>

Link == Hash(latest)

NewTick(t, d) ==
    [epoch |-> latest.epoch + 1, time |-> Clamped(t),
     epoch_hash |-> d, prev_hash |-> Link]

emit(t, d) ==
    /\ Len(ticks) <= MaxTicks
    /\ ticks' = Append(ticks, NewTick(t, d))

Init == ticks = <<genesis>>
Next == \E t \in Times, d \in Digest : emit(t, d)
Spec == Init /\ [][Next]_ticks

-----------------------------------------------------------------------------
(* Verification of a stream, whoever made it.                              *)

(* Faulty variant: the link is not compared.                               *)
verify_epoch_and_time(t, prev) ==
    /\ t.epoch = prev.epoch + 1
    /\ t.time >= prev.time

verify_chain(t, prev) ==
    /\ t.epoch = prev.epoch + 1
    /\ t.prev_hash = Hash(prev)
    /\ t.time >= prev.time

verify_all(s) ==
    \A i \in 2 .. Len(s) : verify_chain(s[i], s[i - 1])

-----------------------------------------------------------------------------
TickType ==
    [epoch : Nat, time : 0 .. U64Max, epoch_hash : Digest \cup {NoHash},
     prev_hash : {NoHash} \cup {Hash(ticks[i]) : i \in DOMAIN ticks}]

(* The stream starts with genesis, and the tick of an epoch is found at    *)
(* that index (ClockStream::get).                                          *)
TypeOK ==
    /\ ticks \in Seq(TickType)
    /\ ticks # <<>> /\ ticks[1] = genesis
    /\ \A i \in DOMAIN ticks : ticks[i].epoch = i - 1

(* What emit has built passes verify_all, for every sequence of wall clock *)
(* readings.                                                               *)
StreamVerifies == verify_all(ticks)

(* Time grows strictly from tick to tick, however the wall clock jumps.    *)
StrictlyMonotone ==
    \A i, j \in DOMAIN ticks : i < j => ticks[i].time < ticks[j].time

(* Other contents somebody could put in the place of a tick.               *)
Forgeries(t) ==
    {[t EXCEPT !.time = n] : n \in Times} \cup
    {[t EXCEPT !.epoch_hash = d] : d \in Digest}

(* A stream in which one tick before the tip was altered fails verify_all: *)
(* the next tick carries the hash of the original.                         *)
TamperEvident ==
    \A i \in 1 .. Len(ticks) - 1 : \A t \in Forgeries(ticks[i]) \ {ticks[i]} :
        ~ verify_all([ticks EXCEPT ![i] = t])

(* The stream is a surface clock.                                          *)
Surface == INSTANCE SurfaceClock WITH number <- latest.epoch, time <- latest.time

ImplementsSurfaceClock == Surface!Spec
=============================================================================
