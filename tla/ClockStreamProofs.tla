------------------------- MODULE ClockStreamProofs --------------------------
(***************************************************************************)
(* What holds of module ClockStream for any wall clock readings and any    *)
(* number of ticks, as long as no reading is within that number of the     *)
(* largest u64.                                                            *)
(***************************************************************************)
EXTENDS ClockStream, TLAPS

(* Every tick leaves room below the largest u64 for the ticks to come, so  *)
(* the increment in emit never wraps.                                      *)
RoomLeft ==
    Times # {} =>
        \A i \in DOMAIN ticks : ticks[i].time + (MaxTicks + 1 - i) <= U64Max

IndInv ==
    /\ TypeOK
    /\ Len(ticks) <= MaxTicks + 1
    /\ RoomLeft
    /\ StrictlyMonotone
    /\ StreamVerifies

(* Last of a nonempty sequence.                                            *)
LEMMA LatestIsLast == latest = ticks[Len(ticks)]
BY DEF latest, Last

(* What emit appends: the next epoch, a later time, the hash of the latest.*)
LEMMA NewTickFacts ==
    ASSUME IndInv, NEW t \in Times, NEW d \in Digest, Len(ticks) <= MaxTicks
    PROVE  LET n == Len(ticks)  new == NewTick(t, d) IN
           /\ n \in Nat \ {0} /\ n \in DOMAIN ticks
           /\ latest = ticks[n] /\ latest.time \in Nat
           /\ new.epoch = n /\ new.epoch_hash = d
           /\ new.prev_hash = Hash(ticks[n])
           /\ new.time \in Nat /\ new.time > latest.time
           /\ new.time + (MaxTicks - n) <= U64Max
<1> DEFINE n == Len(ticks)
           new == NewTick(t, d)
<1>1. n \in Nat \ {0} /\ n \in DOMAIN ticks /\ n <= MaxTicks
  BY DEF IndInv, TypeOK
<1>2. latest = ticks[n]
  BY LatestIsLast
<1>3. latest \in TickType
  BY <1>1, <1>2 DEF IndInv, TypeOK
<1>4. latest.time \in Nat /\ latest.time <= U64Max /\ U64Max \in Nat /\ MaxTicks \in Nat
  BY <1>3, ClockStreamAssumption DEF TickType
<1>5. latest.time + (MaxTicks + 1 - n) <= U64Max
  BY <1>1, <1>2 DEF IndInv, RoomLeft
<1>6. t \in Nat /\ t + MaxTicks <= U64Max
  BY ClockStreamAssumption, FarFromOverflow
<1>7. WrappingInc(latest.time) = latest.time + 1
  BY <1>1, <1>4, <1>5 DEF WrappingInc
<1>8. /\ Clamped(t) \in Nat /\ Clamped(t) > latest.time
      /\ Clamped(t) + (MaxTicks - n) <= U64Max
  BY <1>1, <1>4, <1>5, <1>6, <1>7 DEF Clamped
<1>9. latest.epoch = n - 1
  BY <1>1, <1>2 DEF IndInv, TypeOK
<1>10. /\ new.epoch = latest.epoch + 1 /\ new.time = Clamped(t)
       /\ new.epoch_hash = d /\ new.prev_hash = Hash(latest)
  BY DEF NewTick, Link
<1>11. QED  BY <1>1, <1>2, <1>4, <1>8, <1>9, <1>10

(* The invariant is inductive.                                             *)
LEMMA Inductive ==
    ASSUME IndInv, [Next]_ticks
    PROVE  IndInv'
<1>1. CASE UNCHANGED ticks
  BY <1>1 DEF IndInv, TypeOK, TickType, RoomLeft, StrictlyMonotone, StreamVerifies,
              verify_all, verify_chain
<1>2. ASSUME NEW t \in Times, NEW d \in Digest, emit(t, d) PROVE IndInv'
  <2> DEFINE n == Len(ticks)
             new == NewTick(t, d)
  <2>1. n <= MaxTicks /\ ticks' = Append(ticks, new)
    BY <1>2 DEF emit
  <2>2. /\ n \in Nat \ {0} /\ n \in DOMAIN ticks
        /\ latest = ticks[n] /\ latest.time \in Nat
        /\ new.epoch = n /\ new.epoch_hash = d
        /\ new.prev_hash = Hash(ticks[n])
        /\ new.time \in Nat /\ new.time > latest.time
        /\ new.time + (MaxTicks - n) <= U64Max
    BY <2>1, NewTickFacts
  <2>3. /\ Len(ticks') = n + 1 /\ DOMAIN ticks' = 1 .. n + 1 /\ DOMAIN ticks = 1 .. n
        /\ \A i \in 1 .. n : ticks'[i] = ticks[i]
        /\ ticks'[n + 1] = new
    BY <2>1, <2>2 DEF IndInv, TypeOK
  <2>4. U64Max \in Nat /\ MaxTicks \in Nat
    BY ClockStreamAssumption
  <2>5. \A i \in 1 .. n : ticks[i].time \in Nat
    <3>1. \A i \in 1 .. n : ticks[i] \in TickType
      BY <2>3 DEF IndInv, TypeOK
    <3>2. QED  BY <2>4, <3>1 DEF TickType
  <2>6. TypeOK'
    <3>1. TickType \subseteq TickType'
      BY <2>3 DEF TickType
    <3>2. new \in TickType'
      <4>1. Hash(ticks[n]) = Hash(ticks'[n])
        BY <2>2, <2>3
      <4>2. new.prev_hash \in {Hash(ticks'[i]) : i \in DOMAIN ticks'}
        BY <2>2, <2>3, <4>1
      <4>3. new.time \in 0 .. U64Max
        BY <2>1, <2>2, <2>4
      <4>4. new = [epoch |-> new.epoch, time |-> new.time,
                   epoch_hash |-> new.epoch_hash, prev_hash |-> new.prev_hash]
        BY DEF NewTick
      <4>5. QED  BY <2>2, <4>2, <4>3, <4>4 DEF TickType
    <3>3. ticks \in Seq(TickType')
      BY <3>1 DEF IndInv, TypeOK
    <3>4. ticks' \in Seq(TickType')
      BY <2>1, <3>2, <3>3
    <3>5. \A i \in DOMAIN ticks' : ticks'[i].epoch = i - 1
      BY <2>2, <2>3 DEF IndInv, TypeOK
    <3>6. ticks' # <<>> /\ ticks'[1] = genesis
      BY <2>2, <2>3 DEF IndInv, TypeOK
    <3>7. QED  BY <3>4, <3>5, <3>6 DEF TypeOK
  <2>7. RoomLeft'
    <3> SUFFICES ASSUME NEW i \in 1 .. n + 1
                 PROVE  ticks'[i].time + (MaxTicks + 1 - i) <= U64Max
      BY <2>3 DEF RoomLeft
    <3>1. CASE i = n + 1
      <4>1. MaxTicks + 1 - i = MaxTicks - n
        BY <2>2, <2>4, <3>1
      <4>2. QED  BY <2>2, <2>3, <3>1, <4>1
    <3>2. CASE i \in 1 .. n
      BY <2>3, <3>2 DEF IndInv, RoomLeft
    <3>3. QED  BY <2>2, <3>1, <3>2
  <2>8. StrictlyMonotone'
    <3> SUFFICES ASSUME NEW i \in 1 .. n + 1, NEW j \in 1 .. n + 1, i < j
                 PROVE  ticks'[i].time < ticks'[j].time
      BY <2>3 DEF StrictlyMonotone
    <3>1. CASE j <= n
      <4>1. i \in 1 .. n /\ j \in 1 .. n
        BY <2>2, <3>1
      <4>2. ticks[i].time < ticks[j].time
        BY <2>3, <4>1 DEF IndInv, StrictlyMonotone
      <4>3. QED  BY <2>3, <4>1, <4>2
    <3>2. CASE j = n + 1
      <4>1. i <= n /\ i \in 1 .. n
        BY <2>2, <3>2
      <4>2. ticks[i].time <= ticks[n].time
        <5>1. n \in 1 .. n
          BY <2>2
        <5>2. CASE i = n
          BY <2>5, <5>1, <5>2
        <5>3. CASE i < n
          <6>1. ticks[i].time < ticks[n].time
            BY <2>3, <4>1, <5>1, <5>3 DEF IndInv, StrictlyMonotone
          <6>2. QED  BY <2>5, <4>1, <5>1, <6>1
        <5>4. QED  BY <2>2, <4>1, <5>2, <5>3
      <4>3. QED  BY <2>2, <2>3, <2>5, <3>2, <4>1, <4>2
    <3>3. QED  BY <2>2, <3>1, <3>2
  <2>9. StreamVerifies'
    <3> SUFFICES ASSUME NEW i \in 2 .. n + 1
                 PROVE  verify_chain(ticks'[i], ticks'[i - 1])
      BY <2>3 DEF StreamVerifies, verify_all
    <3>1. CASE i <= n
      <4>1. i \in 1 .. n /\ i - 1 \in 1 .. n /\ i \in 2 .. n
        BY <2>2, <3>1
      <4>2. QED  BY <2>3, <4>1 DEF IndInv, StreamVerifies, verify_all
    <3>2. CASE i = n + 1
      <4>1. ticks'[i] = new /\ ticks'[i - 1] = ticks[n]
        BY <2>2, <2>3, <3>2
      <4>2. ticks[n].epoch = n - 1
        BY <2>2 DEF IndInv, TypeOK
      <4>3. QED  BY <2>2, <4>1, <4>2 DEF verify_chain
    <3>3. QED  BY <2>2, <3>1, <3>2
  <2>10. Len(ticks') <= MaxTicks + 1
    <3>1. n \in Nat /\ n <= MaxTicks /\ Len(ticks') = n + 1
      BY <2>1, <2>2, <2>3
    <3> HIDE DEF n
    <3>2. QED  BY <2>4, <3>1
  <2>11. QED  BY <2>6, <2>7, <2>8, <2>9, <2>10 DEF IndInv
<1>3. QED  BY <1>1, <1>2 DEF Next

(* A stream of the genesis tick alone satisfies it.                        *)
LEMMA InitInv == Init => IndInv
<1> SUFFICES ASSUME Init PROVE IndInv
  OBVIOUS
<1>1. ticks = <<genesis>> /\ Len(ticks) = 1 /\ DOMAIN ticks = {1} /\ ticks[1] = genesis
  BY DEF Init
<1>2. U64Max \in Nat /\ MaxTicks \in Nat
  BY ClockStreamAssumption
<1>3. genesis \in TickType
  BY <1>2 DEF genesis, TickType
<1>4. TypeOK
  BY <1>1, <1>3 DEF TypeOK, genesis
<1>5. RoomLeft
  <2>1. ASSUME NEW t \in Times PROVE MaxTicks <= U64Max
    BY <1>2, <2>1, ClockStreamAssumption, FarFromOverflow
  <2>2. QED  BY <1>1, <1>2, <2>1 DEF RoomLeft, genesis
<1>6. StrictlyMonotone /\ StreamVerifies
  BY <1>1 DEF StrictlyMonotone, StreamVerifies, verify_all
<1>7. QED  BY <1>1, <1>2, <1>4, <1>5, <1>6 DEF IndInv

(* The invariant holds of every behaviour.                                 *)
LEMMA IndInvHolds == Spec => []IndInv
<1>1. IndInv /\ [Next]_ticks => IndInv'
  BY Inductive
<1>2. QED  BY <1>1, InitInv, PTL DEF Spec

(* Every stream emit builds is type correct: it starts with genesis, and   *)
(* the tick of epoch e is at index e.                                      *)
THEOREM StreamTypeCorrect == Spec => []TypeOK
<1>1. IndInv => TypeOK
  BY DEF IndInv
<1>2. QED  BY <1>1, IndInvHolds, PTL

(* The clamp of emit makes time grow strictly from tick to tick, whatever  *)
(* the wall clock does.                                                    *)
THEOREM TimeStrictlyMonotone == Spec => []StrictlyMonotone
<1>1. IndInv => StrictlyMonotone
  BY DEF IndInv
<1>2. QED  BY <1>1, IndInvHolds, PTL

(* Whatever emit has built, verify_all accepts.                            *)
THEOREM StreamAlwaysVerifies == Spec => []StreamVerifies
<1>1. IndInv => StreamVerifies
  BY DEF IndInv
<1>2. QED  BY <1>1, IndInvHolds, PTL

(* verify_all rejects every stream in which one tick before the tip was    *)
(* altered.                                                                *)
THEOREM AlterationsFound == Spec => []TamperEvident
<1>1. ASSUME IndInv PROVE TamperEvident
  <2> SUFFICES ASSUME NEW i \in 1 .. Len(ticks) - 1,
                      NEW t \in Forgeries(ticks[i]), t # ticks[i],
                      verify_all([ticks EXCEPT ![i] = t])
               PROVE  FALSE
    BY DEF TamperEvident
  <2> DEFINE s == [ticks EXCEPT ![i] = t]
  <2>1. /\ Len(ticks) \in Nat /\ DOMAIN ticks = 1 .. Len(ticks)
        /\ i \in DOMAIN ticks /\ i + 1 \in DOMAIN ticks
        /\ ticks \in Seq(TickType) /\ ticks[i] \in TickType
    BY <1>1 DEF IndInv, TypeOK
  <2>2. Len(s) = Len(ticks) /\ s[i] = t /\ s[i + 1] = ticks[i + 1]
    BY <2>1
  <2>3. ticks[i + 1].prev_hash = Hash(ticks[i])
    BY <1>1, <2>1 DEF IndInv, StreamVerifies, verify_all, verify_chain
  <2>4. s[i + 1].prev_hash = Hash(t)
    <3>1. i + 1 \in 2 .. Len(s) /\ (i + 1) - 1 = i
      BY <2>1, <2>2
    <3>2. QED  BY <2>2, <3>1 DEF verify_all, verify_chain
  <2>5. Hash(t) = Hash(ticks[i])
    BY <2>2, <2>3, <2>4
  <2>6. t.time = ticks[i].time /\ t.epoch_hash = ticks[i].epoch_hash
    BY <2>5 DEF Hash
  <2>7. t = ticks[i]
    BY <2>1, <2>6 DEF Forgeries, TickType
  <2>8. QED  BY <2>7
<1>2. QED  BY <1>1, IndInvHolds, PTL

(* Seen from outside, the stream is a clock whose numbered readings only   *)
(* ever increase.                                                          *)
THEOREM IsSurfaceClock == Spec => ImplementsSurfaceClock
<1>1. Init => Surface!Init
  BY LatestIsLast DEF Init, Surface!Init, genesis
<1>2. ASSUME IndInv, [Next]_ticks
      PROVE  [Surface!Advance]_<<latest.epoch, latest.time>>
  <2>1. CASE UNCHANGED ticks
    BY <2>1 DEF latest
  <2>2. ASSUME NEW t \in Times, NEW d \in Digest, emit(t, d) PROVE Surface!Advance
    <3> DEFINE n == Len(ticks)
               new == NewTick(t, d)
    <3>1. n <= MaxTicks /\ ticks' = Append(ticks, new)
      BY <2>2 DEF emit
    <3>2. /\ n \in Nat \ {0} /\ n \in DOMAIN ticks
          /\ latest = ticks[n] /\ latest.time \in Nat
          /\ new.epoch = n
          /\ new.time \in Nat /\ new.time > latest.time
      BY <1>2, <3>1, NewTickFacts
    <3>3. latest' = new
      BY <1>2, <3>1, <3>2 DEF latest, Last, IndInv, TypeOK
    <3>4. latest.epoch = n - 1
      BY <1>2, <3>2 DEF IndInv, TypeOK
    <3>5. QED  BY <3>2, <3>3, <3>4 DEF Surface!Advance
  <2>3. QED  BY <1>2, <2>1, <2>2 DEF Next
<1>3. QED  BY <1>1, <1>2, IndInvHolds, PTL DEF Spec, Surface!Spec, ImplementsSurfaceClock
=============================================================================
