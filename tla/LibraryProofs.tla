--------------------------- MODULE LibraryProofs ----------------------------
(***************************************************************************)
(* What holds of the library parts of rtfsn-core that share no state, for  *)
(* any quorum, timeout, capacity, clock readings, sequence of round trips, *)
(* reports, nodes and beacons.                                             *)
(***************************************************************************)
EXTENDS EpochManager, Storage, Ntp, TwistHistory, Samr, TemporalMirror, Routing,
        Marzullo, Geoid, SumProofs, SequenceTheorems, FiniteSetTheorems,
        WellFoundedInduction, TLAPS

-----------------------------------------------------------------------------
(* The epoch manager.  Within the Measure phase the clock shows no more    *)
(* time than really passed, unless it was set back; afterwards the phase   *)
(* has lasted.  What the manager counts are the beacons of this epoch.     *)
CauseInv ==
    /\ received = reported
    /\ phase # "Measure" => measured > Timeout
    /\ phase = "Measure" => elapsed <= measured
    /\ phase = "Measure" /\ elapsed < 0 => measured > Timeout

LEMMA EpochInductive ==
    ASSUME EpochTypeOK, CauseInv, [EpochNext]_epochVars
    PROVE  EpochTypeOK' /\ CauseInv'
<1> USE EpochManagerAssumption
<1>1. CASE EndMeasure
  BY <1>1 DEF EndMeasure, Enter, TimedOut, EpochTypeOK, CauseInv
<1>2. CASE EndSolve
  BY <1>2 DEF EndSolve, Enter, EpochTypeOK, CauseInv
<1>3. CASE EndPublish
  <2>1. (epoch + 1) % EpochCycle \in 0 .. EpochCycle - 1
    BY DEF EpochTypeOK
  <2>2. QED  BY <1>3, <2>1 DEF EndPublish, Enter, EpochTypeOK, CauseInv
<1>4. ASSUME NEW p \in Peer, record_beacon(p) PROVE EpochTypeOK' /\ CauseInv'
  BY <1>4 DEF record_beacon, EpochTypeOK, CauseInv
<1>5. CASE TimePasses
  BY <1>5 DEF TimePasses, AtMost, EpochTypeOK, CauseInv
<1>6. CASE ClockSetBack
  BY <1>6 DEF ClockSetBack, EpochTypeOK, CauseInv
<1>7. CASE UNCHANGED epochVars
  BY <1>7 DEF epochVars, EpochTypeOK, CauseInv
<1>8. QED
  BY <1>1, <1>2, <1>3, <1>4, <1>5, <1>6, <1>7 DEF EpochNext, try_advance

(* EpochManager::try_advance ends an epoch only after its Measure phase    *)
(* outlasted the timeout (or the clock was set back in it), and with a     *)
(* quorum of beacons of this epoch unless Publish timed out.               *)
THEOREM EpochsEndForCause == EpochSpec => AdvancesForCause
<1> DEFINE ForCause ==
      epoch' # epoch =>
          /\ measured > Timeout
          /\ elapsed \in 0 .. Timeout => Cardinality(reported) >= Quorum
<1>1. EpochInit => EpochTypeOK /\ CauseInv
  BY EpochManagerAssumption DEF EpochInit, EpochTypeOK, CauseInv
<1>2. EpochTypeOK /\ CauseInv /\ [EpochNext]_epochVars => EpochTypeOK' /\ CauseInv'
  BY EpochInductive
<1>3. EpochTypeOK /\ CauseInv /\ [EpochNext]_epochVars => [ForCause]_epochVars
  <2> SUFFICES ASSUME EpochTypeOK, CauseInv, EpochNext, epoch' # epoch
               PROVE  /\ measured > Timeout
                      /\ elapsed \in 0 .. Timeout => Cardinality(reported) >= Quorum
    BY DEF epochVars
  <2>1. EndPublish
    BY DEF EpochNext, try_advance, EndMeasure, EndSolve, record_beacon, TimePasses,
       ClockSetBack
  <2>2. measured > Timeout /\ received = reported
    BY <2>1 DEF EndPublish, CauseInv
  <2>3. elapsed \in 0 .. Timeout => Cardinality(received) >= Quorum
    BY <2>1, EpochManagerAssumption DEF EndPublish, MayEndEpoch, TimedOut
  <2>4. QED  BY <2>2, <2>3
<1>4. QED  BY <1>1, <1>2, <1>3, PTL DEF EpochSpec, AdvancesForCause

-----------------------------------------------------------------------------
(* The store of a DHT layer.                                               *)

(* evict_oldest finds a value in a store that has one.                     *)
LEMMA SomeOldest ==
    ASSUME StorageTypeOK, DOMAIN store # {}
    PROVE  Oldest # {}
<1> DEFINE stamps == {store[k].timestamp : k \in DOMAIN store}
<1>1. stamps \in SUBSET Nat /\ stamps # {}
  BY StorageAssumption DEF StorageTypeOK, StoredValue
<1>2. PICK t \in stamps : \A u \in stamps : t <= u
  BY <1>1, LeastExists
<1>3. PICK k \in DOMAIN store : t = store[k].timestamp
  OBVIOUS
<1>4. k \in Oldest
  BY <1>2, <1>3 DEF Oldest
<1>5. QED  BY <1>4

Limit == IF MaxEntries = 0 THEN 1 ELSE MaxEntries

LEMMA StorageInductive ==
    ASSUME StorageTypeOK, StorageBounded, [StorageNext]_storageVars
    PROVE  StorageTypeOK' /\ StorageBounded'
<1> USE StorageAssumption
<1>1. /\ IsFiniteSet(DOMAIN store) /\ Cardinality(DOMAIN store) \in Nat
      /\ Cardinality(DOMAIN store) <= Limit
  BY FS_Subset, FS_CardinalityType DEF StorageTypeOK, StorageBounded, Limit
<1>2. ASSUME NEW S \in SUBSET DOMAIN store, store' = Restrict(store, S), now' = now
      PROVE  StorageTypeOK' /\ StorageBounded'
  <2>1. DOMAIN store' = S /\ \A k \in S : store'[k] = store[k]
    BY <1>2 DEF Restrict
  <2>2. Cardinality(S) <= Cardinality(DOMAIN store) /\ Cardinality(S) \in Nat
    BY <1>1, FS_Subset, FS_CardinalityType
  <2>3. QED  BY <1>1, <1>2, <2>1, <2>2 DEF StorageTypeOK, StorageBounded, Limit
<1>3. ASSUME NEW k \in Key, NEW v \in StoredValue, put(k, v)
      PROVE  StorageTypeOK' /\ StorageBounded'
  <2>1. PICK gone \in IF MustEvict(k) /\ Oldest # {} THEN {{o} : o \in Oldest} ELSE {{}} :
           store' = [l \in (DOMAIN store \ gone) \cup {k} |->
                        IF l = k THEN v ELSE store[l]]
    BY <1>3 DEF put
  <2>2. now' = now
    BY <1>3 DEF put
  <2>3. DOMAIN store' = (DOMAIN store \ gone) \cup {k}
    BY <2>1
  <2>4. StorageTypeOK'
    <3>1. \A l \in DOMAIN store' : store'[l] \in StoredValue
      BY <2>1, <2>3 DEF StorageTypeOK
    <3>2. QED  BY <2>2, <2>3, <3>1 DEF StorageTypeOK
  <2>5. CASE k \in DOMAIN store
    <3>1. gone = {}
      BY <2>1, <2>5 DEF MustEvict
    <3>2. DOMAIN store' = DOMAIN store
      BY <2>3, <2>5, <3>1
    <3>3. QED  BY <2>4, <3>2 DEF StorageBounded
  <2>6. CASE k \notin DOMAIN store /\ gone = {}
    <3>1. DOMAIN store' = DOMAIN store \cup {k}
      BY <2>3, <2>6
    <3>2. Cardinality(DOMAIN store') = Cardinality(DOMAIN store) + 1
      BY <1>1, <2>6, <3>1, FS_AddElement
    <3>3. CASE Cardinality(DOMAIN store) < MaxEntries
      BY <1>1, <2>4, <3>2, <3>3 DEF StorageBounded
    <3>4. CASE ~ (Cardinality(DOMAIN store) < MaxEntries)
      <4>1. MustEvict(k)
        BY <1>1, <2>6, <3>4 DEF MustEvict
      <4>2. Oldest = {}
        BY <2>1, <2>6, <4>1
      <4>3. Cardinality(DOMAIN store) = 0
        BY <1>1, <4>2, SomeOldest, FS_EmptySet
      <4>4. QED  BY <2>4, <3>2, <4>3 DEF StorageBounded
    <3>5. QED  BY <3>3, <3>4
  <2>7. CASE k \notin DOMAIN store /\ gone # {}
    <3>1. PICK o \in DOMAIN store : gone = {o}
      BY <2>1, <2>7 DEF Oldest
    <3>2. /\ IsFiniteSet(DOMAIN store \ {o})
          /\ Cardinality(DOMAIN store \ {o}) = Cardinality(DOMAIN store) - 1
      BY <1>1, FS_RemoveElement
    <3>3. Cardinality((DOMAIN store \ {o}) \cup {k}) = Cardinality(DOMAIN store \ {o}) + 1
      BY <2>7, <3>2, FS_AddElement
    <3>4. Cardinality(DOMAIN store') = Cardinality(DOMAIN store)
      BY <1>1, <2>3, <3>1, <3>2, <3>3
    <3>5. QED  BY <2>4, <3>4 DEF StorageBounded
  <2>8. QED  BY <2>5, <2>6, <2>7
<1>4. ASSUME NEW k \in Key, remove_key(k) PROVE StorageTypeOK' /\ StorageBounded'
  BY <1>2, <1>4 DEF remove_key
<1>5. CASE expire
  BY <1>2, <1>5 DEF expire
<1>6. CASE EpochPasses
  BY <1>6 DEF EpochPasses, StorageTypeOK, StorageBounded
<1>7. CASE UNCHANGED storageVars
  BY <1>7 DEF storageVars, StorageTypeOK, StorageBounded
<1>8. QED  BY <1>3, <1>4, <1>5, <1>6, <1>7 DEF StorageNext

(* LayerStorage::put never lets the store grow beyond max_entries (one, if *)
(* that is zero): when it is full a new key replaces one of the oldest     *)
(* values, of which there always is one.                                   *)
THEOREM StoreStaysBounded == StorageSpec => []StorageBounded
<1>1. StorageInit => StorageTypeOK /\ StorageBounded
  BY StorageAssumption, FS_EmptySet DEF StorageInit, StorageTypeOK, StorageBounded
<1>2. StorageTypeOK /\ StorageBounded /\ [StorageNext]_storageVars
         => StorageTypeOK' /\ StorageBounded'
  BY StorageInductive
<1>3. QED  BY <1>1, <1>2, PTL DEF StorageSpec

-----------------------------------------------------------------------------
(* The NTP codec.  Quotients and remainders by a symbolic divisor.         *)
LEMMA Monotone ==
    ASSUME NEW k \in Nat, NEW x \in Int, NEW y \in Int, x <= y
    PROVE  k * x <= k * y
<1>1. PICK z \in Nat : y = x + z
  BY SMT
<1>2. k * y = k * x + k * z /\ k * z \in Nat
  BY <1>1
<1>3. QED  BY <1>2

LEMMA Division ==
    ASSUME NEW x \in Nat, NEW d \in Nat \ {0}
    PROVE  /\ x \div d \in Nat /\ x % d \in 0 .. d - 1
           /\ x = d * (x \div d) + (x % d)
BY SMT

LEMMA UniqueQuotient ==
    ASSUME NEW d \in Nat \ {0}, NEW q \in Int, NEW p \in Int,
           NEW r \in 0 .. d - 1, NEW s \in 0 .. d - 1, d * q + r = d * p + s
    PROVE  q = p /\ r = s
<1>1. ASSUME NEW a \in Int, NEW b \in Int, a < b PROVE d * a + d <= d * b
  <2>1. a + 1 <= b
    BY <1>1
  <2>2. d * (a + 1) <= d * b
    BY <2>1, Monotone
  <2>3. d * (a + 1) = d * a + d
    OBVIOUS
  <2>4. QED  BY <2>2, <2>3
<1>2. d * q \in Int /\ d * p \in Int
  OBVIOUS
<1>3. ~ (q < p)
  BY <1>1, <1>2
<1>4. ~ (p < q)
  BY <1>1, <1>2
<1>5. q = p
  BY <1>3, <1>4
<1>6. QED  BY <1>2, <1>5

(* to_ntp rounds the nanoseconds down to fractions, from_ntp rounds the    *)
(* fractions to the nearest nanosecond: nothing is lost.                   *)
LEMMA FractionExact ==
    ASSUME NEW b \in 0 .. NsPerSecond - 1
    PROVE  ((((b * Fractions) \div NsPerSecond) * NsPerSecond) + (Fractions \div 2))
              \div Fractions = b
<1> DEFINE S == NsPerSecond
           F == Fractions
           x == (b * F) \div S
           h == F \div 2
           y == x * S + h
<1>1. S \in Nat \ {0} /\ F \in Nat \ {0} /\ F % 2 = 0 /\ F >= 2 * S /\ b \in Nat
  BY NtpAssumption
<1>2. h \in Nat /\ F = 2 * h
  BY <1>1
<1>3. b * F \in Nat
  BY <1>1
<1>4. x \in Nat /\ (b * F) % S \in 0 .. S - 1 /\ b * F = S * x + ((b * F) % S)
  BY <1>1, <1>3, Division
<1>5. S * x = x * S /\ b * F = F * b
  BY <1>1, <1>4
<1> HIDE DEF S, F, x, h
<1>a. F * b \in Nat /\ x * S \in Nat /\ F * b < x * S + S /\ x * S <= F * b
  BY <1>1, <1>3, <1>4, <1>5
<1>6. y \in Nat /\ y >= F * b /\ y < F * b + F
  BY <1>1, <1>2, <1>a
<1>7. y - F * b \in 0 .. F - 1 /\ y = F * b + (y - F * b)
  BY <1>1, <1>6, <1>a
<1>8. y \div F \in Nat /\ y % F \in 0 .. F - 1 /\ y = F * (y \div F) + (y % F)
  BY <1>1, <1>6, Division
<1> HIDE DEF y
<1>9. y \div F = b
  <2>1. PICK q \in Int, r \in 0 .. F - 1 : q = y \div F /\ y = F * q + r
    BY <1>8
  <2>2. PICK t \in 0 .. F - 1 : y = F * b + t
    BY <1>7
  <2>3. F * q + r = F * b + t
    BY <2>1, <2>2
  <2>4. q = b
    BY <1>1, <2>1, <2>2, <2>3, UniqueQuotient
  <2>5. QED  BY <2>1, <2>4
<1>10. QED  BY <1>9 DEF S, F, x, h, y

(* Of the instants with the given remainder in the era before, in that of  *)
(* the client and in the era after, the server's is the only nearest one.  *)
LEMMA EraFound ==
    ASSUME NEW t \in Nat, NEW near \in Nat, 2 * Distance(t, near) < EraSeconds
    PROVE  ResolveEra(t % EraSeconds, near) = t
<1> DEFINE E == EraSeconds
           secs == t % E
           era == near \div E
           tried == {e * E + secs : e \in {SaturatingSub(era, 1), era, era + 1}}
           nearest == {s \in tried : \A u \in tried : Distance(s, near) <= Distance(u, near)}
<1>1. E \in Nat \ {0}
  BY NtpAssumption
<1>2. /\ t \div E \in Nat /\ secs \in 0 .. E - 1 /\ t = E * (t \div E) + secs
      /\ era \in Nat /\ near % E \in 0 .. E - 1 /\ near = E * era + (near % E)
  BY <1>1, Division
<1>3. ASSUME NEW a \in Int, NEW b \in Int, a < b PROVE E * a + E <= E * b
  <2>1. a + 1 <= b
    BY <1>3
  <2>2. E * (a + 1) <= E * b
    BY <1>1, <2>1, Monotone
  <2>3. E * (a + 1) = E * a + E
    BY <1>1
  <2>4. QED  BY <2>2, <2>3
<1>4. \A u \in Nat : Distance(u, near) = IF u < near THEN near - u ELSE u - near
  BY DEF Distance
<1>5. t \in tried
  <2>1. PICK q \in Nat : q = t \div E
    BY <1>2
  <2>2. t = E * q + secs /\ E * q \in Nat /\ E * era \in Nat
    BY <1>1, <1>2, <2>1
  <2>3. 2 * (IF t < near THEN near - t ELSE t - near) < E
    BY <1>4
  <2>4. E * (era + 1) = E * era + E /\ E * (q + 1) = E * q + E
    BY <1>1, <1>2, <2>1
  <2> HIDE DEF E, secs, era
  <2>5. ~ (era + 1 < q)
    <3>1. SUFFICES ASSUME era + 1 < q PROVE FALSE
      OBVIOUS
    <3>2. E * (era + 1) + E <= E * q
      BY <1>2, <1>3, <2>1, <3>1
    <3>3. QED  BY <1>1, <1>2, <2>2, <2>3, <2>4, <3>2
  <2>6. ~ (q + 1 < era)
    <3>1. SUFFICES ASSUME q + 1 < era PROVE FALSE
      OBVIOUS
    <3>2. E * (q + 1) + E <= E * era
      BY <1>2, <1>3, <2>1, <3>1
    <3>3. QED  BY <1>1, <1>2, <2>2, <2>3, <2>4, <3>2
  <2>7. q \in {SaturatingSub(era, 1), era, era + 1}
    <3>1. SaturatingSub(era, 1) = IF era < 1 THEN 0 ELSE era - 1
      BY DEF SaturatingSub
    <3>2. PICK k \in Nat : k = era
      BY <1>2
    <3>3. q = k - 1 \/ q = k \/ q = k + 1
      BY <2>1, <2>5, <2>6, <3>2
    <3>4. q = k - 1 => ~ (k < 1)
      BY <2>1, <3>2
    <3>5. QED  BY <3>1, <3>2, <3>3, <3>4
  <2>8. t = q * E + secs
    BY <1>1, <2>2
  <2>9. QED  BY <2>7, <2>8
<1>6. ASSUME NEW u \in tried, u # t
      PROVE  u \in Nat /\ Distance(t, near) < Distance(u, near)
  <2>1. PICK e \in Nat : u = E * e + secs
    <3>1. PICK e \in {SaturatingSub(era, 1), era, era + 1} : u = e * E + secs
      OBVIOUS
    <3>2. e \in Nat
      BY <1>2, <3>1 DEF SaturatingSub
    <3>3. e * E = E * e
      BY <1>1, <3>2
    <3>4. QED  BY <3>1, <3>2, <3>3
  <2>2. PICK q \in Nat : t = E * q + secs
    BY <1>2
  <2>3. E * e \in Nat /\ E * q \in Nat /\ u \in Nat
    BY <1>1, <1>2, <2>1, <2>2
  <2>4. 2 * (IF t < near THEN near - t ELSE t - near) < E
    BY <1>4
  <2>5. E * e + E <= E * q \/ E * q + E <= E * e
    BY <1>3, <1>6, <2>1, <2>2
  <2> HIDE DEF E, secs
  <2>6. u + E <= t \/ t + E <= u
    BY <1>1, <1>2, <2>1, <2>2, <2>3, <2>5
  <2>7. QED  BY <1>1, <1>4, <2>3, <2>4, <2>6
<1>7. nearest = {t}
  <2>1. \A u \in tried : u \in Nat
    BY <1>5, <1>6
  <2> HIDE DEF tried
  <2>2. \A u \in tried : Distance(u, near) \in Int
    <3>1. \A u \in Nat : Distance(u, near) \in Int
      BY DEF Distance
    <3>2. QED  BY <2>1, <3>1
  <2>3. \A u \in tried : u # t =>
           Distance(t, near) <= Distance(u, near) /\ ~ (Distance(u, near) <= Distance(t, near))
    BY <1>5, <1>6, <2>2
  <2>4. Distance(t, near) <= Distance(t, near)
    BY <1>5, <2>2
  <2>5. QED  BY <1>5, <2>3, <2>4
<1>8. ResolveEra(t % EraSeconds, near) = Min(nearest)
  BY DEF ResolveEra
<1>9. Min({t}) = t
  BY DEF Min
<1>10. QED  BY <1>7, <1>8, <1>9

(* from_ntp undoes to_ntp for a client whose clock is near enough.         *)
LEMMA RoundTripExact ==
    ASSUME NEW ns \in Nat, NEW near \in Nat,
           2 * Distance(ns \div NsPerSecond, near \div NsPerSecond) < EraSeconds
    PROVE  from_ntp(to_ntp(ns), near) = ns
<1> DEFINE S == NsPerSecond
           a == ns \div S
           b == ns % S
           n == near \div S
<1>1. S \in Nat \ {0} /\ UnixToNtp \in Nat
  BY NtpAssumption
<1>2. /\ a \in Nat /\ b \in 0 .. S - 1 /\ ns = S * a + b /\ n \in Nat
  BY <1>1, Division
<1>3. 2 * Distance(a + UnixToNtp, n + UnixToNtp) < EraSeconds
  BY <1>1, <1>2 DEF Distance
<1>4. ResolveEra((a + UnixToNtp) % EraSeconds, n + UnixToNtp) = a + UnixToNtp
  BY <1>1, <1>2, <1>3, EraFound
<1>5. ((((b * Fractions) \div S) * S) + (Fractions \div 2)) \div Fractions = b
  BY <1>2, FractionExact
<1>6. SaturatingSub(a + UnixToNtp, UnixToNtp) = a
  BY <1>1, <1>2 DEF SaturatingSub
<1>7. from_ntp(to_ntp(ns), near) = a * S + b
  BY <1>4, <1>5, <1>6 DEF from_ntp, to_ntp
<1>8. QED  BY <1>1, <1>2, <1>7

(* A client whose clock is less than half an era from the server's reads   *)
(* the server's time to the nanosecond (parse_reply, from_ntp), on         *)
(* whichever side of an era's boundary either clock is, for every length   *)
(* of era and every resolution of at least two fractions a nanosecond.     *)
THEOREM EraAlwaysResolved == NtpSpec => []EraResolved
<1> DEFINE ClocksOK == serverNs \in Nat /\ nearNs \in Nat
<1>1. NtpInit => ClocksOK
  BY DEF NtpInit
<1>2. ClocksOK /\ [NtpNext]_ntpVars => ClocksOK'
  BY DEF NtpNext, ntpVars
<1>3. ClocksOK => EraResolved
  <2> SUFFICES ASSUME ClocksOK,
                      2 * Distance(serverNs \div NsPerSecond, nearNs \div NsPerSecond)
                          < EraSeconds
               PROVE  parse_reply(ServerReply("c1"), "c1", nearNs) =
                         IF to_ntp(serverNs) = Zero THEN "ZeroTimestamp"
                         ELSE <<serverNs, serverNs>>
    BY DEF EraResolved
  <2> DEFINE r == ServerReply("c1")
             stamp == to_ntp(serverNs)
  <2>1. from_ntp(stamp, nearNs) = serverNs
    BY RoundTripExact
  <2>2. /\ r.mode = 4 /\ r.origin = "c1" /\ r.stratum = 2 /\ r.leap = 0
        /\ r.receive = stamp /\ r.transmit = stamp
    BY DEF ServerReply
  <2> HIDE DEF r, stamp
  <2>3. CASE stamp = Zero
    <3>1. parse_reply(r, "c1", nearNs) = "ZeroTimestamp"
      BY <2>2, <2>3 DEF parse_reply
    <3>2. QED  BY <2>3, <3>1 DEF r, stamp
  <2>4. CASE stamp # Zero
    <3>1. parse_reply(r, "c1", nearNs) = <<from_ntp(stamp, nearNs), from_ntp(stamp, nearNs)>>
      BY <2>2, <2>4 DEF parse_reply
    <3>2. QED  BY <2>1, <2>4, <3>1 DEF r, stamp
  <2>5. QED  BY <2>3, <2>4
<1>4. QED  BY <1>1, <1>2, <1>3, PTL DEF NtpSpec

-----------------------------------------------------------------------------
(* The history of a peer's round trips, and what is told of it.            *)

LEMMA IndicesFinite ==
    ASSUME NEW n \in Nat, NEW S, S \subseteq 1 .. n
    PROVE  IsFiniteSet(S) /\ Cardinality(S) \in Nat /\ Cardinality(S) <= n
<1>1. IsFiniteSet(1 .. n) /\ Cardinality(1 .. n) = n
  BY FS_Interval
<1>2. IsFiniteSet(S) /\ Cardinality(S) <= Cardinality(1 .. n)
  BY <1>1, FS_Subset
<1>3. Cardinality(S) \in Nat
  BY <1>2, FS_CardinalityType
<1>4. QED  BY <1>1, <1>2, <1>3

(* There is a k-th smallest of n round trips, for every k up to n.         *)
LEMMA KthSmallest ==
    ASSUME NEW n \in Nat, NEW r \in [1 .. n -> Nat], NEW k \in 1 .. n
    PROVE  \E j \in 1 .. n : /\ Cardinality({i \in 1 .. n : r[i] < r[j]}) < k
                             /\ k <= Cardinality({i \in 1 .. n : r[i] <= r[j]})
<1> DEFINE NotAbove(v) == {i \in 1 .. n : r[i] <= v}
           Below(v) == {i \in 1 .. n : r[i] < v}
           W == {v \in Nat : (\E j \in 1 .. n : v = r[j]) /\ k <= Cardinality(NotAbove(v))}
<1>1. IsFiniteSet(1 .. n) /\ Cardinality(1 .. n) = n
  BY FS_Interval
<1>2. ASSUME NEW S \in SUBSET (1 .. n), S # {}
      PROVE  \E j \in S : \A i \in S : r[i] <= r[j]
  <2> DEFINE V == {r[i] : i \in S}
  <2>1. IsFiniteSet(V)
    <3>1. IsFiniteSet(S)
      BY <1>1, FS_Subset
    <3>2. QED  BY <3>1, ValuesFinite
  <2>2. V \subseteq Int /\ V # {}
    <3>1. \A i \in S : r[i] \in Int
      OBVIOUS
    <3>2. QED  BY <1>2, <3>1
  <2>3. PICK m \in V : \A y \in V : m >= y
    BY <2>1, <2>2, GreatestExists
  <2>4. PICK j \in S : m = r[j]
    OBVIOUS
  <2>5. ASSUME NEW i \in S PROVE r[i] <= r[j]
    <3>1. r[i] \in V /\ r[i] \in Nat /\ r[j] \in Nat
      OBVIOUS
    <3>2. QED  BY <2>3, <2>4, <3>1
  <2>6. QED  BY <2>5
<1>3. W # {}
  <2>1. PICK j \in 1 .. n : \A i \in 1 .. n : r[i] <= r[j]
    <3>1. 1 .. n # {}
      OBVIOUS
    <3>2. QED  BY <1>2, <3>1
  <2>2. NotAbove(r[j]) = 1 .. n
    BY <2>1
  <2> HIDE DEF NotAbove
  <2>3. k <= Cardinality(NotAbove(r[j])) /\ r[j] \in Nat
    <3>1. Cardinality(NotAbove(r[j])) = n
      BY <1>1, <2>2
    <3>2. QED  BY <3>1
  <2>4. QED  BY <2>3
<1>4. PICK v \in W : \A y \in W : v <= y
  <2>1. W \in SUBSET Nat
    OBVIOUS
  <2> HIDE DEF W
  <2>2. QED  BY <1>3, <2>1, LeastExists
<1>5. PICK j \in 1 .. n : v = r[j] /\ v \in Nat /\ k <= Cardinality(NotAbove(v))
  <2> HIDE DEF NotAbove
  <2>1. QED  OBVIOUS
<1>6. Cardinality(Below(v)) < k
  <2>1. CASE Below(v) = {}
    <3>1. Cardinality(Below(v)) = 0
      BY <2>1, FS_EmptySet
    <3> HIDE DEF Below
    <3>2. QED  BY <3>1
  <2>2. CASE Below(v) # {}
    <3>1. PICK u \in Below(v) : \A i \in Below(v) : r[i] <= r[u]
      BY <1>2, <2>2
    <3>2. u \in 1 .. n /\ r[u] \in Nat /\ r[u] < v
      OBVIOUS
    <3>3. Below(v) = NotAbove(r[u])
      BY <1>5, <3>1, <3>2
    <3>4. Cardinality(NotAbove(r[u])) \in Nat
      BY IndicesFinite
    <3> HIDE DEF NotAbove, Below
    <3>5. r[u] \notin W
      <4> HIDE DEF W
      <4>1. QED  BY <1>4, <1>5, <3>2
    <3>6. ~ (k <= Cardinality(NotAbove(r[u])))
      BY <3>2, <3>5
    <3>7. QED  BY <3>3, <3>4, <3>6
  <2>3. QED  BY <2>1, <2>2
<1>7. QED  BY <1>5, <1>6

LEMMA OrderStatistic ==
    ASSUME NEW n \in Nat, NEW h, DOMAIN h = 1 .. n, \A i \in 1 .. n : h[i].rtt \in Nat,
           NEW k \in 1 .. n
    PROVE  /\ sorted(h, k) \in Nat
           /\ Cardinality({i \in 1 .. n : h[i].rtt < sorted(h, k)}) < k
           /\ k <= Cardinality({i \in 1 .. n : h[i].rtt <= sorted(h, k)})
<1> DEFINE r == [i \in 1 .. n |-> h[i].rtt]
           V == {h[i].rtt : i \in 1 .. n}
           Fits(x) == /\ Cardinality({i \in 1 .. n : h[i].rtt < x}) < k
                      /\ k <= Cardinality({i \in 1 .. n : h[i].rtt <= x})
<1>1. PICK j \in 1 .. n : /\ Cardinality({i \in 1 .. n : r[i] < r[j]}) < k
                          /\ k <= Cardinality({i \in 1 .. n : r[i] <= r[j]})
  <2>1. r \in [1 .. n -> Nat]
    OBVIOUS
  <2> HIDE DEF r
  <2>2. QED  BY <2>1, KthSmallest
<1>2. PICK x : x = h[j].rtt
  OBVIOUS
<1>3. /\ {i \in 1 .. n : r[i] < r[j]} = {i \in 1 .. n : h[i].rtt < x}
      /\ {i \in 1 .. n : r[i] <= r[j]} = {i \in 1 .. n : h[i].rtt <= x}
  BY <1>2
<1>4. x \in V /\ Fits(x)
  BY <1>1, <1>2, <1>3
<1>5. sorted(h, k) = CHOOSE y \in V : Fits(y)
  BY DEF sorted
<1>6. \A y \in V : y \in Nat
  OBVIOUS
<1> HIDE DEF V, Fits
<1>7. sorted(h, k) \in V /\ Fits(sorted(h, k))
  BY <1>4, <1>5
<1>8. QED  BY <1>6, <1>7 DEF Fits

LEMMA OrderedStatistics ==
    ASSUME NEW n \in Nat, NEW h, DOMAIN h = 1 .. n, \A i \in 1 .. n : h[i].rtt \in Nat,
           NEW k \in 1 .. n, NEW l \in 1 .. n, k <= l
    PROVE  sorted(h, k) <= sorted(h, l)
<1>1. PICK v \in Nat : v = sorted(h, k) /\ Cardinality({i \in 1 .. n : h[i].rtt < v}) < k
  BY OrderStatistic
<1>2. PICK w \in Nat : w = sorted(h, l) /\ l <= Cardinality({i \in 1 .. n : h[i].rtt <= w})
  <2>1. /\ sorted(h, l) \in Nat
        /\ l <= Cardinality({i \in 1 .. n : h[i].rtt <= sorted(h, l)})
    BY OrderStatistic, Zenon
  <2>2. QED  BY <2>1, Zenon
<1>3. ASSUME w < v PROVE FALSE
  <2> DEFINE A == {i \in 1 .. n : h[i].rtt <= w}
             B == {i \in 1 .. n : h[i].rtt < v}
  <2>1. A \subseteq B
    BY <1>3
  <2>2. /\ IsFiniteSet(B) /\ Cardinality(B) \in Nat /\ Cardinality(A) \in Nat
    BY IndicesFinite
  <2>3. Cardinality(A) <= Cardinality(B)
    BY <2>1, <2>2, FS_Subset
  <2>4. QED  BY <1>1, <1>2, <2>2, <2>3
<1>4. QED  BY <1>1, <1>2, <1>3

(* At least half of the round trips reach the median.                      *)
LEMMA MedianReached ==
    ASSUME NEW n \in Nat, n > 0, NEW h, DOMAIN h = 1 .. n,
           \A i \in 1 .. n : h[i].rtt \in Nat
    PROVE  2 * Cardinality({i \in 1 .. n : h[i].rtt >= sorted(h, (n \div 2) + 1)}) >= n
<1>1. PICK k \in 1 .. n : k = (n \div 2) + 1
  OBVIOUS
<1>2. PICK v \in Nat : v = sorted(h, k) /\ Cardinality({i \in 1 .. n : h[i].rtt < v}) < k
  BY OrderStatistic
<1> DEFINE A == {i \in 1 .. n : h[i].rtt >= v}
           B == {i \in 1 .. n : h[i].rtt < v}
<1>3. A = (1 .. n) \ B /\ B \subseteq 1 .. n
  OBVIOUS
<1>4. IsFiniteSet(1 .. n) /\ Cardinality(1 .. n) = n
  BY FS_Interval
<1>5. Cardinality(A) \in Nat /\ Cardinality(B) \in Nat
  BY IndicesFinite
<1>6. Cardinality(A) = n - Cardinality(B)
  <2>1. (1 .. n) \cap B = B /\ Cardinality((1 .. n) \ B) = n - Cardinality((1 .. n) \cap B)
    BY <1>3, <1>4, FS_Difference
  <2>2. QED  BY <1>3, <2>1
<1>7. 2 * Cardinality(A) >= n
  <2>1. Cardinality(B) < k
    BY <1>2
  <2> HIDE DEF A, B
  <2>2. QED  BY <1>1, <1>5, <1>6, <2>1
<1>8. QED  BY <1>1, <1>2, <1>7

LEMMA QuotSign ==
    ASSUME NEW a \in Int, NEW b \in Int, b > 0
    PROVE  /\ Quot(a, b) \in Int
           /\ a >= 0 => Quot(a, b) >= 0
           /\ a <= 0 => Quot(a, b) <= 0
<1>1. CASE a < 0
  <2>1. PICK c \in Nat : c = -a
    BY <1>1
  <2>2. c \div b \in Nat
    OBVIOUS
  <2>3. ~ ((a < 0) = (b < 0))
    BY <1>1
  <2>4. Quot(a, b) = -(c \div b)
    BY <1>1, <2>1, <2>3 DEF Quot
  <2>5. QED  BY <1>1, <2>2, <2>4
<1>2. CASE ~ (a < 0)
  <2>1. a \div b \in Nat
    BY <1>2
  <2>2. (a < 0) = (b < 0)
    BY <1>2
  <2>3. Quot(a, b) = a \div b
    BY <1>2, <2>2 DEF Quot
  <2>4. a <= 0 => a \div b = 0
    BY <1>2
  <2>5. QED  BY <2>1, <2>3, <2>4
<1>3. QED  BY <1>1, <1>2

(* The regression of round trips that never fall, over epochs that never   *)
(* fall, has no falling trend, and the other way round.                    *)
LEMMA TrendSign ==
    ASSUME NEW n \in Nat, NEW h, DOMAIN h = 1 .. n, Len(h) = n,
           \A i \in 1 .. n : h[i].rtt \in Nat /\ h[i].epoch \in Nat,
           \A i, j \in 1 .. n : i < j => h[i].epoch <= h[j].epoch
    PROVE  /\ (\A i, j \in 1 .. n : i < j => h[i].rtt <= h[j].rtt) => Trend(h) >= 0
           /\ (\A i, j \in 1 .. n : i < j => h[i].rtt >= h[j].rtt) => Trend(h) <= 0
<1> DEFINE X == [i \in 1 .. n |-> h[i].epoch]
           Y == [i \in 1 .. n |-> h[i].rtt]
           Z == [i \in 1 .. n |-> -h[i].rtt]
           XY == [i \in 1 .. n |-> h[i].epoch * h[i].rtt]
           XZ == [i \in 1 .. n |-> h[i].epoch * (-h[i].rtt)]
           XX == [i \in 1 .. n |-> h[i].epoch * h[i].epoch]
           S(f) == SumFunctionOnSet(f, 1 .. n)
           num == n * S(XY) - S(X) * S(Y)
           den == n * S(XX) - S(X) * S(X)
<1>1. Trend(h) = IF n < 2 \/ den = 0 THEN 0 ELSE Quot(num, den)
  BY DEF Trend, SumFunction
<1>2. \A i \in 1 .. n : /\ X[i] \in Int /\ XX[i] = X[i] * X[i]
                        /\ Y[i] \in Int /\ XY[i] = X[i] * Y[i]
                        /\ Z[i] \in Int /\ XZ[i] = X[i] * Z[i]
                        /\ Z[i] = -Y[i]
  OBVIOUS
<1>3. \A i \in 1 .. n : XZ[i] = -XY[i] /\ XY[i] \in Int /\ XX[i] \in Int
  <2>1. ASSUME NEW i \in 1 .. n PROVE XZ[i] = -XY[i] /\ XY[i] \in Int /\ XX[i] \in Int
    <3>1. PICK x \in Int, y \in Int : x = X[i] /\ y = Y[i]
      BY <1>2
    <3>2. XZ[i] = x * (-y) /\ XY[i] = x * y /\ XX[i] = x * x
      BY <1>2, <3>1
    <3>3. x * (-y) = -(x * y) /\ x * y \in Int /\ x * x \in Int
      OBVIOUS
    <3> HIDE DEF X, Y, Z, XY, XZ, XX
    <3>4. QED  BY <3>2, <3>3
  <2>2. QED  BY <2>1
<1>4. \A i, j \in 1 .. n : i < j => X[i] <= X[j]
  OBVIOUS
<1>5. (\A i, j \in 1 .. n : i < j => h[i].rtt <= h[j].rtt)
        => \A i, j \in 1 .. n : i < j => Y[i] <= Y[j]
  OBVIOUS
<1>6. (\A i, j \in 1 .. n : i < j => h[i].rtt >= h[j].rtt)
        => \A i, j \in 1 .. n : i < j => Z[i] <= Z[j]
  <2> SUFFICES ASSUME NEW i \in 1 .. n, NEW j \in 1 .. n, h[i].rtt >= h[j].rtt
               PROVE  Z[i] <= Z[j]
    OBVIOUS
  <2>1. h[i].rtt \in Nat /\ h[j].rtt \in Nat /\ Z[i] = -h[i].rtt /\ Z[j] = -h[j].rtt
    OBVIOUS
  <2> HIDE DEF Z
  <2>2. QED  BY <2>1
<1>7. IsFiniteSet(1 .. n)
  <2>1. 1 \in Int /\ n \in Int
    OBVIOUS
  <2>2. QED  BY <2>1, FS_Interval, Zenon
<1> HIDE DEF X, Y, Z, XY, XZ, XX
<1>8. S(X) \in Int /\ S(Y) \in Int /\ S(XY) \in Int /\ S(XX) \in Int
  BY <1>2, <1>3, <1>7, SumIsInt
<1>9. S(Z) = -S(Y) /\ S(XZ) = -S(XY)
  <2>1. S(Z) = -S(Y)
    BY <1>2, <1>7, SumNegated
  <2>2. S(XZ) = -S(XY)
    BY <1>3, <1>7, SumNegated
  <2>3. QED  BY <2>1, <2>2
<1>10. 0 <= den
  BY <1>2, <1>4, Chebyshev
<1>11. num \in Int /\ den \in Int
  BY <1>8
<1>12. ASSUME \A i, j \in 1 .. n : i < j => Y[i] <= Y[j] PROVE num >= 0
  BY <1>2, <1>4, <1>12, Chebyshev
<1>13. ASSUME \A i, j \in 1 .. n : i < j => Z[i] <= Z[j] PROVE num <= 0
  <2>1. 0 <= n * S(XZ) - S(X) * S(Z)
    BY <1>2, <1>4, <1>13, Chebyshev
  <2>2. PICK p \in Int, q \in Int, r \in Int : p = S(XY) /\ q = S(X) /\ r = S(Y)
    BY <1>8
  <2>3. n * (-p) - q * (-r) = -(n * p - q * r)
    OBVIOUS
  <2>4. 0 <= -(n * p - q * r)
    BY <1>9, <2>1, <2>2, <2>3
  <2>5. PICK d \in Int : d = n * p - q * r
    OBVIOUS
  <2>6. d <= 0
    BY <2>4, <2>5
  <2>7. QED  BY <2>2, <2>5, <2>6
<1> HIDE DEF num, den
<1>14. PICK t \in Int : t = Trend(h) /\ (num >= 0 => t >= 0) /\ (num <= 0 => t <= 0)
  <2>1. CASE n < 2 \/ den = 0
    BY <1>1, <2>1
  <2>2. CASE ~ (n < 2 \/ den = 0)
    <3>1. den > 0 /\ Trend(h) = Quot(num, den)
      BY <1>1, <1>10, <1>11, <2>2
    <3>2. QED  BY <1>11, <3>1, QuotSign
  <2>3. QED  BY <2>1, <2>2
<1>15. QED  BY <1>5, <1>6, <1>12, <1>13, <1>14

(* A history holds the newest of what was accepted.                        *)
Twist == [rtt : Nat, epoch : Nat, nth : Nat]
Newest(h, a) == Len(h) <= Len(a) /\ \A i \in 1 .. Len(h) : h[i] = a[i + (Len(a) - Len(h))]
InOrder(a, last) ==
    /\ \A i, j \in 1 .. Len(a) : i < j => a[i].epoch <= a[j].epoch
    /\ \A i \in 1 .. Len(a) : a[i].epoch <= last

LEMMA TwistFields ==
    ASSUME NEW a \in Seq(Twist)
    PROVE  \A i \in 1 .. Len(a) : a[i].rtt \in Nat /\ a[i].epoch \in Nat
<1>1. \A i \in 1 .. Len(a) : a[i] \in Twist
  OBVIOUS
<1>2. \A t \in Twist : t.rtt \in Nat /\ t.epoch \in Nat
  BY DEF Twist
<1>3. QED  BY <1>1, <1>2

LEMMA AppendNewest ==
    ASSUME NEW h \in Seq(Twist), NEW a \in Seq(Twist), Newest(h, a), NEW t \in Twist
    PROVE  /\ Append(h, t) \in Seq(Twist) /\ Append(a, t) \in Seq(Twist)
           /\ Newest(Append(h, t), Append(a, t))
           /\ Len(Append(h, t)) = Len(h) + 1 /\ Len(Append(a, t)) = Len(a) + 1
<1> DEFINE g == Append(h, t)
           b == Append(a, t)
<1>1. g \in Seq(Twist) /\ b \in Seq(Twist) /\ Len(g) = Len(h) + 1 /\ Len(b) = Len(a) + 1
  OBVIOUS
<1>2. /\ \A i \in 1 .. Len(h) : g[i] = h[i]
      /\ \A i \in 1 .. Len(a) : b[i] = a[i]
      /\ g[Len(h) + 1] = t /\ b[Len(a) + 1] = t
  OBVIOUS
<1>3. Len(h) \in Nat /\ Len(a) \in Nat
  OBVIOUS
<1> HIDE DEF g, b
<1>4. ASSUME NEW i \in 1 .. Len(g) PROVE g[i] = b[i + (Len(b) - Len(g))]
  <2>1. Len(b) - Len(g) = Len(a) - Len(h)
    BY <1>1, <1>3
  <2>2. CASE i = Len(h) + 1
    BY <1>1, <1>2, <1>3, <2>1, <2>2
  <2>3. CASE i # Len(h) + 1
    <3>1. i \in 1 .. Len(h) /\ i + (Len(a) - Len(h)) \in 1 .. Len(a)
      BY <1>1, <1>3, <2>3 DEF Newest
    <3>2. QED  BY <1>2, <2>1, <3>1 DEF Newest
  <2>4. QED  BY <2>2, <2>3
<1>5. Newest(g, b)
  BY <1>1, <1>3, <1>4 DEF Newest
<1>6. QED  BY <1>1, <1>5 DEF g, b

LEMMA AppendInOrder ==
    ASSUME NEW a \in Seq(Twist), NEW t \in Twist, InOrder(a, t.epoch)
    PROVE  InOrder(Append(a, t), t.epoch)
<1> DEFINE b == Append(a, t)
<1>1. Len(b) = Len(a) + 1 /\ Len(a) \in Nat
  OBVIOUS
<1>2. (\A i \in 1 .. Len(a) : b[i] = a[i]) /\ b[Len(a) + 1] = t
  OBVIOUS
<1>3. t.epoch \in Nat
  BY DEF Twist
<1> HIDE DEF b
<1>4. ASSUME NEW i \in 1 .. Len(b) PROVE b[i].epoch <= t.epoch
  <2>1. CASE i = Len(a) + 1
    BY <1>2, <1>3, <2>1
  <2>2. CASE i # Len(a) + 1
    BY <1>1, <1>2, <2>2 DEF InOrder
  <2>3. QED  BY <2>1, <2>2
<1>5. ASSUME NEW i \in 1 .. Len(b), NEW j \in 1 .. Len(b), i < j
      PROVE  b[i].epoch <= b[j].epoch
  <2>1. CASE j = Len(a) + 1
    BY <1>2, <1>4, <2>1
  <2>2. CASE j # Len(a) + 1
    <3>1. i \in 1 .. Len(a) /\ j \in 1 .. Len(a)
      BY <1>1, <1>5, <2>2
    <3>2. QED  BY <1>2, <1>5, <3>1 DEF InOrder
  <2>3. QED  BY <2>1, <2>2
<1>6. InOrder(b, t.epoch)
  BY <1>4, <1>5 DEF InOrder
<1>7. QED  BY <1>6 DEF b

(* trim keeps the newest, and History of them if there are as many.        *)
LEMMA TrimNewest ==
    ASSUME NEW h \in Seq(Twist), NEW a \in Seq(Twist), Newest(h, a)
    PROVE  /\ trim(h) \in Seq(Twist) /\ Newest(trim(h), a)
           /\ Len(trim(h)) <= History
           /\ Len(trim(h)) = History \/ trim(h) = h
<1>1. Len(h) \in Nat /\ Len(a) \in Nat /\ History \in Nat /\ History > 0
  BY TwistHistoryAssumption
<1>2. CASE Len(h) <= History
  BY <1>1, <1>2 DEF trim
<1>3. CASE Len(h) > History
  <2> DEFINE g == SubSeq(h, Len(h) - History + 1, Len(h))
  <2>1. trim(h) = g
    BY <1>3 DEF trim
  <2>2. PICK m \in Int, l \in Int : /\ m = Len(h) - History + 1 /\ l = Len(h)
                                   /\ 1 <= m /\ m <= l
    <3>1. /\ Len(h) - History + 1 \in Int /\ Len(h) \in Int
          /\ 1 <= Len(h) - History + 1 /\ Len(h) - History + 1 <= Len(h)
      BY <1>1, <1>3
    <3>2. QED  BY <3>1, Zenon
  <2>3. /\ g \in Seq(Twist) /\ Len(g) = IF m <= l THEN l - m + 1 ELSE 0
        /\ \A i \in 1 .. l - m + 1 : g[i] = h[m + i - 1]
    <3>1. g = SubSeq(h, m, l)
      BY <2>2
    <3>2. \A i \in m .. l : h[i] \in Twist
      <4>1. \A i \in 1 .. Len(h) : h[i] \in Twist
        OBVIOUS
      <4>2. QED  BY <2>2, <4>1
    <3> HIDE DEF g
    <3>3. QED  BY <3>1, <3>2, SubSeqProperties
  <2> HIDE DEF g
  <2>4. Len(g) = History /\ \A i \in 1 .. History : g[i] = h[i + (Len(h) - History)]
    <3>1. l - m + 1 = History
      BY <1>1, <2>2
    <3>2. ASSUME NEW i \in 1 .. History PROVE m + i - 1 = i + (Len(h) - History)
      BY <1>1, <2>2
    <3>3. QED  BY <2>2, <2>3, <3>1, <3>2
  <2>5. Newest(g, a)
    <3>1. ASSUME NEW i \in 1 .. History PROVE g[i] = a[i + (Len(a) - History)]
      <4>1. PICK k \in 1 .. Len(h) : k = i + (Len(h) - History)
        <5>1. i + (Len(h) - History) \in 1 .. Len(h)
          BY <1>1, <1>3
        <5>2. QED  BY <5>1, Zenon
      <4>2. g[i] = h[k] /\ h[k] = a[k + (Len(a) - Len(h))]
        BY <2>4, <4>1 DEF Newest
      <4>3. k + (Len(a) - Len(h)) = i + (Len(a) - History)
        BY <1>1, <4>1
      <4>4. QED  BY <4>2, <4>3
    <3>2. QED  BY <1>1, <1>3, <2>4, <3>1 DEF Newest
  <2>6. QED  BY <1>1, <2>1, <2>3, <2>4, <2>5
<1>4. QED  BY <1>1, <1>2, <1>3

(* room: how many may have come in since the last trim.                    *)
Bounded(h, a, room) == /\ Len(h) >= History \/ Len(h) = Len(a)
                       /\ Len(h) <= History + room

EpochNow == IF owner = "clock" THEN 0 ELSE inserts

HistoryInv ==
    /\ owner \in {"clock", "daemon"} /\ inserts \in Nat
    /\ entries \in [TrackedPeer -> Seq(Twist)] /\ accepted \in [TrackedPeer -> Seq(Twist)]
    /\ \A p \in TrackedPeer :
           /\ Newest(entries[p], accepted[p]) /\ InOrder(accepted[p], EpochNow)
           /\ owner = "daemon" => entries[p] = accepted[p]
           /\ owner = "clock" => Bounded(entries[p], accepted[p], inserts % TrimEvery)

LEMMA NextInsert ==
    ASSUME NEW n \in Nat, NEW d \in Nat, d > 0
    PROVE  /\ n % d \in Nat
           /\ (n + 1) % d = 0 \/ (n + 1) % d = (n % d) + 1
<1> DEFINE q == n \div d
           r == n % d
<1>1. q \in Nat /\ r \in 0 .. d - 1 /\ n = q * d + r
  OBVIOUS
<1> HIDE DEF q, r
<1>2. CASE r = d - 1
  <2>1. n + 1 = (q + 1) * d
    <3>1. (q + 1) * d = q * d + d /\ q * d \in Nat
      BY <1>1
    <3>2. QED  BY <1>1, <1>2, <3>1
  <2>2. ((q + 1) * d) % d = 0
    BY <1>1
  <2>3. (n + 1) % d = 0
    BY <2>1, <2>2
  <2>4. QED  BY <1>1, <2>3 DEF r
<1>3. CASE r # d - 1
  <2>1. PICK s \in 0 .. d - 1 : s = r + 1
    BY <1>1, <1>3
  <2>2. n + 1 = q * d + s
    <3>1. q * d \in Nat
      BY <1>1
    <3>2. QED  BY <1>1, <2>1, <3>1
  <2>3. (q * d + s) % d = s
    BY <1>1, <2>1
  <2>4. (n + 1) % d = s
    BY <2>2, <2>3
  <2>5. QED  BY <1>1, <2>1, <2>4 DEF r
<1>4. QED  BY <1>2, <1>3

LEMMA ResponseInductive ==
    ASSUME HistoryInv, NEW p \in TrackedPeer, NEW rtt \in RoundTrip, ResponseAccepted(p, rtt)
    PROVE  HistoryInv'
<1> DEFINE t == [rtt |-> rtt, epoch |-> inserts, nth |-> inserts]
<1>1. inserts \in Nat /\ rtt \in Nat /\ t \in Twist /\ t.epoch = inserts
  BY TwistHistoryAssumption DEF HistoryInv, Twist
<1>2. /\ owner = "daemon" /\ owner' = owner /\ inserts' = inserts + 1
      /\ entries' = [entries EXCEPT ![p] = Append(@, t)]
      /\ accepted' = [accepted EXCEPT ![p] = Append(@, t)]
  BY DEF ResponseAccepted
<1> HIDE DEF t
<1>3. ASSUME NEW q \in TrackedPeer
      PROVE  /\ entries'[q] \in Seq(Twist) /\ accepted'[q] \in Seq(Twist)
             /\ Newest(entries'[q], accepted'[q]) /\ InOrder(accepted'[q], inserts')
             /\ entries'[q] = accepted'[q]
  <2>1. PICK h \in Seq(Twist), a \in Seq(Twist) :
            /\ h = entries[q] /\ a = accepted[q] /\ h = a
            /\ Newest(h, a) /\ InOrder(a, inserts)
    BY <1>2 DEF HistoryInv, EpochNow
  <2>2. ASSUME NEW b \in Seq(Twist), InOrder(b, inserts) PROVE InOrder(b, inserts')
    <3>1. \A i \in 1 .. Len(b) : b[i].epoch \in Nat
      BY TwistFields
    <3>2. QED  BY <1>1, <1>2, <2>2, <3>1 DEF InOrder
  <2>3. CASE q = p
    <3>1. entries'[q] = Append(h, t) /\ accepted'[q] = Append(a, t)
      BY <1>2, <2>1, <2>3 DEF HistoryInv
    <3>2. InOrder(Append(a, t), inserts)
      BY <1>1, <2>1, AppendInOrder
    <3>3. /\ Append(h, t) \in Seq(Twist) /\ Append(a, t) \in Seq(Twist)
          /\ Newest(Append(h, t), Append(a, t))
      BY <1>1, <2>1, AppendNewest
    <3>4. QED  BY <2>1, <2>2, <3>1, <3>2, <3>3
  <2>4. CASE q # p
    <3>1. entries'[q] = h /\ accepted'[q] = a
      BY <1>2, <2>1, <2>4 DEF HistoryInv
    <3>2. QED  BY <2>1, <2>2, <3>1
  <2>5. QED  BY <2>3, <2>4
<1>4. entries' \in [TrackedPeer -> Seq(Twist)] /\ accepted' \in [TrackedPeer -> Seq(Twist)]
  BY <1>2, <1>3 DEF HistoryInv
<1>5. QED  BY <1>1, <1>2, <1>3, <1>4 DEF HistoryInv, EpochNow

LEMMA ObserveInductive ==
    ASSUME HistoryInv, NEW p \in TrackedPeer, NEW rtt \in RoundTrip, ObserveAccepted(p, rtt)
    PROVE  HistoryInv'
<1> DEFINE t == [rtt |-> rtt, epoch |-> 0, nth |-> inserts]
           all == [entries EXCEPT ![p] = Append(@, t)]
<1>1. inserts \in Nat /\ rtt \in Nat /\ t \in Twist /\ t.epoch = 0
  BY TwistHistoryAssumption DEF HistoryInv, Twist
<1>2. /\ owner = "clock" /\ owner' = owner /\ inserts' = inserts + 1
      /\ entries' = IF inserts' % TrimEvery = 0
                    THEN [q \in TrackedPeer |-> trim(all[q])] ELSE all
      /\ accepted' = [accepted EXCEPT ![p] = Append(@, t)]
  BY DEF ObserveAccepted
<1>3. all \in [TrackedPeer -> Seq(Twist)]
  <2> HIDE DEF t
  <2>1. QED  BY <1>1 DEF HistoryInv
<1>4. PICK room \in Nat : /\ room = inserts % TrimEvery
                          /\ inserts' % TrimEvery = 0 \/ inserts' % TrimEvery = room + 1
  <2>1. TrimEvery \in Nat /\ TrimEvery > 0
    BY TwistHistoryAssumption
  <2>2. QED  BY <1>1, <1>2, <2>1, NextInsert
<1>5. ASSUME NEW q \in TrackedPeer
      PROVE  /\ all[q] \in Seq(Twist) /\ accepted'[q] \in Seq(Twist)
             /\ Newest(all[q], accepted'[q]) /\ InOrder(accepted'[q], 0)
             /\ Bounded(all[q], accepted'[q], room + 1)
  <2>1. PICK h \in Seq(Twist), a \in Seq(Twist) :
            /\ h = entries[q] /\ a = accepted[q]
            /\ Newest(h, a) /\ InOrder(a, 0) /\ Bounded(h, a, room)
    BY <1>2, <1>4 DEF HistoryInv, EpochNow
  <2>2. Len(h) \in Nat /\ Len(a) \in Nat /\ History \in Nat
    BY TwistHistoryAssumption
  <2> HIDE DEF t
  <2>3. CASE q = p
    <3>1. all[q] = Append(h, t) /\ accepted'[q] = Append(a, t)
      BY <1>2, <2>1, <2>3 DEF HistoryInv
    <3> HIDE DEF all
    <3>2. InOrder(Append(a, t), 0)
      BY <1>1, <2>1, AppendInOrder
    <3>3. /\ Append(h, t) \in Seq(Twist) /\ Append(a, t) \in Seq(Twist)
          /\ Newest(Append(h, t), Append(a, t))
          /\ Len(Append(h, t)) = Len(h) + 1 /\ Len(Append(a, t)) = Len(a) + 1
      BY <1>1, <2>1, AppendNewest
    <3>4. Bounded(Append(h, t), Append(a, t), room + 1)
      BY <1>4, <2>1, <2>2, <3>3 DEF Bounded
    <3>5. QED  BY <3>1, <3>2, <3>3, <3>4
  <2>4. CASE q # p
    <3>1. all[q] = h /\ accepted'[q] = a
      BY <1>2, <2>1, <2>4 DEF HistoryInv
    <3>2. Bounded(h, a, room + 1)
      BY <1>4, <2>1, <2>2 DEF Bounded
    <3>3. QED  BY <2>1, <3>1, <3>2
  <2>5. QED  BY <2>3, <2>4
<1> HIDE DEF all, t
<1>6. accepted' \in [TrackedPeer -> Seq(Twist)]
  BY <1>2, <1>5 DEF HistoryInv
<1>7. CASE inserts' % TrimEvery = 0
  <2>1. ASSUME NEW q \in TrackedPeer
        PROVE  /\ entries'[q] \in Seq(Twist) /\ Newest(entries'[q], accepted'[q])
               /\ Bounded(entries'[q], accepted'[q], 0)
    <3>1. entries'[q] = trim(all[q])
      BY <1>2, <1>7
    <3>2. PICK h \in Seq(Twist), a \in Seq(Twist) :
              h = all[q] /\ a = accepted'[q] /\ Newest(h, a) /\ Bounded(h, a, room + 1)
      BY <1>5
    <3>3. /\ trim(h) \in Seq(Twist) /\ Newest(trim(h), a) /\ Len(trim(h)) <= History
          /\ Len(trim(h)) = History \/ trim(h) = h
      BY <3>2, TrimNewest
    <3>4. Len(trim(h)) \in Nat /\ History \in Nat
      BY <3>3, TwistHistoryAssumption
    <3>5. Bounded(trim(h), a, 0)
      BY <3>2, <3>3, <3>4 DEF Bounded
    <3>6. QED  BY <3>1, <3>2, <3>3, <3>5
  <2>2. entries' \in [TrackedPeer -> Seq(Twist)]
    BY <1>2, <1>7, <2>1
  <2>3. QED  BY <1>1, <1>2, <1>5, <1>6, <1>7, <2>1, <2>2 DEF HistoryInv, EpochNow
<1>8. CASE inserts' % TrimEvery # 0
  <2>1. entries' = all /\ inserts' % TrimEvery = room + 1
    BY <1>2, <1>4, <1>8
  <2>2. QED  BY <1>1, <1>2, <1>3, <1>5, <1>6, <2>1 DEF HistoryInv, EpochNow
<1>9. QED  BY <1>7, <1>8

LEMMA MinOfTwo ==
    ASSUME NEW a \in Int, NEW b \in Int
    PROVE  Min({a, b}) = IF a <= b THEN a ELSE b
<1>1. PICK m \in {a, b} : m = IF a <= b THEN a ELSE b
  OBVIOUS
<1>2. \A y \in {a, b} : m <= y
  BY <1>1
<1>3. \A x \in {a, b} : (\A y \in {a, b} : x <= y) => x = m
  BY <1>1
<1>4. QED  BY <1>1, <1>2, <1>3 DEF Min

(* A history that is the newest of what was accepted is its suffix.        *)
LEMMA NewestIsSuffix ==
    ASSUME NEW h \in Seq(Twist), NEW a \in Seq(Twist), Newest(h, a)
    PROVE  h = SubSeq(a, Len(a) - Len(h) + 1, Len(a))
<1>1. PICK n \in Nat, l \in Nat : n = Len(h) /\ l = Len(a) /\ n <= l
  BY DEF Newest
<1>2. PICK m \in Int : m = l - n + 1
  OBVIOUS
<1>3. \A i \in m .. l : a[i] \in Twist
  <2>1. \A i \in 1 .. l : a[i] \in Twist
    BY <1>1
  <2>2. QED  BY <1>1, <1>2, <2>1
<1>4. PICK g : g = SubSeq(a, m, l)
  OBVIOUS
<1>5. /\ g \in Seq(Twist) /\ Len(g) = IF m <= l THEN l - m + 1 ELSE 0
      /\ \A i \in 1 .. l - m + 1 : g[i] = a[m + i - 1]
  <2>1. l \in Int
    BY <1>1
  <2>2. QED  BY <1>3, <1>4, <2>1, SubSeqProperties
<1>6. l - m + 1 = n /\ Len(g) = n
  BY <1>1, <1>2, <1>5
<1>7. ASSUME NEW i \in 1 .. n PROVE g[i] = h[i]
  <2>1. m + i - 1 = i + (l - n)
    BY <1>1, <1>2
  <2>2. h[i] = a[i + (l - n)]
    BY <1>1 DEF Newest
  <2>3. g[i] = a[m + i - 1]
    BY <1>5, <1>6
  <2>4. QED  BY <2>1, <2>2, <2>3
<1>8. g = h
  BY <1>1, <1>5, <1>6, <1>7, SeqEqual
<1>9. QED  BY <1>1, <1>2, <1>4, <1>8

(* What the profile of such a history says.                                *)
LEMMA ProfileTrue ==
    ASSUME NEW h \in Seq(Twist), NEW a \in Seq(Twist), Newest(h, a), h # <<>>,
           NEW last, InOrder(a, last)
    PROVE  TellsTrue(h, a)
<1>1. PICK n \in Nat : n = Len(h) /\ n > 0 /\ DOMAIN h = 1 .. n
  BY EmptySeq, LenProperties
<1>2. PICK l \in Nat : l = Len(a) /\ n <= l
  BY <1>1 DEF Newest
<1>3. \A i \in 1 .. n : h[i].rtt \in Nat /\ h[i].epoch \in Nat
  BY <1>1, TwistFields
<1>4. ASSUME NEW i \in 1 .. n, NEW j \in 1 .. n, i < j PROVE h[i].epoch <= h[j].epoch
  <2>1. PICK x \in 1 .. l, y \in 1 .. l : x = i + (l - n) /\ y = j + (l - n) /\ x < y
    <3>1. i + (l - n) \in 1 .. l /\ j + (l - n) \in 1 .. l /\ i + (l - n) < j + (l - n)
      BY <1>2, <1>4
    <3>2. QED  BY <3>1, Zenon
  <2>2. h[i] = a[x] /\ h[j] = a[y]
    BY <1>1, <1>2, <2>1 DEF Newest
  <2>3. a[x].epoch <= a[y].epoch
    BY <1>2, <2>1 DEF InOrder
  <2>4. QED  BY <2>2, <2>3
<1>5. PICK d \in 1 .. n, m \in 1 .. n, e \in 1 .. n :
          /\ d = (n \div 10) + 1 /\ m = (n \div 2) + 1 /\ e = ((n * 9) \div 10) + 1
          /\ d <= m /\ m <= e
  <2>1. /\ (n \div 10) + 1 \in 1 .. n /\ (n \div 2) + 1 \in 1 .. n
        /\ ((n * 9) \div 10) + 1 \in 1 .. n
        /\ (n \div 10) + 1 <= (n \div 2) + 1 /\ (n \div 2) + 1 <= ((n * 9) \div 10) + 1
    BY <1>1
  <2>2. QED  BY <2>1, Zenon
<1>6. /\ profile(h).p10 = sorted(h, d) /\ profile(h).p50 = sorted(h, m)
      /\ profile(h).p90 = sorted(h, e) /\ profile(h).trend = Trend(h)
      /\ profile(h).last = h[n].epoch
  BY <1>1, <1>5 DEF profile
<1>7. sorted(h, d) <= sorted(h, m) /\ sorted(h, m) <= sorted(h, e)
  BY <1>1, <1>3, <1>5, OrderedStatistics
<1>8. 2 * Cardinality({i \in 1 .. n : h[i].rtt >= sorted(h, m)}) >= n
  BY <1>1, <1>3, <1>5, MedianReached
<1>9. h[n] = a[l] /\ Last(a) = a[l]
  <2>1. n \in 1 .. n /\ n + (l - n) = l
    BY <1>1, <1>2
  <2>2. QED  BY <1>1, <1>2, <2>1 DEF Newest, Last
<1>10. /\ (\A i, j \in 1 .. n : i < j => h[i].rtt <= h[j].rtt) => Trend(h) >= 0
       /\ (\A i, j \in 1 .. n : i < j => h[i].rtt >= h[j].rtt) => Trend(h) <= 0
  BY <1>1, <1>3, <1>4, TrendSign
<1>11. QED  BY <1>1, <1>6, <1>7, <1>8, <1>9, <1>10 DEF TellsTrue

(* TwistLUT::trim and TwistLUT::insert as RelationalClock::observe and the *)
(* daemon call them: whatever History and TrimEvery, and in whatever order *)
(* the peers answer, an edge holds the newest twists without a gap, no     *)
(* fewer and no more than it should, and TwistLUT::profile sums them up    *)
(* truthfully.                                                             *)
THEOREM HistoryKept == HistorySpec => []KeepsNewest
<1>1. HistoryInit => HistoryInv
  <2> SUFFICES ASSUME HistoryInit PROVE HistoryInv
    OBVIOUS
  <2>1. /\ owner \in {"clock", "daemon"} /\ inserts = 0
        /\ \A p \in TrackedPeer : entries[p] = <<>> /\ accepted[p] = <<>>
        /\ entries \in [TrackedPeer -> Seq(Twist)] /\ accepted \in [TrackedPeer -> Seq(Twist)]
    BY DEF HistoryInit
  <2>2. Newest(<<>>, <<>>) /\ InOrder(<<>>, EpochNow)
    BY DEF Newest, InOrder
  <2>3. TrimEvery \in Nat /\ TrimEvery > 0 /\ History \in Nat
    BY TwistHistoryAssumption
  <2>4. Bounded(<<>>, <<>>, inserts % TrimEvery)
    <3>1. inserts % TrimEvery = 0
      BY <2>1, <2>3
    <3>2. QED  BY <2>3, <3>1 DEF Bounded
  <2>5. QED  BY <2>1, <2>2, <2>4 DEF HistoryInv
<1>2. HistoryInv /\ [HistoryNext]_historyVars => HistoryInv'
  <2> SUFFICES ASSUME HistoryInv, [HistoryNext]_historyVars PROVE HistoryInv'
    OBVIOUS
  <2>1. CASE UNCHANGED historyVars
    BY <2>1 DEF historyVars, HistoryInv, EpochNow
  <2>2. CASE HistoryNext
    BY <2>2, ObserveInductive, ResponseInductive DEF HistoryNext
  <2>3. QED  BY <2>1, <2>2
<1>3. HistoryInv => KeepsNewest
  <2> SUFFICES ASSUME HistoryInv, NEW p \in TrackedPeer
               PROVE  LET h == entries[p]
                          a == accepted[p]
                      IN  /\ h = SubSeq(a, Len(a) - Len(h) + 1, Len(a))
                          /\ IF owner = "daemon" THEN h = a
                             ELSE Len(h) \in Min({History, Len(a)}) .. History + TrimEvery - 1
                          /\ h # <<>> => TellsTrue(h, a)
    BY DEF KeepsNewest
  <2>1. PICK h \in Seq(Twist), a \in Seq(Twist) :
            /\ h = entries[p] /\ a = accepted[p]
            /\ Newest(h, a) /\ InOrder(a, EpochNow)
            /\ owner = "daemon" => h = a
            /\ owner = "clock" => Bounded(h, a, inserts % TrimEvery)
    BY DEF HistoryInv
  <2>2. h = SubSeq(a, Len(a) - Len(h) + 1, Len(a))
    BY <2>1, NewestIsSuffix
  <2>3. ASSUME owner # "daemon"
        PROVE  Len(h) \in Min({History, Len(a)}) .. History + TrimEvery - 1
    <3>1. Bounded(h, a, inserts % TrimEvery)
      BY <2>1, <2>3 DEF HistoryInv
    <3>2. TrimEvery \in Nat /\ TrimEvery > 0 /\ History \in Nat /\ inserts \in Nat
      BY TwistHistoryAssumption DEF HistoryInv
    <3>3. PICK r \in 0 .. TrimEvery - 1 : r = inserts % TrimEvery
      BY <3>2
    <3>4. Min({History, Len(a)}) = IF History <= Len(a) THEN History ELSE Len(a)
      BY <3>2, MinOfTwo
    <3>5. Len(h) \in Nat /\ Len(a) \in Nat /\ Len(h) <= Len(a)
      BY <2>1 DEF Newest
    <3>6. QED  BY <3>1, <3>2, <3>3, <3>4, <3>5 DEF Bounded
  <2>4. h # <<>> => TellsTrue(h, a)
    BY <2>1, ProfileTrue
  <2>5. QED  BY <2>1, <2>2, <2>3, <2>4, Zenon
<1>4. QED  BY <1>1, <1>2, <1>3, PTL DEF HistorySpec

-----------------------------------------------------------------------------
(* The chirality channels.                                                 *)

LEMMA Inverses ==
    /\ mod_inverse(105, 2) = 1 /\ mod_inverse(70, 3) = 1
    /\ mod_inverse(42, 5) = 3 /\ mod_inverse(30, 7) = 4
<1>1. mod_inverse(105, 2) = 1
  <2>1. Round(<<105, 2, 1, 0>>) = <<2, 1, 0, 1>>
    BY DEF Round
  <2>2. Round(<<2, 1, 0, 1>>) = <<1, 0, 1, -2>>
    BY DEF Round
  <2>3. Round(<<1, 0, 1, -2>>) = <<1, 0, 1, -2>>
    BY DEF Round
  <2>4. QED  BY <2>1, <2>2, <2>3 DEF mod_inverse
<1>2. mod_inverse(70, 3) = 1
  <2>1. Round(<<70, 3, 1, 0>>) = <<3, 1, 0, 1>>
    BY DEF Round
  <2>2. Round(<<3, 1, 0, 1>>) = <<1, 0, 1, -3>>
    BY DEF Round
  <2>3. Round(<<1, 0, 1, -3>>) = <<1, 0, 1, -3>>
    BY DEF Round
  <2>4. QED  BY <2>1, <2>2, <2>3 DEF mod_inverse
<1>3. mod_inverse(42, 5) = 3
  <2>1. Round(<<42, 5, 1, 0>>) = <<5, 2, 0, 1>>
    BY DEF Round
  <2>2. Round(<<5, 2, 0, 1>>) = <<2, 1, 1, -2>>
    BY DEF Round
  <2>3. Round(<<2, 1, 1, -2>>) = <<1, 0, -2, 5>>
    BY DEF Round
  <2>4. Round(<<1, 0, -2, 5>>) = <<1, 0, -2, 5>>
    BY DEF Round
  <2>5. QED  BY <2>1, <2>2, <2>3, <2>4 DEF mod_inverse
<1>4. mod_inverse(30, 7) = 4
  <2>1. Round(<<30, 7, 1, 0>>) = <<7, 2, 0, 1>>
    BY DEF Round
  <2>2. Round(<<7, 2, 0, 1>>) = <<2, 1, 1, -3>>
    BY DEF Round
  <2>3. Round(<<2, 1, 1, -3>>) = <<1, 0, -3, 7>>
    BY DEF Round
  <2>4. Round(<<1, 0, -3, 7>>) = <<1, 0, -3, 7>>
    BY DEF Round
  <2>5. QED  BY <2>1, <2>2, <2>3, <2>4 DEF mod_inverse
<1>5. QED  BY <1>1, <1>2, <1>3, <1>4

(* What is known of a channel.  A channel that was never classified has    *)
(* the highest defect, and of the others only the offset's may have it.    *)
SamrInv ==
    /\ value \in [Channel -> Nat] /\ \A c \in Channel : value[c] < Prime[c]
    /\ defect \in [Channel -> 0 .. Unknown]
    /\ refined \subseteq Channel
    /\ \A c \in Channel : /\ c \in refined /\ c # 3 => defect[c] < Unknown
                          /\ c \notin refined => defect[c] = Unknown

LEMMA Primes == Prime[1] = 2 /\ Prime[2] = 3 /\ Prime[3] = 5 /\ Prime[4] = 7
BY DEF Prime

LEMMA DecodedNumber ==
    ASSUME value \in [Channel -> Nat]
    PROVE  crt_decode
             = (105 * value[1] + 70 * value[2] + 126 * value[3] + 120 * value[4]) % 210
<1> DEFINE n(i) == total_resolution \div Prime[i]
           term == [i \in Channel |-> value[i] * n(i) * mod_inverse(n(i), Prime[i])]
<1>1. total_resolution = 210
  BY Primes DEF total_resolution
<1>2. n(1) = 105 /\ n(2) = 70 /\ n(3) = 42 /\ n(4) = 30
  BY <1>1, Primes
<1>3. Channel = {1, 2, 3, 4} /\ Channel = 1 .. 4
  BY DEF Channel
<1>4. /\ term[1] = value[1] * 105 * 1 /\ term[2] = value[2] * 70 * 1
      /\ term[3] = value[3] * 42 * 3 /\ term[4] = value[4] * 30 * 4
  <2> HIDE DEF n
  <2>1. QED  BY <1>2, <1>3, Primes, Inverses
<1>5. crt_decode = SumFunctionOnSet(term, 1 .. 4) % 210
  BY <1>1, <1>3 DEF crt_decode, SumFunction
<1> HIDE DEF term
<1>6. PICK a \in Nat, b \in Nat, c \in Nat, d \in Nat :
          a = value[1] /\ b = value[2] /\ c = value[3] /\ d = value[4]
  <2>1. value[1] \in Nat /\ value[2] \in Nat /\ value[3] \in Nat /\ value[4] \in Nat
    BY <1>3
  <2>2. QED  BY <2>1, Zenon
<1>7. term[1] = 105 * a /\ term[2] = 70 * b /\ term[3] = 126 * c /\ term[4] = 120 * d
  BY <1>4, <1>6
<1>8. \A i \in 1 .. 4 : term[i] \in Int
  <2>1. \A i \in 1 .. 4 : i = 1 \/ i = 2 \/ i = 3 \/ i = 4
    OBVIOUS
  <2>2. QED  BY <1>7, <2>1
<1>9. SumFunctionOnSet(term, 1 .. 4) = 105 * a + 70 * b + 126 * c + 120 * d
  <2>1. SumFunctionOnSet(term, 1 .. 0) = 0
    <3>1. 1 .. 0 = {}
      OBVIOUS
    <3>2. QED  BY <3>1, SumEmpty
  <2>2. ASSUME NEW k \in 0 .. 3
        PROVE  SumFunctionOnSet(term, 1 .. k + 1) = SumFunctionOnSet(term, 1 .. k) + term[k + 1]
    <3>1. k \in Nat /\ \A i \in 1 .. k + 1 : term[i] \in Int
      BY <1>8
    <3>2. QED  BY <3>1, SumUpto
  <2>3. SumFunctionOnSet(term, 1 .. 1) = 0 + term[1]
    BY <2>1, <2>2
  <2>4. SumFunctionOnSet(term, 1 .. 2) = SumFunctionOnSet(term, 1 .. 1) + term[2]
    BY <2>2
  <2>5. SumFunctionOnSet(term, 1 .. 3) = SumFunctionOnSet(term, 1 .. 2) + term[3]
    BY <2>2
  <2>6. SumFunctionOnSet(term, 1 .. 4) = SumFunctionOnSet(term, 1 .. 3) + term[4]
    BY <2>2
  <2>7. QED  BY <1>7, <2>3, <2>4, <2>5, <2>6
<1>10. QED  BY <1>5, <1>6, <1>9

(* The Chinese remainder theorem for 2, 3, 5 and 7.                        *)
LEMMA Remainders ==
    ASSUME NEW a \in 0 .. 1, NEW b \in 0 .. 2, NEW c \in 0 .. 4, NEW d \in 0 .. 6,
           NEW s \in Nat, s = 105 * a + 70 * b + 126 * c + 120 * d
    PROVE  /\ s % 210 \in 0 .. 209
           /\ (s % 210) % 2 = a /\ (s % 210) % 3 = b
           /\ (s % 210) % 5 = c /\ (s % 210) % 7 = d
<1>1. PICK k \in Nat, x \in 0 .. 209 : s = 210 * k + x /\ x = s % 210
  <2>1. s \div 210 \in Nat /\ s % 210 \in 0 .. 209 /\ s = 210 * (s \div 210) + (s % 210)
    OBVIOUS
  <2>2. QED  BY <2>1, Zenon
<1>2. x % 2 = a
  BY <1>1
<1>3. x % 3 = b
  BY <1>1
<1>4. x % 5 = c
  BY <1>1
<1>5. x % 7 = d
  BY <1>1
<1>6. QED  BY <1>1, <1>2, <1>3, <1>4, <1>5

LEMMA OnlyOne ==
    ASSUME NEW x \in 0 .. 209, NEW s \in Nat,
           s = 105 * (x % 2) + 70 * (x % 3) + 126 * (x % 5) + 120 * (x % 7)
    PROVE  x = s % 210
<1>1. PICK k2 \in Nat, k3 \in Nat, k5 \in Nat, k7 \in Nat :
          k2 = x \div 2 /\ k3 = x \div 3 /\ k5 = x \div 5 /\ k7 = x \div 7
  <2>1. x \div 2 \in Nat /\ x \div 3 \in Nat /\ x \div 5 \in Nat /\ x \div 7 \in Nat
    OBVIOUS
  <2>2. QED  BY <2>1, Zenon
<1>2. x % 2 = x - 2 * k2 /\ x % 3 = x - 3 * k3 /\ x % 5 = x - 5 * k5 /\ x % 7 = x - 7 * k7
  BY <1>1
<1>3. s = x + 210 * (((2 * x - k2) - k3) - 3 * k5 - 4 * k7)
  BY <1>2
<1>4. PICK q \in Int : q = ((2 * x - k2) - k3) - 3 * k5 - 4 * k7
  <2>1. ((2 * x - k2) - k3) - 3 * k5 - 4 * k7 \in Int
    OBVIOUS
  <2>2. QED  BY <2>1, Zenon
<1>5. s = x + 210 * q
  BY <1>3, <1>4
<1>6. QED  BY <1>5

LEMMA WorstChannel ==
    ASSUME SamrInv
    PROVE  /\ next_channel_to_refine \in Channel
           /\ \A d \in Channel : defect[next_channel_to_refine] >= defect[d]
<1> DEFINE W == {c \in Channel : \A d \in Channel : defect[c] >= defect[d]}
           D == {defect[c] : c \in Channel}
<1>1. IsFiniteSet(Channel) /\ Channel \subseteq Int /\ Channel # {}
  <2>1. 1 \in Int /\ 4 \in Int
    OBVIOUS
  <2>2. IsFiniteSet(1 .. 4)
    BY <2>1, FS_Interval, Zenon
  <2>3. QED  BY <2>2 DEF Channel
<1>2. \A c \in Channel : defect[c] \in Int
  BY DEF SamrInv
<1>3. PICK m \in D : \A y \in D : m >= y
  <2>1. IsFiniteSet(D)
    BY <1>1, ValuesFinite, Zenon
  <2>2. D \subseteq Int /\ D # {}
    BY <1>1, <1>2
  <2>3. QED  BY <2>1, <2>2, GreatestExists
<1>4. W # {} /\ W \subseteq Channel
  BY <1>3
<1>5. IsFiniteSet(W) /\ W \subseteq Int
  BY <1>1, <1>4, FS_Subset
<1>6. PICK x \in W : \A y \in W : x >= y
  BY <1>4, <1>5, GreatestExists
<1>7. next_channel_to_refine = CHOOSE c \in W : \A y \in W : c >= y
  BY DEF next_channel_to_refine, Max
<1>8. next_channel_to_refine \in W
  <2> HIDE DEF W
  <2>1. QED  BY <1>6, <1>7
<1>9. QED  BY <1>8

LEMMA SamrInductive ==
    ASSUME SamrInv, [SamrNext]_samrVars
    PROVE  SamrInv'
<1>1. CASE UNCHANGED samrVars
  BY <1>1 DEF samrVars, SamrInv
<1>2. ASSUME NEW v \in 0 .. 6, NEW d \in Defect, classify(v, d) PROVE SamrInv'
  <2>1. PICK c \in Channel : c = next_channel_to_refine
    BY WorstChannel
  <2>2. /\ v < Prime[c]
        /\ value' = [value EXCEPT ![c] = v] /\ defect' = [defect EXCEPT ![c] = d]
        /\ refined' = refined \cup {c}
    BY <1>2, <2>1 DEF classify
  <2>3. d \in 0 .. Unknown /\ (c # 3 => d < Unknown)
    <3>1. d \in DefectsOf(c)
      BY <1>2, <2>1 DEF classify
    <3>2. d \in 0 .. Unknown /\ Unknown \in Nat /\ Unknown # 0
      BY SamrAssumption
    <3>3. c <= 2 \/ c = 3 \/ c = 4
      BY DEF Channel
    <3>4. CASE c <= 2
      BY <3>1, <3>2, <3>4 DEF DefectsOf
    <3>5. CASE c = 3
      BY <3>2, <3>5
    <3>6. CASE c = 4
      BY <3>1, <3>2, <3>6 DEF DefectsOf
    <3>7. QED  BY <3>3, <3>4, <3>5, <3>6
  <2>4. QED  BY <2>2, <2>3 DEF SamrInv
<1>3. QED  BY <1>1, <1>2 DEF SamrNext

(* SAMRState::crt_decode loses nothing, whatever the four channels hold,   *)
(* and SAMRState::next_channel_to_refine comes to every channel before it  *)
(* asks for one again, whatever defects the classifications report: only   *)
(* an offset of unbounded uncertainty (u64::MAX) is asked for again.       *)
THEOREM ChannelsDecoded == SamrSpec => []DecodesAllChannels
<1>1. SamrInit => SamrInv
  <2>1. \A c \in Channel : 0 < Prime[c]
    BY Primes DEF Channel
  <2>2. QED  BY <2>1, SamrAssumption DEF SamrInit, SamrInv
<1>2. SamrInv /\ [SamrNext]_samrVars => SamrInv'
  BY SamrInductive
<1>3. ASSUME SamrInv PROVE DecodesAllChannels
  <2>1. 1 \in Channel /\ 2 \in Channel /\ 3 \in Channel /\ 4 \in Channel
    BY DEF Channel
  <2>2. PICK a \in 0 .. 1, b \in 0 .. 2, c \in 0 .. 4, d \in 0 .. 6 :
            a = value[1] /\ b = value[2] /\ c = value[3] /\ d = value[4]
    <3>1. /\ value[1] \in Nat /\ value[1] < 2 /\ value[2] \in Nat /\ value[2] < 3
          /\ value[3] \in Nat /\ value[3] < 5 /\ value[4] \in Nat /\ value[4] < 7
      BY <1>3, <2>1, Primes DEF SamrInv
    <3>2. value[1] \in 0 .. 1 /\ value[2] \in 0 .. 2 /\ value[3] \in 0 .. 4 /\ value[4] \in 0 .. 6
      BY <3>1
    <3>3. QED  BY <3>2, Zenon
  <2>3. PICK s \in Nat : s = 105 * a + 70 * b + 126 * c + 120 * d
    OBVIOUS
  <2>4. crt_decode = s % 210
    <3>1. value \in [Channel -> Nat]
      BY <1>3 DEF SamrInv
    <3>2. QED  BY <2>2, <2>3, <3>1, DecodedNumber
  <2>5. total_resolution = 210
    BY Primes DEF total_resolution
  <2>6. ASSUME NEW x
        PROVE  (\A i \in Channel : x % Prime[i] = value[i])
                  <=> x % 2 = a /\ x % 3 = b /\ x % 5 = c /\ x % 7 = d
    <3>1. \A i \in Channel : i = 1 \/ i = 2 \/ i = 3 \/ i = 4
      BY DEF Channel
    <3>2. /\ x % Prime[1] = value[1] <=> x % 2 = a
          /\ x % Prime[2] = value[2] <=> x % 3 = b
          /\ x % Prime[3] = value[3] <=> x % 5 = c
          /\ x % Prime[4] = value[4] <=> x % 7 = d
      BY <2>2, Primes, Zenon
    <3>3. QED  BY <2>1, <3>1, <3>2, Zenon
  <2>7. /\ s % 210 \in 0 .. 209
        /\ (s % 210) % 2 = a /\ (s % 210) % 3 = b /\ (s % 210) % 5 = c /\ (s % 210) % 7 = d
    BY <2>3, Remainders
  <2>8. ASSUME NEW x \in 0 .. 209, x % 2 = a /\ x % 3 = b /\ x % 5 = c /\ x % 7 = d
        PROVE  x = s % 210
    BY <2>3, <2>8, OnlyOne
  <2>9. {x \in 0 .. 209 : \A i \in Channel : x % Prime[i] = value[i]} = {s % 210}
    <3>1. PICK w : w = s % 210
      OBVIOUS
    <3>2. \A x \in 0 .. 209 : (\A i \in Channel : x % Prime[i] = value[i]) <=> x = w
      <4>1. \A x \in 0 .. 209 : x % 2 = a /\ x % 3 = b /\ x % 5 = c /\ x % 7 = d <=> x = w
        BY <2>7, <2>8, <3>1, Zenon
      <4>2. QED  BY <2>6, <4>1, Zenon
    <3>3. w \in 0 .. 209
      BY <2>7, <3>1
    <3>4. {x \in 0 .. 209 : \A i \in Channel : x % Prime[i] = value[i]} = {w}
      BY <3>2, <3>3, Zenon
    <3>5. QED  BY <3>1, <3>4
  <2>10. 0 .. total_resolution - 1 = 0 .. 209
    BY <2>5
  <2>11. ASSUME refined # Channel
         PROVE  \/ next_channel_to_refine \notin refined
                \/ next_channel_to_refine = 3 /\ defect[3] = Unknown
    <3>1. PICK i \in Channel : i \notin refined
      BY <1>3, <2>11 DEF SamrInv
    <3>2. defect[i] = Unknown /\ Unknown \in Nat
      BY <1>3, <3>1, SamrAssumption DEF SamrInv
    <3>3. PICK n \in Channel : n = next_channel_to_refine /\ defect[n] >= defect[i]
      BY <1>3, WorstChannel
    <3>4. defect[n] \in 0 .. Unknown /\ (n \in refined /\ n # 3 => defect[n] < Unknown)
      BY <1>3 DEF SamrInv
    <3>5. QED  BY <3>2, <3>3, <3>4
  <2>12. QED  BY <2>4, <2>9, <2>10, <2>11 DEF DecodesAllChannels
<1>4. QED  BY <1>1, <1>2, <1>3, PTL DEF SamrSpec

-----------------------------------------------------------------------------
(* The temporal mirror.                                                    *)

LEMMA Halves ==
    ASSUME NEW x \in Int, NEW y \in Int, y <= x
    PROVE  /\ (x - y) \div 2 \in Nat
           /\ x + (IF y - x < 0 THEN -((-(y - x)) \div 2) ELSE (y - x) \div 2)
                = x - ((x - y) \div 2)
<1>1. -(y - x) = x - y /\ x - y \in Nat
  OBVIOUS
<1>2. (x - y) \div 2 \in Nat
  BY <1>1
<1>3. CASE y - x < 0
  <2>1. (-(y - x)) \div 2 = (x - y) \div 2
    BY <1>1, Zenon
  <2>2. QED  BY <1>2, <1>3, <2>1
<1>4. CASE ~ (y - x < 0)
  <2>1. x = y /\ y - x = 0 /\ x - y = 0
    BY <1>4
  <2>2. QED  BY <1>4, <2>1
<1>5. QED  BY <1>2, <1>3, <1>4

(* Powers of two, counted as subsets.                                      *)
LEMMA PowerPositive ==
    ASSUME NEW n \in Nat
    PROVE  2^n \in Nat /\ 2^n > 0
<1>1. IsFiniteSet(1 .. n) /\ Cardinality(1 .. n) = n
  BY FS_Interval
<1>2. IsFiniteSet(SUBSET (1 .. n)) /\ Cardinality(SUBSET (1 .. n)) = 2^n
  BY <1>1, FS_SUBSET
<1>3. SUBSET (1 .. n) # {}
  OBVIOUS
<1>4. Cardinality(SUBSET (1 .. n)) \in Nat /\ Cardinality(SUBSET (1 .. n)) # 0
  BY <1>2, <1>3, FS_CardinalityType, FS_EmptySet
<1>5. QED  BY <1>2, <1>4

LEMMA PowerStep ==
    ASSUME NEW n \in Nat
    PROVE  2^(n + 1) = 2 * 2^n
<1> DEFINE Without == SUBSET (1 .. n)
           With == {s \cup {n + 1} : s \in SUBSET (1 .. n)}
           add == [s \in Without |-> s \cup {n + 1}]
<1>1. /\ IsFiniteSet(1 .. n) /\ Cardinality(1 .. n) = n
      /\ IsFiniteSet(1 .. (n + 1)) /\ Cardinality(1 .. (n + 1)) = n + 1
  BY FS_Interval
<1>2. /\ IsFiniteSet(Without) /\ Cardinality(Without) = 2^n
      /\ Cardinality(SUBSET (1 .. (n + 1))) = 2^(n + 1)
  BY <1>1, FS_SUBSET
<1>3. n + 1 \notin 1 .. n
  OBVIOUS
<1>4. 1 .. (n + 1) = (1 .. n) \cup {n + 1}
  OBVIOUS
<1>5. SUBSET (1 .. (n + 1)) = Without \cup With
  <2>1. \A s \in SUBSET (1 .. (n + 1)) : n + 1 \notin s => s \in Without
    BY <1>4
  <2>2. \A s \in SUBSET (1 .. (n + 1)) : n + 1 \in s =>
            s \ {n + 1} \in SUBSET (1 .. n) /\ s = (s \ {n + 1}) \cup {n + 1}
    BY <1>4
  <2>3. \A s \in Without : s \in SUBSET (1 .. (n + 1)) /\ s \cup {n + 1} \in SUBSET (1 .. (n + 1))
    BY <1>4
  <2>4. ASSUME NEW s \in SUBSET (1 .. (n + 1)) PROVE s \in Without \cup With
    <3>1. CASE n + 1 \notin s
      BY <2>1, <3>1
    <3>2. CASE n + 1 \in s
      <4>1. PICK t \in SUBSET (1 .. n) : s = t \cup {n + 1}
        BY <2>2, <3>2
      <4>2. s \in With
        BY <4>1
      <4>3. QED  BY <4>2
    <3>3. QED  BY <3>1, <3>2
  <2>5. ASSUME NEW s \in Without \cup With PROVE s \in SUBSET (1 .. (n + 1))
    <3>1. CASE s \in Without
      BY <2>3, <3>1
    <3>2. CASE s \in With
      <4>1. PICK t \in Without : s = t \cup {n + 1}
        BY <3>2
      <4>2. QED  BY <2>3, <4>1
    <3>3. QED  BY <3>1, <3>2
  <2>6. QED  BY <2>4, <2>5, Zenon
<1>6. Without \cap With = {}
  BY <1>3
<1>7. add \in Bijection(Without, With)
  <2>1. \A s, t \in Without : s \cup {n + 1} = t \cup {n + 1} => s = t
    <3>1. \A s \in Without : n + 1 \notin s
      BY <1>3
    <3>2. \A s \in Without : s = (s \cup {n + 1}) \ {n + 1}
      BY <3>1
    <3>3. QED  BY <3>2, Zenon
  <2>2. add \in [Without -> With] /\ \A s \in Without : add[s] = s \cup {n + 1}
    OBVIOUS
  <2>3. \A t \in With : \E s \in Without : add[s] = t
    BY <2>2, Zenon
  <2> HIDE DEF add, With, Without
  <2>4. \A s, t \in Without : add[s] = add[t] => s = t
    BY <2>1, <2>2, Zenon
  <2>5. QED  BY <2>2, <2>3, <2>4 DEF Bijection, Injection, Surjection, IsInjective
<1>8. IsFiniteSet(With) /\ Cardinality(With) = Cardinality(Without)
  <2>1. ExistsBijection(Without, With)
    BY <1>7, Zenon DEF ExistsBijection
  <2>2. QED  BY <1>2, <2>1, FS_Bijection, Zenon
<1> HIDE DEF Without, With, add
<1>9. /\ Cardinality(Without \cup With)
            = Cardinality(Without) + Cardinality(With) - Cardinality({})
      /\ Cardinality({}) = 0
  <2>1. Cardinality(Without \cup With)
            = Cardinality(Without) + Cardinality(With) - Cardinality(Without \cap With)
    BY <1>2, <1>8, FS_Union, Zenon
  <2>2. QED  BY <1>6, <2>1, FS_EmptySet, Zenon
<1>10. 2^n \in Nat
  BY PowerPositive
<1>11. 2^(n + 1) = 2^n + 2^n - 0
  BY <1>2, <1>5, <1>8, <1>9, Zenon
<1>12. QED  BY <1>10, <1>11

(* One round, in whole nanoseconds: the sides keep their order and do not  *)
(* leave the range they were in, their sum moves by one at most, and their *)
(* distance is halved up to one.                                           *)
LEMMA OneRound ==
    ASSUME NEW p \in Int, NEW r \in Int, NEW m \in Int, m = Midpoint(p, r),
           NEW p1, p1 = Damped(p, m), NEW r1, r1 = Damped(r, m)
    PROVE  /\ p1 \in Int /\ r1 \in Int
           /\ p <= r => p <= p1 /\ p1 <= r1 /\ r1 <= r
           /\ r <= p => r <= r1 /\ r1 <= p1 /\ p1 <= p
           /\ (p1 + r1) - (p + r) \in -1 .. 1
           /\ 2 * Disagreement(p1, r1) <= Disagreement(p, r) + 2
<1>1. m = IF p + r < 0 THEN -((-(p + r)) \div 2) ELSE (p + r) \div 2
  BY DEF Midpoint, TruncDiv
<1>2. 2 * m - (p + r) \in -1 .. 1
  BY <1>1
<1>3. p1 = p + (IF m - p < 0 THEN -((-(m - p)) \div 2) ELSE (m - p) \div 2)
  BY DEF Damped, TruncDiv
<1>4. r1 = r + (IF m - r < 0 THEN -((-(m - r)) \div 2) ELSE (m - r) \div 2)
  BY DEF Damped, TruncDiv
<1>5. p1 \in Int /\ r1 \in Int
  BY <1>3, <1>4
<1>6. CASE p <= r
  <2>1. p <= m /\ m <= r
    BY <1>2, <1>6
  <2>2. PICK u \in Nat, v \in Nat : p1 = p + u /\ r1 = r - v
                                    /\ 2 * u <= m - p /\ m - p <= 2 * u + 1
                                    /\ 2 * v <= r - m /\ r - m <= 2 * v + 1
    <3>1. PICK u \in Nat : p1 = p + u /\ 2 * u <= m - p /\ m - p <= 2 * u + 1
      <4>1. (m - p) \div 2 \in Nat /\ p1 = p + ((m - p) \div 2)
        BY <1>3, <2>1
      <4>2. 2 * ((m - p) \div 2) <= m - p /\ m - p <= 2 * ((m - p) \div 2) + 1
        OBVIOUS
      <4>3. QED  BY <4>1, <4>2, Zenon
    <3>2. PICK v \in Nat : r1 = r - v /\ 2 * v <= r - m /\ r - m <= 2 * v + 1
      <4>1. (r - m) \div 2 \in Nat /\ r1 = r - ((r - m) \div 2)
        BY <1>4, <2>1, Halves
      <4>2. 2 * ((r - m) \div 2) <= r - m /\ r - m <= 2 * ((r - m) \div 2) + 1
        OBVIOUS
      <4>3. QED  BY <4>1, <4>2, Zenon
    <3>3. QED  BY <3>1, <3>2
  <2>3. p <= p1 /\ p1 <= r1 /\ r1 <= r
    BY <2>1, <2>2
  <2>4. (p1 + r1) - (p + r) \in -1 .. 1
    BY <1>2, <2>2
  <2>5. 2 * (r1 - p1) <= (r - p) + 2
    BY <2>2
  <2>6. Disagreement(p1, r1) = r1 - p1 /\ Disagreement(p, r) = r - p
    BY <1>5, <1>6, <2>3 DEF Disagreement
  <2>7. r <= p => r <= r1 /\ r1 <= p1 /\ p1 <= p
    BY <1>5, <1>6, <2>3
  <2>8. QED  BY <1>5, <2>3, <2>4, <2>5, <2>6, <2>7
<1>7. CASE ~ (p <= r)
  <2>1. r <= m /\ m <= p
    BY <1>2, <1>7
  <2>2. PICK u \in Nat, v \in Nat : r1 = r + u /\ p1 = p - v
                                    /\ 2 * u <= m - r /\ m - r <= 2 * u + 1
                                    /\ 2 * v <= p - m /\ p - m <= 2 * v + 1
    <3>1. PICK u \in Nat : r1 = r + u /\ 2 * u <= m - r /\ m - r <= 2 * u + 1
      <4>1. (m - r) \div 2 \in Nat /\ r1 = r + ((m - r) \div 2)
        BY <1>4, <2>1
      <4>2. 2 * ((m - r) \div 2) <= m - r /\ m - r <= 2 * ((m - r) \div 2) + 1
        OBVIOUS
      <4>3. QED  BY <4>1, <4>2, Zenon
    <3>2. PICK v \in Nat : p1 = p - v /\ 2 * v <= p - m /\ p - m <= 2 * v + 1
      <4>1. (p - m) \div 2 \in Nat /\ p1 = p - ((p - m) \div 2)
        BY <1>3, <2>1, Halves
      <4>2. 2 * ((p - m) \div 2) <= p - m /\ p - m <= 2 * ((p - m) \div 2) + 1
        OBVIOUS
      <4>3. QED  BY <4>1, <4>2, Zenon
    <3>3. QED  BY <3>1, <3>2
  <2>3. r <= r1 /\ r1 <= p1 /\ p1 <= p
    BY <2>1, <2>2
  <2>4. (p1 + r1) - (p + r) \in -1 .. 1
    BY <1>2, <2>2
  <2>5. 2 * (p1 - r1) <= (p - r) + 2
    BY <2>2
  <2>6. Disagreement(p1, r1) = p1 - r1 /\ Disagreement(p, r) = p - r
    BY <1>5, <1>7, <2>3 DEF Disagreement
  <2>7. QED  BY <1>5, <1>7, <2>3, <2>4, <2>5, <2>6
<1>8. QED  BY <1>6, <1>7

LEMMA ProductOrder ==
    ASSUME NEW k \in Nat, NEW x \in Int, NEW y \in Int, x <= y
    PROVE  x * k <= y * k
<1>1. PICK z \in Nat : y = x + z
  BY y = x + (y - x) /\ y - x \in Nat
<1>2. z * k \in Nat
  OBVIOUS
<1>3. y * k = x * k + z * k
  BY <1>1
<1>4. QED  BY <1>2, <1>3

LEMMA ProductStrict ==
    ASSUME NEW k \in Nat, k > 0, NEW x \in Int, NEW y \in Int, x * k <= y * k
    PROVE  x <= y
<1> SUFFICES ASSUME y + 1 <= x PROVE FALSE
  OBVIOUS
<1>1. (y + 1) * k <= x * k
  BY ProductOrder
<1>2. (y + 1) * k = y * k + k /\ y * k \in Int /\ x * k \in Int
  OBVIOUS
<1>3. QED  BY <1>1, <1>2

(* A quotient lies where the dividend lies, also when it is truncated      *)
(* towards zero.                                                           *)
LEMMA TruncBetween ==
    ASSUME NEW n \in Nat, n > 0, NEW s \in Int, NEW lo \in Int, NEW hi \in Int,
           lo * n <= s, s <= hi * n
    PROVE  TruncDiv(s, n) \in Int /\ lo <= TruncDiv(s, n) /\ TruncDiv(s, n) <= hi
<1>1. ASSUME NEW t \in Nat, NEW a \in Int, NEW b \in Int, a * n <= t, t <= b * n
      PROVE  t \div n \in Int /\ a <= t \div n /\ t \div n <= b
  <2>1. PICK q \in Int : q = t \div n /\ q * n <= t /\ t < q * n + n
    <3>1. /\ t \div n \in Int /\ t % n \in 0 .. n - 1
          /\ t = n * (t \div n) + (t % n)
      OBVIOUS
    <3>2. (t \div n) * n = n * (t \div n) /\ (t \div n) * n \in Int
      BY <3>1
    <3>3. (t \div n) * n <= t /\ t < (t \div n) * n + n
      BY <3>1, <3>2
    <3>4. QED  BY <3>1, <3>3, Zenon
  <2>2. (q + 1) * n = q * n + n /\ q * n \in Int
    OBVIOUS
  <2>3. q <= b
    <3>1. q * n <= b * n
      BY <1>1, <2>1, <2>2
    <3>2. QED  BY <3>1, ProductStrict
  <2>4. a <= q
    <3> SUFFICES ASSUME q + 1 <= a PROVE FALSE
      BY <2>1
    <3>1. (q + 1) * n <= a * n
      BY ProductOrder
    <3>2. a * n \in Int
      OBVIOUS
    <3>3. QED  BY <1>1, <2>1, <2>2, <3>1, <3>2
  <2>5. QED  BY <2>1, <2>3, <2>4, Zenon
<1>2. CASE s < 0
  <2>1. -s \in Nat /\ -hi \in Int /\ -lo \in Int
    BY <1>2
  <2>2. (-hi) * n <= -s /\ -s <= (-lo) * n
    <3>1. (-hi) * n = -(hi * n) /\ (-lo) * n = -(lo * n) /\ hi * n \in Int /\ lo * n \in Int
      OBVIOUS
    <3>2. QED  BY <3>1
  <2>3. (-s) \div n \in Int /\ -hi <= (-s) \div n /\ (-s) \div n <= -lo
    BY <1>1, <2>1, <2>2, Zenon
  <2>4. TruncDiv(s, n) = -((-s) \div n)
    BY <1>2 DEF TruncDiv
  <2>5. QED  BY <2>3, <2>4
<1>3. CASE ~ (s < 0)
  <2>1. s \in Nat
    BY <1>3
  <2>2. s \div n \in Int /\ lo <= s \div n /\ s \div n <= hi
    BY <1>1, <2>1, Zenon
  <2>3. QED  BY <1>3, <2>2 DEF TruncDiv
<1>4. QED  BY <1>2, <1>3

LEMMA ListLength ==
    ASSUME NEW S, NEW k \in Nat, NEW s \in [1 .. k -> S]
    PROVE  Len(s) = k
<1>1. s \in UNION {[1 .. n -> S] : n \in Nat}
  BY Zenon
<1>2. s \in Seq(S)
  BY <1>1, SeqDef, Zenon
<1>3. Len(s) \in Nat /\ DOMAIN s = 1 .. Len(s) /\ DOMAIN s = 1 .. k
  BY <1>2, LenProperties
<1>4. QED  BY <1>3

LEMMA MeanBetween ==
    ASSUME NEW k \in Nat, k > 0, NEW s \in [1 .. k -> Int], NEW lo \in Int, NEW hi \in Int,
           \A i \in 1 .. k : lo <= s[i] /\ s[i] <= hi
    PROVE  Mean(s) \in Int /\ lo <= Mean(s) /\ Mean(s) <= hi
<1>1. IsFiniteSet(1 .. k) /\ Cardinality(1 .. k) = k
  BY FS_Interval
<1>2. \A i \in 1 .. k : s[i] \in Int
  OBVIOUS
<1>3. \A i \in 1 .. k : s[i] \in Int /\ lo <= s[i] /\ s[i] <= hi
  BY <1>2
<1>4. /\ lo * Cardinality(1 .. k) <= SumFunctionOnSet(s, 1 .. k)
      /\ SumFunctionOnSet(s, 1 .. k) <= hi * Cardinality(1 .. k)
  BY <1>1, <1>3, SumBounds, Zenon
<1>5. SumFunctionOnSet(s, 1 .. k) \in Int
  BY <1>1, <1>2, SumIsInt, Zenon
<1>6. SumFunction(s) = SumFunctionOnSet(s, 1 .. k)
  <2>1. DOMAIN s = 1 .. k
    OBVIOUS
  <2>2. QED  BY <2>1, Zenon DEF SumFunction, SumFunctionOnSet, FoldFunction
<1>7. Len(s) = k
  BY ListLength, Zenon
<1>8. lo * k <= SumFunction(s) /\ SumFunction(s) <= hi * k /\ SumFunction(s) \in Int
  BY <1>1, <1>4, <1>5, <1>6, Zenon
<1>9. QED  BY <1>7, <1>8, TruncBetween, Zenon DEF Mean

LEMMA Near ==
    ASSUME NEW x \in Int, NEW y \in Int, NEW d \in Int
    PROVE  /\ x - d \in Int /\ x + d \in Int
           /\ x - y \in -d .. d => y - d <= x /\ x <= y + d
           /\ y - d <= x /\ x <= y + d => x - d <= y /\ y <= x + d /\ x - y \in -d .. d
OBVIOUS

(* Lists whose elements are close have means that are close, however many  *)
(* elements each has.                                                      *)
LEMMA MeansNear ==
    ASSUME NEW k \in Nat, k > 0, NEW f \in [1 .. k -> Int],
           NEW l \in Nat, l > 0, NEW b \in [1 .. l -> Int], NEW d \in Int,
           \A i \in 1 .. k, j \in 1 .. l : f[i] - b[j] \in -d .. d
    PROVE  /\ Mean(f) \in Int /\ Mean(b) \in Int
           /\ Mean(f) - Mean(b) \in -d .. d
<1>0. (\A i \in 1 .. k : f[i] \in Int) /\ (\A j \in 1 .. l : b[j] \in Int)
  BY Zenon
<1>1. ASSUME NEW j \in 1 .. l
      PROVE  Mean(f) \in Int /\ b[j] - d <= Mean(f) /\ Mean(f) <= b[j] + d
  <2>1. b[j] \in Int /\ b[j] - d \in Int /\ b[j] + d \in Int
    BY <1>0, Near, Zenon
  <2>2. ASSUME NEW i \in 1 .. k PROVE b[j] - d <= f[i] /\ f[i] <= b[j] + d
    <3>1. f[i] \in Int /\ f[i] - b[j] \in -d .. d
      BY <1>0, Zenon
    <3>2. QED  BY <2>1, <3>1, Near, Zenon
  <2>3. QED  BY <2>1, <2>2, MeanBetween, Zenon
<1>2. 1 \in 1 .. l
  OBVIOUS
<1>3. Mean(f) \in Int
  BY <1>1, <1>2, Zenon
<1>4. Mean(f) - d \in Int /\ Mean(f) + d \in Int
  BY <1>3, Near, Zenon
<1>5. ASSUME NEW j \in 1 .. l PROVE Mean(f) - d <= b[j] /\ b[j] <= Mean(f) + d
  <2>1. b[j] \in Int /\ b[j] - d <= Mean(f) /\ Mean(f) <= b[j] + d
    BY <1>0, <1>1, Zenon
  <2>2. QED  BY <1>3, <2>1, Near, Zenon
<1>6. Mean(b) \in Int /\ Mean(f) - d <= Mean(b) /\ Mean(b) <= Mean(f) + d
  BY <1>4, <1>5, MeanBetween, Zenon
<1>7. QED  BY <1>3, <1>6, Near, Zenon

LEMMA ReachIsInt == Reach \in Int
<1>1. 2^MaxIterations \in Nat /\ Tolerance - 2 \in Int
  BY TemporalMirrorAssumption, PowerPositive
<1>2. QED  BY <1>1 DEF Reach

LEMMA DriftIsInt ==
    ASSUME NEW d \in DriftPpb
    PROVE  DriftNs(d) \in Int
<1>1. d \in Int /\ EpochNs \in Nat /\ Ppb \in Nat /\ Ppb > 0
  BY TemporalMirrorAssumption
<1>2. d * EpochNs \in Int
  BY <1>1
<1>3. ASSUME NEW x \in Int PROVE TruncDiv(x, Ppb) \in Int
  BY <1>1 DEF TruncDiv
<1>4. QED  BY <1>2, <1>3 DEF DriftNs

(* The two means that solve_boundary starts from are within Reach.         *)
LEMMA StartWithinReach ==
    ASSUME NEW o \in Reports(NodeOffset), NEW q \in Reports(DriftPpb), NEW prev \in PrevTime,
           Forward(o, q, prev) # <<>>, Backward(o, prev) # <<>>
    PROVE  /\ Mean(Forward(o, q, prev)) \in Int /\ Mean(Backward(o, prev)) \in Int
           /\ Mean(Forward(o, q, prev)) - Mean(Backward(o, prev)) \in -Reach .. Reach
<1>1. PICK l \in Nat : o \in [1 .. l -> NodeOffset]
  BY DEF Reports, BoundedSeq, SeqOf
<1>2. PICK n \in Nat : q \in [1 .. n -> DriftPpb]
  BY DEF Reports, BoundedSeq, SeqOf
<1>3. Len(o) = l /\ Len(q) = n
  BY <1>1, <1>2, ListLength
<1>4. PICK k \in Nat : k = Min({l, n}) /\ k <= l /\ k <= n
  BY MinOfTwo
<1>5. prev + EpochNs \in Int
  BY TemporalMirrorAssumption
<1>6. \A i \in 1 .. l : o[i] \in NodeOffset /\ o[i] \in Int
  BY <1>1, TemporalMirrorAssumption
<1>7. \A i \in 1 .. k : i \in 1 .. l /\ i \in 1 .. n
  BY <1>4
<1>8. \A i \in 1 .. k : q[i] \in DriftPpb /\ DriftNs(q[i]) \in Int
  BY <1>2, <1>7, DriftIsInt
<1> DEFINE f == [i \in 1 .. k |-> prev + EpochNs + o[i] + DriftNs(q[i])]
           b == [i \in 1 .. l |-> prev + EpochNs + o[i]]
<1>9. Forward(o, q, prev) = f /\ Backward(o, prev) = b
  BY <1>1, <1>3, <1>4, Zenon DEF Forward, Backward
<1>10. f \in [1 .. k -> Int] /\ b \in [1 .. l -> Int]
  BY <1>5, <1>6, <1>7, <1>8
<1>11. \A i \in 1 .. k, j \in 1 .. l : f[i] - b[j] \in -Reach .. Reach
  <2> SUFFICES ASSUME NEW i \in 1 .. k, NEW j \in 1 .. l PROVE f[i] - b[j] \in -Reach .. Reach
    OBVIOUS
  <2>1. (o[i] + DriftNs(q[i])) - o[j] \in -Reach .. Reach
    BY <1>6, <1>7, <1>8, RoundsAssumption
  <2>2. f[i] = prev + EpochNs + o[i] + DriftNs(q[i]) /\ b[j] = prev + EpochNs + o[j]
    OBVIOUS
  <2>3. o[i] \in Int /\ o[j] \in Int /\ DriftNs(q[i]) \in Int
    BY <1>6, <1>7, <1>8
  <2> HIDE DEF f, b
  <2>4. f[i] - b[j] = (o[i] + DriftNs(q[i])) - o[j]
    BY <1>5, <2>2, <2>3
  <2>5. QED  BY <2>1, <2>4
<1>12. ASSUME NEW m \in Nat, NEW s, s \in [1 .. m -> Int], s # <<>>
       PROVE  m > 0
  <2> SUFFICES ASSUME m = 0 PROVE FALSE
    OBVIOUS
  <2>1. Len(s) = 0 /\ s \in Seq(Int)
    <3>1. s \in UNION {[1 .. x -> Int] : x \in Nat}
      BY <1>12, Zenon
    <3>2. QED  BY <1>12, <3>1, ListLength, SeqDef, Zenon
  <2>2. QED  BY <1>12, <2>1, EmptySeq
<1>13. f # <<>> /\ b # <<>>
  BY <1>9, Zenon
<1> HIDE DEF f, b
<1>14. k > 0 /\ l > 0
  BY <1>10, <1>12, <1>13
<1>15. QED  BY <1>9, <1>10, <1>11, <1>14, MeansNear, ReachIsInt

LEMMA MaxOfTwo ==
    ASSUME NEW a \in Int, NEW b \in Int
    PROVE  Max({a, b}) = IF a <= b THEN b ELSE a
<1>1. PICK m \in {a, b} : m = IF a <= b THEN b ELSE a
  OBVIOUS
<1>2. \A y \in {a, b} : m >= y
  BY <1>1
<1>3. \A x \in {a, b} : (\A y \in {a, b} : x >= y) => x = m
  BY <1>1
<1>4. QED  BY <1>1, <1>2, <1>3 DEF Max

Inside(x, a, b) == IF a <= b THEN a <= x /\ x <= b ELSE b <= x /\ x <= a

(* While it bisects: the sides stay between the two means, their sum has   *)
(* moved by a nanosecond a round at most, and each round has halved what   *)
(* is between them, up to two.                                             *)
Halving(p, r, f, b, i) ==
    /\ p \in Int /\ r \in Int /\ f \in Int /\ b \in Int /\ i \in 0 .. MaxIterations
    /\ Inside(p, f, b) /\ Inside(r, f, b)
    /\ (p + r) - (f + b) \in -i .. i
    /\ (Disagreement(p, r) - 2) * 2^i <= Reach

MirrorInv ==
    /\ MirrorsMeet
    /\ means # <<>> => /\ means = <<means[1], means[2]>>
                       /\ Halving(predictive, retrodictive, means[1], means[2], iterations)

LEMMA HalvingStarts ==
    ASSUME NEW f \in Int, NEW b \in Int, f - b \in -Reach .. Reach
    PROVE  Halving(f, b, f, b, 0)
<1>1. 2^0 = 1
  OBVIOUS
<1>2. 0 \in 0 .. MaxIterations
  BY TemporalMirrorAssumption
<1>3. Inside(f, f, b) /\ Inside(b, f, b)
  BY DEF Inside
<1>4. (f + b) - (f + b) \in -0 .. 0
  OBVIOUS
<1>5. Disagreement(f, b) \in Int /\ Disagreement(f, b) <= Reach
  BY ReachIsInt DEF Disagreement
<1>6. (Disagreement(f, b) - 2) * 1 <= Reach
  BY <1>5, ReachIsInt
<1>7. (Disagreement(f, b) - 2) * 2^0 <= Reach
  BY <1>1, <1>6, Zenon
<1>8. QED  BY <1>2, <1>3, <1>4, <1>7, Zenon DEF Halving

LEMMA HalvingGoesOn ==
    ASSUME NEW p, NEW r, NEW f, NEW b, NEW i, Halving(p, r, f, b, i), i < MaxIterations
    PROVE  Halving(Damped(p, Midpoint(p, r)), Damped(r, Midpoint(p, r)), f, b, i + 1)
<1>1. /\ p \in Int /\ r \in Int /\ f \in Int /\ b \in Int /\ i \in 0 .. MaxIterations
      /\ Inside(p, f, b) /\ Inside(r, f, b)
      /\ (p + r) - (f + b) \in -i .. i
      /\ (Disagreement(p, r) - 2) * 2^i <= Reach
  BY DEF Halving
<1>2. MaxIterations \in Nat /\ i \in Nat /\ i + 1 \in 0 .. MaxIterations
  BY <1>1, TemporalMirrorAssumption
<1>3. Midpoint(p, r) \in Int
  BY <1>1 DEF Midpoint, TruncDiv
<1> DEFINE p1 == Damped(p, Midpoint(p, r))
           r1 == Damped(r, Midpoint(p, r))
<1>4. /\ p1 \in Int /\ r1 \in Int
      /\ p <= r => p <= p1 /\ p1 <= r1 /\ r1 <= r
      /\ r <= p => r <= r1 /\ r1 <= p1 /\ p1 <= p
      /\ (p1 + r1) - (p + r) \in -1 .. 1
      /\ 2 * Disagreement(p1, r1) <= Disagreement(p, r) + 2
  BY <1>1, <1>3, OneRound, Zenon
<1> HIDE DEF p1, r1
<1>5. Inside(p1, f, b) /\ Inside(r1, f, b)
  BY <1>1, <1>4 DEF Inside
<1>6. (p1 + r1) - (f + b) \in -(i + 1) .. (i + 1)
  BY <1>1, <1>2, <1>4
<1>7. (Disagreement(p1, r1) - 2) * 2^(i + 1) <= Reach
  <2>1. Disagreement(p1, r1) \in Int /\ Disagreement(p, r) \in Int
    BY <1>1, <1>4 DEF Disagreement
  <2>2. 2^i \in Nat /\ 2^(i + 1) = 2 * 2^i
    BY <1>2, PowerPositive, PowerStep
  <2>3. ASSUME NEW x \in Int, NEW y \in Int, 2 * x <= y + 2, NEW w \in Nat
        PROVE  (x - 2) * (2 * w) <= (y - 2) * w
    <3>1. (x - 2) * (2 * w) = (2 * x - 4) * w
      OBVIOUS
    <3>2. 2 * x - 4 \in Int /\ y - 2 \in Int /\ 2 * x - 4 <= y - 2
      BY <2>3
    <3>3. (2 * x - 4) * w <= (y - 2) * w
      BY <3>2, ProductOrder, Zenon
    <3>4. QED  BY <3>1, <3>3, Zenon
  <2>4. (Disagreement(p1, r1) - 2) * (2 * 2^i) <= (Disagreement(p, r) - 2) * 2^i
    BY <1>4, <2>1, <2>2, <2>3, Zenon
  <2>5. ASSUME NEW x \in Int, NEW y \in Int, NEW z \in Int, x <= y, y <= z PROVE x <= z
    BY <2>5
  <2>6. /\ (Disagreement(p1, r1) - 2) * (2 * 2^i) \in Int
        /\ (Disagreement(p, r) - 2) * 2^i \in Int
    BY <2>1, <2>2
  <2>7. (Disagreement(p1, r1) - 2) * (2 * 2^i) <= Reach
    BY <1>1, <2>4, <2>5, <2>6, ReachIsInt, Zenon
  <2>8. QED  BY <2>2, <2>7, Zenon
<1>8. Halving(p1, r1, f, b, i + 1)
  BY <1>1, <1>2, <1>4, <1>5, <1>6, <1>7, Zenon DEF Halving
<1>9. QED  BY <1>8 DEF p1, r1

(* When the rounds end, and there was one, the sides have met.             *)
LEMMA HalvingEnds ==
    ASSUME NEW p, NEW r, NEW f, NEW b, NEW i, Halving(p, r, f, b, i),
           \/ i >= MaxIterations
           \/ i # 0 /\ Disagreement(p, r) < Tolerance
    PROVE  /\ Disagreement(p, r) <= Tolerance
           /\ \E g \in Min({f, b}) .. Max({f, b}) :
                 /\ g = TruncDiv(p + r, 2)
                 /\ Disagreement(2 * g, Min({f, b}) + Max({f, b})) <= 2 * i
<1>1. /\ p \in Int /\ r \in Int /\ f \in Int /\ b \in Int /\ i \in 0 .. MaxIterations
      /\ Inside(p, f, b) /\ Inside(r, f, b)
      /\ (p + r) - (f + b) \in -i .. i
      /\ (Disagreement(p, r) - 2) * 2^i <= Reach
  BY DEF Halving
<1>2. MaxIterations \in Nat /\ MaxIterations > 0 /\ Tolerance \in Nat
  BY TemporalMirrorAssumption
<1>3. Disagreement(p, r) \in Int
  BY <1>1 DEF Disagreement
<1>4. Disagreement(p, r) <= Tolerance
  <2>1. CASE i # 0 /\ Disagreement(p, r) < Tolerance
    BY <1>2, <1>3, <2>1
  <2>2. CASE i >= MaxIterations
    <3>1. i = MaxIterations
      BY <1>1, <1>2, <2>2
    <3>2. 2^MaxIterations \in Nat /\ 2^MaxIterations > 0
      BY <1>2, PowerPositive
    <3>3. (Disagreement(p, r) - 2) * 2^MaxIterations <= (Tolerance - 2) * 2^MaxIterations
      BY <1>1, <3>1, Zenon DEF Reach
    <3>4. Disagreement(p, r) - 2 \in Int /\ Tolerance - 2 \in Int
      BY <1>2, <1>3
    <3>5. Disagreement(p, r) - 2 <= Tolerance - 2
      BY <3>2, <3>3, <3>4, ProductStrict, Zenon
    <3>6. QED  BY <1>2, <1>3, <3>5
  <2>3. QED  BY <2>1, <2>2
<1>5. i \in Nat /\ i >= 1
  BY <1>1, <1>2
<1>6. PICK lo \in Int, hi \in Int :
          /\ lo = Min({f, b}) /\ hi = Max({f, b}) /\ lo + hi = f + b
          /\ lo <= p /\ p <= hi /\ lo <= r /\ r <= hi
  <2>1. CASE f <= b
    <3>1. Min({f, b}) = f /\ Max({f, b}) = b
      BY <1>1, <2>1, MinOfTwo, MaxOfTwo
    <3>2. f <= p /\ p <= b /\ f <= r /\ r <= b
      BY <1>1, <2>1 DEF Inside
    <3>3. QED  BY <1>1, <3>1, <3>2
  <2>2. CASE ~ (f <= b)
    <3>1. Min({f, b}) = b /\ Max({f, b}) = f
      BY <1>1, <2>2, MinOfTwo, MaxOfTwo
    <3>2. b <= p /\ p <= f /\ b <= r /\ r <= f
      BY <1>1, <2>2 DEF Inside
    <3>3. b + f = f + b
      BY <1>1
    <3>4. QED  BY <1>1, <3>1, <3>2, <3>3
  <2>3. QED  BY <2>1, <2>2
<1>7. TruncDiv(p + r, 2) \in Int /\ 2 * TruncDiv(p + r, 2) - (p + r) \in -1 .. 1
  BY <1>1 DEF TruncDiv
<1>8. PICK g \in Int : g = TruncDiv(p + r, 2) /\ 2 * g - (p + r) \in -1 .. 1
  BY <1>7, Zenon
<1>9. g \in lo .. hi
  BY <1>1, <1>6, <1>8
<1>10. Disagreement(2 * g, lo + hi) <= 2 * i
  <2>1. 2 * g - (lo + hi) \in -(2 * i) .. 2 * i
    BY <1>1, <1>5, <1>6, <1>8
  <2>2. QED  BY <1>5, <1>6, <1>8, <2>1 DEF Disagreement
<1>11. QED  BY <1>4, <1>6, <1>8, <1>9, <1>10, Zenon

LEMMA MirrorInductive ==
    ASSUME MirrorInv, [MirrorNext]_mirrorVars
    PROVE  MirrorInv'
<1>1. ASSUME NEW o \in Reports(NodeOffset), NEW q \in Reports(DriftPpb), NEW prev \in PrevTime,
             solve_boundary(o, q, prev)
      PROVE  MirrorInv'
  <2> DEFINE fw == Forward(o, q, prev)
             bw == Backward(o, prev)
  <2>1. CASE fw = <<>> \/ bw = <<>>
    <3>1. mirror' = NoFixedPoint /\ means' = <<>>
      BY <1>1, <2>1 DEF solve_boundary
    <3>2. mirror'.of = <<>> /\ mirror'.disagreement = U64 - 1
      BY <3>1 DEF NoFixedPoint
    <3>3. ~ (U64 - 1 <= Tolerance)
      BY TemporalMirrorAssumption
    <3>4. MirrorsMeet'
      BY <3>2, <3>3 DEF MirrorsMeet, is_consistent
    <3>5. QED  BY <3>1, <3>4 DEF MirrorInv
  <2>2. CASE ~ (fw = <<>> \/ bw = <<>>)
    <3>1. /\ means' = <<Mean(fw), Mean(bw)>> /\ mirror' = <<>> /\ iterations' = 0
          /\ predictive' = means'[1] /\ retrodictive' = means'[2]
      BY <1>1, <2>2, Zenon DEF solve_boundary
    <3>2. means'[1] = Mean(fw) /\ means'[2] = Mean(bw)
      BY <3>1
    <3>3. /\ Mean(fw) \in Int /\ Mean(bw) \in Int
          /\ Mean(fw) - Mean(bw) \in -Reach .. Reach
      BY <2>2, StartWithinReach, Zenon
    <3>4. Halving(Mean(fw), Mean(bw), Mean(fw), Mean(bw), 0)
      BY <3>3, HalvingStarts, Zenon
    <3> HIDE DEF fw, bw
    <3>5. Halving(predictive', retrodictive', means'[1], means'[2], iterations')
      BY <3>1, <3>2, <3>4, Zenon
    <3>6. means' = <<means'[1], means'[2]>>
      BY <3>1, <3>2, Zenon
    <3>7. MirrorsMeet'
      BY <3>1 DEF MirrorsMeet
    <3>8. Halving(predictive, retrodictive, means[1], means[2], iterations)'
      BY <3>5 DEF Halving, Inside
    <3>9. QED  BY <3>6, <3>7, <3>8, Zenon DEF MirrorInv
  <2>3. QED  BY <2>1, <2>2
<1>2. ASSUME Bisect PROVE MirrorInv'
  <2>1. /\ means # <<>> /\ iterations < MaxIterations
        /\ predictive' = Damped(predictive, Midpoint(predictive, retrodictive))
        /\ retrodictive' = Damped(retrodictive, Midpoint(predictive, retrodictive))
        /\ iterations' = iterations + 1 /\ means' = means /\ mirror' = mirror
    BY <1>2 DEF Bisect, MayBisect
  <2>2. /\ means = <<means[1], means[2]>>
        /\ Halving(predictive, retrodictive, means[1], means[2], iterations)
    BY <2>1, Zenon DEF MirrorInv
  <2>3. Halving(predictive', retrodictive', means[1], means[2], iterations')
    BY <2>1, <2>2, HalvingGoesOn, Zenon
  <2>4. Halving(predictive, retrodictive, means[1], means[2], iterations)'
    BY <2>1, <2>3 DEF Halving, Inside
  <2>5. MirrorsMeet'
    BY <2>1 DEF MirrorInv, MirrorsMeet
  <2>6. QED  BY <2>1, <2>2, <2>4, <2>5, Zenon DEF MirrorInv
<1>3. ASSUME FixedPoint PROVE MirrorInv'
  <2>1. /\ means # <<>> /\ means' = <<>>
        /\ \/ ~ (iterations < MaxIterations)
           \/ iterations # 0 /\ ~ (Disagreement(predictive, retrodictive) >= Tolerance)
        /\ mirror' = [fixed_point  |-> AsU64(TruncDiv(predictive + retrodictive, 2)),
                      disagreement |-> Disagreement(predictive, retrodictive),
                      iterations   |-> iterations,
                      of           |-> means]
    BY <1>3 DEF FixedPoint, MayBisect
  <2>2. Halving(predictive, retrodictive, means[1], means[2], iterations)
    BY <2>1, Zenon DEF MirrorInv
  <2>3. \/ iterations >= MaxIterations
        \/ iterations # 0 /\ Disagreement(predictive, retrodictive) < Tolerance
    <3>1. iterations \in Int /\ MaxIterations \in Int /\ Tolerance \in Int
      BY <2>2, TemporalMirrorAssumption DEF Halving
    <3>2. Disagreement(predictive, retrodictive) \in Int
      BY <2>2 DEF Halving, Disagreement
    <3>3. QED  BY <2>1, <3>1, <3>2
  <2> DEFINE lo == Min({means[1], means[2]})
             hi == Max({means[1], means[2]})
  <2>4. PICK g \in lo .. hi : /\ g = TruncDiv(predictive + retrodictive, 2)
                              /\ Disagreement(2 * g, lo + hi) <= 2 * iterations
    BY <2>2, <2>3, HalvingEnds, Zenon
  <2>5. Disagreement(predictive, retrodictive) <= Tolerance
    BY <2>2, <2>3, HalvingEnds, Zenon
  <2>6. /\ mirror'.of = means /\ mirror'.iterations = iterations
        /\ mirror'.fixed_point = AsU64(TruncDiv(predictive + retrodictive, 2))
        /\ mirror'.disagreement = Disagreement(predictive, retrodictive)
    BY <2>1, Zenon
  <2>7. /\ mirror'.disagreement <= Tolerance
        /\ \E x \in lo .. hi : /\ mirror'.fixed_point = AsU64(x)
                               /\ Disagreement(2 * x, lo + hi) <= 2 * mirror'.iterations
    BY <2>4, <2>5, <2>6, Zenon
  <2>8. MirrorsMeet'
    BY <2>1, <2>6, <2>7, Zenon DEF MirrorsMeet, is_consistent, AsU64, Disagreement
  <2>9. QED  BY <2>1, <2>8 DEF MirrorInv
<1>4. ASSUME UNCHANGED mirrorVars PROVE MirrorInv'
  BY <1>4, Zenon DEF mirrorVars, MirrorInv, MirrorsMeet, Halving, Inside, is_consistent,
                     AsU64, Disagreement
<1>5. QED  BY <1>1, <1>2, <1>3, <1>4, Zenon DEF MirrorNext

(* The forward and the backward estimate of an epoch boundary meet within  *)
(* the rounds the solver has, between the two means and near their middle, *)
(* for any number of nodes, any reports and any tolerance: truncated       *)
(* division costs a nanosecond a round, whatever the signs, and never      *)
(* makes the sides miss each other (temporal_mirror.rs, solve_boundary).   *)
THEOREM MirrorsAlwaysMeet == MirrorSpec => []MirrorsMeet
<1>1. MirrorInit => MirrorInv
  BY DEF MirrorInit, MirrorInv, MirrorsMeet
<1>2. MirrorInv /\ [MirrorNext]_mirrorVars => MirrorInv'
  BY MirrorInductive
<1>3. MirrorInv => MirrorsMeet
  BY DEF MirrorInv
<1>4. QED  BY <1>1, <1>2, <1>3, PTL DEF MirrorSpec
-----------------------------------------------------------------------------
(* The routing table.                                                      *)

(* The list r is what is left of s without x; e says where it was in s.    *)
Selects(r, s, x, e) ==
    /\ \A k \in 1 .. Len(r) : e[k] \in 1 .. Len(s) /\ r[k] = s[e[k]] /\ s[e[k]] # x
    /\ \A k, l \in 1 .. Len(r) : k < l => e[k] < e[l]
    /\ \A i \in 1 .. Len(s) : s[i] # x => \E k \in 1 .. Len(r) : e[k] = i

LEMMA RetainMeaning ==
    ASSUME NEW T, NEW s \in Seq(T), NEW x
    PROVE  retain(s, x) \in Seq(T) /\ \E e : Selects(retain(s, x), s, x, e)
<1> DEFINE n == Len(s)
           others == {i \in 1 .. n : s[i] # x}
           R == {e \in others \X others : e[1] < e[2]}
           at == Arranged(others, R)
           m == Cardinality(others)
<1>1. n \in Nat /\ DOMAIN s = 1 .. n /\ \A i \in 1 .. n : s[i] \in T
  BY LenProperties, ElementOfSeq
<1>2. IsFiniteSet(others)
  <2>1. IsFiniteSet(1 .. n)
    BY <1>1, FS_Interval
  <2>2. others \in SUBSET (1 .. n)
    OBVIOUS
  <2>3. QED  BY <2>1, <2>2, FS_Subset, Zenon
<1>3. \A i, j \in others : <<i, j>> \in R <=> i < j
  OBVIOUS
<1>4. others \subseteq Int
  BY <1>1
<1> HIDE DEF R
<1>5. Orders(R, others)
  <2> HIDE DEF others
  <2>1. QED  BY <1>3, <1>4 DEF Orders
<1>6. /\ m \in Nat
      /\ \A k \in 1 .. m : at[k] \in others
      /\ \A i \in others : \E k \in 1 .. m : i = at[k]
      /\ \A k, l \in 1 .. m : k < l => <<at[k], at[l]>> \in R
  <2> HIDE DEF others
  <2>1. QED  BY <1>2, <1>5, ArrangedMeaning, Zenon
<1> DEFINE r == [k \in 1 .. m |-> s[at[k]]]
<1>7. retain(s, x) = r
  BY <1>1, Zenon DEF retain, Subsequence, Ascending, R
<1>8. \A k \in 1 .. m : at[k] \in 1 .. n /\ s[at[k]] # x /\ s[at[k]] \in T
  BY <1>1, <1>6
<1>9. r \in [1 .. m -> T] /\ \A k \in 1 .. m : r[k] = s[at[k]]
  BY <1>8
<1>10. \A k, l \in 1 .. m : k < l => at[k] < at[l]
  BY <1>3, <1>6
<1>11. \A i \in 1 .. n : s[i] # x => \E k \in 1 .. m : at[k] = i
  BY <1>6
<1> HIDE DEF r, at, m, n
<1>12. Len(r) = m /\ r \in Seq(T)
  <2>1. r \in UNION {[1 .. j -> T] : j \in Nat}
    BY <1>6, <1>9, Zenon
  <2>2. QED  BY <1>6, <1>9, <2>1, ListLength, SeqDef, Zenon
<1>13. Selects(r, s, x, at)
  BY <1>8, <1>9, <1>10, <1>11, <1>12, Zenon DEF Selects, n
<1>14. QED  BY <1>7, <1>12, <1>13, Zenon

(* Without x in b, it makes no difference to take it from s.               *)
LEMMA FollowsRetained ==
    ASSUME NEW T, NEW b \in Seq(T), NEW s \in Seq(T), Follows(b, s), NEW x,
           \A k \in 1 .. Len(b) : b[k] # x
    PROVE  Follows(b, retain(s, x))
<1> DEFINE r == retain(s, x)
<1>1. r \in Seq(T)
  BY RetainMeaning, Zenon
<1>2. PICK e : Selects(r, s, x, e)
  BY RetainMeaning, Zenon
<1> HIDE DEF r
<1>3. /\ DOMAIN b = 1 .. Len(b) /\ DOMAIN s = 1 .. Len(s) /\ DOMAIN r = 1 .. Len(r)
      /\ Len(b) \in Nat /\ Len(s) \in Nat /\ Len(r) \in Nat
  BY <1>1, LenProperties
<1>4. ASSUME NEW k \in 1 .. Len(b) PROVE \E p \in 1 .. Len(r) : b[k] = r[p]
  <2>1. PICK i \in 1 .. Len(s) : b[k] = s[i]
    BY <1>3 DEF Follows
  <2>2. s[i] # x
    BY <2>1
  <2>3. PICK p \in 1 .. Len(r) : e[p] = i
    BY <1>2, <2>2 DEF Selects
  <2>4. r[p] = s[i]
    BY <1>2, <2>3 DEF Selects
  <2>5. QED  BY <2>1, <2>4
<1>5. ASSUME NEW k \in 1 .. Len(b), NEW l \in 1 .. Len(b),
             NEW p \in 1 .. Len(r), NEW q \in 1 .. Len(r),
             k < l, b[k] = r[p], b[l] = r[q]
      PROVE  p < q
  <2>1. /\ e[p] \in 1 .. Len(s) /\ e[q] \in 1 .. Len(s)
        /\ b[k] = s[e[p]] /\ b[l] = s[e[q]]
    BY <1>2, <1>5 DEF Selects
  <2>2. e[p] < e[q]
    BY <1>3, <1>5, <2>1 DEF Follows
  <2>3. p # q /\ ~ (q < p)
    <3>1. q < p => e[q] < e[p]
      BY <1>2 DEF Selects
    <3>2. e[p] \in Int /\ e[q] \in Int
      BY <1>3, <2>1
    <3>3. QED  BY <2>2, <3>1, <3>2
  <2>4. QED  BY <1>3, <2>3
<1>6. Follows(b, r)
  BY <1>3, <1>4, <1>5, Zenon DEF Follows
<1>7. QED  BY <1>6 DEF r

LEMMA RetainedFollows ==
    ASSUME NEW T, NEW b \in Seq(T), NEW s \in Seq(T), Follows(b, s), NEW x
    PROVE  Follows(retain(b, x), s)
<1> DEFINE r == retain(b, x)
<1>1. r \in Seq(T)
  BY RetainMeaning, Zenon
<1>2. PICK e : Selects(r, b, x, e)
  BY RetainMeaning, Zenon
<1> HIDE DEF r
<1>3. /\ DOMAIN b = 1 .. Len(b) /\ DOMAIN s = 1 .. Len(s) /\ DOMAIN r = 1 .. Len(r)
      /\ Len(b) \in Nat /\ Len(s) \in Nat /\ Len(r) \in Nat
  BY <1>1, LenProperties
<1>4. ASSUME NEW k \in 1 .. Len(r) PROVE \E p \in 1 .. Len(s) : r[k] = s[p]
  <2>1. e[k] \in 1 .. Len(b) /\ r[k] = b[e[k]]
    BY <1>2 DEF Selects
  <2>2. QED  BY <1>3, <2>1 DEF Follows
<1>5. ASSUME NEW k \in 1 .. Len(r), NEW l \in 1 .. Len(r),
             NEW p \in 1 .. Len(s), NEW q \in 1 .. Len(s),
             k < l, r[k] = s[p], r[l] = s[q]
      PROVE  p < q
  <2>1. /\ e[k] \in 1 .. Len(b) /\ e[l] \in 1 .. Len(b)
        /\ r[k] = b[e[k]] /\ r[l] = b[e[l]] /\ e[k] < e[l]
    BY <1>2, <1>5 DEF Selects
  <2>2. b[e[k]] = s[p] /\ b[e[l]] = s[q]
    BY <1>5, <2>1
  <2>3. \A i, j \in 1 .. Len(b) : i < j /\ b[i] = s[p] /\ b[j] = s[q] => p < q
    BY <1>3, Zenon DEF Follows
  <2>4. QED  BY <2>1, <2>2, <2>3, Zenon
<1>6. Follows(r, s)
  BY <1>3, <1>4, <1>5, Zenon DEF Follows
<1>7. QED  BY <1>6 DEF r

LEMMA FollowsAppended ==
    ASSUME NEW T, NEW b \in Seq(T), NEW s \in Seq(T), Follows(b, s), NEW x \in T,
           \A p \in 1 .. Len(s) : s[p] # x
    PROVE  Follows(b, Append(s, x)) /\ Follows(Append(b, x), Append(s, x))
<1> DEFINE s1 == Append(s, x)
           b1 == Append(b, x)
<1>1. /\ DOMAIN b = 1 .. Len(b) /\ DOMAIN s = 1 .. Len(s) /\ Len(b) \in Nat /\ Len(s) \in Nat
      /\ DOMAIN s1 = 1 .. Len(s) + 1 /\ DOMAIN b1 = 1 .. Len(b) + 1
      /\ \A p \in 1 .. Len(s) : s1[p] = s[p]
      /\ \A k \in 1 .. Len(b) : b1[k] = b[k]
      /\ s1[Len(s) + 1] = x /\ b1[Len(b) + 1] = x
  <2>1. Len(s1) = Len(s) + 1 /\ Len(b1) = Len(b) + 1 /\ s1 \in Seq(T) /\ b1 \in Seq(T)
    BY AppendProperties
  <2>2. Len(b) \in Nat /\ Len(s) \in Nat
    BY LenProperties
  <2>3. DOMAIN s1 = 1 .. Len(s) + 1 /\ DOMAIN b1 = 1 .. Len(b) + 1
    BY <2>1, LenProperties
  <2>4. QED  BY <2>2, <2>3, AppendProperties, LenProperties
<1> HIDE DEF s1, b1
<1>2. \A k \in 1 .. Len(b) : b[k] # x /\ \E p \in 1 .. Len(s) : b[k] = s[p]
  BY <1>1 DEF Follows
<1>3. \A k, l \in 1 .. Len(b), p, q \in 1 .. Len(s) :
          k < l /\ b[k] = s[p] /\ b[l] = s[q] => p < q
  BY <1>1, Zenon DEF Follows
<1>4. ASSUME NEW k \in 1 .. Len(b), NEW p \in 1 .. Len(s) + 1, b[k] = s1[p]
      PROVE  p \in 1 .. Len(s) /\ b[k] = s[p]
  <2>1. p # Len(s) + 1
    BY <1>1, <1>2, <1>4
  <2>2. p \in 1 .. Len(s)
    BY <1>1, <2>1
  <2>3. QED  BY <1>1, <1>4, <2>2
<1>5. \A k \in 1 .. Len(b) : \E p \in 1 .. Len(s) + 1 : b[k] = s1[p]
  <2>1. \A p \in 1 .. Len(s) : p \in 1 .. Len(s) + 1
    BY <1>1
  <2>2. QED  BY <1>1, <1>2, <2>1, Zenon
<1>6. Follows(b, s1)
  <2>1. ASSUME NEW k \in 1 .. Len(b), NEW l \in 1 .. Len(b),
               NEW p \in 1 .. Len(s) + 1, NEW q \in 1 .. Len(s) + 1,
               k < l, b[k] = s1[p], b[l] = s1[q]
        PROVE  p < q
    <3>1. p \in 1 .. Len(s) /\ b[k] = s[p] /\ q \in 1 .. Len(s) /\ b[l] = s[q]
      BY <1>4, <2>1, Zenon
    <3>2. QED  BY <1>3, <2>1, <3>1, Zenon
  <2>2. QED  BY <1>1, <1>5, <2>1, Zenon DEF Follows
<1>7. Follows(b1, s1)
  <2>1. ASSUME NEW k \in 1 .. Len(b) + 1 PROVE \E p \in 1 .. Len(s) + 1 : b1[k] = s1[p]
    <3>1. CASE k = Len(b) + 1
      <4>1. Len(s) + 1 \in 1 .. Len(s) + 1
        BY <1>1
      <4>2. QED  BY <1>1, <3>1, <4>1, Zenon
    <3>2. CASE k # Len(b) + 1
      <4>1. k \in 1 .. Len(b)
        BY <1>1, <3>2
      <4>2. QED  BY <1>1, <1>5, <4>1, Zenon
    <3>3. QED  BY <3>1, <3>2
  <2>2. ASSUME NEW k \in 1 .. Len(b) + 1, NEW l \in 1 .. Len(b) + 1,
               NEW p \in 1 .. Len(s) + 1, NEW q \in 1 .. Len(s) + 1,
               k < l, b1[k] = s1[p], b1[l] = s1[q]
        PROVE  p < q
    <3>1. k \in 1 .. Len(b)
      BY <1>1, <2>2
    <3>2. p \in 1 .. Len(s) /\ b[k] = s[p]
      BY <1>1, <1>4, <2>2, <3>1
    <3>3. CASE l = Len(b) + 1
      <4>1. s1[q] = x
        BY <1>1, <2>2, <3>3
      <4>2. q \notin 1 .. Len(s)
        BY <1>1, <4>1
      <4>3. QED  BY <1>1, <3>2, <4>2
    <3>4. CASE l # Len(b) + 1
      <4>1. l \in 1 .. Len(b)
        BY <1>1, <3>4
      <4>2. q \in 1 .. Len(s) /\ b[l] = s[q]
        BY <1>1, <1>4, <2>2, <4>1
      <4>3. QED  BY <1>3, <2>2, <3>1, <3>2, <4>1, <4>2, Zenon
    <3>5. QED  BY <3>3, <3>4
  <2>3. QED  BY <1>1, <2>1, <2>2, Zenon DEF Follows
<1>8. QED  BY <1>6, <1>7 DEF s1, b1

LEMMA RetainShorter ==
    ASSUME NEW T, NEW s \in Seq(T), NEW x
    PROVE  /\ Len(retain(s, x)) <= Len(s)
           /\ (\E j \in 1 .. Len(s) : s[j] = x) => Len(retain(s, x)) < Len(s)
<1> DEFINE r == retain(s, x)
<1>1. r \in Seq(T)
  BY RetainMeaning, Zenon
<1>2. PICK e : Selects(r, s, x, e)
  BY RetainMeaning, Zenon
<1> HIDE DEF r
<1>3. Len(s) \in Nat /\ Len(r) \in Nat
  BY <1>1, LenProperties
<1> DEFINE m == Len(r)
           n == Len(s)
           f == [k \in 1 .. m |-> e[k]]
<1>4. /\ IsFiniteSet(1 .. m) /\ Cardinality(1 .. m) = m
      /\ IsFiniteSet(1 .. n) /\ Cardinality(1 .. n) = n
  <2>1. \A j \in Nat : IsFiniteSet(1 .. j) /\ Cardinality(1 .. j) = j
    BY FS_Interval
  <2>2. QED  BY <1>3, <2>1, Zenon
<1>5. ASSUME NEW D, D \subseteq 1 .. n, \A k \in 1 .. m : e[k] \in D
      PROVE  m <= Cardinality(D)
  <2>1. f \in [1 .. m -> D] /\ \A k \in 1 .. m : f[k] = e[k]
    BY <1>5
  <2>2. \A k, l \in 1 .. m : e[k] = e[l] => k = l
    <3>1. ASSUME NEW k \in 1 .. m, NEW l \in 1 .. m, e[k] = e[l], k # l PROVE FALSE
      <4>1. k < l \/ l < k
        BY <1>3, <3>1
      <4>2. e[k] < e[l] \/ e[l] < e[k]
        BY <1>2, <4>1, Zenon DEF Selects
      <4>3. e[k] \in Int
        BY <1>2, <1>3 DEF Selects
      <4>4. QED  BY <3>1, <4>2, <4>3
    <3>2. QED  BY <3>1
  <2>3. f \in Injection(1 .. m, D)
    <3> HIDE DEF f, m
    <3>1. QED  BY <2>1, <2>2 DEF Injection, IsInjective
  <2>4. IsFiniteSet(D)
    BY <1>4, <1>5, FS_Subset
  <2>5. Cardinality(1 .. m) <= Cardinality(D)
    BY <2>3, <2>4, FS_Injection, Zenon
  <2>6. QED  BY <1>4, <2>5, Zenon
<1>6. \A k \in 1 .. m : e[k] \in 1 .. n /\ s[e[k]] # x
  BY <1>2 DEF Selects
<1>7. m <= n
  BY <1>4, <1>5, <1>6, Zenon
<1>8. ASSUME NEW j \in 1 .. n, s[j] = x PROVE m < n
  <2>1. m <= Cardinality((1 .. n) \ {j})
    BY <1>5, <1>6, <1>8
  <2>2. Cardinality((1 .. n) \ {j}) = n - 1
    BY <1>4, FS_RemoveElement
  <2>3. QED  BY <1>3, <2>1, <2>2
<1>9. QED  BY <1>7, <1>8 DEF r

-----------------------------------------------------------------------------
LEMMA SameBits ==
    ASSUME NEW a \in Id, NEW b \in Id, \A j \in 1 .. KeyBits : a[j] = b[j]
    PROVE  a = b
<1>1. a = [j \in 1 .. KeyBits |-> a[j]] /\ b = [j \in 1 .. KeyBits |-> b[j]]
  BY DEF Id
<1>2. QED  BY <1>1, Zenon

LEMMA XorBits ==
    ASSUME NEW a \in Id, NEW b \in Id
    PROVE  /\ xor_distance(a, b) \in [1 .. KeyBits -> {0, 1}]
           /\ \A j \in 1 .. KeyBits : xor_distance(a, b)[j] = 0 <=> a[j] = b[j]
<1>1. \A j \in 1 .. KeyBits : a[j] \in {0, 1} /\ b[j] \in {0, 1}
  BY DEF Id
<1>2. \A x, y \in {0, 1} : (x + y) % 2 \in {0, 1} /\ ((x + y) % 2 = 0 <=> x = y)
  BY SMT
<1>3. \A j \in 1 .. KeyBits : /\ xor_distance(a, b)[j] = (a[j] + b[j]) % 2
                              /\ (a[j] + b[j]) % 2 \in {0, 1}
  BY <1>1, <1>2, Zenon DEF xor_distance
<1>4. xor_distance(a, b) \in [1 .. KeyBits -> {0, 1}]
  BY <1>1, <1>2 DEF xor_distance
<1>5. ASSUME NEW j \in 1 .. KeyBits PROVE xor_distance(a, b)[j] = 0 <=> a[j] = b[j]
  <2>1. xor_distance(a, b)[j] = (a[j] + b[j]) % 2 /\ a[j] \in {0, 1} /\ b[j] \in {0, 1}
    BY <1>1, <1>3
  <2>2. (a[j] + b[j]) % 2 = 0 <=> a[j] = b[j]
    BY <1>2, <2>1
  <2>3. QED  BY <2>1, <2>2
<1>6. QED  BY <1>4, <1>5

(* The ids other than the own that belong into bucket i.                   *)
IdsOf(i) == {x \in Id : x # Local /\ bucket_index(Local, x) = i}

(* They are those that first differ from the own id KeyBits - i bits from  *)
(* the front.                                                              *)
LEMMA FirstDifference ==
    ASSUME NEW x \in Id, x # Local
    PROVE  /\ bucket_index(Local, x) \in Bucket
           /\ KeyBits - bucket_index(Local, x) \in 1 .. KeyBits
           /\ x[KeyBits - bucket_index(Local, x)] # Local[KeyBits - bucket_index(Local, x)]
           /\ \A j \in 1 .. (KeyBits - bucket_index(Local, x)) - 1 : x[j] = Local[j]
<1> DEFINE d == xor_distance(Local, x)
           D == {j \in 1 .. KeyBits : d[j] # 0}
<1>1. Local \in Id /\ KeyBits \in Nat
  BY RoutingAssumption
<1>2. /\ d \in [1 .. KeyBits -> {0, 1}]
      /\ \A j \in 1 .. KeyBits : d[j] = 0 <=> Local[j] = x[j]
  BY <1>1, XorBits, Zenon
<1>3. PICK j \in 1 .. KeyBits : Local[j] # x[j]
  BY <1>1, SameBits, Zenon
<1> HIDE DEF d
<1>4. D \in SUBSET Nat /\ D # {}
  BY <1>1, <1>2, <1>3
<1>5. PICK c \in D : \A y \in D : c <= y
  BY <1>4, LeastExists, Zenon
<1>6. /\ c \in 1 .. KeyBits /\ d[c] = 1
      /\ \A k \in 1 .. c - 1 : d[k] = 0
  BY <1>1, <1>2, <1>5
<1>7. \A k \in 1 .. KeyBits : d[k] = 1 /\ (\A l \in 1 .. k - 1 : d[l] = 0) => k = c
  BY <1>1, <1>6
<1>8. leading_zeros(d) = c - 1
  <2>1. ~ \A k \in 1 .. KeyBits : d[k] = 0
    BY <1>6
  <2>2. (CHOOSE k \in 1 .. KeyBits : d[k] = 1 /\ \A l \in 1 .. k - 1 : d[l] = 0) = c
    BY <1>6, <1>7
  <2>3. QED  BY <2>1, <2>2, Zenon DEF leading_zeros
<1>9. bucket_index(Local, x) = KeyBits - c
  <2>1. bucket_index(Local, x) = IF c - 1 >= KeyBits THEN KeyBits - 1 ELSE KeyBits - 1 - (c - 1)
    BY <1>8 DEF bucket_index, d
  <2>2. QED  BY <1>1, <1>6, <2>1
<1>10. KeyBits - (KeyBits - c) = c /\ KeyBits - c \in Bucket
  BY <1>1, <1>6 DEF Bucket
<1>11. x[c] # Local[c]
  BY <1>2, <1>6
<1>12. \A k \in 1 .. c - 1 : x[k] = Local[k]
  <2>1. \A k \in 1 .. c - 1 : k \in 1 .. KeyBits
    BY <1>1, <1>6
  <2>2. QED  BY <1>2, <1>6, <2>1
<1>13. QED  BY <1>6, <1>9, <1>10, <1>11, <1>12

LEMMA ClassSize ==
    ASSUME NEW i \in Bucket
    PROVE  IsFiniteSet(IdsOf(i)) /\ Cardinality(IdsOf(i)) <= 2^i
<1> DEFINE T == SUBSET (1 .. i)
           f == [x \in IdsOf(i) |-> {j \in 1 .. i : x[(KeyBits - i) + j] = 1}]
<1>1. KeyBits \in Nat /\ i \in Nat /\ i < KeyBits /\ Local \in Id
  BY RoutingAssumption DEF Bucket
<1>2. IsFiniteSet(T) /\ Cardinality(T) = 2^i
  <2>1. IsFiniteSet(1 .. i) /\ Cardinality(1 .. i) = i
    BY <1>1, FS_Interval
  <2>2. QED  BY <2>1, FS_SUBSET
<1>3. f \in [IdsOf(i) -> T] /\ \A x \in IdsOf(i) : f[x] = {j \in 1 .. i : x[(KeyBits - i) + j] = 1}
  OBVIOUS
<1> HIDE DEF f, T
<1>4. ASSUME NEW x \in IdsOf(i), NEW y \in IdsOf(i), f[x] = f[y] PROVE x = y
  <2>1. /\ x \in Id /\ x # Local /\ bucket_index(Local, x) = i
        /\ y \in Id /\ y # Local /\ bucket_index(Local, y) = i
    BY DEF IdsOf
  <2>2. /\ x[KeyBits - i] # Local[KeyBits - i] /\ \A j \in 1 .. (KeyBits - i) - 1 : x[j] = Local[j]
        /\ y[KeyBits - i] # Local[KeyBits - i] /\ \A j \in 1 .. (KeyBits - i) - 1 : y[j] = Local[j]
    BY <2>1, FirstDifference
  <2>3. \A p \in 1 .. KeyBits : x[p] \in {0, 1} /\ y[p] \in {0, 1} /\ Local[p] \in {0, 1}
    BY <1>1, <2>1 DEF Id
  <2>4. ASSUME NEW p \in 1 .. KeyBits PROVE x[p] = y[p]
    <3>1. CASE p < KeyBits - i
      <4>1. p \in 1 .. (KeyBits - i) - 1
        BY <1>1, <3>1
      <4>2. QED  BY <2>2, <4>1
    <3>2. CASE p = KeyBits - i
      BY <2>2, <2>3, <3>2
    <3>3. CASE p > KeyBits - i
      <4>1. PICK j \in 1 .. i : p = (KeyBits - i) + j
        <5>1. p - (KeyBits - i) \in 1 .. i /\ p = (KeyBits - i) + (p - (KeyBits - i))
          BY <1>1, <3>3
        <5>2. QED  BY <5>1
      <4>2. x[p] = 1 <=> y[p] = 1
        <5>1. j \in f[x] <=> j \in f[y]
          BY <1>4
        <5>2. (j \in f[x] <=> x[p] = 1) /\ (j \in f[y] <=> y[p] = 1)
          BY <1>3, <4>1
        <5>3. QED  BY <5>1, <5>2
      <4>3. QED  BY <2>3, <4>2
    <3>4. QED  BY <1>1, <3>1, <3>2, <3>3
  <2>5. QED  BY <2>1, <2>4, SameBits, Zenon
<1>5. f \in Injection(IdsOf(i), T)
  BY <1>3, <1>4 DEF Injection, IsInjective
<1>6. QED  BY <1>2, <1>5, FS_Injection

(* Closer is a strict order of distances.                                  *)
LEMMA CloserOrder ==
    ASSUME NEW a \in Id, NEW b \in Id, NEW c \in Id
    PROVE  /\ ~ Closer(a, a)
           /\ Closer(a, b) /\ Closer(b, c) => Closer(a, c)
           /\ a # b => Closer(a, b) \/ Closer(b, a)
<1>1. KeyBits \in Nat /\ \A j \in 1 .. KeyBits : a[j] \in {0, 1} /\ b[j] \in {0, 1} /\ c[j] \in {0, 1}
  BY RoutingAssumption DEF Id
<1>2. ~ Closer(a, a)
  BY <1>1 DEF Closer
<1>3. ASSUME Closer(a, b), Closer(b, c) PROVE Closer(a, c)
  <2>1. PICK i \in 1 .. KeyBits : a[i] < b[i] /\ \A k \in 1 .. i - 1 : a[k] = b[k]
    BY <1>3 DEF Closer
  <2>2. PICK j \in 1 .. KeyBits : b[j] < c[j] /\ \A k \in 1 .. j - 1 : b[k] = c[k]
    BY <1>3 DEF Closer
  <2>3. CASE i < j
    <3>1. a[i] < c[i]
      BY <1>1, <2>1, <2>2, <2>3
    <3>2. \A k \in 1 .. i - 1 : a[k] = c[k]
      BY <1>1, <2>1, <2>2, <2>3
    <3>3. QED  BY <3>1, <3>2 DEF Closer
  <2>4. CASE j < i
    <3>1. a[j] < c[j]
      BY <1>1, <2>1, <2>2, <2>4
    <3>2. \A k \in 1 .. j - 1 : a[k] = c[k]
      BY <1>1, <2>1, <2>2, <2>4
    <3>3. QED  BY <3>1, <3>2 DEF Closer
  <2>5. CASE i = j
    <3>1. a[i] < c[i]
      BY <1>1, <2>1, <2>2, <2>5
    <3>2. \A k \in 1 .. i - 1 : a[k] = c[k]
      BY <1>1, <2>1, <2>2, <2>5
    <3>3. QED  BY <3>1, <3>2 DEF Closer
  <2>6. QED  BY <1>1, <2>3, <2>4, <2>5
<1>4. ASSUME a # b PROVE Closer(a, b) \/ Closer(b, a)
  <2> DEFINE D == {j \in 1 .. KeyBits : a[j] # b[j]}
  <2>1. D \in SUBSET Nat /\ D # {}
    <3>1. PICK j \in 1 .. KeyBits : a[j] # b[j]
      BY <1>4, SameBits, Zenon
    <3>2. QED  BY <1>1, <3>1
  <2>2. PICK i \in D : \A y \in D : i <= y
    BY <2>1, LeastExists, Zenon
  <2>3. i \in 1 .. KeyBits /\ (a[i] < b[i] \/ b[i] < a[i])
    BY <1>1, <2>2
  <2>4. \A k \in 1 .. i - 1 : a[k] = b[k]
    BY <1>1, <2>2
  <2>5. QED  BY <2>3, <2>4 DEF Closer
<1>5. QED  BY <1>2, <1>3, <1>4

Absent(x, s) == \A k \in 1 .. Len(s) : s[k] # x

(* Bucket i and what was inserted into it.  A node that was inserted is    *)
(* missing only where there are more ids than places.                      *)
BucketInv(b, s, i) ==
    /\ b \in Seq(IdsOf(i)) /\ s \in Seq(IdsOf(i))
    /\ Len(b) <= BucketSize
    /\ Follows(b, s)
    /\ \A x \in IdsOf(i) : ~ Absent(x, s) /\ Absent(x, b) => 2^i > BucketSize

LEMMA RetainedMembers ==
    ASSUME NEW T, NEW s \in Seq(T), NEW x, NEW y
    PROVE  Absent(y, retain(s, x)) <=> y = x \/ Absent(y, s)
<1>1. PICK e : Selects(retain(s, x), s, x, e)
  BY RetainMeaning, Zenon
<1> DEFINE r == retain(s, x)
<1> HIDE DEF r
<1>2. Selects(r, s, x, e)
  BY <1>1 DEF r
<1>3. \A k \in 1 .. Len(r) : e[k] \in 1 .. Len(s) /\ r[k] = s[e[k]] /\ s[e[k]] # x
  BY <1>2 DEF Selects
<1>4. \A i \in 1 .. Len(s) : s[i] # x => \E k \in 1 .. Len(r) : e[k] = i
  BY <1>2 DEF Selects
<1>5. ASSUME y = x \/ Absent(y, s) PROVE Absent(y, r)
  BY <1>3, <1>5 DEF Absent
<1>6. ASSUME Absent(y, r), y # x PROVE Absent(y, s)
  <2> SUFFICES ASSUME NEW i \in 1 .. Len(s), s[i] = y PROVE FALSE
    BY DEF Absent
  <2>1. PICK k \in 1 .. Len(r) : e[k] = i
    BY <1>4, <1>6
  <2>2. QED  BY <1>3, <1>6, <2>1 DEF Absent
<1>7. QED  BY <1>5, <1>6 DEF r

LEMMA AppendedMembers ==
    ASSUME NEW T, NEW s \in Seq(T), NEW x \in T, NEW y
    PROVE  Absent(y, Append(s, x)) <=> y # x /\ Absent(y, s)
<1> DEFINE t == Append(s, x)
<1>1. Len(s) \in Nat
  BY LenProperties
<1>2. /\ Len(t) = Len(s) + 1 /\ t[Len(s) + 1] = x
      /\ \A k \in 1 .. Len(s) : t[k] = s[k]
  BY AppendProperties, LenProperties
<1> HIDE DEF t
<1>3. \A k : k \in 1 .. Len(t) <=> k \in 1 .. Len(s) \/ k = Len(s) + 1
  BY <1>1, <1>2
<1>4. Absent(y, t) <=> y # x /\ Absent(y, s)
  BY <1>2, <1>3, Zenon DEF Absent
<1>5. QED  BY <1>4 DEF t

(* A full bucket and one id more do not fit into 2^i.                      *)
LEMMA FullBucket ==
    ASSUME NEW i \in Bucket, NEW b \in Seq(IdsOf(i)), NEW s \in Seq(IdsOf(i)),
           Follows(b, s), NEW x \in IdsOf(i), Absent(x, b)
    PROVE  Len(b) < 2^i
<1> DEFINE n == Len(b) + 1
           f == Append(b, x)
<1>1. Len(b) \in Nat /\ DOMAIN b = 1 .. Len(b)
  BY LenProperties
<1>2. /\ f \in Seq(IdsOf(i)) /\ Len(f) = n
      /\ \A k \in 1 .. Len(b) : f[k] = b[k]
      /\ f[n] = x
  BY <1>1, AppendProperties
<1>3. DOMAIN f = 1 .. n /\ f \in [1 .. n -> IdsOf(i)]
  BY <1>2, LenProperties, ElementOfSeq
<1>4. ASSUME NEW k \in 1 .. n, NEW l \in 1 .. n, k < l PROVE f[k] # f[l]
  <2>1. k \in 1 .. Len(b)
    BY <1>1, <1>4
  <2>2. CASE l = n
    BY <1>2, <2>1, <2>2 DEF Absent
  <2>3. CASE l # n
    <3>1. l \in 1 .. Len(b)
      BY <1>1, <2>3
    <3>2. b[k] # b[l]
      <4> SUFFICES ASSUME b[k] = b[l] PROVE FALSE
        OBVIOUS
      <4>1. PICK p \in DOMAIN s : b[k] = s[p]
        BY <1>1, <2>1 DEF Follows
      <4>2. p < p
        BY <1>1, <1>4, <2>1, <3>1, <4>1 DEF Follows
      <4>3. p \in Int
        BY <4>1, LenProperties
      <4>4. QED  BY <4>2, <4>3
    <3>3. QED  BY <1>2, <2>1, <3>1, <3>2
  <2>4. QED  BY <2>2, <2>3
<1>5. f \in Injection(1 .. n, IdsOf(i))
  <2>1. \A k, l \in 1 .. n : f[k] = f[l] => k = l
    BY <1>1, <1>4
  <2> HIDE DEF f, n
  <2>2. QED  BY <1>3, <2>1 DEF Injection, IsInjective
<1>6. IsFiniteSet(IdsOf(i)) /\ Cardinality(IdsOf(i)) <= 2^i
  BY ClassSize
<1>7. Cardinality(1 .. n) <= Cardinality(IdsOf(i))
  BY <1>5, <1>6, FS_Injection, Zenon
<1>8. Cardinality(1 .. n) = n /\ n \in Nat
  BY <1>1, FS_Interval
<1>9. Cardinality(IdsOf(i)) \in Nat /\ 2^i \in Nat
  BY <1>6, FS_CardinalityType, PowerPositive DEF Bucket
<1>10. QED  BY <1>1, <1>6, <1>7, <1>8, <1>9

LEMMA InsertKeeps ==
    ASSUME NEW i \in Bucket, NEW b, NEW s, BucketInv(b, s, i), NEW x \in IdsOf(i)
    PROVE  BucketInv(BucketAfter(b, x), Append(retain(s, x), x), i)
<1> DEFINE T == IdsOf(i)
           s0 == retain(s, x)
           s1 == Append(s0, x)
<1>1. /\ b \in Seq(T) /\ s \in Seq(T) /\ Len(b) <= BucketSize /\ Follows(b, s)
      /\ \A y \in T : ~ Absent(y, s) /\ Absent(y, b) => 2^i > BucketSize
  BY DEF BucketInv
<1>2. s0 \in Seq(T) /\ \A y : Absent(y, s0) <=> y = x \/ Absent(y, s)
  BY <1>1, RetainMeaning, RetainedMembers, Zenon
<1>3. Absent(x, s0)
  BY <1>2
<1>4. s1 \in Seq(T) /\ \A y : Absent(y, s1) <=> y # x /\ Absent(y, s0)
  BY <1>2, AppendProperties, AppendedMembers
<1>5. BucketSize \in Nat /\ Len(b) \in Nat
  BY <1>1, RoutingAssumption, LenProperties
<1> HIDE DEF s0, s1, T
<1>6. CASE Absent(x, b)
  <2>1. Follows(b, s0)
    BY <1>1, <1>6, FollowsRetained, Zenon DEF s0, Absent
  <2>2. Follows(b, s1) /\ Follows(Append(b, x), s1)
    BY <1>1, <1>2, <1>3, <2>1, FollowsAppended, Zenon DEF s1, Absent, T
  <2>3. ~ Contains(b, x)
    BY <1>6 DEF Contains, Absent
  <2>4. CASE Len(b) < BucketSize
    <3>1. BucketAfter(b, x) = Append(b, x)
      BY <2>3, <2>4 DEF BucketAfter
    <3>2. Append(b, x) \in Seq(T) /\ Len(Append(b, x)) = Len(b) + 1
      BY <1>1, AppendProperties DEF T
    <3>3. \A y : Absent(y, Append(b, x)) <=> y # x /\ Absent(y, b)
      BY <1>1, AppendedMembers, Zenon DEF T
    <3>4. Len(b) + 1 <= BucketSize
      BY <1>5, <2>4
    <3>5. \A y \in T : ~ Absent(y, s1) /\ Absent(y, Append(b, x)) => 2^i > BucketSize
      BY <1>1, <1>2, <1>4, <3>3, Zenon
    <3>6. BucketInv(Append(b, x), s1, i)
      BY <1>4, <2>2, <3>2, <3>4, <3>5, Zenon DEF BucketInv, T
    <3>7. QED  BY <3>1, <3>6 DEF s1, s0
  <2>5. CASE ~ (Len(b) < BucketSize)
    <3>1. BucketAfter(b, x) = b
      BY <2>3, <2>5 DEF BucketAfter
    <3>2. Len(b) < 2^i
      BY <1>1, <1>6, FullBucket, Zenon DEF T
    <3>3. 2^i > BucketSize
      <4>1. 2^i \in Nat
        BY PowerPositive DEF Bucket
      <4>2. QED  BY <1>1, <1>5, <2>5, <3>2, <4>1
    <3>4. BucketInv(b, s1, i)
      BY <1>1, <1>4, <2>2, <3>3, Zenon DEF BucketInv, T
    <3>5. QED  BY <3>1, <3>4 DEF s1, s0
  <2>6. QED  BY <2>4, <2>5
<1>7. CASE ~ Absent(x, b)
  <2> DEFINE b0 == retain(b, x)
             b1 == Append(b0, x)
  <2>1. b0 \in Seq(T) /\ \A y : Absent(y, b0) <=> y = x \/ Absent(y, b)
    BY <1>1, RetainMeaning, RetainedMembers, Zenon
  <2>2. b1 \in Seq(T) /\ Len(b1) = Len(b0) + 1 /\ \A y : Absent(y, b1) <=> y # x /\ Absent(y, b0)
    BY <2>1, AppendProperties, AppendedMembers DEF T
  <2>3. BucketAfter(b, x) = b1
    BY <1>7 DEF BucketAfter, Contains, MovedToEnd, Absent
  <2>4. Len(b0) < Len(b) /\ Len(b0) \in Nat
    BY <1>1, <1>7, <2>1, RetainShorter, LenProperties DEF Absent
  <2>5. Follows(b0, s)
    BY <1>1, RetainedFollows, Zenon
  <2> HIDE DEF b0
  <2>6. Follows(b0, s0)
    BY <1>1, <2>1, <2>5, FollowsRetained, Zenon DEF s0, Absent
  <2>7. Follows(b1, s1)
    BY <1>2, <1>3, <2>1, <2>6, FollowsAppended, Zenon DEF s1, Absent, T
  <2>8. Len(b1) <= BucketSize
    BY <1>1, <1>5, <2>2, <2>4
  <2>9. \A y \in T : ~ Absent(y, s1) /\ Absent(y, b1) => 2^i > BucketSize
    BY <1>1, <1>2, <1>4, <2>1, <2>2, Zenon
  <2> HIDE DEF b1
  <2>10. BucketInv(b1, s1, i)
    BY <1>4, <2>2, <2>7, <2>8, <2>9, Zenon DEF BucketInv, T
  <2>11. QED  BY <2>3, <2>10 DEF s1, s0
<1>8. QED  BY <1>6, <1>7

LEMMA RemoveKeeps ==
    ASSUME NEW i \in Bucket, NEW b, NEW s, BucketInv(b, s, i), NEW x
    PROVE  BucketInv(retain(b, x), retain(s, x), i)
<1> DEFINE T == IdsOf(i)
           s0 == retain(s, x)
           b0 == retain(b, x)
<1>1. /\ b \in Seq(T) /\ s \in Seq(T) /\ Len(b) <= BucketSize /\ Follows(b, s)
      /\ \A y \in T : ~ Absent(y, s) /\ Absent(y, b) => 2^i > BucketSize
  BY DEF BucketInv
<1>2. s0 \in Seq(T) /\ \A y : Absent(y, s0) <=> y = x \/ Absent(y, s)
  BY <1>1, RetainMeaning, RetainedMembers, Zenon
<1>3. b0 \in Seq(T) /\ \A y : Absent(y, b0) <=> y = x \/ Absent(y, b)
  BY <1>1, RetainMeaning, RetainedMembers, Zenon
<1>4. Len(b0) <= BucketSize
  <2>1. Len(b0) <= Len(b)
    BY <1>1, RetainShorter, Zenon
  <2>2. Len(b0) \in Nat /\ Len(b) \in Nat /\ BucketSize \in Nat
    BY <1>1, <1>3, RoutingAssumption, LenProperties
  <2>3. QED  BY <1>1, <2>1, <2>2
<1>5. Follows(b0, s)
  BY <1>1, RetainedFollows, Zenon
<1> HIDE DEF T, b0
<1>6. Follows(b0, s0)
  BY <1>1, <1>3, <1>5, FollowsRetained, Zenon DEF Absent
<1>7. \A y \in T : ~ Absent(y, s0) /\ Absent(y, b0) => 2^i > BucketSize
  BY <1>1, <1>2, <1>3, Zenon
<1> HIDE DEF s0
<1>8. BucketInv(b0, s0, i)
  BY <1>2, <1>3, <1>4, <1>6, <1>7, Zenon DEF BucketInv, T
<1>9. QED  BY <1>8 DEF b0, s0

LEMMA BucketOnce ==
    ASSUME NEW T, NEW b \in Seq(T), NEW s \in Seq(T), Follows(b, s),
           NEW k \in 1 .. Len(b), NEW l \in 1 .. Len(b), b[k] = b[l]
    PROVE  k = l
<1>1. /\ Len(b) \in Nat /\ DOMAIN b = 1 .. Len(b)
      /\ Len(s) \in Nat /\ DOMAIN s = 1 .. Len(s)
  BY LenProperties
<1>2. PICK p \in 1 .. Len(s) : b[k] = s[p]
  BY <1>1 DEF Follows
<1>3. k < l => p < p
  BY <1>1, <1>2 DEF Follows
<1>4. l < k => p < p
  BY <1>1, <1>2 DEF Follows
<1>5. QED  BY <1>1, <1>2, <1>3, <1>4

LEMMA XorInjective ==
    ASSUME NEW a \in Id, NEW b \in Id, NEW t \in Id, xor_distance(a, t) = xor_distance(b, t)
    PROVE  a = b
<1>1. ASSUME NEW j \in 1 .. KeyBits PROVE a[j] = b[j]
  <2>1. a[j] = t[j] <=> b[j] = t[j]
    BY XorBits
  <2>2. a[j] \in {0, 1} /\ b[j] \in {0, 1} /\ t[j] \in {0, 1}
    BY DEF Id
  <2>3. QED  BY <2>1, <2>2
<1>2. QED  BY <1>1, SameBits, Zenon

RoutingInv ==
    /\ buckets = [i \in Bucket |-> buckets[i]] /\ inserted = [i \in Bucket |-> inserted[i]]
    /\ \A i \in Bucket : BucketInv(buckets[i], inserted[i], i)

(* No two slots hold the same node.                                        *)
LEMMA SlotsDiffer ==
    ASSUME RoutingInv
    PROVE  /\ IsFiniteSet(Slots)
           /\ \A x \in Slots : NodeAt(x) \in Id /\ x[1] \in Int /\ x[2] \in Int
           /\ \A x, y \in Slots : NodeAt(x) = NodeAt(y) => x = y
<1>1. \A i \in Bucket : /\ buckets[i] \in Seq(IdsOf(i)) /\ inserted[i] \in Seq(IdsOf(i))
                        /\ Len(buckets[i]) <= BucketSize /\ Follows(buckets[i], inserted[i])
  BY DEF RoutingInv, BucketInv
<1>2. \A i \in Bucket : i \in Int /\ Len(buckets[i]) \in Nat
  BY <1>1, RoutingAssumption, LenProperties DEF Bucket
<1>3. ASSUME NEW x \in Slots
      PROVE  \E i \in Bucket : \E k \in 1 .. Len(buckets[i]) : x = <<i, k>>
  BY DEF Slots
<1>4. ASSUME NEW i \in Bucket, NEW k \in 1 .. Len(buckets[i])
      PROVE  NodeAt(<<i, k>>) = buckets[i][k] /\ buckets[i][k] \in IdsOf(i)
  BY <1>1, ElementOfSeq DEF NodeAt
<1>5. IsFiniteSet(Slots)
  <2>1. IsFiniteSet(Bucket) /\ IsFiniteSet(1 .. BucketSize)
    BY RoutingAssumption, FS_Interval DEF Bucket
  <2>2. IsFiniteSet(Bucket \X (1 .. BucketSize))
    BY <2>1, FS_Product
  <2>3. ASSUME NEW x \in Slots PROVE x \in Bucket \X (1 .. BucketSize)
    <3>1. PICK i \in Bucket : \E k \in 1 .. Len(buckets[i]) : x = <<i, k>>
      BY <1>3
    <3>2. PICK k \in 1 .. Len(buckets[i]) : x = <<i, k>>
      BY <3>1
    <3>3. k \in 1 .. BucketSize
      BY <1>1, <1>2, RoutingAssumption
    <3>4. QED  BY <3>2, <3>3
  <2>4. QED  BY <2>2, <2>3, FS_Subset
<1>6. ASSUME NEW x \in Slots PROVE NodeAt(x) \in Id /\ x[1] \in Int /\ x[2] \in Int
  <2>1. PICK i \in Bucket : \E k \in 1 .. Len(buckets[i]) : x = <<i, k>>
    BY <1>3
  <2>2. PICK k \in 1 .. Len(buckets[i]) : x = <<i, k>>
    BY <2>1
  <2>3. NodeAt(x) \in Id
    BY <1>4, <2>2 DEF IdsOf
  <2>4. x[1] = i /\ x[2] = k
    BY <2>2
  <2>5. QED  BY <1>2, <2>3, <2>4
<1>7. ASSUME NEW x \in Slots, NEW y \in Slots, NodeAt(x) = NodeAt(y) PROVE x = y
  <2>1. PICK i \in Bucket : \E k \in 1 .. Len(buckets[i]) : x = <<i, k>>
    BY <1>3
  <2>2. PICK k \in 1 .. Len(buckets[i]) : x = <<i, k>>
    BY <2>1
  <2>3. PICK j \in Bucket : \E l \in 1 .. Len(buckets[j]) : y = <<j, l>>
    BY <1>3
  <2>4. PICK l \in 1 .. Len(buckets[j]) : y = <<j, l>>
    BY <2>3
  <2>5. /\ NodeAt(x) = buckets[i][k] /\ buckets[i][k] \in IdsOf(i)
        /\ NodeAt(y) = buckets[j][l] /\ buckets[j][l] \in IdsOf(j)
    BY <1>4, <2>2, <2>4, Zenon
  <2>6. i = j
    BY <1>7, <2>5 DEF IdsOf
  <2>7. k = l
    BY <1>1, <1>7, <2>5, <2>6, BucketOnce
  <2>8. QED  BY <2>2, <2>4, <2>6, <2>7
<1>8. QED  BY <1>5, <1>6, <1>7

(* The list found: the first m of the n slots g, in the order of their     *)
(* distance to target.                                                     *)
Answers(found, m, n, g, target, count) ==
    /\ m = IF count < n THEN count ELSE n
    /\ \A k \in 1 .. n : g[k] \in Slots
    /\ \A x \in Slots : \E k \in 1 .. n : x = g[k]
    /\ \A k, l \in 1 .. n : k < l =>
          Closer(xor_distance(NodeAt(g[k]), target), xor_distance(NodeAt(g[l]), target))
    /\ Len(found) = m /\ DOMAIN found = 1 .. m
    /\ \A k \in 1 .. m : found[k] = NodeAt(g[k])

LEMMA LookupMeaning ==
    ASSUME RoutingInv, NEW target \in Id, NEW count \in Nat
    PROVE  \E n, m \in Nat : \E g :
              Answers(find_closest(target, count), m, n, g, target, count)
<1> DEFINE D(x) == xor_distance(NodeAt(x), target)
           R == {e \in Slots \X Slots : SortsBefore(e[1], e[2], target)}
           g == Arranged(Slots, R)
           n == Cardinality(Slots)
           m == IF count < n THEN count ELSE n
           found == [k \in 1 .. m |-> NodeAt(g[k])]
<1>1. /\ IsFiniteSet(Slots)
      /\ \A x \in Slots : NodeAt(x) \in Id /\ x[1] \in Int /\ x[2] \in Int
      /\ \A x, y \in Slots : NodeAt(x) = NodeAt(y) => x = y
  BY SlotsDiffer, Zenon
<1>2. \A x \in Slots : D(x) \in Id
  BY <1>1, XorBits, Zenon DEF Id
<1>3. \A x, y \in Slots : D(x) = D(y) => x = y
  BY <1>1, XorInjective, Zenon
<1>4. ASSUME NEW x \in Slots, NEW y \in Slots
      PROVE  <<x, y>> \in R <=> Closer(D(x), D(y))
  <2>1. <<x, y>> \in R <=> SortsBefore(x, y, target)
    OBVIOUS
  <2>2. x = y => ~ (x[1] < y[1] \/ (x[1] = y[1] /\ x[2] < y[2]))
    BY <1>1
  <2>3. SortsBefore(x, y, target) <=> Closer(D(x), D(y))
    BY <1>3, <2>2, Zenon DEF SortsBefore
  <2>4. QED  BY <2>1, <2>3
<1>5. /\ \A x \in Slots : ~ Closer(D(x), D(x))
      /\ \A x, y, z \in Slots : Closer(D(x), D(y)) /\ Closer(D(y), D(z)) => Closer(D(x), D(z))
      /\ \A x, y \in Slots : x # y => Closer(D(x), D(y)) \/ Closer(D(y), D(x))
  <2> HIDE DEF D
  <2>1. QED  BY <1>2, <1>3, CloserOrder, Zenon
<1> HIDE DEF R, D
<1>6. Orders(R, Slots)
  BY <1>4, <1>5, Zenon DEF Orders
<1>7. /\ n \in Nat
      /\ \A k \in 1 .. n : g[k] \in Slots
      /\ \A x \in Slots : \E k \in 1 .. n : x = g[k]
      /\ \A k, l \in 1 .. n : k < l => <<g[k], g[l]>> \in R
  BY <1>1, <1>6, ArrangedMeaning, Zenon
<1>8. \A k, l \in 1 .. n : k < l => Closer(D(g[k]), D(g[l]))
  BY <1>4, <1>7, Zenon
<1>9. find_closest(target, count) = found
  BY Zenon DEF find_closest, R
<1> HIDE DEF g, n
<1>10. m \in Nat /\ \A k \in 1 .. m : k \in 1 .. n
  BY <1>7
<1>11. found \in [1 .. m -> Id] /\ \A k \in 1 .. m : found[k] = NodeAt(g[k])
  BY <1>1, <1>7, <1>10
<1>12. DOMAIN found = 1 .. m
  OBVIOUS
<1> HIDE DEF found
<1>13. Len(found) = m
  BY <1>10, <1>11, ListLength, Zenon
<1>14. m = IF count < n THEN count ELSE n
  OBVIOUS
<1> HIDE DEF m
<1>15. Answers(found, m, n, g, target, count)
  BY <1>7, <1>8, <1>11, <1>12, <1>13, <1>14, Zenon DEF D, Answers
<1>16. Answers(find_closest(target, count), m, n, g, target, count)
  BY <1>9, <1>15, Zenon
<1>17. QED  BY <1>7, <1>10, <1>16, Zenon

LEMMA RoutingInductive ==
    ASSUME RoutingInv, [RoutingNext]_routingVars
    PROVE  RoutingInv'
<1>1. ASSUME NEW x \in Id, insert(x) PROVE RoutingInv'
  <2> DEFINE c == bucket_index(Local, x)
  <2>1. x # Local /\ c \in Bucket /\ x \in IdsOf(c)
    BY <1>1, FirstDifference DEF insert, IdsOf
  <2> HIDE DEF c
  <2>2. /\ buckets' = [buckets EXCEPT ![c] = BucketAfter(buckets[c], x)]
        /\ inserted' = [inserted EXCEPT ![c] = Append(retain(inserted[c], x), x)]
    BY <1>1 DEF insert, c
  <2>3. /\ buckets' = [i \in Bucket |-> IF i = c THEN BucketAfter(buckets[c], x) ELSE buckets[i]]
        /\ inserted' = [i \in Bucket |-> IF i = c THEN Append(retain(inserted[c], x), x)
                                         ELSE inserted[i]]
    BY <2>1, <2>2 DEF RoutingInv
  <2>4. BucketInv(BucketAfter(buckets[c], x), Append(retain(inserted[c], x), x), c)
    BY <2>1, InsertKeeps DEF RoutingInv
  <2>5. ASSUME NEW i \in Bucket PROVE BucketInv(buckets'[i], inserted'[i], i)
    <3>1. CASE i = c
      <4>1. /\ buckets'[i] = BucketAfter(buckets[c], x)
            /\ inserted'[i] = Append(retain(inserted[c], x), x)
        BY <2>3, <3>1
      <4>2. QED  BY <2>4, <3>1, <4>1
    <3>2. CASE i # c
      <4>1. buckets'[i] = buckets[i] /\ inserted'[i] = inserted[i]
        BY <2>3, <3>2
      <4>2. QED  BY <4>1 DEF RoutingInv
    <3>3. QED  BY <3>1, <3>2
  <2>6. QED  BY <2>3, <2>5 DEF RoutingInv
<1>2. ASSUME NEW x \in Id, remove(x) PROVE RoutingInv'
  <2>1. /\ buckets' = [i \in Bucket |-> retain(buckets[i], x)]
        /\ inserted' = [i \in Bucket |-> retain(inserted[i], x)]
    BY <1>2 DEF remove
  <2>2. ASSUME NEW i \in Bucket PROVE BucketInv(buckets'[i], inserted'[i], i)
    <3>1. buckets'[i] = retain(buckets[i], x) /\ inserted'[i] = retain(inserted[i], x)
      BY <2>1
    <3>2. BucketInv(retain(buckets[i], x), retain(inserted[i], x), i)
      BY RemoveKeeps DEF RoutingInv
    <3>3. QED  BY <3>1, <3>2
  <2>3. QED  BY <2>1, <2>2 DEF RoutingInv
<1>3. ASSUME UNCHANGED routingVars PROVE RoutingInv'
  BY <1>3 DEF RoutingInv, routingVars
<1>4. QED  BY <1>1, <1>2, <1>3 DEF RoutingNext

(* A routing table of any number of bits and bucket size keeps every node  *)
(* of the near buckets, each node once and in the order it was last seen,  *)
(* and a lookup of any count returns the nearest nodes it holds, nearest   *)
(* first (routing.rs, insert, remove and find_closest).                    *)
THEOREM NeighboursKnown == RoutingSpec => []KnowsNeighbours
<1>1. RoutingInit => RoutingInv
  <2> SUFFICES ASSUME RoutingInit PROVE RoutingInv
    OBVIOUS
  <2>1. /\ buckets = [i \in Bucket |-> <<>>] /\ inserted = [i \in Bucket |-> <<>>]
    BY DEF RoutingInit
  <2>2. ASSUME NEW i \in Bucket PROVE BucketInv(buckets[i], inserted[i], i)
    <3>1. buckets[i] = <<>> /\ inserted[i] = <<>>
      BY <2>1
    <3>2. <<>> \in Seq(IdsOf(i)) /\ Len(<<>>) = 0 /\ DOMAIN <<>> = {}
      BY EmptySeq
    <3>3. Follows(<<>>, <<>>)
      BY <3>2 DEF Follows
    <3>4. \A x : Absent(x, <<>>)
      BY <3>2 DEF Absent
    <3>5. 0 <= BucketSize
      BY RoutingAssumption
    <3>6. BucketInv(<<>>, <<>>, i)
      BY <3>2, <3>3, <3>4, <3>5, Zenon DEF BucketInv
    <3>7. QED  BY <3>1, <3>6
  <2>3. QED  BY <2>1, <2>2 DEF RoutingInv
<1>2. RoutingInv /\ [RoutingNext]_routingVars => RoutingInv'
  BY RoutingInductive
<1>3. ASSUME RoutingInv PROVE KnowsNeighbours
  <2>1. \A i \in Bucket : Len(buckets[i]) <= BucketSize /\ Follows(buckets[i], inserted[i])
    BY <1>3 DEF RoutingInv, BucketInv
  <2>2. ASSUME NEW target \in Id, NEW count \in 1 .. MaxCount
        PROVE  LET found == find_closest(target, count)
                   d(n)  == xor_distance(n, target)
               IN  /\ \A k \in 1 .. Len(found) - 1 : Closer(d(found[k]), d(found[k + 1]))
                   /\ \A i \in Bucket : \A n \in ToSet(inserted[i]) \ ToSet(found) :
                         \/ Len(found) = count /\ Closer(d(Last(found)), d(n))
                         \/ ~ Contains(buckets[i], n) /\ 2 ^ i > BucketSize
    <3> DEFINE found == find_closest(target, count)
               d(n) == xor_distance(n, target)
    <3>1. count \in Nat /\ count >= 1
      BY RoutingAssumption
    <3>2. PICK n \in Nat, m \in Nat : \E g : Answers(found, m, n, g, target, count)
      BY <1>3, <3>1, LookupMeaning, Zenon
    <3>3. PICK g : Answers(found, m, n, g, target, count)
      BY <3>2
    <3>4. /\ m = IF count < n THEN count ELSE n
          /\ \A x \in Slots : \E k \in 1 .. n : x = g[k]
          /\ \A k, l \in 1 .. n : k < l => Closer(d(NodeAt(g[k])), d(NodeAt(g[l])))
          /\ Len(found) = m /\ DOMAIN found = 1 .. m
          /\ \A k \in 1 .. m : found[k] = NodeAt(g[k])
      BY <3>3, Zenon DEF Answers
    <3> HIDE DEF found, d
    <3>5. ASSUME NEW k \in 1 .. Len(found) - 1 PROVE Closer(d(found[k]), d(found[k + 1]))
      <4>1. k \in 1 .. m /\ k + 1 \in 1 .. m /\ k \in 1 .. n /\ k + 1 \in 1 .. n /\ k < k + 1
        BY <3>1, <3>4
      <4>2. QED  BY <3>4, <4>1, Zenon
    <3>6. ASSUME NEW i \in Bucket, NEW x \in ToSet(inserted[i]) \ ToSet(found)
          PROVE  \/ Len(found) = count /\ Closer(d(Last(found)), d(x))
                 \/ ~ Contains(buckets[i], x) /\ 2 ^ i > BucketSize
      <4>1. CASE Absent(x, buckets[i])
        <5>1. ~ Contains(buckets[i], x)
          BY <4>1 DEF Absent, Contains
        <5>2. inserted[i] \in Seq(IdsOf(i))
          BY <1>3 DEF RoutingInv, BucketInv
        <5>3. PICK p \in 1 .. Len(inserted[i]) : x = inserted[i][p]
          BY <5>2, LenProperties DEF ToSet
        <5>4. ~ Absent(x, inserted[i]) /\ x \in IdsOf(i)
          BY <5>2, <5>3, ElementOfSeq DEF Absent
        <5>5. 2 ^ i > BucketSize
          BY <1>3, <4>1, <5>4 DEF RoutingInv, BucketInv
        <5>6. QED  BY <5>1, <5>5
      <4>2. CASE ~ Absent(x, buckets[i])
        <5>1. PICK j \in 1 .. Len(buckets[i]) : x = buckets[i][j]
          BY <4>2 DEF Absent
        <5>2. <<i, j>> \in Slots /\ NodeAt(<<i, j>>) = x
          BY <5>1 DEF Slots, NodeAt
        <5>3. PICK k \in 1 .. n : <<i, j>> = g[k]
          BY <3>4, <5>2
        <5>4. k \notin 1 .. m
          <6> SUFFICES ASSUME k \in 1 .. m PROVE FALSE
            OBVIOUS
          <6>1. found[k] = x /\ k \in DOMAIN found
            BY <3>4, <5>2, <5>3
          <6>2. QED  BY <6>1 DEF ToSet
        <5>5. m = count /\ m \in 1 .. n /\ m \in 1 .. m /\ m < k
          BY <3>1, <3>4, <5>4
        <5>6. Closer(d(NodeAt(g[m])), d(NodeAt(g[k])))
          BY <3>4, <5>5
        <5>7. Last(found) = NodeAt(g[m])
          BY <3>4, <5>5 DEF Last
        <5>8. QED  BY <3>4, <5>2, <5>3, <5>5, <5>6, <5>7
      <4>3. QED  BY <4>1, <4>2
    <3>7. QED  BY <3>5, <3>6 DEF found, d
  <2>3. QED  BY <2>1, <2>2 DEF KnowsNeighbours
<1>4. QED  BY <1>1, <1>2, <1>3, PTL DEF RoutingSpec
-----------------------------------------------------------------------------
(* Marzullo's intersection.                                                *)

(* The n events g in the order of the sweep.                               *)
Kinds == {"Start", "End"}
Timeline(n, g) ==
    /\ n \in Nat
    /\ \A k \in 1 .. n :
          /\ g[k].of \in 1 .. Len(intervals) /\ g[k].kind \in Kinds
          /\ g[k].point = IF g[k].kind = "Start" THEN intervals[g[k].of].low
                          ELSE intervals[g[k].of].high
    /\ \A i \in 1 .. Len(intervals), kind \in Kinds :
          \E k \in 1 .. n : g[k].of = i /\ g[k].kind = kind
    /\ \A k, l \in 1 .. n : k < l => ComesBefore(g[k], g[l])

Intervals ==
    /\ Len(intervals) \in Nat
    /\ \A i \in 1 .. Len(intervals) :
          /\ intervals[i].low \in TimePoint /\ intervals[i].high \in TimePoint
          /\ intervals[i].low \in Int /\ intervals[i].high \in Int
          /\ intervals[i].low <= intervals[i].high

LEMMA IntervalFields ==
    ASSUME intervals \in Seq(TimeInterval)
    PROVE  Intervals /\ DOMAIN intervals = 1 .. Len(intervals)
<1>1. Len(intervals) \in Nat /\ DOMAIN intervals = 1 .. Len(intervals)
  BY LenProperties
<1>2. ASSUME NEW i \in 1 .. Len(intervals)
      PROVE  /\ intervals[i].low \in TimePoint /\ intervals[i].high \in TimePoint
             /\ intervals[i].low \in Int /\ intervals[i].high \in Int
             /\ intervals[i].low <= intervals[i].high
  <2>1. intervals[i] \in TimeInterval
    BY ElementOfSeq
  <2>2. QED  BY <2>1, MarzulloAssumption DEF TimeInterval
<1>3. QED  BY <1>1, <1>2 DEF Intervals

LEMMA EventFields ==
    ASSUME Intervals, DOMAIN intervals = 1 .. Len(intervals), NEW e \in Events(intervals)
    PROVE  /\ e.of \in 1 .. Len(intervals) /\ e.of \in Int
           /\ e.kind \in Kinds /\ e.point \in Int
           /\ e.point = IF e.kind = "Start" THEN intervals[e.of].low
                        ELSE intervals[e.of].high
           /\ e = [of |-> e.of, kind |-> e.kind, point |-> e.point]
<1>1. PICK i \in 1 .. Len(intervals), kind \in Kinds :
          e = [of |-> i, kind |-> kind, point |-> IF kind = "Start" THEN intervals[i].low
                                                  ELSE intervals[i].high]
  BY DEF Events, Kinds
<1>2. e.of = i /\ e.kind = kind /\ e.point = (IF kind = "Start" THEN intervals[i].low
                                              ELSE intervals[i].high)
  BY <1>1
<1>3. i \in Int /\ intervals[i].low \in Int /\ intervals[i].high \in Int
  BY DEF Intervals
<1>4. QED  BY <1>1, <1>2, <1>3

LEMMA EventsOrdered ==
    ASSUME Intervals, DOMAIN intervals = 1 .. Len(intervals)
    PROVE  Orders({e \in Events(intervals) \X Events(intervals) : ComesBefore(e[1], e[2])},
                  Events(intervals))
<1> DEFINE S == Events(intervals)
           R == {e \in S \X S : ComesBefore(e[1], e[2])}
<1>1. ASSUME NEW x \in S, NEW y \in S PROVE <<x, y>> \in R <=> ComesBefore(x, y)
  OBVIOUS
<1>2. \A x \in S : x.of \in Int /\ x.kind \in Kinds /\ x.point \in Int
  BY EventFields
<1>3. ASSUME NEW x \in S, NEW y \in S, x.of = y.of, x.kind = y.kind PROVE x = y
  <2>1. /\ x = [of |-> x.of, kind |-> x.kind, point |-> x.point]
        /\ y = [of |-> y.of, kind |-> y.kind, point |-> y.point]
        /\ x.point = IF x.kind = "Start" THEN intervals[x.of].low ELSE intervals[x.of].high
        /\ y.point = IF y.kind = "Start" THEN intervals[y.of].low ELSE intervals[y.of].high
    BY EventFields, Zenon
  <2>2. x.point = y.point
    BY <1>3, <2>1, Zenon
  <2>3. QED  BY <1>3, <2>1, <2>2
<1> HIDE DEF S, R
<1>4. \A x \in S : ~ ComesBefore(x, x)
  BY <1>2 DEF ComesBefore, Earlier, Kinds
<1>5. ASSUME NEW x \in S, NEW y \in S, NEW z \in S, ComesBefore(x, y), ComesBefore(y, z)
      PROVE  ComesBefore(x, z)
  BY <1>2, <1>5 DEF ComesBefore, Earlier, Kinds
<1>6. ASSUME NEW x \in S, NEW y \in S, x # y PROVE ComesBefore(x, y) \/ ComesBefore(y, x)
  <2>1. x.of # y.of \/ x.kind # y.kind
    BY <1>3, <1>6
  <2>2. QED  BY <1>2, <2>1 DEF ComesBefore, Earlier, Kinds
<1>7. Orders(R, S)
  BY <1>1, <1>4, <1>5, <1>6, Zenon DEF Orders
<1>8. QED  BY <1>7 DEF R, S

LEMMA EventsFinite ==
    ASSUME Intervals, DOMAIN intervals = 1 .. Len(intervals)
    PROVE  IsFiniteSet(Events(intervals))
<1> DEFINE D == (1 .. Len(intervals)) \X Kinds
           f == [d \in D |-> [of |-> d[1], kind |-> d[2],
                     point |-> IF d[2] = "Start" THEN intervals[d[1]].low
                               ELSE intervals[d[1]].high]]
<1>1. IsFiniteSet(1 .. Len(intervals))
  <2>1. \A m \in Nat : IsFiniteSet(1 .. m)
    BY FS_Interval
  <2>2. QED  BY <2>1, Zenon DEF Intervals
<1>2. IsFiniteSet(Kinds)
  <2>1. IsFiniteSet({"Start"}) /\ IsFiniteSet({"End"})
    BY FS_Singleton
  <2>2. Kinds = {"Start"} \cup {"End"}
    BY DEF Kinds
  <2>3. QED  BY <2>1, <2>2, FS_Union
<1>3. IsFiniteSet(D)
  BY <1>1, <1>2, FS_Product
<1>4. IsFiniteSet({f[d] : d \in D})
  <2> HIDE DEF f, D
  <2>1. QED  BY <1>3, ValuesFinite
<1>5. Events(intervals) \subseteq {f[d] : d \in D}
  <2> SUFFICES ASSUME NEW e \in Events(intervals) PROVE e \in {f[d] : d \in D}
    OBVIOUS
  <2>1. PICK i \in 1 .. Len(intervals), kind \in Kinds :
            e = [of |-> i, kind |-> kind, point |-> IF kind = "Start" THEN intervals[i].low
                                                    ELSE intervals[i].high]
    BY DEF Events, Kinds
  <2>2. <<i, kind>> \in D /\ e = f[<<i, kind>>]
    BY <2>1
  <2>3. QED  BY <2>2
<1>6. QED  BY <1>4, <1>5, FS_Subset

LEMMA EventsOnTimeline ==
    ASSUME Intervals, DOMAIN intervals = 1 .. Len(intervals)
    PROVE  LET S == Events(intervals)
           IN  Timeline(Cardinality(S),
                        Arranged(S, {e \in S \X S : ComesBefore(e[1], e[2])}))
<1> DEFINE S == Events(intervals)
           R == {e \in S \X S : ComesBefore(e[1], e[2])}
           n == Cardinality(S)
           g == Arranged(S, R)
<1>1. /\ n \in Nat
      /\ \A k \in 1 .. n : g[k] \in S
      /\ \A x \in S : \E k \in 1 .. n : x = g[k]
      /\ \A k, l \in 1 .. n : k < l => <<g[k], g[l]>> \in R
  BY EventsOrdered, EventsFinite, ArrangedMeaning, Zenon
<1>2. ASSUME NEW x, NEW y, <<x, y>> \in R PROVE ComesBefore(x, y)
  BY <1>2
<1> HIDE DEF R, n, g
<1>3. ASSUME NEW k \in 1 .. n
      PROVE  /\ g[k].of \in 1 .. Len(intervals) /\ g[k].kind \in Kinds
             /\ g[k].point = IF g[k].kind = "Start" THEN intervals[g[k].of].low
                             ELSE intervals[g[k].of].high
  BY <1>1, EventFields, Zenon
<1>4. ASSUME NEW i \in 1 .. Len(intervals), NEW kind \in Kinds
      PROVE  \E k \in 1 .. n : g[k].of = i /\ g[k].kind = kind
  <2> DEFINE x == [of |-> i, kind |-> kind, point |-> IF kind = "Start" THEN intervals[i].low
                                                      ELSE intervals[i].high]
  <2>1. x \in S /\ x.of = i /\ x.kind = kind
    BY DEF Events, Kinds
  <2> HIDE DEF x, S
  <2>2. PICK k \in 1 .. n : x = g[k]
    BY <1>1, <2>1
  <2>3. QED  BY <2>1, <2>2
<1>5. \A k, l \in 1 .. n : k < l => ComesBefore(g[k], g[l])
  BY <1>1, <1>2, Zenon
<1>6. Timeline(n, g)
  BY <1>1, <1>3, <1>4, <1>5, Zenon DEF Timeline
<1>7. QED  BY <1>6 DEF n, g, R

(* What comes later is no earlier; an interval starts once, ends once, and *)
(* starts before it ends.                                                  *)
LEMMA EventOrder ==
    ASSUME Intervals, NEW n, NEW g, Timeline(n, g), NEW k \in 1 .. n, NEW l \in 1 .. n
    PROVE  /\ g[k].point \in Int /\ g[k].point \in TimePoint
           /\ k <= l => g[k].point <= g[l].point
           /\ k < l /\ g[k].point = g[l].point => g[k].kind = "Start" \/ g[l].kind = "End"
           /\ g[k].of = g[l].of /\ g[k].kind = g[l].kind => k = l
           /\ g[k].of = g[l].of /\ g[k].kind = "Start" /\ g[l].kind = "End" => k < l
<1>1. /\ n \in Nat /\ k \in Int /\ l \in Int
      /\ \A j \in 1 .. n : /\ g[j].of \in 1 .. Len(intervals) /\ g[j].kind \in Kinds
                           /\ g[j].point = IF g[j].kind = "Start" THEN intervals[g[j].of].low
                                           ELSE intervals[g[j].of].high
      /\ k < l => ComesBefore(g[k], g[l])
      /\ l < k => ComesBefore(g[l], g[k])
  BY DEF Timeline
<1>2. ASSUME NEW j \in {k, l}
      PROVE  /\ g[j].point \in Int /\ g[j].point \in TimePoint
             /\ g[j].of \in Int /\ g[j].kind \in Kinds
  <2>1. j \in 1 .. n
    OBVIOUS
  <2>2. /\ g[j].of \in 1 .. Len(intervals) /\ g[j].kind \in Kinds
        /\ g[j].point = IF g[j].kind = "Start" THEN intervals[g[j].of].low
                        ELSE intervals[g[j].of].high
    BY <1>1, <2>1, Zenon
  <2>3. /\ intervals[g[j].of].low \in TimePoint /\ intervals[g[j].of].high \in TimePoint
        /\ intervals[g[j].of].low \in Int /\ intervals[g[j].of].high \in Int
    BY <2>2, Zenon DEF Intervals
  <2>4. QED  BY <2>2, <2>3
<1>3. k < l => /\ g[k].point <= g[l].point
               /\ g[k].point = g[l].point => g[k].kind = "Start" \/ g[l].kind = "End"
  BY <1>1, <1>2 DEF ComesBefore, Earlier, Kinds
<1>4. ASSUME g[k].of = g[l].of, g[k].kind = g[l].kind PROVE k = l
  <2>1. g[k].point = g[l].point
    BY <1>1, <1>4
  <2>2. ~ ComesBefore(g[k], g[l]) /\ ~ ComesBefore(g[l], g[k])
    BY <1>2, <1>4, <2>1 DEF ComesBefore, Earlier, Kinds
  <2>3. QED  BY <1>1, <2>2
<1>5. ASSUME g[k].of = g[l].of, g[k].kind = "Start", g[l].kind = "End" PROVE k < l
  <2>1. g[k].point <= g[l].point
    BY <1>1, <1>5 DEF Intervals
  <2>2. ~ ComesBefore(g[l], g[k])
    BY <1>2, <1>5, <2>1 DEF ComesBefore, Earlier
  <2>3. k # l
    BY <1>5
  <2>4. QED  BY <1>1, <2>2, <2>3
<1>6. QED  BY <1>1, <1>2, <1>3, <1>4, <1>5

(* The intervals that have started and not ended after k events.           *)
Past(g, k, i, kind) == \E l \in 1 .. k : g[l].of = i /\ g[l].kind = kind
Open(g, k) ==
    {i \in 1 .. Len(intervals) : Past(g, k, i, "Start") /\ ~ Past(g, k, i, "End")}

LEMMA PastStep ==
    ASSUME NEW g, NEW k \in Nat, NEW i, NEW kind
    PROVE  /\ ~ Past(g, 0, i, kind)
           /\ Past(g, k + 1, i, kind) <=>
                 Past(g, k, i, kind) \/ (g[k + 1].of = i /\ g[k + 1].kind = kind)
<1>1. \A l : l \in 1 .. k + 1 <=> l \in 1 .. k \/ l = k + 1
  OBVIOUS
<1>2. 1 .. 0 = {}
  OBVIOUS
<1>3. QED  BY <1>1, <1>2, Zenon DEF Past

LEMMA OpenStep ==
    ASSUME Intervals, NEW n, NEW g, Timeline(n, g), NEW k \in Nat, k + 1 \in 1 .. n
    PROVE  LET i == g[k + 1].of
           IN  /\ g[k + 1].kind = "Start" =>
                     Open(g, k + 1) = Open(g, k) \cup {i} /\ i \notin Open(g, k)
               /\ g[k + 1].kind = "End" =>
                     Open(g, k + 1) = Open(g, k) \ {i} /\ i \in Open(g, k)
<1> DEFINE i == g[k + 1].of
<1>1. i \in 1 .. Len(intervals) /\ n \in Nat
  BY DEF Timeline
<1>2. \A l \in 1 .. k : l \in 1 .. n /\ l < k + 1
  BY <1>1
<1>3. ~ Past(g, k, i, g[k + 1].kind)
  <2> SUFFICES ASSUME NEW l \in 1 .. k, g[l].of = i, g[l].kind = g[k + 1].kind PROVE FALSE
    BY DEF Past
  <2>1. l = k + 1
    BY <1>2, EventOrder
  <2>2. QED  BY <1>2, <2>1
<1>4. ASSUME g[k + 1].kind = "Start" PROVE ~ Past(g, k, i, "End")
  <2> SUFFICES ASSUME NEW l \in 1 .. k, g[l].of = i, g[l].kind = "End" PROVE FALSE
    BY DEF Past
  <2>1. k + 1 < l
    BY <1>2, <1>4, EventOrder
  <2>2. QED  BY <1>2, <2>1
<1>5. ASSUME g[k + 1].kind = "End" PROVE Past(g, k, i, "Start")
  <2>1. PICK l \in 1 .. n : g[l].of = i /\ g[l].kind = "Start"
    BY <1>1 DEF Timeline, Kinds
  <2>2. l < k + 1
    BY <1>5, <2>1, EventOrder
  <2>3. l \in 1 .. k
    BY <1>1, <2>2
  <2>4. QED  BY <2>1, <2>3 DEF Past
<1>6. \A j, kind : Past(g, k + 1, j, kind) <=>
                      Past(g, k, j, kind) \/ (i = j /\ g[k + 1].kind = kind)
  BY PastStep
<1> HIDE DEF i
<1>7. g[k + 1].kind = "Start" => Open(g, k + 1) = Open(g, k) \cup {i} /\ i \notin Open(g, k)
  BY <1>1, <1>3, <1>4, <1>6 DEF Open
<1>8. g[k + 1].kind = "End" => Open(g, k + 1) = Open(g, k) \ {i} /\ i \in Open(g, k)
  BY <1>1, <1>3, <1>5, <1>6 DEF Open
<1>9. QED  BY <1>7, <1>8 DEF i

(* All that are open at an event agree on its time.                        *)
LEMMA OpenAgree ==
    ASSUME Intervals, DOMAIN intervals = 1 .. Len(intervals),
           NEW n, NEW g, Timeline(n, g), NEW k \in 1 .. n
    PROVE  Open(g, k) \subseteq Agreeing(g[k].point)
<1> SUFFICES ASSUME NEW i \in Open(g, k)
             PROVE  intervals[i].low <= g[k].point /\ g[k].point <= intervals[i].high
  BY DEF Agreeing, Open
<1>1. i \in 1 .. Len(intervals) /\ Past(g, k, i, "Start") /\ ~ Past(g, k, i, "End") /\ n \in Nat
  BY DEF Open, Timeline
<1>2. PICK l \in 1 .. k : g[l].of = i /\ g[l].kind = "Start"
  BY <1>1 DEF Past
<1>3. l \in 1 .. n /\ l <= k
  BY <1>1
<1>4. g[l].point <= g[k].point /\ g[l].point = intervals[i].low
  BY <1>2, <1>3, EventOrder DEF Timeline
<1>5. PICK m \in 1 .. n : g[m].of = i /\ g[m].kind = "End"
  BY <1>1 DEF Timeline, Kinds
<1>6. k <= m
  BY <1>1, <1>5 DEF Past
<1>7. g[k].point <= g[m].point /\ g[m].point = intervals[i].high
  BY <1>5, <1>6, EventOrder DEF Timeline
<1>8. QED  BY <1>4, <1>7

(* The intervals that agree on an instant are open at some event up to it. *)
LEMMA OpenReaches ==
    ASSUME Intervals, DOMAIN intervals = 1 .. Len(intervals),
           NEW n, NEW g, Timeline(n, g), NEW t \in Int, Agreeing(t) # {}
    PROVE  \E k \in 1 .. n : g[k].point <= t /\ Agreeing(t) \subseteq Open(g, k)
<1> DEFINE D == {k \in 1 .. n : g[k].kind = "Start" /\ g[k].point <= t}
<1>1. n \in Nat
  BY DEF Timeline
<1>2. ASSUME NEW i \in Agreeing(t)
      PROVE  /\ i \in 1 .. Len(intervals) /\ intervals[i].low <= t /\ t <= intervals[i].high
             /\ \E k \in D : g[k].of = i
  <2>1. i \in 1 .. Len(intervals) /\ intervals[i].low <= t /\ t <= intervals[i].high
    BY DEF Agreeing
  <2>2. PICK k \in 1 .. n : g[k].of = i /\ g[k].kind = "Start"
    BY <2>1 DEF Timeline, Kinds
  <2>3. g[k].point = intervals[i].low
    BY <2>2 DEF Timeline
  <2>4. QED  BY <2>1, <2>2, <2>3
<1>3. D # {}
  BY <1>2
<1>4. IsFiniteSet(D) /\ D \subseteq Int
  <2>1. IsFiniteSet(1 .. n)
    BY <1>1, FS_Interval
  <2>2. D \subseteq 1 .. n
    OBVIOUS
  <2> HIDE DEF D
  <2>3. IsFiniteSet(D)
    BY <2>1, <2>2, FS_Subset
  <2>4. QED  BY <2>2, <2>3
<1>5. PICK k \in D : \A l \in D : k >= l
  <2> HIDE DEF D
  <2>1. QED  BY <1>3, <1>4, GreatestExists
<1>6. ASSUME NEW i \in Agreeing(t) PROVE i \in Open(g, k)
  <2>1. PICK l \in D : g[l].of = i
    BY <1>2
  <2>2. l \in 1 .. k
    BY <1>1, <1>5
  <2>3. Past(g, k, i, "Start")
    BY <2>1, <2>2 DEF Past
  <2>4. ASSUME NEW m \in 1 .. k, g[m].of = i, g[m].kind = "End" PROVE FALSE
    <3>1. m \in 1 .. n /\ m # k /\ m < k
      BY <1>1, <1>5, <2>4
    <3>2. g[m].point = intervals[i].high
      BY <2>4, <3>1 DEF Timeline
    <3>3. /\ g[m].point \in Int /\ g[k].point \in Int /\ g[m].point <= g[k].point
          /\ g[m].point # g[k].point
      BY <1>5, <2>4, <3>1, EventOrder
    <3>4. t <= intervals[i].high /\ g[k].point <= t
      BY <1>2, <1>5
    <3>5. QED  BY <3>2, <3>3, <3>4
  <2>5. QED  BY <1>2, <2>3, <2>4 DEF Open, Past
<1>7. k \in 1 .. n /\ g[k].point <= t
  BY <1>5
<1>8. Agreeing(t) \subseteq Open(g, k)
  BY <1>6
<1> HIDE DEF D
<1>9. QED  BY <1>7, <1>8

(* The loop of marzullo: its states s after each of the N events ev.       *)
IsSweep(s, N, ev, T) ==
    s = [k \in 0 .. N |-> IF k = 0 THEN SweepStart ELSE Sweep(s[k - 1], ev[k], T)]

LEMMA SweepExists ==
    ASSUME NEW N \in Nat, NEW ev, NEW T
    PROVE  \E s : IsSweep(s, N, ev, T)
<1> DEFINE Runs(s, m) == s = [k \in 0 .. m |-> IF k = 0 THEN SweepStart
                                               ELSE Sweep(s[k - 1], ev[k], T)]
           M == {m \in Nat : \E s : Runs(s, m)}
<1>1. 0 \in M
  <2> DEFINE s == [k \in 0 .. 0 |-> SweepStart]
  <2>1. s = [k \in 0 .. 0 |-> IF k = 0 THEN SweepStart ELSE Sweep(s[k - 1], ev[k], T)]
    OBVIOUS
  <2> HIDE DEF s
  <2>2. Runs(s, 0)
    BY <2>1
  <2>3. QED  BY <2>2
<1>2. ASSUME NEW m \in Nat, m \in M PROVE m + 1 \in M
  <2>1. PICK s : Runs(s, m)
    BY <1>2
  <2> DEFINE r == [k \in 0 .. m + 1 |-> IF k <= m THEN s[k] ELSE Sweep(s[m], ev[k], T)]
             q == [k \in 0 .. m + 1 |-> IF k = 0 THEN SweepStart
                                        ELSE Sweep(r[k - 1], ev[k], T)]
  <2>2. \A k \in 0 .. m : s[k] = IF k = 0 THEN SweepStart ELSE Sweep(s[k - 1], ev[k], T)
    BY <2>1
  <2>3. ASSUME NEW k \in 0 .. m + 1
        PROVE  r[k] = IF k = 0 THEN SweepStart ELSE Sweep(r[k - 1], ev[k], T)
    <3>1. CASE k <= m
      <4>1. r[k] = s[k] /\ k \in 0 .. m
        BY <3>1
      <4>2. k # 0 => r[k - 1] = s[k - 1]
        BY <3>1
      <4> HIDE DEF r
      <4>3. QED  BY <2>2, <4>1, <4>2, Zenon
    <3>2. CASE k = m + 1
      <4>1. r[k] = Sweep(s[m], ev[k], T) /\ r[k - 1] = s[m] /\ k # 0
        BY <3>2
      <4> HIDE DEF r
      <4>2. QED  BY <4>1, Zenon
    <3>3. QED  BY <3>1, <3>2
  <2>4. r = q
    <3>1. \A k \in 0 .. m + 1 : r[k] = q[k]
      <4> HIDE DEF r
      <4>1. QED  BY <2>3
    <3>2. DOMAIN r = 0 .. m + 1 /\ DOMAIN q = 0 .. m + 1
      OBVIOUS
    <3>3. r = [k \in 0 .. m + 1 |-> r[k]] /\ q = [k \in 0 .. m + 1 |-> q[k]]
      OBVIOUS
    <3> HIDE DEF r, q
    <3>4. QED  BY <3>1, <3>3, Zenon
  <2>5. Runs(r, m + 1)
    <3> HIDE DEF r
    <3>1. QED  BY <2>4
  <2> HIDE DEF Runs, r
  <2>6. QED  BY <2>5
<1> HIDE DEF M
<1>3. \A m \in Nat : m \in M
  BY <1>1, <1>2, SetInduction, Zenon
<1>4. QED  BY <1>3 DEF M, IsSweep

(* The state s of the sweep after k events with c intervals open.  K is    *)
(* the first event with most of them open, at the time low, and high the   *)
(* time of the next.                                                       *)
Good(s, c, k, T, most, K, low, high) ==
    /\ DOMAIN s = {"count", "best", "from", "found"}
    /\ s.count = c /\ s.best \in Nat /\ s.from \in Int
    /\ most < T => s.best = 0
    /\ most >= T => /\ k <= K => s.best < most
                    /\ k = K => s.from = low
                    /\ k > K => s.best = most /\ s.found = [low |-> low, high |-> high]

LEMMA SweepKeeps ==
    ASSUME NEW T \in Nat, T >= 1, NEW most \in Nat, NEW K \in Nat, NEW low \in Int,
           NEW high \in Int, NEW k \in Nat, NEW c \in Nat, NEW s, NEW e, e.point \in Int,
           Good(s, c, k, T, most, K, low, high),
           c <= most, e.kind = "Start" => c + 1 <= most,
           most >= T => /\ k < K => c < most
                        /\ k = K => c = most /\ e.kind # "Start" /\ e.point = high
                        /\ k + 1 = K => e.kind = "Start" /\ c + 1 = most /\ e.point = low
    PROVE  Good(Sweep(s, e, T), IF e.kind = "Start" THEN c + 1 ELSE c - 1, k + 1,
                T, most, K, low, high)
<1> DEFINE r == Sweep(s, e, T)
<1>1. /\ DOMAIN s = {"count", "best", "from", "found"}
      /\ s.count = c /\ s.best \in Nat /\ s.from \in Int
  BY DEF Good
<1>2. CASE e.kind = "Start"
  <2> DEFINE at == IF c + 1 >= T /\ c + 1 > s.best THEN e.point ELSE s.from
  <2>1. r = [s EXCEPT !.count = c + 1, !.from = at]
    BY <1>1, <1>2, Zenon DEF Sweep
  <2>2. at \in Int
    BY <1>1
  <2> HIDE DEF r, at
  <2>3. /\ DOMAIN r = {"count", "best", "from", "found"}
        /\ r.count = c + 1 /\ r.best = s.best /\ r.found = s.found /\ r.from = at
    BY <1>1, <2>1, <2>2
  <2>4. QED  BY <1>1, <1>2, <2>3 DEF Good, r, at
<1>3. CASE e.kind # "Start" /\ c >= T /\ c > s.best
  <2> DEFINE in == [low |-> s.from, high |-> e.point]
  <2>1. r = [s EXCEPT !.count = c - 1, !.best = c, !.found = in]
    BY <1>1, <1>3, Zenon DEF Sweep
  <2> HIDE DEF r, in
  <2>2. /\ DOMAIN r = {"count", "best", "from", "found"}
        /\ r.count = c - 1 /\ r.best = c /\ r.found = in /\ r.from = s.from
    BY <1>1, <2>1
  <2>3. QED  BY <1>1, <1>3, <2>2 DEF Good, r, in
<1>4. CASE e.kind # "Start" /\ ~ (c >= T /\ c > s.best)
  <2>1. /\ DOMAIN r = {"count", "best", "from", "found"}
        /\ r.count = c - 1 /\ r.best = s.best /\ r.found = s.found /\ r.from = s.from
    BY <1>1, <1>4 DEF Sweep
  <2> HIDE DEF r
  <2>2. QED  BY <1>1, <1>4, <2>1 DEF Good, r
<1>5. QED  BY <1>2, <1>3, <1>4

(* How many agree, and how many are open.                                  *)
LEMMA AgreeingFinite ==
    ASSUME Intervals, DOMAIN intervals = 1 .. Len(intervals), NEW t
    PROVE  /\ IsFiniteSet(Agreeing(t))
           /\ Cardinality(Agreeing(t)) \in 0 .. Len(intervals)
<1>1. IsFiniteSet(1 .. Len(intervals)) /\ Cardinality(1 .. Len(intervals)) = Len(intervals)
  <2>1. \A m \in Nat : IsFiniteSet(1 .. m) /\ Cardinality(1 .. m) = m
    BY FS_Interval
  <2>2. QED  BY <2>1, Zenon DEF Intervals
<1>2. Agreeing(t) \in SUBSET (1 .. Len(intervals))
  BY DEF Agreeing
<1>3. IsFiniteSet(Agreeing(t)) /\ Cardinality(Agreeing(t)) <= Len(intervals)
  BY <1>1, <1>2, FS_Subset
<1>4. Cardinality(Agreeing(t)) \in Nat
  BY <1>3, FS_CardinalityType
<1>5. QED  BY <1>3, <1>4 DEF Intervals

LEMMA OpenFinite ==
    ASSUME Intervals, NEW g, NEW k
    PROVE  IsFiniteSet(Open(g, k)) /\ Cardinality(Open(g, k)) \in Nat
<1>1. IsFiniteSet(1 .. Len(intervals))
  <2>1. 1 \in Int /\ Len(intervals) \in Int
    BY DEF Intervals
  <2>2. QED  BY <2>1, FS_Interval
<1>2. Open(g, k) \in SUBSET (1 .. Len(intervals))
  BY DEF Open
<1>3. QED  BY <1>1, <1>2, FS_Subset, FS_CardinalityType

LEMMA CountStep ==
    ASSUME Intervals, NEW n, NEW g, Timeline(n, g), NEW k \in Nat, k + 1 \in 1 .. n
    PROVE  Cardinality(Open(g, k + 1)) = IF g[k + 1].kind = "Start"
                                         THEN Cardinality(Open(g, k)) + 1
                                         ELSE Cardinality(Open(g, k)) - 1
<1>1. g[k + 1].kind \in {"Start", "End"}
  BY DEF Timeline, Kinds
<1>2. IsFiniteSet(Open(g, k)) /\ Cardinality(Open(g, k)) \in Nat
  BY OpenFinite
<1>3. CASE g[k + 1].kind = "Start"
  <2>1. Open(g, k + 1) = Open(g, k) \cup {g[k + 1].of} /\ g[k + 1].of \notin Open(g, k)
    BY <1>3, OpenStep
  <2>2. QED  BY <1>2, <1>3, <2>1, FS_AddElement
<1>4. CASE g[k + 1].kind = "End"
  <2>1. Open(g, k + 1) = Open(g, k) \ {g[k + 1].of} /\ g[k + 1].of \in Open(g, k)
    BY <1>4, OpenStep
  <2>2. QED  BY <1>2, <1>4, <2>1, FS_RemoveElement
<1>5. QED  BY <1>1, <1>3, <1>4

LEMMA CountEnds ==
    ASSUME Intervals, NEW n, NEW g, Timeline(n, g)
    PROVE  Cardinality(Open(g, 0)) = 0 /\ Cardinality(Open(g, n)) = 0
<1>1. Open(g, 0) = {}
  BY PastStep DEF Open
<1>2. Open(g, n) = {}
  BY DEF Open, Past, Timeline, Kinds
<1>3. QED  BY <1>1, <1>2, FS_EmptySet

(* No more than most intervals agree, and so many do.                      *)
IsMost(most) ==
    /\ most \in Nat
    /\ \A t \in TimePoint : Cardinality(Agreeing(t)) <= most
    /\ \E t \in TimePoint : Cardinality(Agreeing(t)) = most

LEMMA MostExists ==
    ASSUME Intervals, DOMAIN intervals = 1 .. Len(intervals), Len(intervals) # 0
    PROVE  IsMost(Max({Cardinality(Agreeing(t)) : t \in TimePoint}))
<1> DEFINE C == {Cardinality(Agreeing(t)) : t \in TimePoint}
<1>1. intervals[1].low \in TimePoint
  BY DEF Intervals
<1>2. C # {}
  BY <1>1
<1>3. C \in SUBSET (0 .. Len(intervals))
  BY AgreeingFinite
<1>4. IsFiniteSet(0 .. Len(intervals)) /\ C \subseteq Int
  <2>1. 0 \in Int /\ Len(intervals) \in Int
    BY DEF Intervals
  <2>2. IsFiniteSet(0 .. Len(intervals))
    BY <2>1, FS_Interval
  <2>3. QED  BY <1>3, <2>2
<1> HIDE DEF C
<1>5. IsFiniteSet(C)
  BY <1>3, <1>4, FS_Subset
<1>6. \E x \in C : \A y \in C : x >= y
  BY <1>2, <1>4, <1>5, GreatestExists
<1>7. Max(C) \in C /\ \A y \in C : Max(C) >= y
  BY <1>6, Zenon DEF Max
<1>8. Max(C) \in Nat /\ \A y \in C : y <= Max(C)
  <2>1. Len(intervals) \in Nat /\ \A y \in C : y \in 0 .. Len(intervals)
    BY <1>3, Zenon DEF Intervals
  <2>2. QED  BY <1>7, <2>1
<1>9. QED  BY <1>7, <1>8 DEF IsMost, C

LEMMA CountBelow ==
    ASSUME Intervals, DOMAIN intervals = 1 .. Len(intervals), NEW n, NEW g, Timeline(n, g),
           NEW most, IsMost(most), NEW k \in 0 .. n
    PROVE  Cardinality(Open(g, k)) <= most
<1>1. CASE k = 0
  BY <1>1, CountEnds DEF IsMost
<1>2. CASE k # 0
  <2>1. k \in 1 .. n
    BY <1>2 DEF Timeline
  <2>2. Open(g, k) \subseteq Agreeing(g[k].point) /\ g[k].point \in TimePoint
    BY <2>1, OpenAgree, EventOrder
  <2>3. /\ Cardinality(Open(g, k)) <= Cardinality(Agreeing(g[k].point))
    BY <2>2, AgreeingFinite, FS_Subset
  <2>4. Cardinality(Agreeing(g[k].point)) <= most /\ most \in Nat
    BY <2>2 DEF IsMost
  <2>5. Cardinality(Open(g, k)) \in Nat /\ Cardinality(Agreeing(g[k].point)) \in Nat
    BY OpenFinite, AgreeingFinite, FS_CardinalityType
  <2>6. QED  BY <2>3, <2>4, <2>5
<1>3. QED  BY <1>1, <1>2

(* The first event K after which most intervals are open is a start, at    *)
(* the first instant low on which most agree; the next is an end, at the   *)
(* first instant high where one of those ends.                             *)
Peak(n, g, most, K) ==
    /\ K \in 1 .. n /\ K + 1 \in 1 .. n
    /\ Cardinality(Open(g, K)) = most
    /\ \A k \in 0 .. n : k < K => Cardinality(Open(g, k)) # most
    /\ g[K].kind = "Start" /\ g[K + 1].kind = "End"

LEMMA PeakExists ==
    ASSUME Intervals, DOMAIN intervals = 1 .. Len(intervals), NEW n, NEW g, Timeline(n, g),
           NEW most, IsMost(most), most # 0
    PROVE  \E K \in Nat : Peak(n, g, most, K)
<1> DEFINE Count(k) == Cardinality(Open(g, k))
           Tops == {k \in 0 .. n : Count(k) = most}
<1>1. n \in Nat /\ most \in Nat
  BY DEF Timeline, IsMost
<1>2. \A k \in 0 .. n : Count(k) \in Nat /\ Count(k) <= most
  BY OpenFinite, CountBelow
<1>3. Tops # {}
  <2>1. PICK t \in TimePoint : Cardinality(Agreeing(t)) = most
    BY DEF IsMost
  <2>2. Agreeing(t) # {} /\ t \in Int
    BY <2>1, FS_EmptySet, MarzulloAssumption
  <2>3. PICK k \in 1 .. n : Agreeing(t) \subseteq Open(g, k)
    BY <2>2, OpenReaches
  <2>4. most <= Count(k)
    BY <2>1, <2>3, OpenFinite, FS_Subset
  <2>5. k \in 0 .. n
    BY <1>1
  <2> HIDE DEF Count
  <2>6. Count(k) = most
    BY <1>1, <1>2, <2>4, <2>5
  <2>7. QED  BY <2>5, <2>6
<1>4. Tops \subseteq Nat
  BY <1>1
<1>5. PICK K \in Tops : \A k \in Tops : K <= k
  <2> HIDE DEF Tops
  <2>1. QED  BY <1>3, <1>4, LeastExists
<1>6. K \in 0 .. n /\ Count(K) = most
  BY <1>5
<1>7. ASSUME NEW k \in 0 .. n, k < K PROVE Count(k) # most
  <2>1. k \in Tops => K <= k
    BY <1>5
  <2>2. k \notin Tops
    BY <1>1, <1>6, <1>7, <2>1
  <2>3. QED  BY <2>2
<1>8. Count(0) = 0 /\ Count(n) = 0
  BY CountEnds
<1> HIDE DEF Tops
<1>9. K # 0 /\ K # n
  BY <1>6, <1>8
<1>10. K \in 1 .. n /\ K + 1 \in 1 .. n /\ K - 1 \in 0 .. n /\ K - 1 \in Nat /\ K \in Nat
       /\ K + 1 \in 0 .. n /\ (K - 1) + 1 = K
  BY <1>1, <1>6, <1>9
<1>11. g[K].kind = "Start"
  <2> SUFFICES ASSUME g[K].kind # "Start" PROVE FALSE
    OBVIOUS
  <2>1. (K - 1) + 1 \in 1 .. n /\ g[(K - 1) + 1].kind # "Start"
    BY <1>10
  <2>2. Count((K - 1) + 1) = Count(K - 1) - 1
    BY <1>10, <2>1, CountStep, Zenon
  <2>3. Count(K - 1) \in Nat /\ Count(K - 1) <= most
    BY <1>2, <1>10
  <2>4. Count((K - 1) + 1) = most
    BY <1>6, <1>10
  <2> HIDE DEF Count
  <2>5. QED  BY <1>1, <2>2, <2>3, <2>4
<1>12. g[K + 1].kind = "End"
  <2> SUFFICES ASSUME g[K + 1].kind = "Start" PROVE FALSE
    BY <1>10 DEF Timeline, Kinds
  <2>1. Count(K + 1) = Count(K) + 1
    BY <1>10, CountStep, Zenon
  <2>2. Count(K + 1) \in Nat /\ Count(K + 1) <= most
    BY <1>2, <1>10
  <2> HIDE DEF Count
  <2>3. QED  BY <1>1, <1>6, <2>1, <2>2
<1>13. Peak(n, g, most, K)
  BY <1>6, <1>7, <1>10, <1>11, <1>12 DEF Peak
<1>14. QED  BY <1>10, <1>13

(* At a peak a group of the most sources that agree begins, and what they  *)
(* have in common ends with the next event.                                *)
LEMMA PeakInstants ==
    ASSUME Intervals, DOMAIN intervals = 1 .. Len(intervals), NEW n, NEW g, Timeline(n, g),
           NEW most, IsMost(most), most # 0, NEW K \in Nat, Peak(n, g, most, K)
    PROVE  /\ g[K].point \in TimePoint /\ Cardinality(Agreeing(g[K].point)) = most
           /\ Common(Agreeing(g[K].point)) = [low |-> g[K].point, high |-> g[K + 1].point]
           /\ g[K].point <= g[K + 1].point
<1> DEFINE low == g[K].point
           high == g[K + 1].point
           L == {intervals[i].low : i \in Agreeing(low)}
           H == {intervals[i].high : i \in Agreeing(low)}
<1>1. /\ K \in 1 .. n /\ K + 1 \in 1 .. n /\ n \in Nat /\ most \in Nat
      /\ Cardinality(Open(g, K)) = most
      /\ g[K].kind = "Start" /\ g[K + 1].kind = "End"
      /\ low \in TimePoint /\ low \in Int /\ high \in Int
  BY EventOrder DEF Peak, Timeline, IsMost
<1>2. Open(g, K) \subseteq Agreeing(low)
  BY <1>1, OpenAgree
<1>3. Cardinality(Agreeing(low)) = most /\ Agreeing(low) = Open(g, K)
  <2>1. IsFiniteSet(Agreeing(low)) /\ Cardinality(Agreeing(low)) \in Nat
    BY AgreeingFinite, FS_CardinalityType
  <2>2. Cardinality(Agreeing(low)) <= most
    BY <1>1 DEF IsMost
  <2> HIDE DEF low
  <2>3. Cardinality(Open(g, K)) <= Cardinality(Agreeing(low))
    BY <1>2, <2>1, FS_Subset
  <2>4. Cardinality(Agreeing(low)) = most
    BY <1>1, <2>1, <2>2, <2>3
  <2>5. QED  BY <1>1, <1>2, <2>1, <2>4, FS_Subset
<1>4. low <= high
  BY <1>1, EventOrder
<1> HIDE DEF low
<1>5. low \in L
  <2>1. g[K].of \in DOMAIN intervals /\ low = intervals[g[K].of].low
    BY <1>1 DEF Timeline, low
  <2>2. intervals[g[K].of].low <= low /\ low <= intervals[g[K].of].high
    BY <1>1, <2>1 DEF Intervals
  <2>3. QED  BY <2>1, <2>2 DEF Agreeing
<1>6. ASSUME NEW x \in L PROVE x <= low /\ x \in Int
  BY <1>6 DEF Agreeing, Intervals
<1> HIDE DEF L
<1>7. Max(L) = low
  <2>1. Max(L) \in L /\ \A x \in L : Max(L) >= x
    <3>1. \A x \in L : low >= x
      BY <1>1, <1>6
    <3>2. QED  BY <1>5, <3>1, Zenon DEF Max
  <2>2. Max(L) >= low /\ Max(L) <= low /\ Max(L) \in Int
    BY <1>5, <1>6, <2>1
  <2>3. QED  BY <1>1, <2>2
<1>8. high \in H
  <2>1. g[K + 1].of \in Open(g, K)
    <3>1. K + 1 \in 1 .. n /\ g[K + 1].kind = "End"
      BY <1>1
    <3>2. QED  BY <3>1, OpenStep, Zenon
  <2>2. high = intervals[g[K + 1].of].high
    BY <1>1 DEF Timeline
  <2> HIDE DEF high
  <2>3. QED  BY <1>3, <2>1, <2>2
<1>9. ASSUME NEW x \in H PROVE high <= x /\ x \in Int
  <2>1. PICK i \in Open(g, K) : x = intervals[i].high
    BY <1>3
  <2>2. i \in 1 .. Len(intervals) /\ ~ Past(g, K, i, "End")
    BY DEF Open
  <2>3. PICK l \in 1 .. n : g[l].of = i /\ g[l].kind = "End"
    BY <2>2 DEF Timeline, Kinds
  <2>4. K + 1 <= l
    BY <1>1, <2>2, <2>3 DEF Past
  <2>5. g[l].point = x /\ g[l].point \in Int
    BY <2>1, <2>3, EventOrder DEF Timeline
  <2>6. QED  BY <1>1, <2>4, <2>5, EventOrder
<1> HIDE DEF H, high
<1>10. Min(H) = high
  <2>1. Min(H) \in H /\ \A x \in H : Min(H) <= x
    BY <1>8, <1>9, Zenon DEF Min
  <2>2. Min(H) <= high /\ high <= Min(H) /\ Min(H) \in Int
    BY <1>8, <1>9, <2>1
  <2>3. QED  BY <1>1, <2>2
<1>11. QED  BY <1>1, <1>3, <1>4, <1>7, <1>10 DEF L, H, low, high, Common

LEMMA NextPlace ==
    ASSUME NEW n \in Nat, NEW k \in Nat, k + 1 <= n
    PROVE  k + 1 \in 1 .. n /\ k \in 0 .. n /\ k + 1 \in 0 .. n /\ k <= n /\ (k + 1) - 1 = k
OBVIOUS

(* The states of the loop, whatever most and the peak are.                 *)
LEMMA SweepRuns ==
    ASSUME Intervals, DOMAIN intervals = 1 .. Len(intervals), NEW n, NEW g, Timeline(n, g),
           NEW most, IsMost(most), NEW K \in Nat, K # 0, NEW T \in Nat, T >= 1,
           most >= T => Peak(n, g, most, K),
           NEW low \in Int, NEW high \in Int,
           most >= T => low = g[K].point /\ high = g[K + 1].point,
           NEW w, w[0] = SweepStart, \A k \in 1 .. n : w[k] = Sweep(w[k - 1], g[k], T)
    PROVE  Good(w[n], 0, n, T, most, K, low, high)
<1> DEFINE Count(k) == Cardinality(Open(g, k))
           G == {k \in Nat : k <= n => Good(w[k], Count(k), k, T, most, K, low, high)}
<1>1. n \in Nat /\ most \in Nat
  BY DEF Timeline, IsMost
<1>2. \A k \in 0 .. n : Count(k) \in Nat /\ Count(k) <= most
  BY OpenFinite, CountBelow
<1>3. Count(0) = 0 /\ Count(n) = 0
  BY CountEnds
<1>4. 0 \in G
  <2>1. Good(SweepStart, 0, 0, T, most, K, low, high)
    BY <1>1 DEF Good, SweepStart
  <2>2. Good(w[0], Count(0), 0, T, most, K, low, high)
    BY <1>3, <2>1
  <2>3. QED  BY <2>2
<1>5. ASSUME NEW k \in Nat, k \in G PROVE k + 1 \in G
  <2> SUFFICES ASSUME k + 1 <= n
               PROVE  Good(w[k + 1], Count(k + 1), k + 1, T, most, K, low, high)
    OBVIOUS
  <2> DEFINE e == g[k + 1]
  <2>1. k + 1 \in 1 .. n /\ k \in 0 .. n /\ k + 1 \in 0 .. n /\ k <= n /\ (k + 1) - 1 = k
    BY <1>1, NextPlace, Zenon
  <2>2. Good(w[k], Count(k), k, T, most, K, low, high)
    BY <1>5, <2>1
  <2>3. w[k + 1] = Sweep(w[k], e, T)
    BY <2>1
  <2>4. Count(k + 1) = IF e.kind = "Start" THEN Count(k) + 1 ELSE Count(k) - 1
    BY <2>1, CountStep, Zenon
  <2>5. Count(k) \in Nat /\ Count(k) <= most /\ Count(k + 1) \in Nat /\ Count(k + 1) <= most
    BY <1>2, <2>1
  <2>6. e.point \in Int
    BY <2>1, EventOrder
  <2>7. ASSUME most >= T
        PROVE  /\ k < K => Count(k) # most
               /\ k = K => Count(k) = most /\ e.kind = "End" /\ e.point = high
               /\ k + 1 = K => e.kind = "Start" /\ Count(k + 1) = most /\ e.point = low
    BY <2>1, <2>7 DEF Peak
  <2> HIDE DEF Count, e
  <2>8. e.kind = "Start" => Count(k) + 1 <= most
    BY <2>4, <2>5
  <2>9. most >= T => /\ k < K => Count(k) < most
                     /\ k = K => Count(k) = most /\ e.kind # "Start" /\ e.point = high
                     /\ k + 1 = K => e.kind = "Start" /\ Count(k) + 1 = most /\ e.point = low
    BY <1>1, <2>4, <2>5, <2>7
  <2>10. Good(Sweep(w[k], e, T), IF e.kind = "Start" THEN Count(k) + 1 ELSE Count(k) - 1,
              k + 1, T, most, K, low, high)
    BY <1>1, <2>2, <2>5, <2>6, <2>8, <2>9, SweepKeeps
  <2>11. QED  BY <2>3, <2>4, <2>10, Zenon
<1> HIDE DEF G
<1>6. \A k \in Nat : k \in G
  BY <1>4, <1>5, SetInduction, Zenon
<1>7. Good(w[n], Count(n), n, T, most, K, low, high)
  BY <1>1, <1>6 DEF G
<1>8. QED  BY <1>3, <1>7

LEMMA SweepFinds ==
    ASSUME intervals \in Seq(TimeInterval)
    PROVE  FindsMajority
<1> DEFINE m == Len(intervals)
           T == Majority(m)
           S == Events(intervals)
           n == Cardinality(S)
           g == Arranged(S, {e \in S \X S : ComesBefore(e[1], e[2])})
           w == CHOOSE s : s = [k \in 0 .. n |-> IF k = 0 THEN SweepStart
                                                 ELSE Sweep(s[k - 1], g[k], T)]
           C == {Cardinality(Agreeing(t)) : t \in TimePoint}
           most == Max(C)
<1>1. Intervals /\ DOMAIN intervals = 1 .. Len(intervals) /\ m \in Nat
  BY IntervalFields DEF Intervals
<1>2. Timeline(n, g)
  BY <1>1, EventsOnTimeline, Zenon
<1>3. marzullo(intervals) = IF w[n].best >= T THEN w[n].found ELSE None
  BY DEF marzullo
<1>4. T \in Nat /\ T >= 1 /\ \A x \in Nat : x < T <=> 2 * x <= m
  BY <1>1 DEF Majority
<1>5. n \in Nat
  BY <1>2 DEF Timeline
<1> HIDE DEF S, n, g, T
<1>6. w[0] = SweepStart /\ \A k \in 1 .. n : w[k] = Sweep(w[k - 1], g[k], T)
  <2>1. \E s : IsSweep(s, n, g, T)
    BY <1>5, SweepExists, Zenon
  <2>2. w = [k \in 0 .. n |-> IF k = 0 THEN SweepStart ELSE Sweep(w[k - 1], g[k], T)]
    BY <2>1, Zenon DEF IsSweep
  <2> HIDE DEF w
  <2>3. \A k \in 0 .. n : w[k] = IF k = 0 THEN SweepStart ELSE Sweep(w[k - 1], g[k], T)
    BY <2>2
  <2>4. QED  BY <1>5, <2>3
<1> HIDE DEF w
<1>7. CASE m = 0
  <2>1. n = 0
    BY <1>2, <1>7 DEF Timeline
  <2>2. w[n].best = 0
    BY <1>6, <2>1 DEF SweepStart
  <2>3. marzullo(intervals) = None
    BY <1>3, <1>4, <2>2
  <2>4. ASSUME NEW t \in TimePoint PROVE 2 * Cardinality(Agreeing(t)) <= Len(intervals)
    <3>1. Agreeing(t) = {}
      BY <1>1, <1>7 DEF Agreeing
    <3>2. QED  BY <1>7, <3>1, FS_EmptySet
  <2>5. QED  BY <2>3, <2>4 DEF FindsMajority
<1>8. CASE m # 0
  <2>1. IsMost(most) /\ most \in Nat
    BY <1>1, <1>8, MostExists DEF IsMost
  <2> HIDE DEF most
  <2>2. CASE most < T
    <3>1. Good(w[n], 0, n, T, most, 1, 0, 0)
      <4>1. /\ 1 \in Nat /\ 1 # 0 /\ 0 \in Int
            /\ most >= T => Peak(n, g, most, 1) /\ 0 = g[1].point /\ 0 = g[1 + 1].point
        BY <1>4, <2>1, <2>2
      <4>2. QED  BY <1>1, <1>2, <1>4, <1>6, <2>1, <4>1, SweepRuns, Zenon
    <3>2. w[n].best = 0
      BY <2>2, <3>1 DEF Good
    <3>3. marzullo(intervals) = None
      BY <1>3, <1>4, <3>2
    <3>4. ASSUME NEW t \in TimePoint PROVE 2 * Cardinality(Agreeing(t)) <= m
      <4>1. Cardinality(Agreeing(t)) \in Nat /\ Cardinality(Agreeing(t)) <= most
        <5>1. Cardinality(Agreeing(t)) \in 0 .. Len(intervals)
          BY <1>1, AgreeingFinite, Zenon
        <5>2. QED  BY <2>1, <5>1 DEF IsMost
      <4>2. 2 * most <= m
        BY <1>4, <2>1, <2>2
      <4>3. QED  BY <1>1, <2>1, <4>1, <4>2
    <3>5. QED  BY <3>3, <3>4 DEF FindsMajority
  <2>3. CASE most >= T
    <3>1. most # 0
      BY <1>4, <2>1, <2>3
    <3>2. PICK K \in Nat : Peak(n, g, most, K)
      BY <1>1, <1>2, <2>1, <3>1, PeakExists
    <3>3. K # 0 /\ K < n
      BY <1>5, <3>2 DEF Peak
    <3>4. PICK low \in Int, high \in Int : low = g[K].point /\ high = g[K + 1].point
      <4>1. g[K].point \in Int /\ g[K + 1].point \in Int
        BY <1>1, <1>2, <3>2, EventOrder DEF Peak
      <4>2. QED  BY <4>1
    <3>5. /\ low \in TimePoint /\ Cardinality(Agreeing(low)) = most
          /\ Common(Agreeing(low)) = [low |-> low, high |-> high] /\ low <= high
      <4>1. /\ g[K].point \in TimePoint /\ Cardinality(Agreeing(g[K].point)) = most
            /\ Common(Agreeing(g[K].point)) = [low |-> g[K].point, high |-> g[K + 1].point]
            /\ g[K].point <= g[K + 1].point
        BY <1>1, <1>2, <2>1, <3>1, <3>2, PeakInstants
      <4>2. QED  BY <3>4, <4>1
    <3>6. Good(w[n], 0, n, T, most, K, low, high)
      BY <1>1, <1>2, <1>4, <1>6, <2>1, <3>2, <3>3, <3>4, SweepRuns
    <3>7. w[n].best = most /\ w[n].found = [low |-> low, high |-> high]
      BY <2>3, <1>5, <3>3, <3>6 DEF Good
    <3>8. marzullo(intervals) = Common(Agreeing(low))
      BY <1>3, <2>3, <3>5, <3>7
    <3>9. marzullo(intervals) # None
      <4>1. marzullo(intervals).low <= marzullo(intervals).high
        BY <3>5, <3>8
      <4>2. QED  BY <4>1 DEF None
    <3>10. MostAgree(low)
      BY <2>1, <3>5 DEF MostAgree, IsMost
    <3>11. ~ (2 * Cardinality(Agreeing(low)) <= Len(intervals))
      BY <1>4, <2>1, <2>3, <3>5
    <3>12. QED  BY <3>5, <3>8, <3>9, <3>10, <3>11, Zenon DEF FindsMajority
  <2>4. QED  BY <1>4, <2>1, <2>2, <2>3
<1>9. QED  BY <1>7, <1>8

(* For any number of sources and any times: marzullo returns an interval   *)
(* exactly when a strict majority of the sources has an instant in common, *)
(* and then all that a group of the most sources that agree has in common  *)
(* (outlier.rs, the sweep over the sorted ends).                           *)
THEOREM MajorityFound == MarzulloSpec => []FindsMajority
<1>1. MarzulloInit => intervals \in Seq(TimeInterval)
  BY EmptySeq DEF MarzulloInit
<1>2. intervals \in Seq(TimeInterval) /\ [AddInterval]_intervals
        => (intervals \in Seq(TimeInterval))'
  <2> SUFFICES ASSUME intervals \in Seq(TimeInterval), [AddInterval]_intervals
               PROVE  intervals' \in Seq(TimeInterval)
    OBVIOUS
  <2>1. CASE AddInterval
    <3>1. PICK iv \in TimeInterval : intervals' = Append(intervals, iv)
      BY <2>1 DEF AddInterval
    <3>2. QED  BY <3>1, AppendProperties
  <2>2. CASE UNCHANGED intervals
    BY <2>2
  <2>3. QED  BY <2>1, <2>2
<1>3. intervals \in Seq(TimeInterval) => FindsMajority
  BY SweepFinds
<1>4. QED  BY <1>1, <1>2, <1>3, PTL DEF MarzulloSpec
-----------------------------------------------------------------------------
(* The geoid.  A layer of n regions.                                       *)
Fields == {"id", "sum", "count", "children", "edges", "residual"}

Regions(L, n) ==
    /\ n \in Nat \ {0} /\ DOMAIN L = 1 .. n
    /\ \A i \in 1 .. n : /\ DOMAIN L[i] = Fields /\ L[i].count \in Nat \ {0}
                         /\ L[i].sum \in Int /\ L[i].residual \in Int

(* Only the edges are added.                                               *)
LEMMA EdgesAdded ==
    ASSUME NEW L, NEW level, \A i \in DOMAIN L : DOMAIN L[i] = Fields
    PROVE  /\ DOMAIN add_inter_edges(L, level) = DOMAIN L
           /\ \A i \in DOMAIN L :
                LET r == add_inter_edges(L, level)[i]
                IN  /\ DOMAIN r = Fields
                    /\ r.id = L[i].id /\ r.sum = L[i].sum /\ r.count = L[i].count
                    /\ r.children = L[i].children /\ r.residual = L[i].residual
<1> DEFINE near(i) == Subsequence(L, {j \in DOMAIN L \ {i} :
                          Within(L[i], L[j], 3 * Threshold(level))})
           edges(i) == [k \in DOMAIN near(i) |-> near(i)[k].id]
<1>1. add_inter_edges(L, level) = [i \in DOMAIN L |-> [L[i] EXCEPT !.edges = edges(i)]]
  BY Zenon DEF add_inter_edges
<1> HIDE DEF edges
<1>2. ASSUME NEW i \in DOMAIN L
      PROVE  LET r == add_inter_edges(L, level)[i]
             IN  /\ DOMAIN r = Fields
                 /\ r.id = L[i].id /\ r.sum = L[i].sum /\ r.count = L[i].count
                 /\ r.children = L[i].children /\ r.residual = L[i].residual
  <2>1. add_inter_edges(L, level)[i] = [L[i] EXCEPT !.edges = edges(i)]
    BY <1>1
  <2>2. DOMAIN L[i] = Fields
    OBVIOUS
  <2>3. QED  BY <2>1, <2>2 DEF Fields
<1>3. QED  BY <1>1, <1>2

(* Regions with the same leader go together.                               *)
LEMMA Classes ==
    ASSUME NEW D, NEW f
    PROVE  Divides({{j \in D : f[j] = i} : i \in {f[j] : j \in D}}, D)
<1> DEFINE class(i) == {j \in D : f[j] = i}
           P == {class(i) : i \in {f[j] : j \in D}}
<1>1. \A g \in P : \E k \in D : g = class(f[k])
  OBVIOUS
<1>2. \A k \in D : class(f[k]) \in P /\ k \in class(f[k])
  OBVIOUS
<1>3. P \subseteq SUBSET D
  OBVIOUS
<1> HIDE DEF P
<1>4. {} \notin P
  BY <1>1, <1>2
<1>5. ASSUME NEW g \in P, NEW h \in P, g # h PROVE g \cap h = {}
  <2>1. PICK k \in D, l \in D : g = class(f[k]) /\ h = class(f[l])
    BY <1>1
  <2>2. f[k] # f[l]
    BY <1>5, <2>1
  <2>3. \A x \in g : x \notin h
    BY <2>1, <2>2
  <2>4. QED  BY <2>3
<1>6. Divides(P, D)
  BY <1>2, <1>3, <1>4, <1>5 DEF Divides
<1>7. QED  BY <1>6 DEF P

LEMMA GroupsDivide ==
    ASSUME NEW L, NEW level
    PROVE  Divides(Groups(L, level), DOMAIN L)
<1> DEFINE leader == CHOOSE f : f = [j \in DOMAIN L |->
                        LET pivots == {i \in 1 .. j - 1 :
                                f[i] = i /\ Within(L[i], L[j], Threshold(level))}
                        IN  IF pivots = {} THEN j ELSE Min(pivots)]
<1>1. Groups(L, level) =
        {{j \in DOMAIN L : leader[j] = i} : i \in {leader[j] : j \in DOMAIN L}}
  BY DEF Groups
<1> HIDE DEF leader
<1>2. Divides({{j \in DOMAIN L : leader[j] = i} : i \in {leader[j] : j \in DOMAIN L}},
              DOMAIN L)
  BY Classes, Zenon
<1>3. QED  BY <1>1, <1>2, Zenon

LEMMA LeastMember ==
    ASSUME NEW S \in SUBSET Nat, S # {}
    PROVE  Min(S) \in S /\ \A x \in S : Min(S) <= x
<1>1. \E x \in S : \A y \in S : x <= y
  BY LeastExists
<1>2. QED  BY <1>1 DEF Min

LEMMA GroupsOrdered ==
    ASSUME NEW D \in SUBSET Nat, NEW P, Divides(P, D)
    PROVE  Orders({g \in P \X P : Min(g[1]) < Min(g[2])}, P)
<1> DEFINE R == {g \in P \X P : Min(g[1]) < Min(g[2])}
<1>1. \A g, h \in P : <<g, h>> \in R <=> Min(g) < Min(h)
  OBVIOUS
<1>2. ASSUME NEW g \in P PROVE Min(g) \in g /\ Min(g) \in Nat
  <2>1. g \in SUBSET Nat /\ g # {}
    BY DEF Divides
  <2>2. QED  BY <2>1, LeastMember
<1>3. ASSUME NEW g \in P, NEW h \in P, Min(g) = Min(h) PROVE g = h
  BY <1>2, <1>3 DEF Divides
<1> HIDE DEF R
<1>4. \A g \in P : <<g, g>> \notin R
  BY <1>1, <1>2
<1>5. \A g, h, k \in P : <<g, h>> \in R /\ <<h, k>> \in R => <<g, k>> \in R
  BY <1>1, <1>2
<1>6. \A g, h \in P : g # h => <<g, h>> \in R \/ <<h, g>> \in R
  BY <1>1, <1>2, <1>3
<1>7. QED  BY <1>4, <1>5, <1>6 DEF Orders, R

(* What is summed along a part of a list.                                  *)
LEMMA PickedSum ==
    ASSUME NEW I \in SUBSET Int, IsFiniteSet(I), NEW f, \A i \in I : f[i] \in Int,
           NEW h, DOMAIN h = 1 .. Cardinality(I),
           \A k \in 1 .. Cardinality(I) : h[k] = f[Ascending(I)[k]]
    PROVE  SumFunction(h) = SumFunctionOnSet(f, I)
<1> DEFINE K == 1 .. Cardinality(I)
<1>1. IsFiniteSet(K) /\ PairsUp(Ascending(I), K, I)
  BY AscendingPairs, Zenon
<1>2. DOMAIN h = K /\ Carries(h, K, f, Ascending(I)) /\ Whole(f, I)
  BY DEF Carries, Whole
<1> HIDE DEF K
<1>3. SumFunctionOnSet(h, K) = SumFunctionOnSet(f, I)
  BY <1>1, <1>2, SumMoved
<1>4. QED  BY <1>2, <1>3 DEF SumFunction

(* The sums h of the m groups gs of a list make the sum of all.            *)
GroupSums(h, m, f, gs) ==
    DOMAIN h = 1 .. m /\ \A k \in 1 .. m : h[k] = SumFunctionOnSet(f, gs[k])

LEMMA GroupedSum ==
    ASSUME NEW n \in Nat, NEW f, Whole(f, 1 .. n), NEW P, Divides(P, 1 .. n),
           NEW m \in Nat, NEW gs, PairsUp(gs, 1 .. m, P), NEW h, GroupSums(h, m, f, gs)
    PROVE  SumFunction(h) = SumFunctionOnSet(f, 1 .. n)
<1> DEFINE D == 1 .. n
           K == 1 .. m
           u == [g \in P |-> SumFunctionOnSet(f, g)]
<1>1. IsFiniteSet(D) /\ IsFiniteSet(K)
  BY FS_Interval
<1>2. Divides(P, D) /\ PairsUp(gs, K, P) /\ Whole(f, D)
  OBVIOUS
<1>3. DOMAIN h = K /\ \A k \in K : h[k] = SumFunctionOnSet(f, gs[k])
  BY DEF GroupSums
<1> HIDE DEF D, K
<1>4. \A g \in P : u[g] = SumFunctionOnSet(f, g) /\ u[g] \in Int
  <2> SUFFICES ASSUME NEW g \in P PROVE u[g] = SumFunctionOnSet(f, g) /\ u[g] \in Int
    OBVIOUS
  <2>1. g \in SUBSET D
    BY <1>2 DEF Divides
  <2>2. IsFiniteSet(g) /\ \A i \in g : f[i] \in Int
    BY <1>1, <1>2, <2>1, FS_Subset DEF Whole
  <2>3. QED  BY <2>2, SumIsInt
<1> HIDE DEF u
<1>5. SumFunctionOnSet(u, P) = SumFunctionOnSet(f, D)
  <2>1. PartSums(u, P, f)
    BY <1>4 DEF PartSums
  <2>2. QED  BY <1>1, <1>2, <2>1, SumOfParts
<1>6. Carries(h, K, u, gs) /\ Whole(u, P)
  <2>1. \A k \in K : gs[k] \in P
    BY <1>2 DEF PairsUp
  <2>2. QED  BY <1>3, <1>4, <2>1 DEF Carries, Whole
<1>7. SumFunctionOnSet(h, K) = SumFunctionOnSet(u, P)
  BY <1>1, <1>2, <1>6, SumMoved
<1>8. QED  BY <1>3, <1>5, <1>7 DEF SumFunction, D
-----------------------------------------------------------------------------
(* The accumulators after each beacon, and the layers level by level.      *)
IsAccum(s, N, B) ==
    s = [k \in 0 .. N |-> IF k = 0 THEN <<>> ELSE Accumulate(s[k - 1], B[k])]

LEMMA AccumExists ==
    ASSUME NEW N \in Nat, NEW B
    PROVE  \E s : IsAccum(s, N, B)
<1> DEFINE Step(r, k) == Accumulate(r[k - 1], B[k])
           M == {m \in Nat : \E s : IsAccum(s, m, B)}
<1>1. 0 \in M
  <2> DEFINE s == [k \in 0 .. 0 |-> <<>>]
  <2>1. s = [k \in 0 .. 0 |-> IF k = 0 THEN <<>> ELSE Step(s, k)]
    OBVIOUS
  <2> HIDE DEF s
  <2>2. IsAccum(s, 0, B)
    BY <2>1 DEF IsAccum
  <2>3. QED  BY <2>2
<1>2. ASSUME NEW m \in Nat, m \in M PROVE m + 1 \in M
  <2>1. PICK s : IsAccum(s, m, B)
    BY <1>2
  <2> DEFINE r == [k \in 0 .. m + 1 |-> IF k <= m THEN s[k] ELSE Accumulate(s[m], B[k])]
             q == [k \in 0 .. m + 1 |-> IF k = 0 THEN <<>> ELSE Accumulate(r[k - 1], B[k])]
  <2>2. \A k \in 0 .. m : s[k] = IF k = 0 THEN <<>> ELSE Accumulate(s[k - 1], B[k])
    BY <2>1 DEF IsAccum
  <2>3. ASSUME NEW k \in 0 .. m + 1
        PROVE  r[k] = IF k = 0 THEN <<>> ELSE Accumulate(r[k - 1], B[k])
    <3>1. CASE k <= m
      <4>1. r[k] = s[k] /\ k \in 0 .. m
        BY <3>1
      <4>2. k # 0 => r[k - 1] = s[k - 1]
        BY <3>1
      <4> HIDE DEF r
      <4>3. QED  BY <2>2, <4>1, <4>2, Zenon
    <3>2. CASE k = m + 1
      <4>1. r[k] = Accumulate(s[m], B[k]) /\ r[k - 1] = s[m] /\ k # 0
        BY <3>2
      <4> HIDE DEF r
      <4>2. QED  BY <4>1, Zenon
    <3>3. QED  BY <3>1, <3>2
  <2>4. r = q
    <3>1. \A k \in 0 .. m + 1 : r[k] = q[k]
      <4> HIDE DEF r
      <4>1. QED  BY <2>3
    <3>2. r = [k \in 0 .. m + 1 |-> r[k]] /\ q = [k \in 0 .. m + 1 |-> q[k]]
      OBVIOUS
    <3> HIDE DEF r, q
    <3>3. QED  BY <3>1, <3>2, Zenon
  <2>5. IsAccum(r, m + 1, B)
    <3> HIDE DEF r
    <3>1. QED  BY <2>4 DEF IsAccum
  <2> HIDE DEF r
  <2>6. QED  BY <2>5
<1> HIDE DEF M
<1>3. \A m \in Nat : m \in M
  BY <1>1, <1>2, SetInduction, Zenon
<1>4. QED  BY <1>3 DEF M

IsHierarchy(s, N, B, e) ==
    s = [level \in 0 .. N |-> IF level = 0 THEN build_leaf_layer(B, e)
                              ELSE coarsen_layer(s[level - 1], level, e)]

LEMMA HierarchyExists ==
    ASSUME NEW N \in Nat, NEW B, NEW e
    PROVE  \E s : IsHierarchy(s, N, B, e)
<1> DEFINE leaf == build_leaf_layer(B, e)
           M == {m \in Nat : \E s : IsHierarchy(s, m, B, e)}
<1>1. 0 \in M
  <2> DEFINE s == [k \in 0 .. 0 |-> leaf]
  <2>1. s = [k \in 0 .. 0 |-> IF k = 0 THEN leaf ELSE coarsen_layer(s[k - 1], k, e)]
    <3> HIDE DEF leaf
    <3>1. QED  OBVIOUS
  <2> HIDE DEF s
  <2>2. IsHierarchy(s, 0, B, e)
    BY <2>1 DEF IsHierarchy
  <2>3. QED  BY <2>2
<1>2. ASSUME NEW m \in Nat, m \in M PROVE m + 1 \in M
  <2>1. PICK s : IsHierarchy(s, m, B, e)
    BY <1>2
  <2> DEFINE r == [k \in 0 .. m + 1 |-> IF k <= m THEN s[k] ELSE coarsen_layer(s[m], k, e)]
             q == [k \in 0 .. m + 1 |-> IF k = 0 THEN leaf ELSE coarsen_layer(r[k - 1], k, e)]
  <2>2. \A k \in 0 .. m : s[k] = IF k = 0 THEN leaf ELSE coarsen_layer(s[k - 1], k, e)
    BY <2>1 DEF IsHierarchy
  <2> HIDE DEF leaf
  <2>3. ASSUME NEW k \in 0 .. m + 1
        PROVE  r[k] = IF k = 0 THEN leaf ELSE coarsen_layer(r[k - 1], k, e)
    <3>1. CASE k <= m
      <4>1. r[k] = s[k] /\ k \in 0 .. m
        BY <3>1
      <4>2. k # 0 => r[k - 1] = s[k - 1]
        BY <3>1
      <4> HIDE DEF r
      <4>3. QED  BY <2>2, <4>1, <4>2, Zenon
    <3>2. CASE k = m + 1
      <4>1. r[k] = coarsen_layer(s[m], k, e) /\ r[k - 1] = s[m] /\ k # 0
        BY <3>2
      <4> HIDE DEF r
      <4>2. QED  BY <4>1, Zenon
    <3>3. QED  BY <3>1, <3>2
  <2>4. r = q
    <3>1. \A k \in 0 .. m + 1 : r[k] = q[k]
      <4> HIDE DEF r
      <4>1. QED  BY <2>3
    <3>2. r = [k \in 0 .. m + 1 |-> r[k]] /\ q = [k \in 0 .. m + 1 |-> q[k]]
      OBVIOUS
    <3> HIDE DEF r, q
    <3>3. QED  BY <3>1, <3>2, Zenon
  <2>5. IsHierarchy(r, m + 1, B, e)
    <3> HIDE DEF r
    <3>1. QED  BY <2>4 DEF IsHierarchy, leaf
  <2> HIDE DEF r
  <2>6. QED  BY <2>5
<1> HIDE DEF M
<1>3. \A m \in Nat : m \in M
  BY <1>1, <1>2, SetInduction, Zenon
<1>4. QED  BY <1>3 DEF M
-----------------------------------------------------------------------------
Beacon == [epoch : Nat, pos : Int, off : Int]
Accum  == [sum : Int, count : Nat \ {0}, offsets : Seq(Int) \ {<<>>}]

(* A beacon is counted in one accumulator.                                 *)
LEMMA AccumulateKeeps ==
    ASSUME NEW A \in Seq(Accum), NEW b \in Beacon
    PROVE  /\ Accumulate(A, b) \in Seq(Accum) /\ Accumulate(A, b) # <<>>
           /\ Counted(A) \in Int /\ Counted(Accumulate(A, b)) = Counted(A) + 1
<1> DEFINE near == {i \in DOMAIN A : Within(A[i], Point(b.pos), Threshold(0))}
           n == Len(A)
           C == [i \in DOMAIN A |-> A[i].count]
           A2 == Accumulate(A, b)
           C2 == [i \in DOMAIN A2 |-> A2[i].count]
<1>1. /\ n \in Nat /\ DOMAIN A = 1 .. n
      /\ \A i \in 1 .. n : A[i] \in Accum
  BY LenProperties, ElementOfSeq
<1>2. IsFiniteSet(1 .. n)
  BY <1>1, FS_Interval
<1>3. DOMAIN C = 1 .. n /\ \A i \in 1 .. n : C[i] = A[i].count /\ C[i] \in Int
  BY <1>1 DEF Accum
<1>4. Counted(A) = SumFunctionOnSet(C, 1 .. n) /\ Counted(A) \in Int
  <2>1. Counted(A) = SumFunctionOnSet(C, 1 .. n)
    BY <1>3 DEF Counted, SumFunction
  <2> HIDE DEF C
  <2>2. QED  BY <1>2, <1>3, <2>1, SumIsInt
<1>5. Counted(A2) = SumFunctionOnSet(C2, DOMAIN A2)
  BY DEF Counted, SumFunction
<1>6. b.pos \in Int /\ b.off \in Int
  BY DEF Beacon
<1>7. CASE near = {}
  <2> DEFINE x == [sum |-> b.pos, count |-> 1, offsets |-> <<b.off>>]
  <2>1. A2 = Append(A, x)
    BY <1>7 DEF Accumulate
  <2>2. x \in Accum
    BY <1>6 DEF Accum
  <2>3. x.count = 1
    OBVIOUS
  <2> HIDE DEF x, A2
  <2>4. /\ A2 \in Seq(Accum) /\ A2 # <<>> /\ DOMAIN A2 = 1 .. n + 1
        /\ A2[n + 1] = x /\ \A i \in 1 .. n : A2[i] = A[i]
    BY <2>1, <2>2, AppendProperties, <1>1
  <2>5. C2[n + 1] = 1 /\ \A i \in 1 .. n : C2[i] = C[i]
    BY <1>1, <1>3, <2>3, <2>4
  <2> HIDE DEF C, C2
  <2>6. \A i \in 1 .. n + 1 : C2[i] \in Int
    BY <1>1, <1>3, <2>5
  <2>7. SumFunctionOnSet(C2, 1 .. n + 1) = SumFunctionOnSet(C2, 1 .. n) + C2[n + 1]
    BY <1>1, <2>6, SumUpto
  <2>8. SumFunctionOnSet(C2, 1 .. n) = SumFunctionOnSet(C, 1 .. n)
    BY <1>2, <1>3, <2>5, SumSame
  <2>9. Counted(A2) = Counted(A) + 1
    BY <1>4, <1>5, <2>4, <2>5, <2>7, <2>8
  <2>10. QED  BY <1>4, <2>4, <2>9 DEF A2
<1>8. CASE near # {}
  <2> DEFINE m == Min(near)
             x == [sum |-> A[m].sum + b.pos, count |-> A[m].count + 1,
                   offsets |-> Append(A[m].offsets, b.off)]
  <2>1. m \in near
    <3>1. near \in SUBSET Nat
      BY <1>1
    <3> HIDE DEF near
    <3>2. QED  BY <1>8, <3>1, LeastMember
  <2>2. m \in 1 .. n
    BY <1>1, <2>1
  <2>3. A2 = [A EXCEPT ![m] = x]
    BY <1>8 DEF Accumulate
  <2> HIDE DEF m
  <2>4. A[m] \in Accum
    BY <1>1, <2>2
  <2>5. x \in Accum /\ x.count = A[m].count + 1
    <3>1. /\ A[m].offsets \in Seq(Int) \ {<<>>} /\ A[m].sum \in Int
          /\ A[m].count \in Nat \ {0}
      BY <2>4 DEF Accum
    <3>2. PICK s \in Seq(Int), v \in Int : s = A[m].offsets /\ v = b.off
      BY <1>6, <3>1, Zenon
    <3>3. Append(s, v) \in Seq(Int) /\ Append(s, v) # <<>>
      OBVIOUS
    <3>4. A[m].sum + b.pos \in Int /\ A[m].count + 1 \in Nat \ {0}
      <4>1. PICK y \in Int, w \in Int, c \in Nat \ {0} :
               y = A[m].sum /\ w = b.pos /\ c = A[m].count
        BY <1>6, <3>1, Zenon
      <4>2. y + w \in Int /\ c + 1 \in Nat \ {0}
        OBVIOUS
      <4>3. QED  BY <4>1, <4>2, Zenon
    <3>5. /\ Append(A[m].offsets, b.off) \in Seq(Int)
          /\ Append(A[m].offsets, b.off) # <<>>
      BY <3>2, <3>3, Zenon
    <3>6. QED  BY <3>4, <3>5 DEF Accum
  <2> HIDE DEF x, A2
  <2>6. /\ A2 \in Seq(Accum) /\ DOMAIN A2 = 1 .. n
        /\ A2[m] = x /\ \A i \in 1 .. n : i # m => A2[i] = A[i]
    <3>1. A2 \in [1 .. n -> Accum]
      BY <1>1, <2>2, <2>3, <2>5
    <3>2. A2 \in UNION {[1 .. j -> Accum] : j \in Nat}
      BY <1>1, <3>1, Zenon
    <3>3. A2 \in Seq(Accum)
      BY <3>2, SeqDef, Zenon
    <3>4. QED  BY <1>1, <2>2, <2>3, <3>1, <3>3
  <2>7. A2 # <<>>
    BY <2>2, <2>6
  <2>8. C2[m] = C[m] + 1 /\ \A i \in 1 .. n : i # m => C2[i] = C[i]
    BY <1>1, <1>3, <2>2, <2>5, <2>6
  <2> HIDE DEF C, C2
  <2>9. \A i \in 1 .. n : C2[i] \in Int
    BY <1>3, <2>8
  <2>10. SumFunctionOnSet(C2, 1 .. n) = (SumFunctionOnSet(C, 1 .. n) - C[m]) + C2[m]
    BY <1>2, <1>3, <2>2, <2>8, <2>9, SumChanged
  <2>11. Counted(A2) = Counted(A) + 1
    BY <1>3, <1>4, <1>5, <2>2, <2>6, <2>8, <2>10
  <2>12. QED  BY <1>4, <2>6, <2>7, <2>11 DEF A2
<1>9. QED  BY <1>7, <1>8

(* The residual of a leaf region is a number.                              *)
LEMMA SpreadIsInt ==
    ASSUME NEW s \in Seq(Int), s # <<>>
    PROVE  Spread(s) \in Int
<1> DEFINE n == Len(s)
           t == SumFunction(s)
           d == [i \in DOMAIN s |-> AbsInt(n * s[i] - t)]
<1>1. n \in Nat /\ n # 0 /\ DOMAIN s = 1 .. n /\ \A i \in 1 .. n : s[i] \in Int
  BY LenProperties, ElementOfSeq, EmptySeq
<1>2. IsFiniteSet(1 .. n)
  BY <1>1, FS_Interval
<1>3. t \in Int
  BY <1>1, <1>2, SumIsInt DEF SumFunction
<1>4. DOMAIN d = 1 .. n /\ \A i \in 1 .. n : d[i] \in Int
  <2>1. DOMAIN d = 1 .. n /\ \A i \in 1 .. n : d[i] = AbsInt(n * s[i] - t)
    BY <1>1
  <2> HIDE DEF d, t
  <2>2. \A i \in 1 .. n : AbsInt(n * s[i] - t) \in Int
    BY <1>1, <1>3 DEF AbsInt
  <2>3. QED  BY <2>1, <2>2
<1>5. Spread(s) = SumFunction(d) \div (n * n)
  BY DEF Spread
<1> HIDE DEF d, n
<1>6. SumFunction(d) \in Int
  BY <1>2, <1>4, SumIsInt DEF SumFunction
<1>7. n * n \in Nat /\ n * n > 0
  BY <1>1
<1>8. QED  BY <1>5, <1>6, <1>7

(* Every beacon is counted in the leaves.                                  *)
LEMMA AccumCounts ==
    ASSUME NEW B \in Seq(Beacon), B # <<>>, NEW s, IsAccum(s, Len(B), B)
    PROVE  /\ s[Len(B)] \in Seq(Accum) /\ s[Len(B)] # <<>>
           /\ Counted(s[Len(B)]) = Len(B)
<1> DEFINE n == Len(B)
           Ok(k) == /\ s[k] \in Seq(Accum) /\ Counted(s[k]) = k
                    /\ k > 0 => s[k] # <<>>
           T == {k \in Nat : k <= n => Ok(k)}
<1>1. n \in Nat /\ n > 0 /\ DOMAIN B = 1 .. n /\ \A i \in 1 .. n : B[i] \in Beacon
  BY LenProperties, ElementOfSeq, EmptySeq
<1>2. /\ s[0] = <<>>
      /\ \A k \in 1 .. n : s[k] = Accumulate(s[k - 1], B[k])
  <2>1. \A k \in 0 .. n : s[k] = IF k = 0 THEN <<>> ELSE Accumulate(s[k - 1], B[k])
    BY DEF IsAccum
  <2>2. QED  BY <1>1, <2>1
<1> HIDE DEF n
<1>3. 0 \in T
  <2>1. Counted(<<>>) = 0
    <3>1. DOMAIN [i \in DOMAIN <<>> |-> <<>>[i].count] = {}
      OBVIOUS
    <3>2. QED  BY <3>1, SumEmpty DEF Counted, SumFunction
  <2>2. <<>> \in Seq(Accum)
    OBVIOUS
  <2>3. Ok(0)
    BY <1>2, <2>1, <2>2
  <2>4. QED  BY <2>3
<1>4. ASSUME NEW k \in Nat, k \in T PROVE k + 1 \in T
  <2> SUFFICES ASSUME k + 1 <= n PROVE Ok(k + 1)
    OBVIOUS
  <2>1. Ok(k)
    BY <1>1, <1>4
  <2>2. s[k + 1] = Accumulate(s[k], B[k + 1]) /\ B[k + 1] \in Beacon
    <3>1. k + 1 \in 1 .. n /\ (k + 1) - 1 = k
      BY <1>1
    <3>2. QED  BY <1>1, <1>2, <3>1
  <2>3. /\ s[k + 1] \in Seq(Accum) /\ s[k + 1] # <<>>
        /\ Counted(s[k + 1]) = Counted(s[k]) + 1
    BY <2>1, <2>2, AccumulateKeeps
  <2>4. QED  BY <2>1, <2>3
<1>5. \A k \in Nat : k \in T
  <2> HIDE DEF T
  <2>1. QED  BY <1>3, <1>4, SetInduction
<1>6. Ok(n)
  <2> HIDE DEF Ok
  <2>1. QED  BY <1>1, <1>5
<1>7. QED  BY <1>1, <1>6 DEF n

LEMMA LeafLayer ==
    ASSUME NEW B \in Seq(Beacon), B # <<>>, NEW e
    PROVE  /\ \E n : Regions(build_leaf_layer(B, e), n)
           /\ Counted(build_leaf_layer(B, e)) = Len(B)
<1> DEFINE s == CHOOSE f : f = [k \in 0 .. Len(B) |->
                     IF k = 0 THEN <<>> ELSE Accumulate(f[k - 1], B[k])]
           A == s[Len(B)]
           leaf(i) == [id |-> RegionId(A[i], 0, e), sum |-> A[i].sum,
                       count |-> A[i].count, children |-> <<>>, edges |-> <<>>,
                       residual |-> Spread(A[i].offsets)]
           raw == [i \in DOMAIN A |-> leaf(i)]
           L == add_inter_edges(raw, 0)
<1>1. build_leaf_layer(B, e) = L
  BY DEF build_leaf_layer
<1>2. IsAccum(s, Len(B), B)
  <2>1. Len(B) \in Nat
    BY LenProperties
  <2>2. \E f : IsAccum(f, Len(B), B)
    BY <2>1, AccumExists
  <2>3. QED  BY <2>2, Zenon DEF IsAccum
<1> HIDE DEF s
<1>3. A \in Seq(Accum) /\ A # <<>> /\ Counted(A) = Len(B)
  BY <1>2, AccumCounts
<1> HIDE DEF A
<1>4. PICK n \in Nat \ {0} : DOMAIN A = 1 .. n /\ \A i \in 1 .. n : A[i] \in Accum
  BY <1>3, LenProperties, ElementOfSeq, EmptySeq
<1>5. ASSUME NEW i \in 1 .. n
      PROVE  /\ DOMAIN leaf(i) = Fields /\ leaf(i).count = A[i].count
             /\ leaf(i).count \in Nat \ {0} /\ leaf(i).sum \in Int
             /\ leaf(i).residual \in Int
  <2>1. A[i] \in Accum
    BY <1>4
  <2>2. /\ A[i].count \in Nat \ {0} /\ A[i].sum \in Int
        /\ A[i].offsets \in Seq(Int) /\ A[i].offsets # <<>>
    BY <2>1 DEF Accum
  <2>3. Spread(A[i].offsets) \in Int
    BY <2>2, SpreadIsInt
  <2>4. /\ DOMAIN leaf(i) = Fields /\ leaf(i).count = A[i].count
        /\ leaf(i).sum = A[i].sum /\ leaf(i).residual = Spread(A[i].offsets)
    BY DEF Fields
  <2> HIDE DEF leaf
  <2>5. QED  BY <2>2, <2>3, <2>4
<1>6. DOMAIN raw = 1 .. n /\ \A i \in 1 .. n : raw[i] = leaf(i)
  BY <1>4
<1> HIDE DEF leaf, raw
<1>7. \A i \in DOMAIN raw : DOMAIN raw[i] = Fields
  BY <1>5, <1>6
<1>8. /\ DOMAIN L = 1 .. n
      /\ \A i \in 1 .. n : /\ DOMAIN L[i] = Fields
                           /\ L[i].sum = raw[i].sum /\ L[i].count = raw[i].count
                           /\ L[i].residual = raw[i].residual
  BY <1>6, <1>7, EdgesAdded
<1> HIDE DEF L
<1>9. Regions(L, n)
  BY <1>4, <1>5, <1>6, <1>8 DEF Regions
<1>10. Counted(L) = Counted(A)
  <2>1. [i \in DOMAIN L |-> L[i].count] = [i \in DOMAIN A |-> A[i].count]
    BY <1>4, <1>5, <1>6, <1>8
  <2>2. QED  BY <2>1 DEF Counted
<1>11. QED  BY <1>1, <1>3, <1>9, <1>10
-----------------------------------------------------------------------------
(* Merging.  What the regions of a layer say, by their places.             *)
CountAt(L)  == [i \in DOMAIN L |-> L[i].count]
SumAt(L)    == [i \in DOMAIN L |-> L[i].sum]
IsAt(L, x)  == [i \in DOMAIN L |-> IF L[i].id = x THEN 1 ELSE 0]

LEMMA LargestMember ==
    ASSUME NEW S, IsFiniteSet(S), S \subseteq Int, S # {}
    PROVE  Max(S) \in S /\ Max(S) \in Int /\ \A x \in S : x <= Max(S)
<1>1. \E x \in S : \A y \in S : x >= y
  BY GreatestExists
<1>2. Max(S) \in S /\ \A y \in S : Max(S) >= y
  BY <1>1 DEF Max
<1>3. QED  BY <1>2

LEMMA ResidualsFinite ==
    ASSUME NEW L, NEW I, IsFiniteSet(I)
    PROVE  IsFiniteSet({L[i].residual : i \in I})
<1> DEFINE f == [i \in I |-> L[i].residual]
<1>1. IsFiniteSet({f[i] : i \in I})
  BY ValuesFinite, Zenon
<1>2. {f[i] : i \in I} = {L[i].residual : i \in I}
  OBVIOUS
<1>3. QED  BY <1>1, <1>2

(* The region q made of the regions g of L.                                *)
MadeOf(q, L, g) ==
    /\ DOMAIN q = Fields
    /\ q.count \in Nat \ {0} /\ q.count = SumFunctionOnSet(CountAt(L), g)
    /\ q.sum \in Int /\ q.sum = SumFunctionOnSet(SumAt(L), g)
    /\ q.residual \in Int /\ \A i \in g : L[i].residual <= q.residual
    /\ \E i \in g : q.residual = L[i].residual
    /\ DOMAIN q.children = 1 .. Cardinality(g)
    /\ \A j \in 1 .. Cardinality(g) : q.children[j] = L[Ascending(g)[j]].id
    /\ \A x : Occurs(q.children, x) = SumFunctionOnSet(IsAt(L, x), g)

LEMMA MergedRegion ==
    ASSUME NEW L, NEW n, Regions(L, n), NEW g \in SUBSET (1 .. n), g # {},
           NEW level, NEW e
    PROVE  LET sub == Subsequence(L, g)
               q   == merge_regions(sub, level, e)
           IN  MadeOf(q, L, g) /\ q.sum = Centre(sub) /\ q.count = Counted(sub)
<1> DEFINE sub == Subsequence(L, g)
           a == Ascending(g)
           c == Cardinality(g)
           q == merge_regions(sub, level, e)
<1>1. /\ n \in Nat /\ DOMAIN L = 1 .. n
      /\ \A i \in 1 .. n : /\ L[i].count \in Nat \ {0} /\ L[i].sum \in Int
                           /\ L[i].residual \in Int
  BY DEF Regions
<1>2. IsFiniteSet(g) /\ g \in SUBSET Int
  <2>1. IsFiniteSet(1 .. n)
    BY <1>1, FS_Interval
  <2>2. IsFiniteSet(g)
    BY <2>1, FS_Subset, Zenon
  <2>3. QED  BY <2>2
<1>3. c \in Nat /\ PairsUp(a, 1 .. c, g)
  BY <1>2, AscendingPairs, Zenon
<1>4. DOMAIN sub = 1 .. c /\ \A j \in 1 .. c : sub[j] = L[a[j]]
  BY DEF Subsequence
<1>5. /\ DOMAIN q = Fields
      /\ q.sum = Centre(sub) /\ q.count = Counted(sub)
      /\ q.children = [j \in DOMAIN sub |-> sub[j].id]
      /\ q.residual = WorstResidual(sub)
  BY DEF merge_regions, Fields, Centre, Counted
<1> HIDE DEF sub, q
<1>6. \A j \in 1 .. c : a[j] \in g /\ a[j] \in 1 .. n
  BY <1>3 DEF PairsUp
<1>7. \A i \in g : \E j \in 1 .. c : i = a[j]
  BY <1>3 DEF PairsUp
<1>8. q.count = SumFunctionOnSet(CountAt(L), g) /\ q.count \in Nat \ {0}
  <2> DEFINE h == [j \in DOMAIN sub |-> sub[j].count]
  <2>1. DOMAIN h = 1 .. c /\ \A j \in 1 .. c : h[j] = CountAt(L)[a[j]]
    <3>1. DOMAIN h = 1 .. c /\ \A j \in 1 .. c : h[j] = L[a[j]].count
      BY <1>4
    <3>2. \A i \in 1 .. n : CountAt(L)[i] = L[i].count
      BY <1>1 DEF CountAt
    <3> HIDE DEF h
    <3>3. QED  BY <1>6, <3>1, <3>2
  <2>2. \A i \in g : CountAt(L)[i] \in Int /\ CountAt(L)[i] \in Nat \ {0}
    <3> SUFFICES ASSUME NEW i \in g
                 PROVE  CountAt(L)[i] \in Int /\ CountAt(L)[i] \in Nat \ {0}
      OBVIOUS
    <3>1. i \in DOMAIN L /\ L[i].count \in Nat \ {0}
      BY <1>1
    <3>2. CountAt(L)[i] = L[i].count
      BY <3>1 DEF CountAt
    <3>3. QED  BY <3>1, <3>2
  <2>3. Counted(sub) = SumFunction(h)
    BY DEF Counted
  <2> HIDE DEF h
  <2>4. SumFunction(h) = SumFunctionOnSet(CountAt(L), g)
    BY <1>2, <2>1, <2>2, PickedSum
  <2>5. SumFunctionOnSet(CountAt(L), g) \in Nat \ {0}
    BY <1>2, <2>2, SumPositive
  <2>6. QED  BY <1>5, <2>3, <2>4, <2>5
<1>9. q.sum = SumFunctionOnSet(SumAt(L), g) /\ q.sum \in Int
  <2> DEFINE h == [j \in DOMAIN sub |-> sub[j].sum]
  <2>1. DOMAIN h = 1 .. c /\ \A j \in 1 .. c : h[j] = SumAt(L)[a[j]]
    BY <1>1, <1>4, <1>6 DEF SumAt
  <2>2. \A i \in g : SumAt(L)[i] \in Int
    BY <1>1 DEF SumAt
  <2>3. Centre(sub) = SumFunction(h)
    BY DEF Centre
  <2> HIDE DEF h
  <2>4. SumFunction(h) = SumFunctionOnSet(SumAt(L), g)
    BY <1>2, <2>1, <2>2, PickedSum
  <2>5. SumFunctionOnSet(SumAt(L), g) \in Int
    BY <1>2, <2>2, SumIsInt
  <2>6. QED  BY <1>5, <2>3, <2>4, <2>5
<1>10. /\ DOMAIN q.children = 1 .. c
       /\ \A j \in 1 .. c : q.children[j] = L[a[j]].id
  BY <1>4, <1>5
<1>11. ASSUME NEW x PROVE Occurs(q.children, x) = SumFunctionOnSet(IsAt(L, x), g)
  <2> DEFINE h == [j \in DOMAIN q.children |-> IF q.children[j] = x THEN 1 ELSE 0]
  <2>1. DOMAIN h = 1 .. c /\ \A j \in 1 .. c : h[j] = IsAt(L, x)[a[j]]
    <3>1. DOMAIN h = 1 .. c
          /\ \A j \in 1 .. c : h[j] = IF L[a[j]].id = x THEN 1 ELSE 0
      BY <1>10
    <3>2. \A i \in 1 .. n : IsAt(L, x)[i] = IF L[i].id = x THEN 1 ELSE 0
      BY <1>1 DEF IsAt
    <3> HIDE DEF h
    <3>3. QED  BY <1>6, <3>1, <3>2
  <2>2. \A i \in g : IsAt(L, x)[i] \in Int
    <3> SUFFICES ASSUME NEW i \in g PROVE IsAt(L, x)[i] \in Int
      OBVIOUS
    <3>1. i \in DOMAIN L
      BY <1>1
    <3>2. IsAt(L, x)[i] = IF L[i].id = x THEN 1 ELSE 0
      BY <3>1 DEF IsAt
    <3>3. QED  BY <3>2
  <2>3. Occurs(q.children, x) = SumFunction(h)
    BY DEF Occurs
  <2> HIDE DEF h
  <2>4. SumFunction(h) = SumFunctionOnSet(IsAt(L, x), g)
    BY <1>2, <2>1, <2>2, PickedSum
  <2>5. QED  BY <2>3, <2>4
<1>12. /\ q.residual \in Int /\ \A i \in g : L[i].residual <= q.residual
       /\ \E i \in g : q.residual = L[i].residual
  <2> DEFINE S == {L[i].residual : i \in g}
  <2>1. {sub[j].residual : j \in DOMAIN sub} = S
    <3>1. \A j \in DOMAIN sub : sub[j].residual \in S
      BY <1>4, <1>6
    <3>2. \A i \in g : \E j \in DOMAIN sub : L[i].residual = sub[j].residual
      BY <1>4, <1>7
    <3>3. QED  BY <3>1, <3>2
  <2>2. IsFiniteSet(S) /\ S \subseteq Int /\ S # {}
    BY <1>1, <1>2, ResidualsFinite
  <2>3. q.residual = Max(S)
    BY <1>5, <2>1 DEF WorstResidual
  <2> HIDE DEF S
  <2>4. q.residual \in S /\ q.residual \in Int /\ \A x \in S : x <= q.residual
    BY <2>2, <2>3, LargestMember
  <2>5. QED  BY <2>4 DEF S
<1>13. MadeOf(q, L, g)
  BY <1>5, <1>8, <1>9, <1>10, <1>11, <1>12 DEF MadeOf
<1>14. QED  BY <1>5, <1>13 DEF q, sub

(* The m regions of the layer M are the groups gs of L, those of P.        *)
Merges(M, m, L, n, P, gs) ==
    /\ m \in Nat /\ Divides(P, 1 .. n) /\ PairsUp(gs, 1 .. m, P) /\ DOMAIN M = 1 .. m
    /\ \A k \in 1 .. m :
          /\ MadeOf(M[k], L, gs[k])
          /\ M[k].sum = Centre(Subsequence(L, gs[k]))
          /\ M[k].count = Counted(Subsequence(L, gs[k]))

LEMMA LayerMerges ==
    ASSUME NEW L, NEW n, Regions(L, n), NEW level, NEW e
    PROVE  \E m, P, gs : Merges(coarsen_layer(L, level, e), m, L, n, P, gs)
<1> DEFINE P == Groups(L, level)
           R == {g \in P \X P : Min(g[1]) < Min(g[2])}
           gs == Arranged(P, R)
           m == Cardinality(P)
           raw == [k \in 1 .. m |-> merge_regions(Subsequence(L, gs[k]), level, e)]
           M == add_inter_edges(raw, level)
<1>1. coarsen_layer(L, level, e) = M
  BY DEF coarsen_layer
<1>2. n \in Nat /\ DOMAIN L = 1 .. n
  BY DEF Regions
<1>3. Divides(P, 1 .. n)
  BY <1>2, GroupsDivide, Zenon
<1> HIDE DEF P
<1>4. IsFiniteSet(P)
  <2>1. IsFiniteSet(1 .. n)
    BY <1>2, FS_Interval
  <2>2. IsFiniteSet(SUBSET (1 .. n))
    BY <2>1, FS_SUBSET
  <2>3. P \in SUBSET (SUBSET (1 .. n))
    BY <1>3 DEF Divides
  <2>4. QED  BY <2>2, <2>3, FS_Subset, Zenon
<1>5. Orders(R, P)
  <2>1. 1 .. n \in SUBSET Nat
    BY <1>2
  <2>2. QED  BY <1>3, <2>1, GroupsOrdered, Zenon
<1> HIDE DEF R
<1>6. m \in Nat /\ PairsUp(gs, 1 .. m, P)
  BY <1>4, <1>5, ArrangedPairs, Zenon
<1> HIDE DEF gs
<1>7. ASSUME NEW k \in 1 .. m
      PROVE  /\ MadeOf(raw[k], L, gs[k])
             /\ raw[k].sum = Centre(Subsequence(L, gs[k]))
             /\ raw[k].count = Counted(Subsequence(L, gs[k]))
  <2>1. gs[k] \in P
    BY <1>6 DEF PairsUp
  <2>2. gs[k] \in SUBSET (1 .. n) /\ gs[k] # {}
    BY <1>3, <2>1 DEF Divides
  <2>3. raw[k] = merge_regions(Subsequence(L, gs[k]), level, e)
    OBVIOUS
  <2> HIDE DEF raw
  <2>4. QED  BY <2>2, <2>3, MergedRegion
<1>8. DOMAIN raw = 1 .. m
  OBVIOUS
<1> HIDE DEF raw, m
<1>9. \A k \in DOMAIN raw : DOMAIN raw[k] = Fields
  BY <1>7, <1>8 DEF MadeOf
<1>10. DOMAIN M = 1 .. m
  BY <1>8, <1>9, EdgesAdded
<1>11. ASSUME NEW k \in 1 .. m
       PROVE  /\ DOMAIN M[k] = Fields
              /\ M[k].sum = raw[k].sum /\ M[k].count = raw[k].count
              /\ M[k].children = raw[k].children /\ M[k].residual = raw[k].residual
  <2>1. k \in DOMAIN raw
    BY <1>8
  <2>2. LET q == add_inter_edges(raw, level)[k]
        IN  /\ DOMAIN q = Fields
            /\ q.id = raw[k].id /\ q.sum = raw[k].sum /\ q.count = raw[k].count
            /\ q.children = raw[k].children /\ q.residual = raw[k].residual
    BY <1>9, <2>1, EdgesAdded, Zenon
  <2>3. QED  BY <2>2
<1> HIDE DEF M
<1>12. ASSUME NEW k \in 1 .. m
       PROVE  /\ MadeOf(M[k], L, gs[k])
              /\ M[k].sum = Centre(Subsequence(L, gs[k]))
              /\ M[k].count = Counted(Subsequence(L, gs[k]))
  <2>1. MadeOf(raw[k], L, gs[k])
    BY <1>7
  <2>2. MadeOf(M[k], L, gs[k])
    BY <1>11, <2>1, Zenon DEF MadeOf
  <2>3. QED  BY <1>7, <1>11, <2>2
<1>13. Merges(M, m, L, n, P, gs)
  BY <1>3, <1>6, <1>10, <1>12 DEF Merges
<1>14. QED  BY <1>1, <1>13, Zenon

LEMMA CoarseLayer ==
    ASSUME NEW L, NEW n, Regions(L, n), NEW level, NEW e
    PROVE  LET M == coarsen_layer(L, level, e)
           IN  (\E m : Regions(M, m)) /\ Inherits(M, L)
<1> DEFINE M == coarsen_layer(L, level, e)
<1>1. PICK m, P, gs : Merges(M, m, L, n, P, gs)
  BY LayerMerges, Zenon
<1> HIDE DEF M
<1>2. /\ n \in Nat /\ n > 0 /\ DOMAIN L = 1 .. n
      /\ \A i \in 1 .. n : /\ L[i].count \in Nat \ {0} /\ L[i].sum \in Int
                           /\ L[i].residual \in Int
  BY DEF Regions
<1>3. /\ m \in Nat /\ Divides(P, 1 .. n) /\ PairsUp(gs, 1 .. m, P) /\ DOMAIN M = 1 .. m
      /\ \A k \in 1 .. m : /\ MadeOf(M[k], L, gs[k])
                           /\ M[k].sum = Centre(Subsequence(L, gs[k]))
                           /\ M[k].count = Counted(Subsequence(L, gs[k]))
  BY <1>1 DEF Merges
<1>4. \A k \in 1 .. m : gs[k] \in P /\ gs[k] \in SUBSET (1 .. n)
  BY <1>3 DEF PairsUp, Divides
<1>5. \A i \in 1 .. n : \E k \in 1 .. m : i \in gs[k]
  BY <1>3 DEF PairsUp, Divides
<1>6. m > 0
  <2>1. \E k \in 1 .. m : 1 \in gs[k]
    BY <1>2, <1>5
  <2>2. QED  BY <1>3, <2>1
<1>7. Regions(M, m)
  BY <1>3, <1>6 DEF Regions, MadeOf
<1>8. Counted(M) = Counted(L)
  <2> DEFINE h == [k \in DOMAIN M |-> M[k].count]
             f == CountAt(L)
  <2>1. Whole(f, 1 .. n)
    BY <1>2 DEF Whole, CountAt
  <2>2. GroupSums(h, m, f, gs)
    BY <1>3 DEF MadeOf, GroupSums
  <2>3. Counted(M) = SumFunction(h)
    BY DEF Counted
  <2>4. Counted(L) = SumFunctionOnSet(f, 1 .. n)
    BY <1>2 DEF Counted, SumFunction, CountAt
  <2> HIDE DEF h, f
  <2>5. SumFunction(h) = SumFunctionOnSet(f, 1 .. n)
    BY <1>2, <1>3, <2>1, <2>2, GroupedSum
  <2>6. QED  BY <2>3, <2>4, <2>5
<1>9. Centre(M) = Centre(L)
  <2> DEFINE h == [k \in DOMAIN M |-> M[k].sum]
             f == SumAt(L)
  <2>1. Whole(f, 1 .. n)
    BY <1>2 DEF Whole, SumAt
  <2>2. GroupSums(h, m, f, gs)
    BY <1>3 DEF MadeOf, GroupSums
  <2>3. Centre(M) = SumFunction(h)
    BY DEF Centre
  <2>4. Centre(L) = SumFunctionOnSet(f, 1 .. n)
    BY <1>2 DEF Centre, SumFunction, SumAt
  <2> HIDE DEF h, f
  <2>5. SumFunction(h) = SumFunctionOnSet(f, 1 .. n)
    BY <1>2, <1>3, <2>1, <2>2, GroupedSum
  <2>6. QED  BY <2>3, <2>4, <2>5
<1>10. ASSUME NEW x PROVE Claims(M, x) = Occurs(Names(L), x)
  <2> DEFINE h == [k \in DOMAIN M |-> Occurs(M[k].children, x)]
             f == IsAt(L, x)
  <2>1. Whole(f, 1 .. n)
    BY <1>2 DEF Whole, IsAt
  <2>2. GroupSums(h, m, f, gs)
    BY <1>3 DEF MadeOf, GroupSums
  <2>3. Claims(M, x) = SumFunction(h)
    BY DEF Claims
  <2>4. Occurs(Names(L), x) = SumFunctionOnSet(f, 1 .. n)
    <3> DEFINE u == [i \in DOMAIN Names(L) |-> IF Names(L)[i] = x THEN 1 ELSE 0]
    <3>1. u = f /\ DOMAIN u = 1 .. n
      BY <1>2 DEF Names, IsAt
    <3>2. Occurs(Names(L), x) = SumFunction(u)
      BY DEF Occurs
    <3> HIDE DEF u, f
    <3>3. QED  BY <3>1, <3>2 DEF SumFunction
  <2> HIDE DEF h, f
  <2>5. SumFunction(h) = SumFunctionOnSet(f, 1 .. n)
    BY <1>2, <1>3, <2>1, <2>2, GroupedSum
  <2>6. QED  BY <2>3, <2>4, <2>5
<1>11. WorstResidual(M) = WorstResidual(L)
  <2> DEFINE S == {M[k].residual : k \in DOMAIN M}
             T == {L[i].residual : i \in DOMAIN L}
  <2>1. IsFiniteSet(1 .. m) /\ IsFiniteSet(1 .. n)
    BY <1>2, <1>3, FS_Interval
  <2>2. IsFiniteSet(S) /\ IsFiniteSet(T)
    BY <1>2, <1>3, <2>1, ResidualsFinite
  <2>3. S \subseteq Int /\ S # {} /\ T \subseteq Int /\ T # {}
    <3>1. DOMAIN M = 1 .. m /\ \A k \in 1 .. m : M[k].residual \in Int
      BY <1>7 DEF Regions
    <3>2. 1 \in 1 .. m /\ 1 \in 1 .. n
      BY <1>2, <1>3, <1>6
    <3>3. S \subseteq Int /\ T \subseteq Int
      BY <1>2, <3>1
    <3>4. M[1].residual \in S /\ L[1].residual \in T
      BY <1>2, <3>1, <3>2
    <3>5. QED  BY <3>3, <3>4
  <2>4. S \subseteq T
    BY <1>2, <1>3, <1>4 DEF MadeOf
  <2>5. \A t \in T : \E s \in S : t <= s
    <3> SUFFICES ASSUME NEW i \in 1 .. n PROVE \E s \in S : L[i].residual <= s
      BY <1>2
    <3>1. PICK k \in 1 .. m : i \in gs[k]
      BY <1>5
    <3>2. L[i].residual <= M[k].residual
      BY <1>3, <3>1 DEF MadeOf
    <3>3. QED  BY <1>3, <3>2
  <2>6. WorstResidual(M) = Max(S) /\ WorstResidual(L) = Max(T)
    BY DEF WorstResidual
  <2> HIDE DEF S, T
  <2>7. Max(S) \in S /\ Max(S) \in Int /\ \A x \in S : x <= Max(S)
    BY <2>2, <2>3, LargestMember
  <2>8. Max(T) \in T /\ Max(T) \in Int /\ \A x \in T : x <= Max(T)
    BY <2>2, <2>3, LargestMember
  <2>9. Max(S) <= Max(T)
    BY <2>4, <2>7, <2>8
  <2>10. PICK s \in S : Max(T) <= s
    BY <2>5, <2>8
  <2>11. s \in Int /\ s <= Max(S)
    BY <2>3, <2>7
  <2>12. Max(S) = Max(T)
    BY <2>7, <2>8, <2>9, <2>10, <2>11
  <2>13. QED  BY <2>6, <2>12
<1>12. ASSUME IsInjective(Names(L)), NEW k \in DOMAIN M
       PROVE  LET found == [j \in DOMAIN M[k].children |-> find_region(L, M[k].children[j])]
              IN  M[k].sum = Centre(found) /\ M[k].count = Counted(found)
  <2> DEFINE g == gs[k]
             sub == Subsequence(L, g)
             kids == M[k].children
             found == [j \in DOMAIN kids |-> find_region(L, kids[j])]
  <2>1. k \in 1 .. m /\ g \in SUBSET (1 .. n)
    BY <1>3, <1>4, <1>12
  <2>2. /\ DOMAIN kids = 1 .. Cardinality(g)
        /\ \A j \in 1 .. Cardinality(g) : kids[j] = L[Ascending(g)[j]].id
    BY <1>3, <2>1 DEF MadeOf
  <2>3. /\ DOMAIN sub = 1 .. Cardinality(g)
        /\ \A j \in 1 .. Cardinality(g) : sub[j] = L[Ascending(g)[j]]
        /\ sub = [j \in 1 .. Cardinality(g) |-> sub[j]]
    BY DEF Subsequence
  <2>4. M[k].sum = Centre(sub) /\ M[k].count = Counted(sub)
    BY <1>3, <2>1
  <2>5. PairsUp(Ascending(g), 1 .. Cardinality(g), g)
    <3>1. IsFiniteSet(1 .. n) /\ g \in SUBSET Int
      BY <1>2, <2>1, FS_Interval
    <3>2. IsFiniteSet(g)
      BY <2>1, <3>1, FS_Subset, Zenon
    <3> HIDE DEF g
    <3>3. QED  BY <3>1, <3>2, AscendingPairs, Zenon
  <2> HIDE DEF g, kids, sub
  <2>6. ASSUME NEW j \in 1 .. Cardinality(g) PROVE find_region(L, kids[j]) = sub[j]
    <3>1. PICK i \in 1 .. n : i = Ascending(g)[j]
      BY <2>1, <2>5 DEF PairsUp
    <3>2. kids[j] = L[i].id /\ sub[j] = L[i]
      BY <2>2, <2>3, <3>1
    <3>3. \A l \in 1 .. n : L[l].id = L[i].id => l = i
      BY <1>2, <1>12 DEF IsInjective, Names
    <3>4. {l \in DOMAIN L : L[l].id = kids[j]} = {i}
      BY <1>2, <3>2, <3>3
    <3>5. Min({i}) = i
      <4>1. {i} \in SUBSET Nat /\ {i} # {}
        OBVIOUS
      <4>2. Min({i}) \in {i}
        BY <4>1, LeastMember
      <4>3. QED  BY <4>2
    <3>6. QED  BY <3>2, <3>4, <3>5 DEF find_region
  <2>7. found = sub
    BY <2>2, <2>3, <2>6
  <2>8. QED  BY <2>4, <2>7 DEF kids
<1>13. Inherits(M, L)
  BY <1>8, <1>9, <1>10, <1>11, <1>12 DEF Inherits
<1>14. QED  BY <1>7, <1>13 DEF M
-----------------------------------------------------------------------------
(* The layers made of the beacons B.                                       *)
Layered(G, B) ==
    /\ G # <<>> => DOMAIN G = 1 .. Levels
    /\ \A k \in DOMAIN G :
          /\ k \in 1 .. Levels
          /\ \E n : Regions(G[k], n)
          /\ Counted(G[k]) = Len(B)
          /\ k > 1 => Inherits(G[k], G[k - 1])

LEMMA LayersBuilt ==
    ASSUME NEW B \in Seq(Beacon), NEW e
    PROVE  Layered(build_hierarchy(B, e), B)
<1>1. Levels \in Nat /\ Levels > 0
  BY GeoidAssumption
<1>2. CASE B = <<>>
  <2>1. build_hierarchy(B, e) = <<>>
    BY <1>2 DEF build_hierarchy
  <2>2. \A k \in DOMAIN <<>> : FALSE
    OBVIOUS
  <2>3. QED  BY <2>1, <2>2, Zenon DEF Layered
<1>3. CASE B # <<>>
  <2> DEFINE N == Levels - 1
             s == CHOOSE f : f = [level \in 0 .. Levels - 1 |->
                     IF level = 0 THEN build_leaf_layer(B, e)
                     ELSE coarsen_layer(f[level - 1], level, e)]
             G == [k \in 1 .. Levels |-> s[k - 1]]
  <2>1. build_hierarchy(B, e) = G
    BY <1>3 DEF build_hierarchy
  <2>2. IsHierarchy(s, N, B, e)
    <3>1. N \in Nat
      BY <1>1
    <3>2. \E f : IsHierarchy(f, N, B, e)
      BY <3>1, HierarchyExists, Zenon
    <3>3. QED  BY <3>2, Zenon DEF IsHierarchy
  <2> HIDE DEF s
  <2>3. /\ s[0] = build_leaf_layer(B, e)
        /\ \A k \in 1 .. N : s[k] = coarsen_layer(s[k - 1], k, e)
    <3>1. \A k \in 0 .. N : s[k] = IF k = 0 THEN build_leaf_layer(B, e)
                                   ELSE coarsen_layer(s[k - 1], k, e)
      BY <2>2 DEF IsHierarchy
    <3>2. 0 \in 0 .. N /\ \A k \in 1 .. N : k \in 0 .. N /\ k # 0
      BY <1>1
    <3> HIDE DEF N
    <3>3. QED  BY <3>1, <3>2, Zenon
  <2> DEFINE Ok(k) == /\ \E n : Regions(s[k], n)
                      /\ Counted(s[k]) = Len(B)
                      /\ k > 0 => Inherits(s[k], s[k - 1])
             T == {k \in Nat : k <= N => Ok(k)}
  <2>4. 0 \in T
    <3>1. Ok(0)
      BY <1>3, <2>3, LeafLayer
    <3> HIDE DEF Ok
    <3>2. QED  BY <3>1
  <2>5. ASSUME NEW k \in Nat, k \in T PROVE k + 1 \in T
    <3> SUFFICES ASSUME k + 1 <= N PROVE Ok(k + 1)
      OBVIOUS
    <3>1. Ok(k)
      BY <1>1, <2>5
    <3>2. PICK n : Regions(s[k], n)
      BY <3>1
    <3>3. k + 1 \in 1 .. N /\ (k + 1) - 1 = k
      BY <1>1
    <3>4. s[k + 1] = coarsen_layer(s[k], k + 1, e)
      BY <2>3, <3>3
    <3>5. (\E m : Regions(s[k + 1], m)) /\ Inherits(s[k + 1], s[k])
      BY <3>2, <3>4, CoarseLayer
    <3>6. Counted(s[k + 1]) = Counted(s[k])
      BY <3>5 DEF Inherits
    <3>7. QED  BY <3>1, <3>3, <3>5, <3>6
  <2>6. \A k \in Nat : k \in T
    <3> HIDE DEF T
    <3>1. QED  BY <2>4, <2>5, SetInduction
  <2>7. ASSUME NEW k \in 1 .. Levels
        PROVE  /\ \E n : Regions(G[k], n)
               /\ Counted(G[k]) = Len(B)
               /\ k > 1 => Inherits(G[k], G[k - 1])
    <3>1. k - 1 \in Nat /\ k - 1 <= N
      BY <1>1
    <3>2. Ok(k - 1)
      <4> HIDE DEF Ok
      <4>1. QED  BY <2>6, <3>1
    <3>3. G[k] = s[k - 1] /\ (k > 1 => G[k - 1] = s[(k - 1) - 1])
      BY <1>1
    <3>4. k > 1 => k - 1 > 0
      OBVIOUS
    <3>5. QED  BY <3>2, <3>3, <3>4
  <2>8. DOMAIN G = 1 .. Levels
    OBVIOUS
  <2> HIDE DEF G
  <2>9. QED  BY <2>1, <2>7, <2>8 DEF Layered
<1>4. QED  BY <1>2, <1>3
-----------------------------------------------------------------------------
(* The clusters of layer 2.                                                *)
Sizes(C) == [c \in C |-> c.cluster_size]

LEMMA ListOf ==
    ASSUME NEW S, NEW s \in Seq(S), NEW I \in SUBSET (DOMAIN s)
    PROVE  /\ IsFiniteSet(I) /\ Cardinality(I) \in Nat
           /\ Subsequence(s, I) \in Seq(S) /\ Len(Subsequence(s, I)) = Cardinality(I)
<1>1. Len(s) \in Nat /\ DOMAIN s = 1 .. Len(s) /\ \A i \in 1 .. Len(s) : s[i] \in S
  BY LenProperties, ElementOfSeq
<1>2. IsFiniteSet(DOMAIN s)
  BY <1>1, FS_Interval
<1>3. IsFiniteSet(I)
  BY <1>2, FS_Subset, Zenon
<1>4. I \in SUBSET Int
  BY <1>1
<1>5. Cardinality(I) \in Nat /\ PairsUp(Ascending(I), 1 .. Cardinality(I), I)
  BY <1>3, <1>4, AscendingPairs, Zenon
<1>6. \A k \in 1 .. Cardinality(I) : Ascending(I)[k] \in 1 .. Len(s)
  BY <1>1, <1>5 DEF PairsUp
<1>7. Subsequence(s, I) \in [1 .. Cardinality(I) -> S]
  BY <1>1, <1>6 DEF Subsequence
<1>8. Subsequence(s, I) \in UNION {[1 .. n -> S] : n \in Nat}
  BY <1>5, <1>7, Zenon
<1>9. Subsequence(s, I) \in Seq(S)
  BY <1>8, SeqDef, Zenon
<1>10. Len(Subsequence(s, I)) = Cardinality(I)
  BY <1>5, <1>7, ListLength, Zenon
<1>11. QED  BY <1>3, <1>5, <1>9, <1>10

(* Distinct cells have distinct clusters.                                  *)
LEMMA CornerTellsCell ==
    ASSUME NEW c \in Int, NEW d \in Int, c * GridSize = d * GridSize
    PROVE  c = d
<1>1. GridSize \in Nat /\ GridSize > 0
  BY GeoidAssumption
<1>2. QED  BY <1>1

(* Every beacon is in one cluster of its epoch.                            *)
LEMMA ClustersCount ==
    ASSUME NEW B \in Seq(Beacon), NEW e
    PROVE  /\ SumFunction(Sizes(valve_l1_to_l2(B, e))) = Len(B)
           /\ \A c \in valve_l1_to_l2(B, e) : c.epoch = e
<1> DEFINE D == DOMAIN B
           cell == [i \in D |-> B[i].pos \div GridSize]
           K == {cell[i] : i \in D}
           in(c) == {i \in D : cell[i] = c}
           made(c) == aggregate(c, e, Subsequence(B, in(c)))
           V == {made(c) : c \in K}
           g == [c \in K |-> made(c)]
           one == [i \in D |-> 1]
           h == [c \in K |-> SumFunctionOnSet(one, in(c))]
<1>1. valve_l1_to_l2(B, e) = V
  BY DEF valve_l1_to_l2, Range
<1>2. Len(B) \in Nat /\ D = 1 .. Len(B) /\ \A i \in D : B[i] \in Beacon
  BY LenProperties, ElementOfSeq
<1>3. IsFiniteSet(D) /\ Cardinality(D) = Len(B)
  BY <1>2, FS_Interval
<1>4. \A i \in D : cell[i] \in Int /\ cell[i] \in K
  <2>1. GridSize \in Nat /\ GridSize > 0
    BY GeoidAssumption
  <2>2. \A i \in D : B[i].pos \in Int
    BY <1>2 DEF Beacon
  <2>3. QED  BY <2>1, <2>2
<1>5. IsFiniteSet(K) /\ \A c \in K : c \in Int
  <2>1. \A c \in K : c \in Int
    BY <1>4
  <2> HIDE DEF cell
  <2>2. IsFiniteSet(K)
    BY <1>3, ValuesFinite, Zenon
  <2>3. QED  BY <2>1, <2>2
<1> HIDE DEF D, cell
<1>6. ASSUME NEW c \in K
      PROVE  /\ made(c).cluster_id = <<c * GridSize, e>> /\ made(c).epoch = e
             /\ made(c).cluster_size = SumFunctionOnSet(one, in(c))
             /\ SumFunctionOnSet(one, in(c)) \in Int
  <2>1. in(c) \in SUBSET D
    OBVIOUS
  <2>2. \A i \in in(c) : one[i] = 1
    OBVIOUS
  <2> HIDE DEF in, one
  <2>3. IsFiniteSet(in(c)) /\ Len(Subsequence(B, in(c))) = Cardinality(in(c))
    <3>1. in(c) \in SUBSET (DOMAIN B)
      BY <2>1 DEF D
    <3>2. QED  BY <3>1, ListOf, Zenon
  <2>4. /\ SumFunctionOnSet(one, in(c)) = Cardinality(in(c))
        /\ Cardinality(in(c)) \in Nat
    BY <2>2, <2>3, SumOfOnes
  <2>5. /\ made(c).cluster_id = <<c * GridSize, e>> /\ made(c).epoch = e
        /\ made(c).cluster_size = Len(Subsequence(B, in(c)))
    BY DEF aggregate, ClusterId
  <2> HIDE DEF made
  <2>6. QED  BY <2>3, <2>4, <2>5
<1> HIDE DEF made, in, one
<1>7. PairsUp(g, K, V)
  <2>1. ASSUME NEW c \in K, NEW d \in K, made(c) = made(d) PROVE c = d
    <3>1. c * GridSize = d * GridSize
      BY <1>6, <2>1
    <3>2. QED  BY <1>5, <3>1, CornerTellsCell
  <2>2. \A c \in K : g[c] = made(c)
    OBVIOUS
  <2>3. QED  BY <2>1, <2>2 DEF PairsUp
<1>8. Whole(Sizes(V), V) /\ Carries(h, K, Sizes(V), g)
  <2>1. \A c \in K : g[c] = made(c) /\ g[c] \in V /\ h[c] = SumFunctionOnSet(one, in(c))
    OBVIOUS
  <2>2. \A v \in V : Sizes(V)[v] = v.cluster_size
    BY DEF Sizes
  <2>3. \A v \in V : \E c \in K : v = made(c)
    OBVIOUS
  <2> HIDE DEF g, h, V, K
  <2>4. \A v \in V : Sizes(V)[v] \in Int
    BY <1>6, <2>2, <2>3
  <2>5. \A c \in K : h[c] = Sizes(V)[g[c]]
    BY <1>6, <2>1, <2>2
  <2>6. QED  BY <2>4, <2>5 DEF Whole, Carries
<1>9. SumFunctionOnSet(h, K) = SumFunctionOnSet(Sizes(V), V)
  <2> HIDE DEF g, h, V, K
  <2>1. QED  BY <1>5, <1>7, <1>8, SumMoved
<1>10. SumFunctionOnSet(h, K) = SumFunctionOnSet(one, D)
  <2>1. ClassSums(h, K, one, D, cell)
    BY DEF in, ClassSums
  <2>2. Whole(one, D)
    BY DEF one, Whole
  <2>3. \A i \in D : cell[i] \in K
    BY <1>4
  <2> HIDE DEF h, K
  <2>4. QED  BY <1>3, <1>5, <2>1, <2>2, <2>3, SumGrouped
<1>11. SumFunctionOnSet(one, D) = Cardinality(D)
  <2>1. \A i \in D : one[i] = 1
    BY DEF one
  <2>2. QED  BY <1>3, <2>1, SumOfOnes
<1>12. DOMAIN Sizes(V) = V
  BY DEF Sizes
<1>13. \A v \in V : v.epoch = e
  BY <1>6
<1> HIDE DEF V, h, K
<1>14. SumFunction(Sizes(V)) = Len(B)
  BY <1>3, <1>9, <1>10, <1>11, <1>12 DEF SumFunction
<1>15. QED  BY <1>1, <1>13, <1>14
-----------------------------------------------------------------------------
(* The geoid and the clusters of its epoch were made of the same beacons,  *)
(* which are still stored; later clusters are of later epochs.             *)
Recent(e) == {c \in clusters : c.epoch = e}

MadeFrom(B) ==
    /\ B \in Seq(Beacon)
    /\ Layered(geoid.layers, B)
    /\ SumFunction(Sizes(Recent(geoid.epoch))) = Len(B)
    /\ Len(B) <= Cardinality({i \in DOMAIN l1 : l1[i].epoch = geoid.epoch})

GeoidInv ==
    /\ l1 \in Seq(Beacon) /\ geoEpoch \in Nat
    /\ \A c \in clusters : c.epoch \in Nat /\ c.epoch < geoEpoch
    /\ \E B : MadeFrom(B)

LEMMA BeaconsFinite ==
    ASSUME NEW s \in Seq(Beacon), NEW e
    PROVE  LET I == {i \in DOMAIN s : s[i].epoch = e}
           IN  IsFiniteSet(I) /\ Cardinality(I) \in Nat
<1> DEFINE I == {i \in DOMAIN s : s[i].epoch = e}
<1>1. I \in SUBSET (DOMAIN s)
  OBVIOUS
<1> HIDE DEF I
<1>2. IsFiniteSet(I) /\ Cardinality(I) \in Nat
  BY <1>1, ListOf, Zenon
<1>3. QED  BY <1>2 DEF I

LEMMA GeoidStarts == GeoidInit => GeoidInv
<1> SUFFICES ASSUME GeoidInit PROVE GeoidInv
  OBVIOUS
<1>1. /\ l1 = <<>> /\ geoEpoch = 0 /\ clusters = {}
      /\ geoid.layers = <<>> /\ geoid.epoch = 0
  BY DEF GeoidInit
<1>2. <<>> \in Seq(Beacon) /\ Len(<<>>) = 0
  OBVIOUS
<1>3. SumFunction(Sizes({})) = 0
  <2>1. DOMAIN Sizes({}) = {}
    BY DEF Sizes
  <2>2. QED  BY <2>1, SumEmpty DEF SumFunction
<1>4. Layered(<<>>, <<>>)
  <2>1. \A k \in DOMAIN <<>> : FALSE
    OBVIOUS
  <2>2. QED  BY <2>1, Zenon DEF Layered
<1>5. Recent(0) = {}
  BY <1>1 DEF Recent
<1>6. 0 <= Cardinality({i \in DOMAIN l1 : l1[i].epoch = geoid.epoch})
  <2>1. l1 \in Seq(Beacon)
    BY <1>1, <1>2
  <2>2. Cardinality({i \in DOMAIN l1 : l1[i].epoch = geoid.epoch}) \in Nat
    BY <2>1, BeaconsFinite
  <2>3. QED  BY <2>2
<1>7. MadeFrom(<<>>)
  BY <1>1, <1>2, <1>3, <1>4, <1>5, <1>6 DEF MadeFrom
<1>8. QED  BY <1>1, <1>2, <1>7 DEF GeoidInv

LEMMA InsertKeepsGeoid ==
    ASSUME GeoidInv, NEW e \in 0 .. LastEpoch - 1, NEW pos \in Position, NEW off \in Offset,
           InsertBeacon(e, pos, off)
    PROVE  GeoidInv'
<1> DEFINE b == [epoch |-> e, pos |-> pos, off |-> off]
           I == {i \in DOMAIN l1 : l1[i].epoch = geoid.epoch}
           J == {i \in DOMAIN l1' : l1'[i].epoch = geoid.epoch}
<1>1. /\ l1' = Append(l1, b)
      /\ geoEpoch' = geoEpoch /\ geoid' = geoid /\ clusters' = clusters
  BY DEF InsertBeacon
<1>2. b \in Beacon
  BY GeoidAssumption DEF Beacon
<1>3. l1 \in Seq(Beacon) /\ geoEpoch \in Nat
  BY DEF GeoidInv
<1> HIDE DEF b
<1>4. /\ l1' \in Seq(Beacon)
      /\ \A i \in DOMAIN l1 : i \in DOMAIN l1' /\ l1'[i] = l1[i]
  BY <1>1, <1>2, <1>3, AppendProperties, LenProperties
<1>5. Cardinality(I) <= Cardinality(J) /\ Cardinality(I) \in Nat /\ Cardinality(J) \in Nat
  <2>1. I \subseteq J
    BY <1>4
  <2>2. IsFiniteSet(J) /\ Cardinality(J) \in Nat /\ Cardinality(I) \in Nat
    BY <1>3, <1>4, BeaconsFinite
  <2> HIDE DEF I, J
  <2>3. QED  BY <2>1, <2>2, FS_Subset
<1>6. PICK B : MadeFrom(B)
  BY DEF GeoidInv
<1>7. /\ B \in Seq(Beacon) /\ Layered(geoid.layers, B)
      /\ SumFunction(Sizes(Recent(geoid.epoch))) = Len(B) /\ Len(B) <= Cardinality(I)
  BY <1>6 DEF MadeFrom
<1>8. Len(B) <= Cardinality(J)
  <2>1. Len(B) \in Nat
    BY <1>7, LenProperties
  <2> HIDE DEF I, J
  <2>2. QED  BY <1>5, <1>7, <2>1
<1>9. Recent(geoid.epoch)' = Recent(geoid.epoch)
  BY <1>1 DEF Recent
<1>10. (geoid.layers)' = geoid.layers /\ (geoid.epoch)' = geoid.epoch
  BY <1>1
<1>11. MadeFrom(B)'
  BY <1>7, <1>8, <1>9, <1>10 DEF MadeFrom, Recent
<1>12. (\A c \in clusters : c.epoch \in Nat /\ c.epoch < geoEpoch)'
  BY <1>1 DEF GeoidInv
<1>13. (\E C : MadeFrom(C))'
  BY <1>11
<1>14. QED  BY <1>1, <1>3, <1>4, <1>12, <1>13 DEF GeoidInv

LEMMA RunKeepsGeoid ==
    ASSUME GeoidInv, RunGeoid
    PROVE  GeoidInv'
<1> DEFINE B == get_epoch(geoEpoch)
           V == valve_l1_to_l2(B, geoEpoch)
           I == {i \in DOMAIN l1 : l1[i].epoch = geoEpoch}
<1>1. /\ (geoid.layers)' = build_hierarchy(B, geoEpoch) /\ (geoid.epoch)' = geoEpoch
      /\ clusters' = clusters \cup V /\ geoEpoch' = geoEpoch + 1 /\ l1' = l1
  BY DEF RunGeoid, process_upward
<1>2. /\ l1 \in Seq(Beacon) /\ geoEpoch \in Nat
      /\ \A c \in clusters : c.epoch \in Nat /\ c.epoch < geoEpoch
  BY DEF GeoidInv
<1>3. B \in Seq(Beacon) /\ Len(B) = Cardinality(I) /\ Cardinality(I) \in Nat
  <2>1. I \in SUBSET (DOMAIN l1) /\ B = Subsequence(l1, I)
    BY DEF get_epoch
  <2> HIDE DEF I, B
  <2>2. QED  BY <1>2, <2>1, ListOf
<1> HIDE DEF B
<1>4. /\ SumFunction(Sizes(V)) = Len(B)
      /\ \A c \in V : c.epoch = geoEpoch
  BY <1>3, ClustersCount
<1>5. Layered(build_hierarchy(B, geoEpoch), B)
  BY <1>3, LayersBuilt
<1> HIDE DEF V
<1>6. {c \in clusters' : c.epoch = geoEpoch} = V
  BY <1>1, <1>2, <1>4
<1>7. \A c \in clusters' : c.epoch \in Nat /\ c.epoch < geoEpoch'
  BY <1>1, <1>2, <1>4
<1>8. {i \in DOMAIN l1' : l1'[i].epoch = (geoid.epoch)'} = I
  BY <1>1
<1>9. Recent(geoid.epoch)' = V
  BY <1>1, <1>6 DEF Recent
<1> HIDE DEF I
<1>10. PICK C : C = B
  OBVIOUS
<1>11. /\ C \in Seq(Beacon) /\ Layered((geoid.layers)', C)
       /\ SumFunction(Sizes(Recent(geoid.epoch)')) = Len(C)
       /\ Len(C) <= Cardinality({i \in DOMAIN l1' : l1'[i].epoch = (geoid.epoch)'})
  <2>1. C \in Seq(Beacon) /\ Layered((geoid.layers)', C)
    BY <1>1, <1>3, <1>5, <1>10, Zenon
  <2>2. SumFunction(Sizes(Recent(geoid.epoch)')) = Len(C)
    BY <1>4, <1>9, <1>10, Zenon
  <2>3. Len(C) <= Cardinality(I)
    BY <1>3, <1>10
  <2>4. QED  BY <1>8, <2>1, <2>2, <2>3, Zenon
<1>12. MadeFrom(C)'
  BY <1>11 DEF MadeFrom
<1>13. (\E D : MadeFrom(D))'
  BY <1>12
<1>14. QED  BY <1>1, <1>2, <1>7, <1>13 DEF GeoidInv

LEMMA GeoidInductive == GeoidInv /\ [GeoidNext]_geoidVars => GeoidInv'
<1> SUFFICES ASSUME GeoidInv, [GeoidNext]_geoidVars PROVE GeoidInv'
  OBVIOUS
<1>1. CASE \E e \in 0 .. LastEpoch - 1, pos \in Position, off \in Offset :
               InsertBeacon(e, pos, off)
  BY <1>1, InsertKeepsGeoid
<1>2. CASE RunGeoid
  BY <1>2, RunKeepsGeoid
<1>3. CASE UNCHANGED geoidVars
  BY <1>3 DEF geoidVars, GeoidInv, MadeFrom, Recent
<1>4. QED  BY <1>1, <1>2, <1>3 DEF GeoidNext

(* EveryBeaconCountsOnce, for any beacons, resolution and number of        *)
(* levels: build_hierarchy and valve_l1_to_l2 count every beacon they are  *)
(* given once, and no merging of coarsen_layer loses or repeats a region.  *)
THEOREM BeaconsCountOnce == GeoidSpec => []EveryBeaconCountsOnce
<1>1. GeoidInv => EveryBeaconCountsOnce
  <2> SUFFICES ASSUME GeoidInv PROVE EveryBeaconCountsOnce
    OBVIOUS
  <2>1. PICK B : MadeFrom(B)
    BY DEF GeoidInv
  <2> DEFINE counted == {c \in clusters : c.epoch = geoid.epoch}
             seen == SumFunction([c \in counted |-> c.cluster_size])
  <2>2. seen = Len(B)
    BY <2>1 DEF MadeFrom, Sizes, Recent
  <2>3. seen <= Cardinality({i \in DOMAIN l1 : l1[i].epoch = geoid.epoch})
    BY <2>1, <2>2 DEF MadeFrom
  <2> HIDE DEF seen
  <2>4. Layered(geoid.layers, B)
    BY <2>1 DEF MadeFrom
  <2>5. /\ geoid.layers # <<>> => DOMAIN geoid.layers = 1 .. Levels
        /\ \A k \in DOMAIN geoid.layers :
              /\ Counted(geoid.layers[k]) = seen
              /\ k > 1 => Inherits(geoid.layers[k], geoid.layers[k - 1])
    BY <2>2, <2>4 DEF Layered
  <2>6. QED  BY <2>3, <2>5, Zenon DEF EveryBeaconCountsOnce, seen
<1>2. QED  BY <1>1, GeoidStarts, GeoidInductive, PTL DEF GeoidSpec
-----------------------------------------------------------------------------
(* Hints.  Fractions compared by multiplying out are ordered.              *)
LEMMA CrossTransitive ==
    ASSUME NEW a \in Nat, NEW b \in Nat, NEW c \in Nat, NEW p \in Nat, NEW q \in Nat,
           NEW r \in Nat, p > 0, q > 0, r > 0, a * q <= b * p, b * r <= c * q
    PROVE  a * r <= c * p
<1>1. (a * q) * r <= (b * p) * r
  BY ProductOrder
<1>2. (b * r) * p <= (c * q) * p
  BY ProductOrder
<1>3. (a * q) * r = (a * r) * q /\ (b * p) * r = (b * r) * p /\ (c * q) * p = (c * p) * q
  OBVIOUS
<1>4. (a * r) * q \in Int /\ (b * r) * p \in Int /\ (c * p) * q \in Int
  OBVIOUS
<1>5. (a * r) * q <= (c * p) * q
  BY <1>1, <1>2, <1>3, <1>4
<1>6. QED  BY <1>5, ProductStrict

LEMMA SmallestFraction ==
    ASSUME NEW D, IsFiniteSet(D), D # {}, NEW d, NEW c,
           \A i \in D : d[i] \in Nat /\ c[i] \in Nat \ {0}
    PROVE  \E i \in D : \A j \in D : d[i] * c[j] <= d[j] * c[i]
<1> DEFINE Least(i, s) == \A j \in s : d[i] * c[j] <= d[j] * c[i]
           Has(s) == s # {} => \E i \in s : Least(i, s)
           T == {s \in SUBSET D : Has(s)}
<1>1. {} \in T
  OBVIOUS
<1>2. ASSUME NEW s \in SUBSET D, s # {}, \A x \in s : s \ {x} \in T
      PROVE  s \in T
  <2>1. PICK a \in s : TRUE
    BY <1>2
  <2>2. d[a] \in Nat /\ c[a] \in Nat \ {0} /\ d[a] * c[a] <= d[a] * c[a]
    OBVIOUS
  <2>3. CASE s \ {a} = {}
    <3>1. Least(a, s)
      BY <2>2, <2>3
    <3>2. QED  BY <3>1
  <2>4. CASE s \ {a} # {}
    <3>1. PICK b \in s \ {a} : Least(b, s \ {a})
      BY <1>2, <2>4
    <3>2. d[b] \in Nat /\ c[b] \in Nat \ {0}
      OBVIOUS
    <3>3. PICK x \in Int, y \in Int : x = d[a] * c[b] /\ y = d[b] * c[a]
      BY <2>2, <3>2
    <3>4. CASE x <= y
      <4>1. ASSUME NEW j \in s, j # a PROVE d[a] * c[j] <= d[j] * c[a]
        <5>1. d[j] \in Nat /\ c[j] \in Nat \ {0} /\ d[b] * c[j] <= d[j] * c[b]
          BY <3>1, <4>1
        <5>2. d[a] * c[b] <= d[b] * c[a]
          BY <3>3, <3>4
        <5>3. QED  BY <2>2, <3>2, <5>1, <5>2, CrossTransitive
      <4>2. Least(a, s)
        BY <2>2, <4>1
      <4>3. QED  BY <4>2
    <3>5. CASE ~ (x <= y)
      <4>1. y <= x
        BY <3>3, <3>5
      <4>2. d[b] * c[a] <= d[a] * c[b]
        BY <3>3, <4>1
      <4>3. Least(b, s)
        BY <3>1, <4>2
      <4>4. QED  BY <4>3
    <3>6. QED  BY <3>4, <3>5
  <2>5. QED  BY <2>3, <2>4
<1>3. \A s \in SUBSET D : s \in T
  <2> HIDE DEF T
  <2>1. QED  BY <1>1, <1>2, SubsetInduction
<1>4. Has(D)
  <2> HIDE DEF Has
  <2>1. QED  BY <1>3
<1>5. QED  BY <1>4

(* A place is nearest to some region.                                      *)
LEMMA NearestExists ==
    ASSUME NEW L, NEW n, Regions(L, n), NEW pos \in Int
    PROVE  Nearest(L, pos) \in 1 .. n
<1> DEFINE d == [i \in 1 .. n |-> AbsInt(L[i].sum - pos * L[i].count)]
           c == [i \in 1 .. n |-> L[i].count]
           S == {i \in DOMAIN L : \A j \in DOMAIN L :
                   AbsInt(L[i].sum - pos * L[i].count) * L[j].count
                     <= AbsInt(L[j].sum - pos * L[j].count) * L[i].count}
<1>1. /\ n \in Nat /\ n > 0 /\ DOMAIN L = 1 .. n
      /\ \A i \in 1 .. n : L[i].count \in Nat \ {0} /\ L[i].sum \in Int
  BY DEF Regions
<1>2. \A i \in 1 .. n : d[i] \in Nat /\ c[i] \in Nat \ {0}
  <2> SUFFICES ASSUME NEW i \in 1 .. n PROVE d[i] \in Nat /\ c[i] \in Nat \ {0}
    OBVIOUS
  <2>1. PICK x \in Int : x = L[i].sum - pos * L[i].count
    BY <1>1
  <2>2. AbsInt(x) \in Nat
    BY DEF AbsInt
  <2>3. QED  BY <1>1, <2>1, <2>2
<1>3. \A i \in 1 .. n : /\ d[i] = AbsInt(L[i].sum - pos * L[i].count)
                        /\ c[i] = L[i].count
  OBVIOUS
<1> HIDE DEF d, c
<1>4. IsFiniteSet(1 .. n) /\ 1 .. n # {}
  <2>1. IsFiniteSet(1 .. n)
    BY <1>1, FS_Interval
  <2>2. 1 \in 1 .. n
    BY <1>1
  <2>3. QED  BY <2>1, <2>2
<1>5. \E i \in 1 .. n : \A j \in 1 .. n : d[i] * c[j] <= d[j] * c[i]
  BY <1>2, <1>4, SmallestFraction
<1>6. S # {} /\ S \in SUBSET Nat
  <2>1. PICK i \in 1 .. n : \A j \in 1 .. n : d[i] * c[j] <= d[j] * c[i]
    BY <1>5
  <2>2. ASSUME NEW j \in 1 .. n
        PROVE  AbsInt(L[i].sum - pos * L[i].count) * L[j].count
                 <= AbsInt(L[j].sum - pos * L[j].count) * L[i].count
    <3>1. d[i] * c[j] <= d[j] * c[i]
      BY <2>1
    <3>2. /\ AbsInt(L[i].sum - pos * L[i].count) = d[i] /\ L[i].count = c[i]
          /\ AbsInt(L[j].sum - pos * L[j].count) = d[j] /\ L[j].count = c[j]
      BY <1>3
    <3>3. QED  BY <3>1, <3>2, Zenon
  <2>3. i \in S
    BY <1>1, <2>2, Zenon
  <2>4. S \in SUBSET Nat
    BY <1>1
  <2> HIDE DEF S
  <2>5. QED  BY <2>3, <2>4
<1>7. Nearest(L, pos) = Min(S) /\ S \subseteq 1 .. n
  BY <1>1 DEF Nearest
<1> HIDE DEF S
<1>8. QED  BY <1>6, <1>7, LeastMember

(* The region a node is in is found by its id.                             *)
LEMMA RegionFound ==
    ASSUME NEW L, NEW n, Regions(L, n), NEW pos \in Int
    PROVE  LET r == find_region(L, assign_region(L, pos))
           IN  find_region(L, r.id) = r /\ \E i \in 1 .. n : r = L[i]
<1> DEFINE id == assign_region(L, pos)
           S == {i \in DOMAIN L : L[i].id = id}
           i0 == Min(S)
<1>1. n \in Nat /\ DOMAIN L = 1 .. n
  BY DEF Regions
<1>2. Nearest(L, pos) \in 1 .. n /\ id = L[Nearest(L, pos)].id
  BY NearestExists DEF assign_region
<1> HIDE DEF id
<1>3. S \in SUBSET Nat /\ S # {}
  BY <1>1, <1>2
<1>4. i0 \in S
  <2> HIDE DEF S
  <2>1. QED  BY <1>3, LeastMember
<1>5. i0 \in 1 .. n /\ L[i0].id = id
  BY <1>1, <1>4
<1>6. find_region(L, id) = L[i0]
  BY DEF find_region
<1> HIDE DEF i0
<1>7. find_region(L, L[i0].id) = L[i0]
  BY <1>5, <1>6
<1>8. QED  BY <1>5, <1>6, <1>7 DEF id

(* The two gradings.                                                       *)
LEMMA GradesAgree ==
    ASSUME NEW res \in Int, NEW level
    PROVE  /\ compute_hint_priority(res, level) = hint_priority(res, level)
           /\ hint_priority(res, level) \in 1 .. 10
<1> DEFINE base == IF res > 100000 THEN 9
                   ELSE IF res > 10000 THEN 7
                   ELSE IF res > 1000 THEN 5
                   ELSE IF res > 100 THEN 3
                   ELSE 1
           fine == IF level = 0 THEN 1 ELSE 0
<1>1. Grade(res) \in {1, 3, 5, 7, 9}
  BY DEF Grade
<1>2. base = Grade(res)
  BY DEF Grade
<1>3. fine \in {0, 1}
  OBVIOUS
<1>4. /\ compute_hint_priority(res, level) = Min({base + fine, 10})
      /\ hint_priority(res, level) = Min({Grade(res) + fine, 10})
  BY DEF compute_hint_priority, hint_priority
<1> HIDE DEF base, fine
<1>5. Min({Grade(res) + fine, 10}) = IF Grade(res) + fine <= 10 THEN Grade(res) + fine ELSE 10
  BY <1>1, <1>3, MinOfTwo
<1>6. hint_priority(res, level) \in 1 .. 10
  BY <1>1, <1>3, <1>4, <1>5
<1>7. QED  BY <1>2, <1>4, <1>6

(* The layers there are, and the hint a region makes.                      *)
Stacked(G, N) ==
    /\ N \in Nat /\ N <= Levels /\ DOMAIN G = 1 .. N
    /\ \A k \in 1 .. N : \E n : Regions(G[k], n)

HintOf(r, k) ==
    [level |-> k - 1, region |-> r.id, residual |-> r.residual,
     priority |-> hint_priority(r.residual, k - 1), suggested |-> Suggested(r)]

(* A hint is of a region that its id finds.                                *)
Hints(h, L, k) ==
    \E i \in DOMAIN L : find_region(L, L[i].id) = L[i] /\ h = HintOf(L[i], k)

LEMMA HintsMade ==
    ASSUME NEW g, NEW N, Stacked(g.layers, N), NEW pos \in Int
    PROVE  /\ DOMAIN generate_hints(g, pos) = 1 .. N
           /\ \A k \in 1 .. N : Hints(generate_hints(g, pos)[k], g.layers[k], k)
<1>1. DOMAIN g.layers = 1 .. N
  BY DEF Stacked
<1>2. DOMAIN generate_hints(g, pos) = 1 .. N
  BY <1>1 DEF generate_hints
<1>3. ASSUME NEW k \in 1 .. N
      PROVE  Hints(generate_hints(g, pos)[k], g.layers[k], k)
  <2>1. PICK L : L = g.layers[k]
    OBVIOUS
  <2>2. PICK n : Regions(L, n)
    BY <2>1 DEF Stacked
  <2>3. PICK r : r = find_region(L, assign_region(L, pos))
    OBVIOUS
  <2>4. find_region(L, r.id) = r /\ \E i \in 1 .. n : r = L[i]
    BY <2>2, <2>3, RegionFound
  <2>5. PICK i \in 1 .. n : r = L[i]
    BY <2>4
  <2>6. i \in DOMAIN L
    BY <2>2 DEF Regions
  <2>7. generate_hints(g, pos)[k] = HintOf(r, k)
    BY <1>1, <2>1, <2>3 DEF generate_hints, HintOf
  <2>8. QED  BY <2>1, <2>4, <2>5, <2>6, <2>7, Zenon DEF Hints
<1>4. QED  BY <1>2, <1>3, Zenon

(* Sorting hints by priority.                                              *)
LEMMA ScheduleOrdered ==
    ASSUME NEW hints, NEW N \in Nat, DOMAIN hints = 1 .. N,
           \A k \in 1 .. N : hints[k].priority \in 1 .. 10
    PROVE  LET schedule == apply_hints(hints)
           IN  /\ Len(schedule) = N
               /\ \A i \in 1 .. N - 1 : schedule[i][2] >= schedule[i + 1][2]
               /\ total_measurements(schedule) \in 8 .. 8 + 20 * N
<1> DEFINE R == {e \in (DOMAIN hints) \X (DOMAIN hints) :
                   \/ hints[e[1]].priority > hints[e[2]].priority
                   \/ hints[e[1]].priority = hints[e[2]].priority /\ e[1] < e[2]}
           order == Arranged(DOMAIN hints, R)
           schedule == apply_hints(hints)
           V == {<<hints[order[i]].region, hints[order[i]].priority>> : i \in 1 .. N}
           f == [i \in 1 .. N |-> 2 * schedule[i][2]]
<1>1. schedule = [i \in 1 .. N |-> <<hints[order[i]].region, hints[order[i]].priority>>]
  BY DEF apply_hints
<1>2. \A x, y \in 1 .. N :
         <<x, y>> \in R <=> \/ hints[x].priority > hints[y].priority
                            \/ hints[x].priority = hints[y].priority /\ x < y
  OBVIOUS
<1>3. \A k \in 1 .. N : k \in Int /\ hints[k].priority \in Int
  OBVIOUS
<1> HIDE DEF R
<1>4. Orders(R, 1 .. N)
  BY <1>2, <1>3 DEF Orders
<1>5. IsFiniteSet(1 .. N) /\ Cardinality(1 .. N) = N
  BY FS_Interval
<1>6. /\ \A k \in 1 .. N : order[k] \in 1 .. N
      /\ \A k, l \in 1 .. N : k < l => <<order[k], order[l]>> \in R
  BY <1>4, <1>5, ArrangedMeaning
<1> HIDE DEF order
<1>7. schedule \in [1 .. N -> V]
  BY <1>1
<1> HIDE DEF V, schedule
<1>8. Len(schedule) = N
  BY <1>7, ListLength
<1>9. \A i \in 1 .. N : schedule[i][2] = hints[order[i]].priority
  BY <1>1
<1>10. \A i \in 1 .. N : schedule[i][2] \in 1 .. 10
  BY <1>6, <1>9
<1>11. ASSUME NEW i \in 1 .. N - 1 PROVE schedule[i][2] >= schedule[i + 1][2]
  <2>1. i \in 1 .. N /\ i + 1 \in 1 .. N /\ i < i + 1
    OBVIOUS
  <2>2. <<order[i], order[i + 1]>> \in R /\ order[i] \in 1 .. N /\ order[i + 1] \in 1 .. N
    BY <1>6, <2>1
  <2>3. hints[order[i]].priority >= hints[order[i + 1]].priority
    <3>1. PICK x \in 1 .. N, y \in 1 .. N : x = order[i] /\ y = order[i + 1] /\ <<x, y>> \in R
      BY <2>2
    <3>2. \/ hints[x].priority > hints[y].priority
          \/ hints[x].priority = hints[y].priority /\ x < y
      BY <1>2, <3>1, Zenon
    <3>3. hints[x].priority \in Int /\ hints[y].priority \in Int
      BY <1>3
    <3>4. hints[x].priority >= hints[y].priority
      BY <3>2, <3>3
    <3>5. QED  BY <3>1, <3>4
  <2>4. QED  BY <1>9, <2>1, <2>3
<1>12. \A i \in 1 .. N : f[i] \in Int /\ 0 <= f[i] /\ f[i] <= 20
  BY <1>10
<1>13. DOMAIN f = 1 .. N /\ DOMAIN schedule = 1 .. N
  BY <1>7
<1>14. total_measurements(schedule) = 8 + SumFunctionOnSet(f, 1 .. N)
  <2>1. total_measurements(schedule) = 8 + SumFunction(f)
    BY <1>13 DEF total_measurements
  <2>2. SumFunction(f) = SumFunctionOnSet(f, 1 .. N)
    BY <1>13 DEF SumFunction, SumFunctionOnSet
  <2>3. QED  BY <2>1, <2>2
<1> HIDE DEF f
<1>15. /\ 0 * N <= SumFunctionOnSet(f, 1 .. N) /\ SumFunctionOnSet(f, 1 .. N) <= 20 * N
       /\ SumFunctionOnSet(f, 1 .. N) \in Int
  <2>1. SumFunctionOnSet(f, 1 .. N) \in Int
    BY <1>5, <1>12, SumIsInt
  <2>2. PICK lo \in Int, hi \in Int : lo = 0 /\ hi = 20
    OBVIOUS
  <2>3. \A i \in 1 .. N : f[i] \in Int /\ lo <= f[i] /\ f[i] <= hi
    BY <1>12, <2>2
  <2>4. /\ lo * Cardinality(1 .. N) <= SumFunctionOnSet(f, 1 .. N)
        /\ SumFunctionOnSet(f, 1 .. N) <= hi * Cardinality(1 .. N)
    BY <1>5, <2>3, SumBounds, Zenon
  <2>5. QED  BY <1>5, <2>1, <2>2, <2>4
<1>16. total_measurements(schedule) \in 8 .. 8 + 20 * N
  BY <1>14, <1>15
<1>17. QED  BY <1>8, <1>11, <1>16 DEF schedule

(* The regions to refine, and their order.                                 *)
Places(G) == UNION {{k} \X (DOMAIN G[k]) : k \in DOMAIN G}
Coarse(G) == {x \in Places(G) : G[x[1]][x[2]].residual > 100}
WorstFirst(G) ==
    LET at(x) == G[x[1]][x[2]]
        before(x, y) == \/ at(x).residual > at(y).residual
                        \/ /\ at(x).residual = at(y).residual
                           /\ x[1] < y[1] \/ (x[1] = y[1] /\ x[2] < y[2])
    IN  {e \in Coarse(G) \X Coarse(G) : before(e[1], e[2])}

TargetOf(r, k) == [region |-> r.id, level |-> k - 1, residual |-> r.residual]

LEMMA PlacesFinite ==
    ASSUME NEW G, NEW N, Stacked(G, N)
    PROVE  /\ IsFiniteSet(Places(G))
           /\ \A x \in Places(G) :
                 /\ x = <<x[1], x[2]>> /\ x[1] \in 1 .. N /\ x[2] \in Nat
                 /\ x[2] \in DOMAIN G[x[1]] /\ G[x[1]][x[2]].residual \in Int
<1>1. DOMAIN G = 1 .. N /\ N \in Nat
  BY DEF Stacked
<1>2. ASSUME NEW k \in 1 .. N
      PROVE  /\ IsFiniteSet({k} \X (DOMAIN G[k]))
             /\ \A i \in DOMAIN G[k] : i \in Nat /\ G[k][i].residual \in Int
  <2>1. PICK n : Regions(G[k], n)
    BY DEF Stacked
  <2>2. /\ n \in Nat /\ DOMAIN G[k] = 1 .. n
        /\ \A i \in 1 .. n : G[k][i].residual \in Int
    BY <2>1 DEF Regions
  <2>3. IsFiniteSet({k}) /\ IsFiniteSet(DOMAIN G[k])
    <3>1. IsFiniteSet({k})
      BY FS_Singleton, Zenon
    <3>2. IsFiniteSet(1 .. n)
      BY <2>2, FS_Interval
    <3>3. QED  BY <2>2, <3>1, <3>2
  <2>4. IsFiniteSet({k} \X (DOMAIN G[k]))
    BY <2>3, FS_Product
  <2>5. QED  BY <2>2, <2>4
<1>3. PICK f : f = [k \in 1 .. N |-> {k} \X (DOMAIN G[k])]
  OBVIOUS
<1>4. Places(G) = UNION {f[k] : k \in 1 .. N}
  BY <1>1, <1>3 DEF Places
<1>5. IsFiniteSet({f[k] : k \in 1 .. N})
  <2>1. IsFiniteSet(1 .. N)
    BY <1>1, FS_Interval
  <2>2. QED  BY <2>1, ValuesFinite, Zenon
<1>6. \A T \in {f[k] : k \in 1 .. N} : IsFiniteSet(T)
  BY <1>2, <1>3
<1>7. IsFiniteSet(Places(G))
  BY <1>4, <1>5, <1>6, FS_UNION
<1>8. ASSUME NEW x \in Places(G)
      PROVE  /\ x = <<x[1], x[2]>> /\ x[1] \in 1 .. N /\ x[2] \in Nat
             /\ x[2] \in DOMAIN G[x[1]] /\ G[x[1]][x[2]].residual \in Int
  <2>1. PICK k \in 1 .. N : x \in {k} \X (DOMAIN G[k])
    BY <1>1 DEF Places
  <2>2. PICK i \in DOMAIN G[k] : x = <<k, i>>
    BY <2>1
  <2>3. x[1] = k /\ x[2] = i
    BY <2>2
  <2>4. QED  BY <1>2, <2>2, <2>3
<1>9. QED  BY <1>7, <1>8

LEMMA CoarseOrdered ==
    ASSUME NEW G, NEW N, Stacked(G, N)
    PROVE  IsFiniteSet(Coarse(G)) /\ Orders(WorstFirst(G), Coarse(G))
<1>1. PICK v : v = [x \in Coarse(G) |-> G[x[1]][x[2]].residual]
  OBVIOUS
<1>2. /\ IsFiniteSet(Places(G)) /\ Coarse(G) \in SUBSET Places(G)
      /\ \A x \in Places(G) : /\ x = <<x[1], x[2]>> /\ x[1] \in Int /\ x[2] \in Int
                              /\ G[x[1]][x[2]].residual \in Int
  <2>1. N \in Nat
    BY DEF Stacked
  <2>2. QED  BY <2>1, PlacesFinite DEF Coarse
<1>3. IsFiniteSet(Coarse(G))
  BY <1>2, FS_Subset
<1>4. \A x \in Coarse(G) : x[1] \in Int /\ x[2] \in Int /\ v[x] \in Int
  BY <1>1, <1>2
<1>5. \A x, y \in Coarse(G) : x[1] = y[1] /\ x[2] = y[2] => x = y
  <2> SUFFICES ASSUME NEW x \in Coarse(G), NEW y \in Coarse(G), x[1] = y[1], x[2] = y[2]
               PROVE  x = y
    OBVIOUS
  <2>1. x = <<x[1], x[2]>> /\ y = <<y[1], y[2]>>
    BY <1>2
  <2>2. QED  BY <2>1, Zenon
<1>6. \A x, y \in Coarse(G) :
         <<x, y>> \in WorstFirst(G) <=>
            \/ v[x] > v[y]
            \/ /\ v[x] = v[y]
               /\ x[1] < y[1] \/ (x[1] = y[1] /\ x[2] < y[2])
  BY <1>1 DEF WorstFirst
<1>7. PICK a, b : /\ a = [x \in Coarse(G) |-> x[1]] /\ b = [x \in Coarse(G) |-> x[2]]
  OBVIOUS
<1>8. \A x \in Coarse(G) : a[x] \in Int /\ b[x] \in Int /\ v[x] \in Int
  BY <1>4, <1>7
<1>9. \A x, y \in Coarse(G) : a[x] = a[y] /\ b[x] = b[y] => x = y
  BY <1>5, <1>7
<1>10. \A x, y \in Coarse(G) :
         <<x, y>> \in WorstFirst(G) <=>
            \/ v[x] > v[y]
            \/ /\ v[x] = v[y]
               /\ a[x] < a[y] \/ (a[x] = a[y] /\ b[x] < b[y])
  BY <1>6, <1>7
<1>11. Orders(WorstFirst(G), Coarse(G))
  BY <1>8, <1>9, <1>10 DEF Orders
<1>12. QED  BY <1>3, <1>11

(* What is to be refined: every region with a residual of more than 100.   *)
Targets(T, m, G, N) ==
    /\ m \in Nat /\ DOMAIN T = 1 .. m
    /\ \A n \in 1 .. m : \E k \in 1 .. N : \E i \in DOMAIN G[k] :
          G[k][i].residual > 100 /\ T[n] = TargetOf(G[k][i], k)
    /\ \A k \in 1 .. N : \A i \in DOMAIN G[k] :
          G[k][i].residual > 100 => \E n \in 1 .. m : T[n] = TargetOf(G[k][i], k)

LEMMA TargetsMade ==
    ASSUME NEW g, NEW N, Stacked(g.layers, N)
    PROVE  \E m : Targets(RefinementTargets(g), m, g.layers, N)
<1>1. PICK G : G = g.layers
  OBVIOUS
<1>2. PICK m, o : m = Cardinality(Coarse(G)) /\ o = Arranged(Coarse(G), WorstFirst(G))
  OBVIOUS
<1>3. IsFiniteSet(Coarse(G)) /\ Orders(WorstFirst(G), Coarse(G))
  BY <1>1, CoarseOrdered
<1>4. /\ m \in Nat
      /\ \A k \in 1 .. m : o[k] \in Coarse(G)
      /\ \A x \in Coarse(G) : \E k \in 1 .. m : x = o[k]
  BY <1>2, <1>3, ArrangedMeaning
<1>5. RefinementTargets(g) =
        [n \in 1 .. m |->
            [region |-> G[o[n][1]][o[n][2]].id, level |-> o[n][1] - 1,
             residual |-> G[o[n][1]][o[n][2]].residual]]
  <2> DEFINE H == g.layers
             p == Arranged(Coarse(H), WorstFirst(H))
  <2>1. RefinementTargets(g) =
          [n \in 1 .. Cardinality(Coarse(H)) |->
              [region |-> H[p[n][1]][p[n][2]].id, level |-> p[n][1] - 1,
               residual |-> H[p[n][1]][p[n][2]].residual]]
    BY Zenon DEF RefinementTargets, Coarse, WorstFirst, Places
  <2> HIDE DEF p
  <2>2. H = G /\ p = o
    BY <1>1, <1>2, Zenon DEF p
  <2>3. QED  BY <1>2, <2>1, <2>2, Zenon
<1>6. /\ DOMAIN RefinementTargets(g) = 1 .. m
      /\ \A n \in 1 .. m : RefinementTargets(g)[n] = TargetOf(G[o[n][1]][o[n][2]], o[n][1])
  BY <1>5 DEF TargetOf
<1>7. ASSUME NEW n \in 1 .. m
      PROVE  \E k \in 1 .. N : \E i \in DOMAIN G[k] :
                /\ G[k][i].residual > 100
                /\ RefinementTargets(g)[n] = TargetOf(G[k][i], k)
  <2>1. PICK x : x = o[n]
    OBVIOUS
  <2>2. x \in Places(G) /\ G[x[1]][x[2]].residual > 100
    BY <1>4, <2>1 DEF Coarse
  <2>3. x[1] \in 1 .. N /\ x[2] \in DOMAIN G[x[1]]
    BY <1>1, <2>2, PlacesFinite
  <2>4. RefinementTargets(g)[n] = TargetOf(G[x[1]][x[2]], x[1])
    BY <1>6, <2>1
  <2>5. QED  BY <2>2, <2>3, <2>4
<1>8. ASSUME NEW k \in 1 .. N, NEW i \in DOMAIN G[k], G[k][i].residual > 100
      PROVE  \E n \in 1 .. m : RefinementTargets(g)[n] = TargetOf(G[k][i], k)
  <2>1. PICK x : x = <<k, i>>
    OBVIOUS
  <2>0. x[1] = k /\ x[2] = i
    BY <2>1
  <2>2. DOMAIN G = 1 .. N
    BY <1>1 DEF Stacked
  <2>3. x \in Places(G)
    BY <2>1, <2>2 DEF Places
  <2>4. x \in Coarse(G)
    BY <1>8, <2>0, <2>3 DEF Coarse
  <2>5. PICK n \in 1 .. m : x = o[n]
    BY <1>4, <2>4
  <2>6. RefinementTargets(g)[n] = TargetOf(G[x[1]][x[2]], x[1])
    BY <1>6, <2>5
  <2>7. QED  BY <2>0, <2>6
<1>9. Targets(RefinementTargets(g), m, G, N)
  BY <1>4, <1>6, <1>7, <1>8 DEF Targets
<1>10. QED  BY <1>1, <1>9

(* The hints of both ways are the same where the residual is over 100.     *)
LEMMA HintsContained ==
    ASSUME NEW g, NEW N, Stacked(g.layers, N), NEW pos \in Int, NEW k \in 1 .. N
    PROVE  LET h == generate_hints(g, pos)[k]
           IN  /\ h.residual > 100 <=> Contains(RefinementHints(g), h)
               /\ h.priority \in 1 .. 10
<1>1. PICK T, m : T = RefinementTargets(g) /\ Targets(T, m, g.layers, N)
  <2>1. PICK m : Targets(RefinementTargets(g), m, g.layers, N)
    BY TargetsMade, Zenon
  <2>2. QED  BY <2>1, Zenon
<1>2. PICK F : F = RefinementHints(g)
  OBVIOUS
<1>3. /\ DOMAIN F = 1 .. m
      /\ \A n \in 1 .. m :
            F[n] = [level |-> T[n].level, region |-> T[n].region, residual |-> T[n].residual,
                    priority |-> compute_hint_priority(T[n].residual, T[n].level),
                    suggested |-> Suggested(find_region(g.layers[T[n].level + 1], T[n].region))]
  BY <1>1, <1>2 DEF RefinementHints, Targets
<1>4. F \in [1 .. m -> {F[n] : n \in 1 .. m}]
  <2>1. F = [n \in 1 .. m |-> F[n]]
    BY <1>1, <1>2 DEF RefinementHints, Targets
  <2>2. QED  BY <2>1
<1>5. m \in Nat /\ Len(F) = m
  BY <1>1, <1>4, ListLength DEF Targets
<1>6. PICK i \in DOMAIN g.layers[k] :
        /\ find_region(g.layers[k], g.layers[k][i].id) = g.layers[k][i]
        /\ generate_hints(g, pos)[k] = HintOf(g.layers[k][i], k)
  <2>1. Hints(generate_hints(g, pos)[k], g.layers[k], k)
    BY HintsMade, Zenon
  <2>2. QED  BY <2>1, Zenon DEF Hints
<1>7. PICK r, h : r = g.layers[k][i] /\ h = generate_hints(g, pos)[k]
  OBVIOUS
<1>8. h = HintOf(r, k) /\ find_region(g.layers[k], r.id) = r
  BY <1>6, <1>7
<1>9. r.residual \in Int
  <2>1. PICK n : Regions(g.layers[k], n)
    BY DEF Stacked
  <2>2. QED  BY <1>7, <2>1 DEF Regions
<1>10. /\ compute_hint_priority(r.residual, k - 1) = hint_priority(r.residual, k - 1)
       /\ hint_priority(r.residual, k - 1) \in 1 .. 10
  BY <1>9, GradesAgree
<1>11. h.residual = r.residual /\ h.priority = hint_priority(r.residual, k - 1)
  BY <1>8 DEF HintOf
<1>12. ASSUME h.residual > 100 PROVE Contains(F, h)
  <2>1. PICK n \in 1 .. m : T[n] = TargetOf(r, k)
    BY <1>1, <1>7, <1>11, <1>12 DEF Targets
  <2>2. T[n].level = k - 1 /\ T[n].region = r.id /\ T[n].residual = r.residual
    BY <2>1 DEF TargetOf
  <2>3. T[n].level + 1 = k
    BY <2>2 DEF Stacked
  <2>4. F[n] = [level |-> T[n].level, region |-> T[n].region, residual |-> T[n].residual,
                priority |-> compute_hint_priority(T[n].residual, T[n].level),
                suggested |-> Suggested(find_region(g.layers[T[n].level + 1], T[n].region))]
    BY <1>3
  <2>5. F[n] = [level |-> k - 1, region |-> r.id, residual |-> r.residual,
                priority |-> hint_priority(r.residual, k - 1), suggested |-> Suggested(r)]
    BY <1>8, <1>10, <2>2, <2>3, <2>4, Zenon
  <2>6. F[n] = h
    BY <1>8, <2>5, Zenon DEF HintOf
  <2>7. QED  BY <1>5, <2>6 DEF Contains
<1>13. ASSUME Contains(F, h) PROVE h.residual > 100
  <2>1. PICK n \in 1 .. m : F[n] = h
    BY <1>5, <1>13 DEF Contains
  <2>2. PICK l \in 1 .. N : \E j \in DOMAIN g.layers[l] :
           g.layers[l][j].residual > 100 /\ T[n] = TargetOf(g.layers[l][j], l)
    BY <1>1 DEF Targets
  <2>3. PICK q : q.residual > 100 /\ T[n] = TargetOf(q, l)
    BY <2>2
  <2>4. T[n].residual = q.residual
    BY <2>3 DEF TargetOf
  <2>5. F[n].residual = T[n].residual
    BY <1>3
  <2>6. QED  BY <2>1, <2>3, <2>4, <2>5
<1>14. QED  BY <1>2, <1>7, <1>10, <1>11, <1>12, <1>13

(* HintsAgree, for any beacons, levels and position.  It rests on the      *)
(* layers having regions, so that a place is nearest to one of them, and   *)
(* on ids finding a region, not on ids telling regions apart.              *)
THEOREM HintsAlwaysAgree == GeoidSpec => []HintsAgree
<1>1. ASSUME NEW limit \in {100, 1000, 10000, 100000}, NEW level \in 0 .. Levels - 1,
             NEW residual \in {limit, limit + 1}
      PROVE  hint_priority(residual, level) = compute_hint_priority(residual, level)
  <2>1. residual \in Int
    OBVIOUS
  <2>2. compute_hint_priority(residual, level) = hint_priority(residual, level)
    BY <2>1, GradesAgree
  <2>3. QED  BY <2>2
<1>2. GeoidInv => HintsAgree
  <2> SUFFICES ASSUME GeoidInv, NEW pos \in Position
      PROVE  LET refine == RefinementHints(geoid)
                 hints == generate_hints(geoid, pos)
                 schedule == apply_hints(hints)
             IN  /\ \A k \in DOMAIN hints :
                       hints[k].residual > 100 <=> Contains(refine, hints[k])
                 /\ \A i \in 1 .. Len(schedule) - 1 : schedule[i][2] >= schedule[i + 1][2]
                 /\ total_measurements(schedule) \in 8 .. 8 + 20 * Levels
    BY <1>1 DEF HintsAgree
  <2> DEFINE refine == RefinementHints(geoid)
             hints == generate_hints(geoid, pos)
             schedule == apply_hints(hints)
  <2>1. pos \in Int /\ Levels \in Nat
    BY GeoidAssumption
  <2>2. PICK B : Layered(geoid.layers, B)
    BY DEF GeoidInv, MadeFrom
  <2>3. PICK N : Stacked(geoid.layers, N)
    <3>1. CASE geoid.layers = <<>>
      <4>1. DOMAIN geoid.layers = 1 .. 0 /\ \A k \in 1 .. 0 : FALSE
        BY <3>1
      <4>2. Stacked(geoid.layers, 0)
        BY <2>1, <4>1 DEF Stacked
      <4>3. QED  BY <4>2
    <3>2. CASE geoid.layers # <<>>
      <4>1. Stacked(geoid.layers, Levels)
        BY <2>1, <2>2, <3>2 DEF Stacked, Layered
      <4>2. QED  BY <4>1
    <3>3. QED  BY <3>1, <3>2
  <2>4. N \in Nat /\ N <= Levels
    BY <2>3 DEF Stacked
  <2>5. DOMAIN hints = 1 .. N
    BY <2>1, <2>3, HintsMade
  <2>6. ASSUME NEW k \in 1 .. N
        PROVE  /\ hints[k].residual > 100 <=> Contains(refine, hints[k])
               /\ hints[k].priority \in 1 .. 10
    BY <2>1, <2>3, HintsContained
  <2> HIDE DEF hints, refine
  <2>7. /\ Len(schedule) = N
        /\ \A i \in 1 .. N - 1 : schedule[i][2] >= schedule[i + 1][2]
        /\ total_measurements(schedule) \in 8 .. 8 + 20 * N
    BY <2>4, <2>5, <2>6, ScheduleOrdered
  <2> HIDE DEF schedule
  <2>8. total_measurements(schedule) \in 8 .. 8 + 20 * Levels
    BY <2>1, <2>4, <2>7
  <2>9. \A i \in 1 .. Len(schedule) - 1 : schedule[i][2] >= schedule[i + 1][2]
    BY <2>7
  <2>10. QED  BY <2>5, <2>6, <2>8, <2>9 DEF hints, refine, schedule
<1>3. QED  BY <1>2, GeoidStarts, GeoidInductive, PTL DEF GeoidSpec
=============================================================================
