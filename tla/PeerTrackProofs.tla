-------------------------- MODULE PeerTrackProofs ---------------------------
(***************************************************************************)
(* What holds of PeerTrack::observe (module PeerTrack) for any round trips,*)
(* any warm-up and window, and any number of changes of path, timescale    *)
(* and wild offsets.                                                       *)
(***************************************************************************)
EXTENDS PeerTrack, FiniteSetTheorems, TLAPS

(* A suspicion exists only after the warm-up; on a track that has absorbed *)
(* nothing but the peer's timescale it stems from a wild offset since the  *)
(* last accepted exchange.  Timescales ahead of the peer's are not absorbed*)
(* yet, so that the peer cannot step to one.                               *)
SuspectInv ==
    /\ accepted < Warmup => suspect = 0
    /\ suspect = 1 /\ absorbed = {scale} => glitched
    /\ absorbed \subseteq (0 .. scale) \cup {Wild}
    /\ scale <= changes

TrackInv == TypeOK /\ SuspectInv

(* What an exchange does to the part of the track that the window of round *)
(* trips does not touch.                                                   *)
Judged(s) ==
    \/ /\ outcome' \in {"Popcorn", "Step"}
       /\ UNCHANGED <<accepted, absorbed>>
       /\ \/ outcome' = "Popcorn" /\ suspect' = suspect
          \/ /\ outcome' = "Step" /\ suspect' = 1 /\ accepted >= Warmup
             /\ absorbed # {s}
    \/ /\ outcome' = "Restarted" /\ accepted >= Warmup /\ absorbed # {s}
       /\ suspect + 1 >= 2
       /\ suspect' = 0 /\ accepted' = 1 /\ absorbed' = {s}
    \/ /\ outcome' = "Accepted" /\ (accepted >= Warmup => MayFit(s))
       /\ suspect' = SuspectAfterFit
       /\ accepted' = IF accepted + 1 <= Warmup THEN accepted + 1 ELSE Warmup
       /\ absorbed' = absorbed \cup {s}

LEMMA MinOfTwo ==
    ASSUME NEW a \in Int, NEW b \in Int
    PROVE  Min({a, b}) = IF a <= b THEN a ELSE b
BY DEF Min

LEMMA RoomInWindow == Max({FloorWindow, 1}) \in Nat /\ Max({FloorWindow, 1}) >= 1
<1>1. FloorWindow \in Nat
  BY PeerTrackAssumption
<1>2. Max({FloorWindow, 1}) = IF FloorWindow <= 1 THEN 1 ELSE FloorWindow
  BY <1>1 DEF Max
<1>3. QED  BY <1>1, <1>2

(* The window stays a window: at least one round trip fits, and one more   *)
(* pushes out the oldest.                                                  *)
LEMMA WindowTyped ==
    ASSUME rtts \in Seq(Rtt), Len(rtts) <= Max({FloorWindow, 1}), NEW rtt \in Rtt
    PROVE  /\ Window(rtt) \in Seq(Rtt) /\ Len(Window(rtt)) <= Max({FloorWindow, 1})
           /\ <<rtt>> \in Seq(Rtt) /\ Len(<<rtt>>) <= Max({FloorWindow, 1})
<1> DEFINE w == Append(rtts, rtt)
           k == Max({FloorWindow, 1})
<1>1. k \in Nat /\ k >= 1
  BY RoomInWindow
<1>2. w \in Seq(Rtt) /\ Len(w) = Len(rtts) + 1 /\ Len(rtts) \in Nat
  OBVIOUS
<1>3. w # <<>>
  BY <1>2
<1> HIDE DEF w, k
<1>4. Tail(w) \in Seq(Rtt) /\ Len(Tail(w)) = Len(w) - 1
  BY <1>2, <1>3
<1>5. <<rtt>> \in Seq(Rtt) /\ Len(<<rtt>>) = 1
  OBVIOUS
<1>6. Len(rtts) <= k /\ Window(rtt) = IF Len(w) > k THEN Tail(w) ELSE w
  BY DEF Window, w, k
<1>7. Window(rtt) \in Seq(Rtt) /\ Len(Window(rtt)) <= k
  BY <1>1, <1>2, <1>4, <1>6
<1>8. QED  BY <1>1, <1>5, <1>7 DEF k

LEMMA ObserveJudges ==
    ASSUME TypeOK, NEW rtt \in Rtt, NEW s, observe(rtt, s)
    PROVE  Judged(s) /\ rtts' \in Seq(Rtt) /\ Len(rtts') <= Max({FloorWindow, 1})
<1>1. /\ Window(rtt) \in Seq(Rtt) /\ Len(Window(rtt)) <= Max({FloorWindow, 1})
      /\ <<rtt>> \in Seq(Rtt) /\ Len(<<rtt>>) <= Max({FloorWindow, 1})
  BY WindowTyped DEF TypeOK
<1>2. accepted \in Nat /\ suspect \in {0, 1} /\ Warmup \in Nat
  BY PeerTrackAssumption DEF TypeOK
<1>3. CASE Popcorn(rtt)
  BY <1>1, <1>3 DEF Popcorn, Judged
<1>4. CASE Step(rtt, s)
  BY <1>1, <1>4 DEF Step, Judged, MayJump
<1>5. CASE RestartTrack(rtt, s)
  BY <1>1, <1>2, <1>5 DEF RestartTrack, Judged, MayJump, IsFirstJump
<1>6. CASE Accept(rtt, s)
  <2>1. Min({accepted + 1, Warmup}) = IF accepted + 1 <= Warmup THEN accepted + 1 ELSE Warmup
    BY <1>2, MinOfTwo
  <2>2. QED  BY <1>1, <1>6, <2>1 DEF Accept, Judged
<1>7. QED  BY <1>3, <1>4, <1>5, <1>6 DEF observe

LEMMA ExchangeKeeps ==
    ASSUME TrackInv, NEW rtt \in Rtt, NEW s, observe(rtt, s), GlitchedAfter(s),
           path' = path, scale' = scale,
           \/ s = scale /\ changes' = changes
           \/ s = Wild /\ changes < MaxChanges /\ changes' = changes + 1
    PROVE  TrackInv'
<1>1. Judged(s) /\ rtts' \in Seq(Rtt) /\ Len(rtts') <= Max({FloorWindow, 1})
  BY ObserveJudges DEF TrackInv
<1>2. /\ accepted \in 0 .. Warmup /\ Warmup \in Nat \ {0} /\ suspect \in {0, 1}
      /\ path \in Paths /\ scale \in Scale /\ changes \in 0 .. MaxChanges
      /\ MaxChanges \in Nat
      /\ glitched \in BOOLEAN /\ (accepted > 0 <=> absorbed # {})
      /\ absorbed \subseteq Scale \cup {Wild}
  BY PeerTrackAssumption DEF TrackInv, TypeOK
<1>3. changes' \in 0 .. MaxChanges /\ scale' <= changes'
  BY <1>2 DEF TrackInv, SuspectInv, Scale
<1>4. /\ accepted' \in 0 .. Warmup /\ suspect' \in {0, 1}
      /\ accepted' > 0 <=> absorbed' # {}
      /\ outcome' \in {"None", "Accepted", "Restarted"} \cup Rejections
  <2>1. accepted' \in 0 .. Warmup /\ suspect' \in {0, 1}
    BY <1>1, <1>2 DEF Judged, SuspectAfterFit
  <2>2. accepted' > 0 <=> absorbed' # {}
    <3>1. CASE accepted' = accepted /\ absorbed' = absorbed
      BY <1>2, <3>1
    <3>2. CASE accepted' > 0 /\ s \in absorbed'
      BY <3>2
    <3>3. QED  BY <1>1, <1>2, <3>1, <3>2 DEF Judged
  <2>3. outcome' \in {"None", "Accepted", "Restarted"} \cup Rejections
    BY <1>1 DEF Judged, Rejections
  <2>4. QED  BY <2>1, <2>2, <2>3
<1>5. s \in (0 .. scale) \cup {Wild} /\ s \in Scale \cup {Wild}
  BY <1>2 DEF Scale
<1>6. absorbed' \subseteq (0 .. scale) \cup {Wild} /\ absorbed' \subseteq Scale \cup {Wild}
  BY <1>1, <1>2, <1>5 DEF Judged, TrackInv, SuspectInv
<1>7. glitched' \in BOOLEAN
  BY <1>2 DEF GlitchedAfter
<1>8. TypeOK'
  BY <1>1, <1>2, <1>3, <1>4, <1>6, <1>7 DEF TypeOK
<1>9. accepted' < Warmup => suspect' = 0
  BY <1>1, <1>2 DEF Judged, SuspectAfterFit, TrackInv, SuspectInv
<1>10. suspect' = 1 /\ absorbed' = {scale'} => glitched'
  <2>1. scale # Wild
    BY <1>2 DEF Scale, Wild
  <2>2. suspect = 1 => accepted >= Warmup
    BY <1>2 DEF TrackInv, SuspectInv
  <2>3. CASE outcome' = "Popcorn"
    BY <1>1, <2>3 DEF Judged, GlitchedAfter, TrackInv, SuspectInv
  <2>4. CASE outcome' = "Step"
    BY <1>1, <2>1, <2>4 DEF Judged, GlitchedAfter
  <2>5. CASE outcome' \in {"Accepted", "Restarted"}
    BY <1>1, <1>2, <2>2, <2>5 DEF Judged, SuspectAfterFit
  <2>6. QED  BY <1>1, <2>3, <2>4, <2>5 DEF Judged
<1>11. QED  BY <1>3, <1>6, <1>8, <1>9, <1>10 DEF TrackInv, SuspectInv

LEMMA TrackInitially ==
    ASSUME Init
    PROVE  TrackInv
<1>1. rtts \in Seq(Rtt) /\ Len(rtts) = 0
  BY DEF Init
<1>2. Len(rtts) <= Max({FloorWindow, 1})
  BY <1>1, RoomInWindow
<1>3. accepted = 0 /\ suspect = 0 /\ absorbed = {} /\ scale = 0 /\ changes = 0
  BY DEF Init
<1>4. 0 \in Scale /\ 0 \in 0 .. MaxChanges /\ 0 \in 0 .. Warmup
  BY PeerTrackAssumption DEF Scale
<1>5. path \in Paths /\ glitched \in BOOLEAN /\ outcome = "None"
  BY DEF Init
<1>6. TypeOK
  BY <1>1, <1>2, <1>3, <1>4, <1>5 DEF TypeOK
<1>7. SuspectInv
  BY <1>3 DEF SuspectInv
<1>8. QED  BY <1>6, <1>7 DEF TrackInv

LEMMA TrackInductive ==
    ASSUME TrackInv, [Next]_vars
    PROVE  TrackInv'
<1>1. path \in Rtt /\ path + Queue \in Rtt
  BY DEF TrackInv, TypeOK, Rtt
<1>2. CASE Undisturbed
  BY <1>1, <1>2, ExchangeKeeps DEF Undisturbed, world
<1>3. CASE Queued
  BY <1>1, <1>3, ExchangeKeeps DEF Queued, world
<1>4. CASE Glitch
  BY <1>1, <1>4, ExchangeKeeps DEF Glitch
<1>5. CASE Late \/ Garbled \/ UNCHANGED vars
  BY <1>5 DEF Late, Garbled, OutOfOrder, NonPositive, vars, track, world, TrackInv,
     TypeOK, SuspectInv, Rejections
<1>6. CASE PeerSteps
  <2>1. /\ scale \in Nat /\ changes \in 0 .. MaxChanges /\ MaxChanges \in Nat
        /\ absorbed \subseteq (0 .. scale) \cup {Wild} /\ scale <= changes
    BY PeerTrackAssumption DEF TrackInv, TypeOK, SuspectInv, Scale
  <2>2. /\ scale' = scale + 1 /\ changes' = changes + 1 /\ changes < MaxChanges
        /\ rtts' = rtts /\ accepted' = accepted /\ suspect' = suspect
        /\ absorbed' = absorbed /\ outcome' = outcome /\ path' = path
        /\ glitched' = glitched
    BY <1>6 DEF PeerSteps, track
  <2>3. absorbed' # {scale'}
    BY <2>1, <2>2 DEF Wild
  <2>4. /\ scale' \in Scale /\ changes' \in 0 .. MaxChanges /\ scale' <= changes'
        /\ absorbed' \subseteq (0 .. scale') \cup {Wild}
    BY <2>1, <2>2 DEF Scale
  <2>5. QED  BY <2>2, <2>3, <2>4 DEF TrackInv, TypeOK, SuspectInv
<1>7. CASE Reroute
  <2>1. changes' \in 0 .. MaxChanges /\ scale <= changes'
    BY <1>7, PeerTrackAssumption DEF Reroute, TrackInv, TypeOK, SuspectInv, Scale
  <2>2. QED  BY <1>7, <2>1 DEF Reroute, track, TrackInv, TypeOK, SuspectInv
<1>8. QED  BY <1>2, <1>3, <1>4, <1>5, <1>6, <1>7 DEF Next

(* The window of round trips, the counters and the set of timescales keep  *)
(* their types and bounds; a track with an accepted exchange has a base.   *)
THEOREM TrackTypeCorrect == Spec => []TypeOK
<1>1. Init => TrackInv
  BY TrackInitially
<1>2. TrackInv /\ [Next]_vars => TrackInv'
  BY TrackInductive
<1>3. TrackInv => TypeOK
  BY DEF TrackInv
<1>4. QED  BY <1>1, <1>2, <1>3, PTL DEF Spec

(* A wild offset never moves a track that has settled on its peer's        *)
(* timescale: the first jump is only remembered (PeerTrack::observe), an   *)
(* exchange that fits clears it, and without a second jump in between      *)
(* nothing restarts the track.                                             *)
THEOREM GlitchHarmless == Spec => GlitchNeverTracked
<1> DEFINE Stays == accepted >= Warmup /\ absorbed = {scale} => absorbed' = absorbed
<1>1. Init => TrackInv
  BY TrackInitially
<1>2. TrackInv /\ [Next]_vars => TrackInv'
  BY TrackInductive
<1>3. ASSUME TrackInv, [Next]_vars PROVE [Stays]_vars
  <2> SUFFICES ASSUME Next, accepted >= Warmup, absorbed = {scale}
               PROVE  absorbed' = absorbed
    BY <1>3
  <2>1. path \in Rtt /\ path + Queue \in Rtt /\ scale # Wild /\ suspect \in {0, 1}
    BY <1>3, PeerTrackAssumption DEF TrackInv, TypeOK, Rtt, Scale, Wild
  <2>2. CASE Undisturbed \/ Queued
    <3>1. Judged(scale)
      BY <1>3, <2>1, <2>2, ObserveJudges DEF Undisturbed, Queued, TrackInv
    <3>2. QED  BY <3>1 DEF Judged
  <2>3. CASE Glitch
    <3>1. Judged(Wild) /\ ~ glitched
      BY <1>3, <2>1, <2>3, ObserveJudges DEF Glitch, TrackInv
    <3>2. ~ MayFit(Wild)
      <4>1. Cardinality(absorbed) = 1
        BY FS_Singleton
      <4>2. QED  BY <2>1, <4>1 DEF MayFit
    <3>3. suspect = 0
      BY <1>3, <2>1, <3>1 DEF TrackInv, SuspectInv
    <3>4. QED  BY <3>1, <3>2, <3>3 DEF Judged
  <2>4. CASE Late \/ Garbled \/ PeerSteps \/ Reroute
    BY <2>4 DEF Late, Garbled, PeerSteps, Reroute, OutOfOrder, NonPositive, track
  <2>5. QED  BY <2>2, <2>3, <2>4 DEF Next
<1>4. QED  BY <1>1, <1>2, <1>3, PTL DEF Spec, GlitchNeverTracked
=============================================================================
