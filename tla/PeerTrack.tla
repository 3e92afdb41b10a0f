----------------------------- MODULE PeerTrack ------------------------------
(***************************************************************************)
(* What one node makes of its exchanges with one peer: PeerTrack::observe  *)
(* (crates/rtfsn-core/src/sync/relational.rs), which rejects the spikes a  *)
(* queue causes ("popcorn"), tells an outlier from a step of the peer's    *)
(* timescale, and starts afresh after a step.                              *)
(*                                                                         *)
(* Offsets are abstracted to the timescale they show: two exchanges on     *)
(* different timescales are more than step_ns apart, two on the same one   *)
(* are not.  The Kalman state and base offset become the set of timescales *)
(* absorbed since the track (re)started; the prediction of a filter that   *)
(* has absorbed several is somewhere in between and may look near or far.  *)
(***************************************************************************)
EXTENDS Integers, FiniteSets, Sequences, FiniteSetsExt, SequencesExt

CONSTANTS
    Paths,          \* round trips of the paths to the peer, without a queue
    Queue,          \* what a queue adds to a round trip
    PopcornNs,      \* popcorn_ns; popcorn_ratio is 0.5
    Warmup,         \* warmup
    FloorWindow,    \* floor_window
    MaxChanges      \* bound: changes of path or timescale, and wild offsets

ASSUME PeerTrackAssumption ==
    /\ Paths \subseteq Nat \ {0} /\ Paths # {}
    /\ Queue \in Nat \ {0} /\ PopcornNs \in Nat
    /\ Warmup \in Nat \ {0} /\ FloorWindow \in Nat /\ MaxChanges \in Nat

VARIABLES
    rtts,       \* PeerTrack.rtts
    accepted,   \* PeerTrack.accepted, counted up to Warmup
    suspect,    \* PeerTrack.suspect
    absorbed,   \* timescales behind base_offset_ns and kalman
    outcome,    \* the last Observation
    path,       \* the path now
    scale,      \* the peer's timescale now
    changes,    \* changes and wild offsets so far
    glitched    \* a wild offset was read since the last accepted exchange

track == <<rtts, accepted, suspect, absorbed, outcome>>
world == <<path, scale, changes>>
vars  == <<track, world, glitched>>

(* A wild offset of a single exchange: no timescale of the peer.           *)
Wild  == -1
Scale == 0 .. MaxChanges
Rtt   == Paths \cup {p + Queue : p \in Paths}
Rejections == {"NonPositiveRtt", "OutOfOrder", "Popcorn", "Step"}

TypeOK ==
    /\ rtts \in Seq(Rtt) /\ Len(rtts) <= Max({FloorWindow, 1})
    /\ accepted > 0 <=> absorbed # {}
    /\ accepted \in 0 .. Warmup
    /\ suspect \in {0, 1}
    /\ absorbed \subseteq Scale \cup {Wild}
    /\ outcome \in {"None", "Accepted", "Restarted"} \cup Rejections
    /\ path \in Paths /\ scale \in Scale /\ changes \in 0 .. MaxChanges
    /\ glitched \in BOOLEAN

Init ==
    /\ rtts = <<>> /\ accepted = 0 /\ suspect = 0 /\ absorbed = {}
    /\ outcome = "None"
    /\ path \in Paths /\ scale = 0 /\ changes = 0
    /\ glitched = FALSE

-----------------------------------------------------------------------------
(* PeerTrack::observe.                                                     *)

(* Faulty variant: the window keeps the smallest round trips.              *)
KeepFloor(rtt) ==
    IF rtts # <<>> /\ rtt > Min(ToSet(rtts)) THEN rtts ELSE <<rtt>>

(* push_back, then pop_front down to the window, before anything is judged.*)
Window(rtt) ==
    LET w == Append(rtts, rtt)
    IN  IF Len(w) > Max({FloorWindow, 1}) THEN Tail(w) ELSE w

Floor(w) == Min(ToSet(w))

(* excess > max(popcorn_ns, floor / 2), once warmed up.                    *)
IsPopcorn(rtt) ==
    LET floor == Floor(Window(rtt))
    IN  accepted >= Warmup /\ 2 * (rtt - floor) > Max({2 * PopcornNs, floor})

(* Whether an offset on timescale s may lie a step away from the           *)
(* prediction, and whether it may lie near it.                             *)
MayJump(s) == absorbed # {s}
MayFit(s)  == s \in absorbed \/ (s # Wild /\ Cardinality(absorbed) > 1)

(* The two early returns: nothing but the count of rejections changes.     *)
NonPositive ==
    /\ outcome' = "NonPositiveRtt"
    /\ UNCHANGED <<rtts, accepted, suspect, absorbed>>

OutOfOrder ==
    /\ accepted > 0
    /\ outcome' = "OutOfOrder"
    /\ UNCHANGED <<rtts, accepted, suspect, absorbed>>

Popcorn(rtt) ==
    /\ IsPopcorn(rtt)
    /\ rtts' = Window(rtt)
    /\ outcome' = "Popcorn"
    /\ UNCHANGED <<accepted, suspect, absorbed>>

(* Faulty variant: the suspicion outlives an exchange that fits.           *)
StillSuspect == suspect

SuspectAfterFit == IF accepted >= Warmup THEN 0 ELSE suspect

(* Faulty variant: the count starts over with every jump.                  *)
FirstJumpAgain == TRUE

(* A jump is the first one: rejected, and remembered.                      *)
IsFirstJump == suspect + 1 < 2

Step(rtt, s) ==
    /\ ~ IsPopcorn(rtt)
    /\ accepted >= Warmup /\ MayJump(s)
    /\ IsFirstJump
    /\ rtts' = Window(rtt)
    /\ suspect' = 1
    /\ outcome' = "Step"
    /\ UNCHANGED <<accepted, absorbed>>

(* The second jump: the track starts over from this exchange.              *)
RestartTrack(rtt, s) ==
    /\ ~ IsPopcorn(rtt)
    /\ accepted >= Warmup /\ MayJump(s)
    /\ ~ IsFirstJump
    /\ rtts' = <<rtt>>
    /\ suspect' = 0
    /\ accepted' = 1
    /\ absorbed' = {s}
    /\ outcome' = "Restarted"

Accept(rtt, s) ==
    /\ ~ IsPopcorn(rtt)
    /\ accepted >= Warmup => MayFit(s)
    /\ rtts' = Window(rtt)
    /\ suspect' = SuspectAfterFit
    /\ accepted' = Min({accepted + 1, Warmup})
    /\ absorbed' = absorbed \cup {s}
    /\ outcome' = "Accepted"

observe(rtt, s) ==
    \/ Popcorn(rtt)
    \/ Step(rtt, s)
    \/ RestartTrack(rtt, s)
    \/ Accept(rtt, s)

-----------------------------------------------------------------------------
(* The exchanges a track is given.                                         *)

(* A wild offset does not follow another one without an accepted exchange  *)
(* in between; what happens otherwise is a question of its own below.      *)
GlitchedAfter(s) ==
    glitched' = IF outcome' \in {"Accepted", "Restarted"} THEN FALSE
                ELSE glitched \/ s = Wild

Undisturbed == observe(path, scale) /\ GlitchedAfter(scale) /\ UNCHANGED world
Queued      == observe(path + Queue, scale) /\ GlitchedAfter(scale) /\ UNCHANGED world

Glitch ==
    /\ ~ glitched
    /\ changes < MaxChanges
    /\ changes' = changes + 1
    /\ observe(path, Wild) /\ GlitchedAfter(Wild)
    /\ UNCHANGED <<path, scale>>

Late        == OutOfOrder /\ UNCHANGED <<world, glitched>>
Garbled     == NonPositive /\ UNCHANGED <<world, glitched>>

(* The peer's timescale moves: a restart, a clock set by hand.             *)
PeerSteps ==
    /\ changes < MaxChanges
    /\ changes' = changes + 1
    /\ scale' = scale + 1
    /\ UNCHANGED <<track, path, glitched>>

Reroute ==
    /\ changes < MaxChanges
    /\ changes' = changes + 1
    /\ path' \in Paths \ {path}
    /\ UNCHANGED <<track, scale, glitched>>

Next == Undisturbed \/ Queued \/ Glitch \/ Late \/ Garbled \/ PeerSteps \/ Reroute

(* The owner keeps exchanging timestamps, and now and then an exchange     *)
(* meets no queue and arrives in order.                                    *)
Spec     == Init /\ [][Next]_vars
FairSpec == Spec /\ WF_vars(Undisturbed)
-----------------------------------------------------------------------------
(* After the last change of path and timescale, however slow the new path: *)
(* exchanges are again and again absorbed.  A round trip enters the window *)
(* even when it is rejected, so the floor follows a path that got longer.  *)
NeverStarved == []<>(outcome \in {"Accepted", "Restarted"})

(* Eventually the track has absorbed the timescale the peer settled on:    *)
(* a step is recognised however the path changed with it.                  *)
FollowsPeer == <>[](scale \in absorbed)

(* A track that is settled on its peer's timescale never leaves it for a   *)
(* wild offset, not even for a second one, as long as an exchange was      *)
(* absorbed in between.  (It may, when the peer has just moved: the second *)
(* jump need not agree with the first.)                                    *)
GlitchNeverTracked ==
    [][accepted >= Warmup /\ absorbed = {scale} => absorbed' = absorbed]_vars

(* TrackConfig.step_ns on steps: "One is rejected; a second in a row       *)
(* starts the track afresh."                                               *)
RestartsInARow ==
    [][outcome' = "Restarted" => outcome = "Step"]_track

=============================================================================
