# RTFSN: models, checks and proofs

This directory specifies the Relational Time-Frequency Synthesis Network in
TLA+. The modules are translated from the Rust sources under `crates/`; TLC
checks them on small instances and TLAPS proves the central properties for all
instances. `PROJECT.json` lists the components, the runs, a mutant for every
checked property, the source lines behind every definition, the disagreements
found, the hazards, and the theorems.

## 1. The system

**Daemon** (`rtfsn-daemon/src/main.rs`). Two tasks share one `NodeState` behind
a mutex. The *epoch loop* announces itself to the bootstrap addresses once and
then repeats: copy the peer map; for each peer note `t1` in `pending_t1`, send a
`TimeRequest` and a `PeerAnnounce`; sleep; under one lock solve, record layer 0,
build the beacon; send the beacon to the peers known now; sleep; under one lock
aggregate the epoch's beacons, emit a tick, drop what is still pending. The
*receive loop* handles one datagram at a time: announcements (learn the sender,
announce back), requests (learn the sender, answer), responses (accepted only
when they match the pending entry in peer, `t1` and epoch) and beacons.
State: `peers`, `pending_t1`, `twist_lut`, `raw_exchanges`, the four layer
stores, the last solution. Hard: the two tasks interleave at every unlock and
every `await`; UDP loses, duplicates and reorders; a supervisor restarts the
daemon (`Restart=always`) under a fresh id at the same address.
Correct when: no answer is counted twice or for the wrong request, layer 0, the
beacon and the tick of an epoch agree, and restarted peers find each other again.

**Layers and valves** (`rtfsn-core/src/layers`). Layer 0 holds the exchanges of
each epoch, layer 1 the beacons (one per blinded id and epoch), layer 2 the
clusters, layer 3 the hash chain of ticks; a valve moves data one layer up.
Correct when: ticks are strictly monotone under any wall clock, every chain that
was built verifies, none that was altered does.

**Peer tracks** (`sync/relational.rs`, `PeerTrack`). A windowed round-trip floor,
a Kalman state and a count of suspected steps per peer. Exchanges are absorbed or
rejected (non-positive round trip, out of order, popcorn, step). Correct when: a
track keeps absorbing after any change of path, follows a peer whose timescale
moved, and does not follow a single wild offset.

**Twist table and solver** (`holonomy`). Pairwise offsets stored along an ordered
edge key; an iteration with damping finds node offsets that agree with them.
Correct when: exact measurements close every loop, the iteration converges, and
what it converges to are the clocks' offsets.

**Relational clock** (`sync/relational.rs`, `RelationalClock`). Tracks of several
peers, edges heard from others, and UTC references ("anchors") that nodes measure,
hand on with their age, and forget. From the edges it solves the *network frame*
(component of the reference, cycles and their defects), from the anchors the
absolute one, after setting aside falsetickers and outliers. Hard: gossip arrives
late, twice and out of order, and a copy ages only while somebody holds it.
Correct when: a copy never looks fresher than the last measurement, a reference
nobody measures disappears everywhere, an error in one edge shows in some cycle,
and one wrong anchor does not spoil the time.

**Geoid** (`geoid`, `layers/valve.rs`). The beacons of an epoch are gathered into
regions, regions into coarser ones; the regions' residuals come back down as hints
where to measure. Correct when: no beacon is lost or counted twice on the way up,
and both ways down grade a residual alike.

**Epoch manager** (`epoch.rs`). Three phases, ended by timeout or quorum. Hard: the
caller's clock may be set back, and beacons are not checked for their epoch.
Correct when: epochs go on for ever and end only for a cause.

**DHT** (`dht`). K-buckets and a bounded store with expiry. Correct when: the near
neighbourhood is never lost from the table, a lookup returns the nearest nodes
known, and the store stays within its bound.

**Algorithms.** `sync/ntp.rs` (eras of a timestamp, checks of a reply),
`sync/outlier.rs` (Marzullo), `holonomy/samr.rs` (prime channels and CRT),
`holonomy/temporal_mirror.rs` (the time at an epoch boundary), the history and
profile of an edge (`holonomy/twist.rs`), `sync/{clock,kalman,geometry}.rs`
(estimators).

**The rest.** `crypto`, `rtfsn-net` (UDP transport, messages), `rtfsn-wasm`,
`rtfsn-sim`, the query tool.

They interact by calls, except for daemons among each other, which interact by
datagrams only, and the two tasks of a daemon, which interact through the mutex.

## 2. Modules

| Module | Models | State and actions |
|---|---|---|
| `Daemon` | the daemons of a network | per host: `pc`, `epoch`, `todo` (rest of the peer copy), `peers`, `pending`, `lut`, `raw`, `l0`..`l2`, `stream`; globally `net`. Actions `Bootstrap`, `BeginEpoch`, `SendRequest`, `Solve`, `Publish`, `Tick` (epoch loop), `Recv...` (one per arm of `handle_message` that changes state), `Restart` |
| `Discovery` | how daemons come to know each other; abstract specification of `Daemon` | `peers`, `booted`, `intros`; `Bootstrap`, `Contact`, `Handle`, `Lose`, `Restart` |
| `ClockStream` | layer 3 | `ticks`; `emit` with any wall clock reading; `verify_all` |
| `SurfaceClock` | what layer 3 promises; abstract specification of `ClockStream` | `number`, `time`; `Advance` |
| `PeerTrack` | `PeerTrack::observe` and a world of paths, queues, steps and wild offsets | `rtts`, `accepted`, `suspect`, `absorbed`, `outcome` |
| `Holonomy` | `TwistLUT`, `HolonomySolver`, and the daemon's use of them | `table`, `lut`, `offset`, `iteration`, `defect`, `phase` |
| `AnchorGossip` | the anchors of several `RelationalClock`s | per node `tracked`, `anchors` (with ages), `since`; `net`, `up`, `quiet`; `observe_reference`, `gossip_anchors`, `hear_anchor`, `expire_anchors`, `forget`, `ServerStops`, `Tick` |
| `Frame` | `hear`, `expire`, `forget`, and the graph part of `solve_frame` | `tracked`, `heardEdges`, `faultyEdge` |
| `Selection` | the two loops of `solve_absolute` | `claimed`, `error`, `chosen`, `falsetickers`, `outliers` |
| `EpochManager` | `epoch.rs` | `phase`, `epoch`, `received`, `elapsed`; `try_advance`, `record_beacon`, `TimePasses`, `ClockSetBack` |
| `Routing`, `Storage` | `dht` | `buckets`; `insert`, `remove`, and `find_closest`. `store`; `put`, `remove_key`, `expire` |
| `TwistHistory` | the history of an edge in a relational clock and in a daemon, `trim`, `profile` | `entries`, `inserts` |
| `Geoid` | beacons to regions to hints, clusters of layer 2 | `l1`, `geoid`, `clusters`; `InsertBeacon`, `RunGeoid` |
| `Marzullo`, `Ntp`, `Samr`, `TemporalMirror` | the algorithms | their inputs; `TemporalMirror` also its loop |
| `Exchange` | an exchange, its twist, the daemon's synthetic `TimeExchange`, `add_exchange` | `raw`, `twist`, `synthetic`, `samples` |
| `MCLibrary` | composes the parts of `rtfsn-core` that share no state (`ClockStream`, and all from `Frame` to `TemporalMirror`): each behaviour runs one of them | `part` |
| `DaemonProofs`, `DiscoveryProofs`, `ClockStreamProofs`, `AnchorGossipProofs`, `PeerTrackProofs`, `HolonomyProofs` | theorems about the module of that name; `DaemonProofs` also the refinement of `Discovery` | |
| `LibraryProofs` | theorems about `EpochManager`, `Storage`, `Ntp`, `TwistHistory`, `Samr`, `TemporalMirror`, `Routing`, `Marzullo` and `Geoid` | |
| `Sorting` | `sort_by`: the members of a set in a strict order without ties; `filter` and `retain`: the elements at some places, in their order; used by `Routing`, `Marzullo` and `Geoid` | |
| `SumProofs` | lemmas about induction, sums over finite sets and sorting, for the last two proof modules | |
| `MC...` | instances for TLC | |

*Abstractions.* A critical section of the mutex is one action, with the sends
around it: a send reads nothing shared, so it may be moved to that section. A
node id is (host, number of the start), since every start generates a key pair.
`net` in `Daemon` keeps every datagram ever sent: handling one twice is
duplication, not handling it is loss. Timestamps other than `t1` decide nothing
in the daemon's control. `clock` is strictly increasing, also across a restart:
two nanosecond readings of one host differ, which excludes a wall clock set back
onto an earlier `t1`. Blinded identities and hashes are ideal. `Ping`, `Pong` and
`Stats...` change no state and are left out, as are Kalman, geometry and
circulation state, which feed nothing back into the control. In `PeerTrack` an
offset is the timescale it shows; the filter is the set of timescales it has
absorbed, and where it has absorbed several, its prediction may look near or far.
In `Holonomy` measurements are exact, with the quality 90 the daemon gives them.
`AnchorGossip` keeps ages where the code keeps instants, so that only differences
of readings of one clock occur, and nodes' clocks need not agree. `Frame` has
clocks without drift and at most one wrong edge: what it shows is the walk around
the cycles, not the least squares. `Selection` takes the edges between clocks as
exact, so that the frame is one weighted mean; spreads are compared after
multiplying out, so nothing is rounded. `Geoid` lives on a line: the code uses
nothing of the six dimensions but distances and means. `Samr` names the
classifications by their outcomes. Ids in `Routing` and the numbers of the NTP
format in `Ntp` are short; eras, fractions and rounding are as in the code.

The definitions marked "Faulty variant" are what the mutants of `PROJECT.json`
put in the place of the definition that follows.

## 3. Runs

| Run | Checks | Size |
|---|---|---|
| `daemon_epochs` | `TypeOK`, `MeasuredRecently`, `BeaconMatchesLayer0`, `TickPerEpoch`: layer 0 has one entry per epoch with exchanges of this epoch or the one before, beacons say what layer 0 says, each epoch ends with one tick | 2 daemons with 1 and 3 epochs; 85k states |
| `daemon_restart` | `AcceptedOnce`, `AnswersOwnRequest`, `PendingIsCurrent`, and `ImplementsDiscovery` (refinement) | 2 daemons, 2 epochs, 1 restart anywhere; 90k states |
| `discovery` | `LinksFollowBootstrap`; `Converges`: a link known on one side is eventually known on both under the current ids | star of 3 daemons, 1 restart; 104k states |
| `peer_track` | `NeverStarved`, `FollowsPeer`, `GlitchNeverTracked` | 2 paths, 3 changes; 16k states |
| `holonomy` | `ExactLoopsClose`, `ConvergedAgrees`, `Converges`, `NoFalseAlarm` (no node of a converged solution is called defective) | 3 clocks, 3 possible offsets, every set of measured edges, closed paths of three and four legs |
| `anchor_gossip` | `NeverLooksFresh`: an anchor says how long its server was not measured, up to transit times; `HearsayImproves`; `StoppedForgotten`: a stopped server disappears everywhere for good | 2 nodes, 1 server, datagrams delivered up to twice; 223k states |
| `library` | for each part what it promises: `TypeOK`, `StreamVerifies`, `StrictlyMonotone`, `TamperEvident` and `ImplementsSurfaceClock` (refinement) (`ClockStream`), `CyclesExposeErrors` (`Frame`), `OneLiarHarmless` (`Selection`), `AdvancesForCause` and `ManagerAdvances` (`EpochManager`), `KnowsNeighbours` (`Routing`), `StorageBounded`, `KeepsNewest` (`TwistHistory`), `EveryBeaconCountsOnce` and `HintsAgree` (`Geoid`), `FindsMajority` (`Marzullo`), `EraResolved` (`Ntp`), `DecodesAllChannels` (`Samr`), `MirrorsMeet` (`TemporalMirror`) | 231k states, 11k of them of `ClockStream`: 4 ticks, 5 readings that repeat, go back and jump |
| `synthetic_exchange` | violation of `SyntheticSameOffsetAndRtt` | finding below |
| `daemon_distinct_peers` | violation of `DistinctPeers` | finding below |
| `track_in_a_row` | violation of `RestartsInARow` | finding below |
| `daemon_solver_sign` | violation of `SolverEdgesMeanWhatTheySay` | finding below |
| `marzullo_tightest` | violation of `TightestMajority` | finding below |

*Bounds.* `Epochs`: three epochs are needed for an exchange to be recorded in the
epoch after its own and for a third to show that it goes no further; two suffice
with a restart, where old answers meet a young daemon. Two daemons suffice
because a daemon's state changes only by its own steps and by datagrams, and no
datagram carries anything of a third one (`LinksFollowBootstrap`, on three
hosts, is about exactly that). The epochs of the first daemon are kept low: it
answers and announces in any case. `MaxRestarts`: one restart already leaves
datagrams of both lives in the network. `MaxTicks`, `Times`: every pattern of
three consecutive readings occurs. `PeerTrack`: `Warmup` 2 and `FloorWindow` 3
are the smallest values with a settled track and a window that moves; on the
longer of the two paths a queue is no longer told from the path. `Holonomy`: 30
iterations are more than any of the instances needs; a path of four legs
(`MaxLoop`) is the first that can pass through a node twice.

`AnchorGossip`: two nodes already echo an anchor to each other; `MaxAge` 2 and
`Window` 1 are the smallest values at which expiry and the ten-second rule both
act. An owner gossips at most every `Period`, and `ShortTransit` says that transit
is short against it; without that, nodes could pass an anchor around faster than
it ages. `QuietCap` only has to exceed every age a copy can have (`QuietCounts`).
`Frame`: five nodes, ten hearable edges: cycles of three to five nodes, bridges,
pairs measured from both ends. `Selection`: four anchors, so that one may be set
aside in either loop, with lies on both sides of the two limits. `EpochManager`:
epochs are counted modulo three, so liveness is checked on endless behaviours; two
clock set-backs hit any two phases. `Routing`: three bits and buckets of two, so
that the far bucket overflows and the near ones cannot; lookups of one and two
nodes (`MaxCount`) end within a bucket and across two. `TwistHistory`: six
exchanges pass two trims. `Geoid`: three beacons of two epochs, in any order and also late, and three levels;
regions of two and three beacons with offsets of 0, 2002 and 200002 us have residuals
in each of the five grades, but on no limit of a grade: at the limits `HintsAgree`
compares the two gradings directly. `Marzullo`: up to five intervals over five
points. `Ntp`: several eras of eight seconds. `Samr`: the four primes of the code,
and defects of 0, 1 and `Unknown` (u64::MAX, which an unbounded uncertainty saturates to).
`TemporalMirror`: two nodes, differences up to 200 with a tolerance of 4, so
small that truncation matters, and sums within the i64 of a `U64` of 1024.

*Fairness.* `Discovery`: the epoch loop blocks on nothing but timers, so a daemon
boots and contacts every known address again and again (weak fairness of
`Bootstrap` and `ContactHost`); a datagram that a running daemon sends for ever
to another gets through at some time (strong fairness of `HandleFrom`, per pair
and not per message type: a fair-lossy link). Restarts are bounded, nothing is
assumed about them. `PeerTrack`: exchanges go on, and one that meets no queue
occurs again and again (weak fairness of `Undisturbed`). `Holonomy`: `solve` is a
loop, it runs to its end. `AnchorGossip`: every owner calls `expire_anchors` again
and again (weak fairness), and time passes (strong fairness of `Tick`, which the
model stops only until over-age anchors are expired). `MCLibrary`: the owner of an
epoch manager polls `try_advance`, and its clock runs; set-backs are bounded.

*Deadlock* is not checked where the model may really stop: `Discovery` (nobody
knows anybody and no datagram is left), `Holonomy` (the solver has finished),
`MCLibrary` and `Marzullo` (an algorithm has finished or its bounded input is used up). The daemons never stop.

## 4. Findings

1. **The daemon negates offsets twice** (`daemon_solver_sign`).
   `solve_and_advance` re-inserts twists that are already oriented along the edge
   key as if they were fresh measurements, so a daemon whose id is the larger one
   gives the solver the negated offset.
2. **One peer can count twice** (`daemon_distinct_peers`). A response that comes
   between the solve and the tick of its epoch is recorded with the next epoch's,
   and `peer_count` counts exchanges, not peers; `PeerCountProof` speaks of
   distinct peers.
3. **The synthetic exchange is not the measured one** (`synthetic_exchange`). The
   daemon adds an offset in nanoseconds to a round trip in seconds, and only to
   `t2`: the recorded exchange has half the offset and the offset added to its
   delay, both 10^9 times too large; with a peer that is behind, the delay is
   negative and `ClockState` drops every sample.
4. **"In a row" spans rejections** (`track_in_a_row`). Two jumps restart a track
   although other rejected exchanges, any number of them, lie between.
5. **Marzullo's interval is the first, not the tightest** (`marzullo_tightest`).
   `outlier.rs:5` promises "the tightest interval consistent with a majority"; the sweep
   returns, of the intersections of the most sources, the first. Of [0,1], [0,2] and
   [2,2] it returns [0,1], although [2,2] has as many votes and no width.
   `FindsMajority` therefore only says that the result is one of these intersections,
   and that there is one exactly when there is a majority.

Observed while modelling, without a run of its own:

- `--quorum` ("Min peers for epoch advance", `main.rs:73`) is only printed; a daemon
  without any peer advances and emits ticks. `has_consensus` of layer 2 can never
  be true, since no agreement proof is ever made.
- `coarsen.rs:94` speaks of the nearest accumulator within the threshold; the code
  takes the first. Two regions of a level can share a centroid, and then an id: with
  a threshold of 2, beacons at 0, 2, 1, 2, 2, 3, 3, 3 make two regions centred at 2.
  Looking up either id then finds the first, so the children of a merged region
  can be told apart by their ids only where no two agree (`Inherits`).
- A beacon that comes in after its epoch was run is stored and counts nowhere.
- The relational clock's twists all carry epoch 0, so their profile shows no trend.
- `expire_anchors` and `gossip_anchors` are independent: with transit times as long
  as the gossip period an anchor could circulate for ever (`ShortTransit`).
- The solver applies its last move after it has measured the defect it reports, so
  the offsets it returns may be further off than the tolerance: on a tree of six
  nodes, two hubs with two leaves each, an edge can be off by 1.2 tolerances right
  after convergence, and on a tree of nine a node's mean error can exceed the
  tolerance, so `detect_defective_nodes` called with it would accuse a good node.
  `ConvergedAgrees` and `NoFalseAlarm` therefore allow for that move (`Leftover`);
  the simulator's threshold is at least ten tolerances (`rtfsn-sim/src/main.rs:397`).
- An NTP reply stamped in the instant of an era's rollover is rejected as unset.
- A store with capacity zero holds one value; a full store evicts a live value
  while expired ones remain until `expire` is called.
- A channel of the SAMR state whose offset was classified with an uncertainty of
  u64::MAX looks as if it had never been classified (`samr.rs:104,117`): it ties with
  the reachability and the tier channel, wins the tie (`max_by_key` takes the last), and
  as long as its uncertainty stays unbounded those two are not asked for.
- The means of the temporal mirror sum i64 nanoseconds (`temporal_mirror.rs:43-44`): with
  times since 1970 the sum of six nodes overflows. `NoOverflowAssumption` excludes it.
- A clock set back makes the running phase of an epoch manager end at once.

## 5. Proofs

`DaemonProofs`, for every set of hosts, bootstrap graph without loops to oneself,
number of epochs and restarts (`HostAssumption`, `NoSelfBootstrap`,
`BoundAssumption`):

- `TypeCorrect`: `Spec => []TypeOK`, one step per action.
- `ResponsesAcceptedOnce`, `OnlyOwnRequestsAnswered`, `PendingStaysCurrent`: the
  three invariants of `daemon_restart`, from one inductive invariant `IndInv`.
  `AcceptedOnce` is not inductive: that a new request is unlike all accepted ones
  rests on `t1` lying beyond every earlier `t1`, and on a peer still on the list
  having neither a pending request nor an accepted exchange of this epoch;
  that an accepted answer is unlike them rests on pending requests being unlike
  them. `PeersInv`, `PendingInv`, `AcceptedInv` and `OnceInv` say this of one
  host, `NetInv` that nobody is sent its own messages. `FrameInv` covers the
  steps of other hosts, which leave a host's state alone and only add datagrams.
- `RecordsRecent`, `BeaconsTrue`, `OneTickPerEpoch`: the invariants of
  `daemon_epochs`, from `EpochInv`, on top of `IndInv`. `RecordInv` ties the length of layer 0 to
  `epoch` and `pc` and puts every accepted exchange into the batch of its own epoch
  or the next; it needs `PendingIsCurrent`, as an answer is filed under the epoch
  of its request. `TickedInv` adds that a solved epoch has a beacon in the store,
  without which `run_geoid_and_emit_tick` would return before the tick.
  `BeaconMatchesLayer0` speaks of running daemons only and a restart changes who
  that is, so `BeaconInv` adds that whoever signed a beacon has been started: no
  beacon can be waiting for the id a restart makes.
- `DaemonDiscovers`: the refinement of `Discovery`. Every step of either task maps
  to `Bootstrap`, `Contact`, `Handle` or `Restart` or to a stutter.

`DiscoveryProofs` (`DiscoveryAssumption`): `DiscoveryTypeCorrect` and
`KnownAreLinked`. `LinkInv` extends the claim to introductions on their way; it is
inductive because a daemon introduces only itself.

`ClockStreamProofs`, for every set of readings that keeps `MaxTicks` clear of the
largest u64 (`ClockStreamAssumption`, `FarFromOverflow`): `StreamTypeCorrect`,
`TimeStrictlyMonotone`, `StreamAlwaysVerifies`, `AlterationsFound`, and
`IsSurfaceClock`, the refinement of `SurfaceClock`. `RoomLeft` strengthens the
invariant so that the increment in `emit` provably does not wrap.

`AnchorGossipProofs`, for any finite set of nodes, any servers, any delays and
copies (`AnchorGossipAssumption`, `ShortTransit`): `GossipTypeCorrect`,
`GossipImproves` and `GossipNeverLooksFresh`. The last needs an amortised argument.
What a copy's age lags behind `quiet` was spent in transit, at most `MaxDelay` per
hop, and a node makes at most one hop per `Period`. `Owed` is the set of pairs of a
node and a unit of its current `Period` that is not yet over: a gossip puts a whole
`Period` of its sender into it, a tick takes at most one pair per node out. `AgeInv`
bounds the lag of held copies by `Slack = MaxDelay * (N * quiet + |Owed|)`, that of
copies in transit by the same with what is left of their own delay, and says that
the sender of a copy in transit gossiped no longer ago than the copy has flown.
`NeverLooksFresh` follows since `Owed` has at most `N * Period` members.

`PeerTrackProofs` (`PeerTrackAssumption`): `TrackTypeCorrect` and `GlitchHarmless`. A
settled track leaves its timescale only at a second suspected step, so `SuspectInv`
says that a track in its warm-up suspects nothing, and that what a track settled on
its peer's timescale suspects is a wild offset, after which the world of the model
lets an undisturbed exchange pass.

`SumProofs` holds the lemmas the rest needs about data of any size. Induction is
stated of a set (of numbers, or of the subsets of a finite set): a set that contains
the first and with each the next contains all. From it follow that the library's sum
over a finite set does not depend on the order in which the set is taken apart, that
it is bounded by the bounds of its terms, that a sum over a set is the sum of the sums
over its parts (`SumOfParts`), and Chebyshev's inequality. Of sorting it says that a
sorted list has each element once, at its rank (`ArrangedMeaning`).

`HolonomyProofs` (`HolonomyAssumption`), for any finite set of nodes, any real
offsets and any set of measured edges:

- `LoopsClose`, for closed paths of any length. `TableExact` says that an entry is the
  difference of the two clocks along the key, whoever measured; the legs of a path
  then telescope.
- `SolvedOffsetsAgree` and `NoNodeAccused`: what `solve` leaves behind when it reports
  convergence. `SolverExact` adds to `TableExact` that the solver works on the table
  and that every edge error after convergence is within `Leftover`. It is inductive
  because a step that converges has measured every error within the tolerance, so
  that the damped mean moves either end by at most `LastMove`.

`LibraryProofs`, each theorem about the specification of one part alone
(`EpochSpec`, `StorageSpec`, ...), which `MCLibrary` runs side by side:

- `EpochsEndForCause` (`EpochManagerAssumption`). `CauseInv`: the received beacons are
  those reported since the epoch began, and past the measure phase `measured` is
  beyond the timeout.
- `StoreStaysBounded` (`StorageAssumption`). The work is in showing that a full store
  has an oldest value, so that `put` really evicts one.
- `EraAlwaysResolved` (`NtpAssumption`), for any number of seconds to an era and
  nanoseconds to a second. The proof needs at least two fractions to a nanosecond;
  with fewer, rounding to fractions and back can lose one. The format has 2^32
  fractions to 10^9 nanoseconds, more than four.
- `HistoryKept` (`KeepsNewest`), for any history length, trimming interval and sequence
  of round trips. `HistoryInv` says that the entries are the newest of all that were
  inserted, in order and no more than the bound. What `profile` makes of them is
  proved from their order alone: the median is reached by at least half of the
  entries, and the trend has the sign of a growing or shrinking round trip
  (Chebyshev's inequality).
- `ChannelsDecoded` (`DecodesAllChannels`): the inverses the code computes are inverses,
  the number reconstructed has the remainders of all channels, and it is the only one
  below the product of the primes. A channel never classified is refined before one that
  was, for any defects below u64::MAX; `SamrInv` says that only the offset's channel can
  reach that one.
- `MirrorsAlwaysMeet` (`MirrorsMeet`). In each round the two sides stay between their
  means, their sum moves by at most a nanosecond (truncation), and the distance beyond
  two nanoseconds at least halves (`Halving`); after `i` rounds it is therefore less
  than what it was divided by `2^i`. `RoundsAssumption` says that nodes' reports differ
  by no more than `Reach`: 35 years, for the 50 rounds and 1000 ns of the code.
  `NoOverflowAssumption` says that the sums fit i64, as the model's integers do not wrap.
- `NeighboursKnown` (`KnowsNeighbours`), for ids of any number of bits and buckets of any
  size. `RoutingInv` says of each bucket that its nodes are of the bucket's distance,
  that they are among the nodes inserted, each once and in the order they were last
  seen, and that an inserted node is missing only where the bucket's distance has more
  ids than it has places. That there are at most `2^i` ids in bucket `i` is shown by
  counting the subsets of its low bits. A full bucket refuses a node, so the node is
  missing; that this does not happen near the own id follows by counting: the
  members and the refused node would be more ids than there are. `find_closest` sorts;
  that a list sorted by distance has each slot once is `ArrangedMeaning`, and that
  distances from one target never tie is `XorInjective`.
- `MajorityFound` (`FindsMajority`), for any number of sources and any intervals. Along the
  sorted events the counter is the number of intervals that have started and not ended
  (`Open`). Those open at an event all agree on its time (`OpenAgree`), and all that agree
  on an instant are open after some event up to it (`OpenReaches`), since starts come
  before ends. So at the first event with the most open a group of the most sources that agree
  begins, the event after it is an end (`Peak`), and the two bound what the group has in
  common (`PeakInstants`). `Good` is the invariant of the loop: nothing is found before
  the peak, afterwards the interval from there to that end is.
- `BeaconsCountOnce` (`EveryBeaconCountsOnce`) and `HintsAlwaysAgree` (`HintsAgree`),
  under `GeoidAssumption`, for any beacons, resolution, scale, levels and grid. `GeoidInv`
  says that the geoid and the clusters of its epoch are made from the same beacons, that
  these are still stored, and that no cluster is of an epoch still to be run (so that a
  run adds to no old cluster). A beacon enters one accumulator (`AccumCounts`). A layer's
  groups divide the regions below, whatever the greedy search takes as leader
  (`GroupsDivide`), so sums and children over the layer are those of the layer below
  (`LayerMerges`, from `SumOfParts`); clusters divide the beacons by grid cell. The
  recursive definitions of the accumulators and the layers are shown to have a value
  by induction (`AccumExists`, `HierarchyExists`). For the hints: every layer has a
  region, so a place has a nearest one (`NearestExists`, by comparing fractions), which
  its id finds; the two gradings agree on every residual (`GradesAgree`); a hint and a
  refinement target of one region are the same record; and sorting keeps the bounds.

*Only model-checked.*

- Everything about liveness (`Converges` of both modules, `NeverStarved`,
  `FollowsPeer`, `StoppedForgotten`, `ManagerAdvances`): out of the prover's reach.
- `CyclesExposeErrors` (`Frame`) rests on what a search through a graph returns for a
  graph of any size. The library's operators for it are opaque to the provers.
- `OneLiarHarmless` (`Selection`) is a statement about its instance: with two anchors, or
  with many honest ones that err together, one liar can do harm.

## 6. Not modelled, and the plan

Not modelled, because TLC has no reals and there is no control in it: the Kalman
filter, Vivaldi coordinates, the regression of `ClockState`,
`reject_geometric_outliers`, `spd_solve` and the least squares of `solve_frame`,
the six-dimensional embedding. Cryptography is taken as ideal. The layout of NTP
packets and of messages, the query tool, the WebAssembly bindings and the
simulators have no state of their own. `step_spatial_expansion` is called by no
program. The solver over several epochs (seeded with the last offset) would
multiply the states of `Holonomy` beyond a run.

Worth proving next: of `Frame`, that exact measurements close every cycle, as in
`LoopsClose`.
